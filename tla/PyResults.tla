------------------------------ MODULE PyResults ------------------------------
(***************************************************************************)
(* What Python is given of a run, while it goes on and at its end, and     *)
(* what becomes of it when it is pickled or given to tomorun() again.      *)
(* The parameters that a walk has besides its numbers of sweeps are any    *)
(* object in Python: None, a dict, or the step size by itself.             *)
(* A faulty twin of an operator stands just before it, as in ThreadCommon. *)
(***************************************************************************)
EXTENDS StatusReports

PyNone == [kind |-> "None"]
PyDict(entries) == [kind |-> "dict", entries |-> entries]
PyFloat(x) == [kind |-> "float", value |-> x]

\* a step size of zero leaves the choice to the walker
FromPyObj(o) ==
  [step_size |-> CASE o.kind = "None" -> Zero
                   [] o.kind = "dict" /\ "step_size" \in DOMAIN o.entries ->
                        o.entries["step_size"]
                   [] o.kind = "dict" -> Zero
                   [] o.kind = "float" -> o.value]

MakeDict(mhwalker_params) == PyDict([step_size |-> mhwalker_params.step_size])

-----------------------------------------------------------------------------
\* Constructors, by the order of their arguments

HistogramParams(min, max, num_bins) == [min |-> min, max |-> max, num_bins |-> num_bins]

MHRWParams(mhwalker_params, n_sweep, n_therm, n_run) ==
  [mhwalker_params |-> mhwalker_params,
   n_sweep |-> n_sweep, n_therm |-> n_therm, n_run |-> n_run]

BinningResult(histogram, error_levels, converged_status) ==
  [histogram |-> histogram, error_levels |-> error_levels,
   converged_status |-> converged_status]

ConvergenceCounts(n_bins, n_converged, n_unknown, n_unknown_isolated, n_not_converged) ==
  [n_bins |-> n_bins, n_converged |-> n_converged, n_unknown |-> n_unknown,
   n_unknown_isolated |-> n_unknown_isolated, n_not_converged |-> n_not_converged]

PyTaskResult(stats_results, mhrw_params, acceptance_ratio) ==
  [stats_results |-> stats_results, mhrw_params |-> mhrw_params,
   acceptance_ratio |-> acceptance_ratio]

\* The one that a Python program calls, with four arguments, or with keywords
\* (a record), of which those it does not know are kept for the walker, or with
\* none at all.
CxxError == "TomographerCxxError"

PyMHRWParams(args, kwargs) ==
  LET numbers == {"n_sweep", "n_therm", "n_run"}
      given == [key \in numbers |-> IF key \in DOMAIN kwargs THEN kwargs[key] ELSE 0]
      for_walker == [key \in DOMAIN kwargs \ numbers |-> kwargs[key]]
  IN  IF args = <<>>
      THEN MHRWParams(PyDict(for_walker), given["n_sweep"], given["n_therm"], given["n_run"])
      ELSE IF Len(args) # 4 \/ DOMAIN kwargs # {} THEN CxxError
      ELSE MHRWParams(args[1], args[2], args[3], args[4])

-----------------------------------------------------------------------------
\* Pickling: the tuple that __getstate__() makes of an object is what the
\* constructor is called with.

PickledConvergence(summary) ==
  LET state == <<summary.n_bins, summary.n_converged, summary.n_unknown,
                 summary.n_unknown_isolated, summary.n_not_converged>>
  IN  ConvergenceCounts(state[1], state[2], state[3], state[4], state[5])

PickledHistogramParams(params) ==
  LET state == <<params.min, params.max, params.num_bins>>
  IN  HistogramParams(state[1], state[2], state[3])

PickledParams(params) ==
  LET state == <<params.mhwalker_params, params.n_sweep, params.n_therm, params.n_run>>
  IN  MHRWParams(state[1], state[2], state[3], state[4])

PickledBinningResult(result) ==
  LET state == <<[result.histogram EXCEPT !.params = PickledHistogramParams(@)],
                 result.error_levels, result.converged_status>>
  IN  BinningResult(state[1], state[2], state[3])

PickledTaskResult(result) ==
  LET state == <<PickledBinningResult(result.stats_results),
                 PickledParams(result.mhrw_params), result.acceptance_ratio>>
  IN  PyTaskResult(state[1], state[2], state[3])

-----------------------------------------------------------------------------
\* the parameters that tomorun() takes from the object it is given
TomorunParams(params) ==
  MHRWParams(FromPyObj(params.mhwalker_params),
             params.n_sweep, params.n_therm, params.n_run)

\* What tomorun() returns of task results and their aggregate, and what the
\* progress callback is called with

PyRunResult(result) ==
  PyTaskResult(BinningResult(result.stats_results.histogram,
                             result.stats_results.error_levels,
                             result.stats_results.converged_status),
               MHRWParams(MakeDict(result.mhrw_params.mhwalker_params),
                          result.mhrw_params.n_sweep, result.mhrw_params.n_therm,
                          result.mhrw_params.n_run),
               result.acceptance_ratio)

PyTomorunResult(aggregated, results) ==
  [final_histogram |-> aggregated.final_histogram,
   simple_final_histogram |-> aggregated.simple_final_histogram,
   runs_results |-> [t \in DOMAIN results |-> PyRunResult(results[t])]]

\* preparePyTaskStatusReport() and addDataFields(); workers count from 0
PyWorkerReport(worker_id, report) ==
  [worker_id |-> worker_id, fraction_done |-> report.fraction_done, msg |-> report.msg,
   data |-> [mhrw_params |-> MHRWParams(MakeDict(report.mhrw_params.mhwalker_params),
                                        report.mhrw_params.n_sweep,
                                        report.mhrw_params.n_therm,
                                        report.mhrw_params.n_run),
             has_acceptance_ratio |-> report.has_acceptance_ratio,
             kstep |-> report.kstep, n_total_iters |-> report.n_total_iters]]

PyFullStatusReport(full) ==
  [num_completed |-> full.num_completed, num_total_runs |-> full.num_total_runs,
   total_fraction_done |-> TotalFractionDone(full), human_report |-> HumanReport(full),
   workers |-> [k \in DOMAIN full.workers_reports |->
                  IF full.workers_running[k]
                  THEN PyWorkerReport(k - 1, full.workers_reports[k])
                  ELSE PyNone]]

=============================================================================
