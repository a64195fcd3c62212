------------------------ MODULE ValueHistogramReports ------------------------
(***************************************************************************)
(* What is told of the tasks of ValueHistogramTasks: status reports on the *)
(* way, what goes through an archive if the tasks are dispatched over MPI, *)
(* and what Python gets.  A report only reads, and is given as what it     *)
(* would say in each state in which one may be asked for.                  *)
(***************************************************************************)
EXTENDS ValueHistogramTasks, PyResults, Archives

-----------------------------------------------------------------------------
\* What is sent if the tasks are dispatched over MPI: the data of all tasks at
\* the beginning, and the result of each.  The step size is not followed.

WalkParams ==
  [mhwalker_params |-> [step_size |-> One],
   n_sweep |-> case.n_sweep, n_therm |-> case.n_therm, n_run |-> case.n_run]

CData ==
  [mhrw_params |-> WalkParams, base_seed |-> 0, task_seeds |-> [t \in 1 .. case.seeds |-> t],
   valcalc |-> case.figure, histogram_params |-> case.params]
    @@ (IF case.binning THEN [binningNumLevels |-> case.levels] ELSE <<>>)

RandomWalkTaskResult(results, acceptance_ratio) ==
  [stats_results |-> results, mhrw_params |-> WalkParams,
   acceptance_ratio |-> acceptance_ratio]

\* an interrupted task has no result, a failed one an error message
FullTaskResult(task_id, task_result, error_msg) ==
  [task_id |-> task_id, task_result |-> task_result, error_msg |-> error_msg]

ReceivedCData == Received(ValueCDataType(Plain, case.binning), CData)

ReceivedResult(full_result) ==
  Received(FullTaskResultType(TaskResultType(BinningResultType)), full_result)

-----------------------------------------------------------------------------
\* Reports on the way

\* the report of the task at hand, if one is asked for at this poll
Report ==
  CreateFromRandWalkStatInfo(k, pc = "therm", WalkParams, collectors, case.columns)

\* and the one of the dispatcher, which runs one task after the other
FullReport ==
  [num_completed |-> Len(stats_results), num_total_runs |-> case.tasks,
   workers_running |-> <<TRUE>>, workers_reports |-> <<Report>>]

\* and of one with threads, if another thread has the same report left over, from
\* a task that it is done with
FullReportOfTwo ==
  [FullReport EXCEPT !.workers_running = <<FALSE, TRUE>>,
                     !.workers_reports = <<Report, Report>>]

-----------------------------------------------------------------------------
\* counts of a histogram with those off the chart
Mass(h) == Plus(FoldFunction(Plus, Zero, h.bins), h.off_chart)

\* The histograms of the tasks and their average account for all samples,
\* off-chart values included: together their bins make one.  So does what
\* normalized() makes of the raw counts, with the bins taken by their width.
NormalizedIsOne ==
  /\ \A t \in DOMAIN stats_results :
       /\ Mass(stats_results[t].histogram) = One
       /\ ~case.binning =>
            LET density == Normalized(stats_results[t].raw_histogram)
            IN  Plus(density.off_chart,
                     Times(BinResolution(case.params),
                           FoldFunction(Plus, Zero, density.bins))) = One
  /\ aggregated # None /\ case.tasks > 0 => Mass(aggregated.final_histogram) = One

\* The square of the standard error of the mean of the tasks' bins i
TasksError(i) ==
  LET tasks == case.tasks
      total == MapThenSumSet(LAMBDA t : AllHits(t, i), 1 .. tasks)
      deviation(t) == tasks * AllHits(t, i) - total
  IN  Frac(MapThenSumSet(LAMBDA t : deviation(t) ^ 2, 1 .. tasks),
           tasks ^ 3 * (tasks - 1) * case.n_run ^ 2)

\* What comes out of an archive is what went in: the data of the tasks, results
\* with a binning analysis (those without one cannot be sent), tasks that were
\* interrupted or failed, histograms of counts, and the aggregate.
ArchivesKeepAll ==
  /\ pc = "next" /\ stats_results = <<>> => ReceivedCData = CData
  /\ case.binning =>
       \A t \in DOMAIN stats_results :
         \E result \in {RandomWalkTaskResult(stats_results[t], <<1, 3>>)} :
           \A full \in {FullTaskResult(t, result, ""), FullTaskResult(t, Null, "error")} :
             ReceivedResult(full) = full
  /\ aggregated # None =>
       /\ Received(AggregatedWithErrorBarsType, aggregated) = aggregated
       /\ ~case.binning =>
            \A t \in DOMAIN stats_results :
              \E pair \in {<<stats_results[t].raw_histogram, NoResult>>} :
                Received(Tuple(<<HistogramType, NoResultType>>), pair) = pair

\* A Python program that gives the parameters of the walk in any of the ways there are
\* gets the walk it means, and also if it gives those that it finds in a result.
\* It is returned what C++ has, and a pickle keeps that.
PythonGetsAll ==
  LET step == WalkParams.mhwalker_params.step_size
      numbers == <<case.n_sweep, case.n_therm, case.n_run>>
      keywords == [step_size |-> step, n_sweep |-> case.n_sweep, n_therm |-> case.n_therm,
                   n_run |-> case.n_run]
      results == [t \in DOMAIN stats_results |->
                    RandomWalkTaskResult(stats_results[t], <<1, 3>>)]
      Gets(run, result) ==
        /\ TomorunParams(run.mhrw_params) = WalkParams
        /\ run.stats_results = result.stats_results
        /\ PickledTaskResult(run) = run
        /\ \E summary \in {ConvergenceSummary(run.stats_results.converged_status)} :
             PickledConvergence(summary) = summary
  IN  /\ pc = "next" /\ stats_results = <<>> =>
           /\ \A given \in {PyFloat(step), PyDict([step_size |-> step])} :
                TomorunParams(PyMHRWParams(<<given>> \o numbers, <<>>)) = WalkParams
           /\ TomorunParams(PyMHRWParams(<<>>, keywords)) = WalkParams
           /\ \A left_open \in {PyNone, PyDict(<<>>)} :
                TomorunParams(PyMHRWParams(<<left_open>> \o numbers, <<>>))
                  = [WalkParams EXCEPT !.mhwalker_params.step_size = Zero]
      /\ case.binning /\ aggregated # None =>
           \E python \in {PyTomorunResult(aggregated, results)} :
             /\ python.final_histogram.bins = python.simple_final_histogram.bins
             /\ \A t \in DOMAIN results : Gets(python.runs_results[t], results[t])

\* Tasks of equal length: the aggregate is the histogram of all their samples
\* taken together.  Its error bars are the spread of the tasks, or combine
\* the error bars of the tasks as those of independent runs.  What is normalised
\* adds up to one.  Over MPI, the same is aggregated: an archive loses nothing and
\* mixes nothing up (serialize() of each class, eigen_helper_load()), and Python
\* gets and gives the same (the bindings, whose arguments go by position).
AggregateIsPooled ==
  /\ NormalizedIsOne
  /\ ArchivesKeepAll
  /\ PythonGetsAll
  /\ aggregated # None /\ case.tasks > 0 =>
      \A i \in Tracked :
        /\ aggregated.final_histogram.bins[i] =
             Frac(MapThenSumSet(LAMBDA t : AllHits(t, i), 1 .. case.tasks),
                  case.tasks * case.n_run)
        /\ case.tasks > 1 =>
             aggregated.simple_final_histogram.delta[i] = TasksError(i)
        /\ case.binning /\ case.n_run >= 2 * SamplesSize(case.levels) =>
             Times(<<case.tasks ^ 2, 1>>, aggregated.final_histogram.delta[i]) =
               FoldFunction(Plus, Zero,
                 [t \in 1 .. case.tasks |-> TaskHistograms[t].delta[i]])

\* A status report counts as many sweeps as there are samples in what it shows,
\* and the share of all work that is done; its bar and verdicts are of the bins.
\* Over MPI these arrive, and not what MHRWStatusReport adds to TaskStatusReport.
\* Python is told the same of each of several workers, of which some may be idle.
StatusReportTrue ==
  Polled =>
    LET thermalized == IF pc = "therm" THEN k \div case.n_sweep ELSE case.n_therm
        human == HumanReport(FullReport)
        message == human.workers[1]
        bar == message.lines[1].bar
        python == PyFullStatusReport(FullReportOfTwo)
    IN  /\ python.total_fraction_done = human.fraction_done
        /\ python.workers[1] = PyNone /\ python.human_report.workers[1] = Idle
        /\ python.workers[2].worker_id = 1 /\ python.workers[2].msg = message
        /\ python.workers[2].fraction_done
             = Frac(python.workers[2].data.kstep, python.workers[2].data.n_total_iters)
        /\ TomorunParams(python.workers[2].data.mhrw_params) = WalkParams
        /\ message.sweeps.sweep = IF pc = "therm" THEN thermalized ELSE n
        /\ human.fraction_done =
             Frac(MapThenSumSet(LAMBDA t : Len(seen[t]), DOMAIN seen)
                    + case.n_therm * Len(stats_results) + thermalized,
                  case.tasks * (case.n_therm + case.n_run))
        /\ Received(TaskStatusReportType, Report)
             = [fraction_done |-> Report.fraction_done, msg |-> message]
        /\ AtLeast(Report.fraction_done, Zero) /\ Less(Report.fraction_done, One)
        /\ (\E c \in DOMAIN bar : bar[c]) <=> \E i \in Tracked : AllHits(Len(seen), i) > 0
        /\ case.binning =>
             LET bins == message.lines[1].error_bars
             IN  bins.n_converged + bins.n_unknown + bins.n_not_converged
                   = case.params.num_bins

\* Each row of the CSV file has the share of the samples with values from its
\* own on to the one of the next row.
CsvTrue ==
  \A i \in DOMAIN csv :
    case.tasks > 0 =>
      csv[i][2] = Frac(Cardinality({tj \in (DOMAIN seen) \X (1 .. case.n_run) :
                         LET v == seen[tj[1]][tj[2]]
                         IN  /\ v # NotFinite /\ AtLeast(<<v, 1>>, csv[i][1])
                             /\ Less(<<v, 1>>, IF i + 1 \in DOMAIN csv THEN csv[i + 1][1]
                                               ELSE <<case.params.max, 1>>)}),
                       case.tasks * case.n_run)

\* The bars of the report fit in the line, and show counts for just those
\* tasks that have some on the chart (the division of the bins into
\* characters in histogram_short_bar_fmt()).  Status reports on the way
\* (createFromRandWalkStatInfo()) and the CSV file at the end are true as well.
ReportShowsAll ==
  /\ StatusReportTrue
  /\ CsvTrue
  /\ \A t \in DOMAIN printed :
       LET bar == printed[t].bar
       IN  /\ Cardinality(DOMAIN bar) <= case.columns
           /\ (\A c \in DOMAIN bar : bar[c] = Blank)
                <=> \A i \in Tracked : AllHits(t, i) = 0

=============================================================================
