---------------------------- MODULE StatusReports ----------------------------
(***************************************************************************)
(* What a status report says: the one of a random walk task                *)
(* (MHRWStatusReport), made while the walk runs, and the one of all tasks  *)
(* (FullStatusReport).  Messages are records of what they tell.            *)
(* A faulty twin of an operator stands just before it, as in ThreadCommon. *)
(***************************************************************************)
EXTENDS StatsCollectors

\* the parameters of a walk are a record with n_sweep, n_therm and n_run
TotalIters(params) == params.n_sweep * (params.n_therm + params.n_run)

\* iterations done, those of the thermalization included
KStepOfStage(k, is_thermalizing, params) == k

KStep(k, is_thermalizing, params) ==
  IF is_thermalizing THEN k ELSE k + params.n_sweep * params.n_therm

SweepMessage(k, is_thermalizing, params) ==
  [stage |-> IF is_thermalizing THEN "therm. sweep" ELSE "run sweep",
   sweep |-> k \div params.n_sweep,
   of |-> IF is_thermalizing THEN params.n_therm ELSE params.n_run,
   yet |-> IF is_thermalizing THEN params.n_run ELSE params.n_therm]

\* The move that is polled for has been counted, so that there is an acceptance
\* ratio at every poll of the live run.
CreateFromRandWalkStatInfo(k, is_thermalizing, params, collectors, columns) ==
  LET kreal == KStep(k, is_thermalizing, params)
  IN  [fraction_done |-> Frac(kreal, TotalIters(params)),
       kstep |-> kreal,
       n_total_iters |-> TotalIters(params),
       mhrw_params |-> params,
       has_acceptance_ratio |-> ~is_thermalizing,
       msg |-> [sweeps |-> SweepMessage(k, is_thermalizing, params),
                lines |-> StatusLines(collectors, columns)]]

-----------------------------------------------------------------------------
\* FullStatusReport: [num_completed, num_total_runs, workers_running,
\* workers_reports], the latter two sequences over the workers

TotalFractionDone(full) ==
  LET Done(k) == IF full.workers_running[k] THEN full.workers_reports[k].fraction_done
                                            ELSE Zero
  IN  Over(FoldLeftDomain(LAMBDA f, k : Plus(f, Done(k)), <<full.num_completed, 1>>,
                          full.workers_running),
           full.num_total_runs)

Idle == "idle"

\* a single worker that is idle is not mentioned
HumanReport(full) ==
  [num_completed |-> full.num_completed, num_total_runs |-> full.num_total_runs,
   fraction_done |-> TotalFractionDone(full),
   workers |->
     IF full.workers_running = <<FALSE>>
     THEN <<>>
     ELSE [k \in DOMAIN full.workers_running |->
             IF full.workers_running[k] THEN full.workers_reports[k].msg ELSE Idle]]

=============================================================================
