------------------------ MODULE SequentialDispatcher ------------------------
(***************************************************************************)
(* The task dispatcher without threads, namespace Sequential of            *)
(* multiproc.h: tasks run one after the other, a poll that finds a report  *)
(* due makes the task hand in its report, and the callback is called then  *)
(* and there.  Requests come from signal handlers and from the callback.   *)
(*                                                                         *)
(* A faulty twin of an operator stands just before it, as in ThreadCommon. *)
(***************************************************************************)
EXTENDS Integers, FiniteSets

CONSTANT NumTotalRuns    \* num_total_runs

ASSUME NumTotalRunsAssumption == NumTotalRuns \in Nat

Tasks == 0 .. (NumTotalRuns - 1)

VARIABLES
  task_k,
  results,                  \* tasks whose result is stored
  interrupt_requested,
  status_report_requested,
  interval_elapsed,         \* a periodic report is due
  periodic,                 \* _status_report_periodic_interval is not zero
  user_fn,                  \* a status report handler has been set
  pc,
  outcome                   \* how run() ended

flags == <<interrupt_requested, status_report_requested, interval_elapsed>>
settings == <<periodic, user_fn>>

vars == <<task_k, results, flags, settings, pc, outcome>>

Init ==
  /\ task_k = 0
  /\ results = {}
  /\ interrupt_requested = FALSE
  /\ status_report_requested = FALSE
  /\ interval_elapsed = FALSE
  /\ periodic = FALSE
  /\ user_fn = FALSE
  /\ pc = "next"
  /\ outcome = "none"

Step(from, to) == pc = from /\ pc' = to

\* getTaskInput and the constructor of the task may throw
StartTask ==
  /\ \/ task_k < NumTotalRuns /\ Step("next", "setup")
     \/ Step("setup", "task") \/ Step("setup", "failed")
  /\ UNCHANGED <<task_k, results, flags, settings, outcome>>

AllRunOffByOne == task_k >= NumTotalRuns - 1

AllRun == task_k = NumTotalRuns

EndRun ==
  /\ \/ AllRun /\ Step("next", "done") /\ outcome' = "ok"
     \/ Step("stopped", "done") /\ outcome' = "interrupted"
     \/ Step("failed", "done") /\ outcome' = "exception"
  /\ UNCHANGED <<task_k, results, flags, settings>>

InterruptLast == interrupt_requested /\ ~status_report_requested

\* the interrupt comes before any report
InterruptFirst == interrupt_requested

ReportDuePeriodically == periodic /\ interval_elapsed

ReportDue == (periodic /\ interval_elapsed) \/ status_report_requested

\* statusReportRequested(); the answer FALSE changes nothing
Poll ==
  /\ IF InterruptFirst THEN Step("task", "stopped")
     ELSE ReportDue /\ Step("task", "submit")
  /\ UNCHANGED <<task_k, results, flags, settings, outcome>>

\* submitStatusReport() up to the call of the handler, which throws if unset, ...
SubmitStatusReport ==
  /\ Step("submit", IF user_fn THEN "callback" ELSE "failed")
  /\ UNCHANGED <<task_k, results, flags, settings, outcome>>

\* ... and from its return, or its exception, on
CallbackReturns ==
  /\ \/ /\ Step("callback", "task")
        /\ status_report_requested' = FALSE
        /\ interval_elapsed' = FALSE
     \/ /\ Step("callback", "failed")
        /\ UNCHANGED <<status_report_requested, interval_elapsed>>
  /\ UNCHANGED <<task_k, results, interrupt_requested, settings, outcome>>

FinishTask ==
  /\ \/ /\ Step("task", "next")
        /\ results' = results \cup {task_k}
        /\ task_k' = task_k + 1
     \/ /\ Step("task", "failed")
        /\ UNCHANGED <<results, task_k>>
  /\ UNCHANGED <<flags, settings, outcome>>

-----------------------------------------------------------------------------
\* A signal handler or the callback

RequestStatusReport ==
  /\ outcome = "none"
  /\ status_report_requested' = TRUE
  /\ UNCHANGED <<task_k, results, interrupt_requested, interval_elapsed,
                 settings, pc, outcome>>

RequestInterrupt ==
  /\ outcome = "none"
  /\ interrupt_requested' = TRUE
  /\ UNCHANGED <<task_k, results, status_report_requested, interval_elapsed,
                 settings, pc, outcome>>

\* the handler and the interval are set before run(), or by the callback
Configure ==
  /\ outcome = "none"
  /\ pc = "callback" \/ (pc = "next" /\ task_k = 0)
  /\ user_fn' \in BOOLEAN
  /\ periodic' \in BOOLEAN
  /\ UNCHANGED <<task_k, results, flags, pc, outcome>>

IntervalElapses ==
  /\ outcome = "none"
  /\ interval_elapsed' = TRUE
  /\ UNCHANGED <<task_k, results, interrupt_requested, status_report_requested,
                 settings, pc, outcome>>

-----------------------------------------------------------------------------
Advance == StartTask \/ EndRun \/ Poll \/ SubmitStatusReport \/ CallbackReturns

Environment ==
  RequestStatusReport \/ RequestInterrupt \/ Configure \/ IntervalElapses

Terminated == outcome # "none" /\ UNCHANGED vars

Next == Advance \/ FinishTask \/ Environment \/ Terminated

Spec == Init /\ [][Next]_vars

\* run() goes on, and a task keeps polling; it need not end
FairSpec == Spec /\ WF_vars(Advance)

-----------------------------------------------------------------------------
\* The promises of the dispatcher interface: a stop that no task has noticed
\* has no effect, so that the stop begins when one does.
Contract == INSTANCE DispatcherContract WITH
  started <- {k \in Tasks : k < task_k \/ (k = task_k /\ pc # "next")},
  delivered <- results,
  stopping <- pc \in {"stopped", "failed"} \/ outcome \in {"interrupted", "exception"},
  failed <- pc = "failed" \/ outcome = "exception"

ImplementsContract == Contract!Spec

\* The inductive invariant for it: the tasks have their results in order, and only a
\* task that is left has the run stop at it.
InOrder ==
  /\ task_k \in 0 .. NumTotalRuns
  /\ results = 0 .. task_k - 1
  /\ pc \in {"next", "setup", "task", "submit", "callback", "stopped", "failed", "done"}
  /\ outcome \in {"none", "ok", "interrupted", "exception"}
  /\ pc = "done" <=> outcome # "none"
  /\ pc \notin {"next", "done"} => task_k < NumTotalRuns
  /\ outcome = "ok" => task_k = NumTotalRuns

\* An interrupt stops the run although reports keep coming due, and no task
\* ends by itself.
InterruptStops == interrupt_requested ~> outcome # "none"

=============================================================================
