---------------------------- MODULE ThreadCommon ----------------------------
(***************************************************************************)
(* State and operations shared by the thread-based task dispatchers:       *)
(* TaskDispatcherBase of multiprocthreadcommon.h.  Each worker thread runs *)
(* tasks one after the other; a running task polls                         *)
(* statusReportRequested() and answers with submitStatusReport(); thread 0 *)
(* (the master, the thread that called run()) also starts status reports   *)
(* and hands the complete ones to the user's callback.  How a thread gets  *)
(* its next task differs between the dispatchers, which extend this module.*)
(*                                                                         *)
(* One step of a thread is one critical section, or one access to shared   *)
(* state made outside of any.                                              *)
(*                                                                         *)
(* Some operators have a faulty twin just before them (CountOneUnlocked    *)
(* before CountOne, and so on): a bug the operator could plausibly have.   *)
(* The specification uses none of the twins; they serve to see each        *)
(* property fail once they are put in the place of the operator.           *)
(***************************************************************************)
EXTENDS Integers, FiniteSets

CONSTANTS
  NumThreads,        \* schedule.num_threads, zero included
  NumTotalRuns,      \* schedule.num_total_runs
  MaxReportCauses    \* bound on calls of requestStatusReport() and periodic
                     \* intervals that elapse, together

ASSUME NumThreadsAssumption == NumThreads \in Nat
ASSUME NumTotalRunsAssumption == NumTotalRuns \in Nat
ASSUME BoundsAssumption == MaxReportCauses \in Nat

\* run() always runs the worker function as thread 0, even if num_threads = 0
Workers == 0 .. (IF NumThreads = 0 THEN 0 ELSE NumThreads - 1)
Master == 0
Tasks == 0 .. (NumTotalRuns - 1)

VARIABLES
  \* struct Schedule, and the result vector
  num_active_working_threads,
  num_completed,
  num_launched,
  interrupt_requested,
  inner_exception,     \* the vector holds at least one exception
  results,             \* tasks whose slot of the result vector is filled
  \* struct StatusReport
  in_preparation,
  ready,
  num_waiting_reports,
  workers_running,     \* workers flagged in full_report.workers_running
  reports_size,        \* length of full_report.workers_reports
  report_completed,    \* full_report.num_completed
  user_fn,             \* a status report handler has been set
  periodic,            \* periodic_interval > 0
  event_counter_user,
  event_counter_master,
  interval_elapsed,    \* more than an interval since last_report_time
  ticks,               \* intervals elapsed so far (bounds the timer)
  \* struct ThreadPrivateData, and where each thread is
  pc,
  task_id,
  local_counter,       \* local_status_report_event_counter
  local_counter_user,  \* local_status_report_event_counter_user, master only
  \* how run() ended
  outcome

schedule == <<num_active_working_threads, num_completed, num_launched,
              interrupt_requested, inner_exception, results>>
accounting == <<in_preparation, ready, num_waiting_reports, workers_running,
                reports_size, report_completed>>
events == <<event_counter_user, event_counter_master, interval_elapsed, ticks,
            local_counter_user>>
settings == <<user_fn, periodic>>
thread == <<task_id, local_counter>>

vars == <<schedule, accounting, events, settings, thread, pc, outcome>>

-----------------------------------------------------------------------------
\* Program locations of a thread

\* from run_worker_enter to run_worker_exit: a thread counted as active
TaskLocations == {"run", "task", "poll", "submit", "treat", "collect", "count",
                  "except"}
ActiveLocations == TaskLocations \cup {"loop", "exit"}
\* the master after its own work, in master_continue_monitoring_status
MonitorLocations == {"exited", "sleep", "monitor", "while", "monitor_except"}
Locations == {"enter"} \cup ActiveLocations \cup MonitorLocations
               \cup {"join", "done", "terminated"}

Transition(t, from, to) ==
  /\ pc[t] = from
  /\ pc' = [pc EXCEPT ![t] = to]

Init ==
  /\ num_active_working_threads = 0
  /\ num_completed = 0
  /\ num_launched = 0
  /\ interrupt_requested = FALSE
  /\ inner_exception = FALSE
  /\ results = {}
  /\ in_preparation = FALSE
  /\ ready = FALSE
  /\ num_waiting_reports = 0
  /\ workers_running = {}
  /\ reports_size = 0
  /\ report_completed = 0
  /\ user_fn = FALSE
  /\ periodic = FALSE
  /\ event_counter_user = 0
  /\ event_counter_master = 0
  /\ interval_elapsed = TRUE   \* last_report_time starts as the clock's epoch
  /\ ticks = 0
  /\ pc = [t \in Workers |-> "enter"]
  /\ task_id = [t \in Workers |-> -1]
  /\ local_counter = [t \in Workers |-> 0]
  /\ local_counter_user = 0
  /\ outcome = "none"

-----------------------------------------------------------------------------
\* Entering and leaving the active working region

\* the counter a thread starts from: one behind if a report is under way, so
\* that the thread sends in its own report later
CounterOnEntry ==
  IF in_preparation THEN event_counter_master - 1 ELSE event_counter_master

RunWorkerEnter(t) ==
  /\ Transition(t, "enter", "loop")
  /\ num_active_working_threads' = num_active_working_threads + 1
  /\ local_counter' = [local_counter EXCEPT ![t] = CounterOnEntry]
  /\ UNCHANGED <<num_completed, num_launched, interrupt_requested,
                 inner_exception, results, accounting, events, settings,
                 task_id, outcome>>

\* t leaves, its report is not in, and it is the last one waited for
LeavesLastReport(t) ==
  /\ in_preparation
  /\ local_counter[t] # event_counter_master
  /\ num_waiting_reports = 1

ActiveAfterExit == num_active_working_threads - 1

RunWorkerExit(t) ==
  /\ Transition(t, "exit", IF t = Master THEN "exited" ELSE "done")
  /\ num_active_working_threads' = ActiveAfterExit
  /\ IF LeavesLastReport(t)
     THEN num_waiting_reports' = 0 /\ ready' = TRUE
     ELSE UNCHANGED <<num_waiting_reports, ready>>
  /\ UNCHANGED <<num_completed, num_launched, interrupt_requested,
                 inner_exception, results, in_preparation, workers_running,
                 reports_size, report_completed, events, settings, thread,
                 outcome>>

-----------------------------------------------------------------------------
\* Running one task: run_task

\* the interrupt check, getTaskInput and the constructor of the task, which
\* may throw
StartTask(t) ==
  /\ IF interrupt_requested
     THEN Transition(t, "run", "loop")
     ELSE Transition(t, "run", "task") \/ Transition(t, "run", "except")
  /\ UNCHANGED <<schedule, accounting, events, settings, thread, outcome>>

\* the task's run() returns, or throws an exception of its own
FinishTask(t) ==
  /\ Transition(t, "task", "collect") \/ Transition(t, "task", "except")
  /\ UNCHANGED <<schedule, accounting, events, settings, thread, outcome>>

CollectResult(t) ==
  /\ Transition(t, "collect", "count")
  /\ results' = results \cup {task_id[t]}
  /\ UNCHANGED <<num_active_working_threads, num_completed, num_launched,
                 interrupt_requested, inner_exception, accounting, events,
                 settings, thread, outcome>>

CountOneUnlocked == num_completed' \in {num_completed, num_completed + 1}

\* the protected increment; without the lock an update could be lost
CountOne == num_completed' = num_completed + 1

CountCompleted(t) ==
  /\ Transition(t, "count", "loop")
  /\ CountOne
  /\ UNCHANGED <<num_active_working_threads, num_launched, interrupt_requested,
                 inner_exception, results, accounting, events, settings,
                 thread, outcome>>

\* _interrupt_with_inner_exception, from run_task or from the master's loop
CatchException ==
  /\ interrupt_requested' = TRUE
  /\ inner_exception' = TRUE

InterruptWithInnerException(t) ==
  /\ \/ Transition(t, "except", "loop")
     \/ Transition(t, "monitor_except", "join")
  /\ CatchException
  /\ UNCHANGED <<num_active_working_threads, num_completed, num_launched,
                 results, accounting, events, settings, thread, outcome>>

-----------------------------------------------------------------------------
\* Status reports

\* _master_initiate_status_report
InitiateStatusReport ==
  IF in_preparation \/ ~user_fn
  THEN UNCHANGED <<accounting, event_counter_master, interval_elapsed>>
  ELSE /\ in_preparation' = TRUE
       /\ ready' = FALSE
       /\ interval_elapsed' = FALSE
       /\ workers_running' = {}
       /\ reports_size' = NumThreads
       /\ report_completed' = num_completed
       /\ num_waiting_reports' = num_active_working_threads
       /\ event_counter_master' = event_counter_master + 1

\* _master_update_event_counter: a pending user request comes before the timer
MasterUpdateEventCounter ==
  /\ local_counter_user' = event_counter_user
  /\ IF \/ local_counter_user # event_counter_user
        \/ periodic /\ interval_elapsed
     THEN InitiateStatusReport
     ELSE UNCHANGED <<accounting, event_counter_master, interval_elapsed>>
  /\ UNCHANGED <<event_counter_user, ticks>>

\* what _master_send_status_report leaves once the callback has returned
ResetReport ==
  /\ in_preparation' = FALSE
  /\ ready' = FALSE
  /\ num_waiting_reports' = 0
  /\ workers_running' = {}
  /\ reports_size' = 0
  /\ UNCHANGED report_completed

\* the master, at from, sends the report if it is ready and goes on to next;
\* the callback may throw, and does if it is unset, which skips the reset and
\* leads to failed
MasterSendIfReady(from, next, failed) ==
  \/ /\ ready
     /\ \/ user_fn /\ Transition(Master, from, next) /\ ResetReport
        \/ Transition(Master, from, failed) /\ UNCHANGED accounting
  \/ /\ ~ready
     /\ Transition(Master, from, next)
     /\ UNCHANGED accounting

TaskNeverInterrupted == FALSE

\* statusReportRequested() throws TaskInterruptedInnerException
TaskInterrupted == interrupt_requested

\* the answer of statusReportRequested()
ReportDue(t) == local_counter[t] # event_counter_master

\* statusReportRequested() called by a task of a thread that is not the
\* master; the answer FALSE changes nothing and is not a step
WorkerPoll(t) ==
  /\ t # Master
  /\ IF TaskInterrupted
     THEN Transition(t, "task", "loop")
     ELSE ReportDue(t) /\ Transition(t, "task", "submit")
  /\ UNCHANGED <<schedule, accounting, events, settings, thread, outcome>>

\* statusReportRequested() called by the master's task: up to and including
\* _master_update_event_counter, ...
MasterPoll ==
  /\ IF TaskInterrupted
     THEN /\ Transition(Master, "task", "loop")
          /\ UNCHANGED <<accounting, events>>
     ELSE /\ Transition(Master, "task", "poll")
          /\ MasterUpdateEventCounter
  /\ UNCHANGED <<schedule, settings, thread, outcome>>

\* ... and the rest of it; the callback runs in a critical section, and where
\* an exception of it leads is up to the kind of section
MasterPollSend(failed) ==
  /\ MasterSendIfReady("poll", IF ReportDue(Master) THEN "submit" ELSE "task",
                       failed)
  /\ UNCHANGED <<schedule, events, settings, thread, outcome>>

\* submitStatusReport(): the unprotected first assignment, ...
SubmitStatusReport(t) ==
  /\ Transition(t, "submit", "treat")
  /\ local_counter' = [local_counter EXCEPT ![t] = event_counter_master]
  /\ UNCHANGED <<schedule, accounting, events, settings, task_id, outcome>>

OneReportLessForgotten == num_waiting_reports

OneReportLess == num_waiting_reports - 1

AllReportsInOffByOne(num_waiting) == num_waiting < 0

AllReportsIn(num_waiting) == num_waiting <= 0

\* the slot of thread t exists in the vectors of the full report
HasSlot(t) == t < reports_size

CompletedRefreshed == num_completed

\* the number of completed tasks in the report is that of its initiation
CompletedShown == report_completed

\* ... and the critical section
TreatReport(t) ==
  /\ Transition(t, "treat", "task")
  /\ num_waiting_reports' = OneReportLess
  /\ report_completed' = CompletedShown
  /\ IF HasSlot(t)
     THEN /\ workers_running' = workers_running \cup {t}
          /\ ready' = (ready \/ AllReportsIn(OneReportLess))
     ELSE UNCHANGED <<workers_running, ready>>  \* "Internal inconsistency"
  /\ UNCHANGED <<schedule, in_preparation, reports_size, events, settings,
                 thread, outcome>>

-----------------------------------------------------------------------------
\* The master after its own work, and the end of run()

\* master_continue_monitoring_status: the call of statusReportRequested() ...
MonitorPoll ==
  /\ IF TaskInterrupted
     THEN /\ Transition(Master, "sleep", "join")
          /\ UNCHANGED <<accounting, events>>
     ELSE /\ Transition(Master, "sleep", "monitor")
          /\ MasterUpdateEventCounter
  /\ UNCHANGED <<schedule, settings, thread, outcome>>

MonitorSend(failed) ==
  /\ MasterSendIfReady("monitor", "while", failed)
  /\ UNCHANGED <<schedule, events, settings, thread, outcome>>

KeepMonitoringOneMore == num_active_working_threads > 1

KeepMonitoringForever == num_active_working_threads >= 0

\* ... and the condition of its loop
KeepMonitoring == num_active_working_threads > 0

MonitorWhile ==
  /\ Transition(Master, "while", IF KeepMonitoring THEN "sleep" ELSE "join")
  /\ UNCHANGED <<schedule, accounting, events, settings, thread, outcome>>

EpilogInterruptFirst ==
  IF interrupt_requested THEN "interrupted"
  ELSE IF inner_exception THEN "exception"
  ELSE "ok"

\* run_epilog, once every other thread has ended
Epilog ==
  IF inner_exception THEN "exception"
  ELSE IF interrupt_requested THEN "interrupted"
  ELSE "ok"

JoinThreads == \A t \in Workers \ {Master} : pc[t] = "done"

RunEpilog ==
  /\ JoinThreads
  /\ Transition(Master, "join", "done")
  /\ outcome' = Epilog
  /\ UNCHANGED <<schedule, accounting, events, settings, thread>>

-----------------------------------------------------------------------------
\* What the user, a signal handler or the clock does while run() is running

RequestStatusReport ==
  /\ outcome = "none"
  /\ event_counter_user + ticks < MaxReportCauses
  /\ event_counter_user' = event_counter_user + 1
  /\ UNCHANGED <<schedule, accounting, event_counter_master, interval_elapsed,
                 ticks, local_counter_user, settings, thread, pc, outcome>>

RequestInterrupt ==
  /\ outcome = "none"
  /\ interrupt_requested' = TRUE
  /\ UNCHANGED <<num_active_working_threads, num_completed, num_launched,
                 inner_exception, results, accounting, events, settings,
                 thread, pc, outcome>>

SetStatusReportHandler ==
  /\ outcome = "none"
  /\ user_fn' \in BOOLEAN
  /\ UNCHANGED <<schedule, accounting, events, periodic, thread, pc, outcome>>

RequestPeriodicStatusReport ==
  /\ outcome = "none"
  /\ periodic' \in BOOLEAN
  /\ UNCHANGED <<schedule, accounting, events, user_fn, thread, pc, outcome>>

IntervalElapses ==
  /\ outcome = "none"
  /\ periodic /\ ~interval_elapsed
  /\ event_counter_user + ticks < MaxReportCauses
  /\ interval_elapsed' = TRUE
  /\ ticks' = ticks + 1
  /\ UNCHANGED <<schedule, accounting, event_counter_user,
                 event_counter_master, local_counter_user, settings, thread,
                 pc, outcome>>

Environment ==
  \/ RequestStatusReport \/ RequestInterrupt \/ IntervalElapses
  \/ SetStatusReportHandler \/ RequestPeriodicStatusReport

-----------------------------------------------------------------------------
\* The steps of a thread that do not depend on how it gets its tasks

MasterStep == MasterPoll \/ MonitorPoll \/ MonitorWhile \/ RunEpilog

\* all but the end of a task, which is up to the task
CommonStep(t) ==
  \/ RunWorkerEnter(t) \/ RunWorkerExit(t)
  \/ StartTask(t) \/ CollectResult(t) \/ CountCompleted(t)
  \/ InterruptWithInnerException(t)
  \/ WorkerPoll(t) \/ SubmitStatusReport(t) \/ TreatReport(t)
  \/ t = Master /\ MasterStep

-----------------------------------------------------------------------------
\* The values of the variables
TypeOK ==
  /\ num_active_working_threads \in Int
  /\ num_completed \in Nat
  /\ num_launched \in 0 .. NumTotalRuns
  /\ interrupt_requested \in BOOLEAN
  /\ inner_exception \in BOOLEAN
  /\ results \subseteq Tasks
  /\ in_preparation \in BOOLEAN
  /\ ready \in BOOLEAN
  /\ num_waiting_reports \in Int
  /\ workers_running \subseteq Workers
  /\ reports_size \in {0, NumThreads}
  /\ report_completed \in Nat
  /\ user_fn \in BOOLEAN
  /\ periodic \in BOOLEAN
  /\ event_counter_user \in Nat
  /\ event_counter_master \in Nat
  /\ interval_elapsed \in BOOLEAN
  /\ ticks \in Nat
  /\ pc \in [Workers -> Locations]
  /\ task_id \in [Workers -> Tasks \cup {-1}]
  /\ local_counter \in [Workers -> Int]
  /\ local_counter_user \in Nat
  /\ outcome \in {"none", "ok", "interrupted", "exception"}

-----------------------------------------------------------------------------
\* What the dispatchers on threads must never do

\* A task is in the hands of one thread at most, and nobody runs a task whose
\* result is already stored: the result vector is written without a lock on
\* the strength of this.
TaskOwnership ==
  \A t \in Workers : pc[t] \in TaskLocations =>
    /\ \A u \in Workers \ {t} :
         pc[u] \in TaskLocations => task_id[u] # task_id[t]
    /\ pc[t] # "count" => task_id[t] \notin results

\* num_completed, which full reports and their progress figure show, lags the
\* stored results exactly by the threads between the two writes, also when
\* tasks fail or are interrupted.
CompletedAccounting ==
  num_completed + Cardinality({t \in Workers : pc[t] = "count"})
    = Cardinality(results)

\* Unless stopped, the master leaves its monitoring loop only when all tasks
\* are completed: a thread that has not even started by then finds no task.
MasterLeavesLast ==
  pc[Master] \in {"join", "done"} /\ ~interrupt_requested =>
    /\ results = Tasks
    /\ num_completed = NumTotalRuns
    /\ \A t \in Workers : pc[t] \notin TaskLocations

\* The callback is handed a report only while one is in preparation with its
\* vectors in place, even if a thread's report arrives after it was sent.
ReadyIsDeliverable ==
  ready => in_preparation /\ reports_size = NumThreads

\* run() ends as the interface says: without an exception only if every task
\* has delivered its result.
OutcomeSound ==
  outcome = "ok" => results = Tasks /\ ~inner_exception

\* Every slot the master waits for belongs to a thread or has been filled: the
\* count never exceeds the slots still empty, so that reports that do come in
\* from all the threads complete it.
WaitingBounded ==
  in_preparation =>
    num_waiting_reports + Cardinality(workers_running) <= Cardinality(Workers)

\* A full report never shows more work than there is: the tasks it counts as
\* completed and the tasks its threads report on are different ones, so that
\* totalFractionDone() is at most 1, although the report is put together while
\* tasks go on, end and begin.
ProgressAtMostOne ==
  in_preparation =>
    report_completed + Cardinality(workers_running) <= NumTotalRuns

\* The two counts of a report in preparation, of the answers still to come and of
\* the tasks it shows, are right under every interleaving of threads that enter,
\* answer, take tasks and leave.
ReportCountsSound == WaitingBounded /\ ProgressAtMostOne

=============================================================================
