-------------------------- MODULE CxxThreadsProofs --------------------------
(***************************************************************************)
(* Proofs about the dispatcher on C++11 threads, for any number of threads *)
(* and tasks, in three parts:                                              *)
(*   - tasks, types and the outcome, by the inductive invariant IInv, and  *)
(*     the refinement of DispatcherContract;                               *)
(*   - counters: num_active_working_threads is the number of threads in    *)
(*     the active region, num_completed lags the stored results by the     *)
(*     threads between the two writes, and the master therefore leaves its *)
(*     monitoring loop only when all the work is done;                     *)
(*   - the figures of the full reports: what the master waits for and what *)
(*     totalFractionDone() adds up.  Both are compared with quantities     *)
(*     that a late or repeated answer of a thread does not change: the     *)
(*     threads there are, and the threads in the hands of a task.          *)
(***************************************************************************)
EXTENDS CxxThreads, FiniteSetTheorems, TLAPS

Core ==
  /\ results \subseteq Launched
  /\ HoldersLaunched
  /\ TaskOwnership
  /\ NothingDropped
  /\ LeaveForAReason
  /\ OutcomeLast
  /\ OutcomeSound

-----------------------------------------------------------------------------
\* A step of CxxThreads is a step of one thread or of the environment.
LEMMA NextCases ==
  ASSUME Next
  PROVE  \/ \E t \in Workers :
              \/ RunWorkerEnter(t) \/ RunWorkerExit(t) \/ StartTask(t)
              \/ FinishTask(t) \/ CollectResult(t) \/ CountCompleted(t)
              \/ InterruptWithInnerException(t) \/ WorkerPoll(t)
              \/ SubmitStatusReport(t) \/ TreatReport(t) \/ GetTask(t)
         \/ MasterPoll \/ MasterPollSend("except")
         \/ MonitorPoll \/ MonitorSend("monitor_except")
         \/ MonitorWhile \/ RunEpilog \/ AfterExit
         \/ RequestStatusReport \/ RequestInterrupt \/ IntervalElapses
         \/ SetStatusReportHandler \/ RequestPeriodicStatusReport
         \/ UNCHANGED vars
BY DEF Next, Advance, CommonStep, MasterStep, MasterSend, Environment, Terminated

LEMMA MasterIsWorker == Master \in Workers /\ Workers \subseteq Nat
BY NumThreadsAssumption DEF Master, Workers

-----------------------------------------------------------------------------
\* Every variable keeps its type; that a collected result belongs to a task
\* needs HoldersLaunched.

LEMMA TransitionType ==
  ASSUME NEW t \in Workers, NEW from, NEW to \in Locations,
         pc \in [Workers -> Locations], Transition(t, from, to)
  PROVE  pc' \in [Workers -> Locations]
BY DEF Transition

\* The variables of the status reports are well typed.
ReportTypes ==
  /\ in_preparation \in BOOLEAN
  /\ ready \in BOOLEAN
  /\ num_waiting_reports \in Int
  /\ workers_running \subseteq Workers
  /\ reports_size \in {0, NumThreads}
  /\ report_completed \in Nat
  /\ event_counter_user \in Nat
  /\ event_counter_master \in Nat
  /\ interval_elapsed \in BOOLEAN
  /\ ticks \in Nat
  /\ local_counter_user \in Nat

LEMMA UpdateTypes ==
  ASSUME ReportTypes, num_active_working_threads \in Int, num_completed \in Nat,
         MasterUpdateEventCounter
  PROVE  ReportTypes'
<1> USE DEF MasterUpdateEventCounter, InitiateStatusReport, ReportTypes,
            accounting
<1>1. in_preparation' \in BOOLEAN
  OBVIOUS
<1>2. ready' \in BOOLEAN
  OBVIOUS
<1>3. num_waiting_reports' \in Int
  OBVIOUS
<1>4. workers_running' \subseteq Workers /\ reports_size' \in {0, NumThreads}
  OBVIOUS
<1>5. event_counter_user' \in Nat /\ event_counter_master' \in Nat
  OBVIOUS
<1>6. interval_elapsed' \in BOOLEAN
  OBVIOUS
<1>7. ticks' \in Nat /\ local_counter_user' \in Nat
  OBVIOUS
<1>8. report_completed' \in Nat
  OBVIOUS
<1> QED BY <1>1, <1>2, <1>3, <1>4, <1>5, <1>6, <1>7, <1>8

LEMMA SendTypes ==
  ASSUME ReportTypes, UNCHANGED events, pc \in [Workers -> Locations],
         NEW from, NEW next \in Locations, NEW failed \in Locations,
         MasterSendIfReady(from, next, failed)
  PROVE  ReportTypes' /\ pc' \in [Workers -> Locations]
<1>1. ReportTypes'
  <2>1. ResetReport \/ UNCHANGED accounting
    BY Zenon DEF MasterSendIfReady
  <2>2. CASE ResetReport
    <3>1. in_preparation' \in BOOLEAN /\ ready' \in BOOLEAN
      BY <2>2 DEF ResetReport
    <3>2. num_waiting_reports' \in Int
      BY <2>2 DEF ResetReport
    <3>3. workers_running' \subseteq Workers /\ reports_size' \in {0, NumThreads}
      BY <2>2 DEF ResetReport
    <3>4. report_completed' \in Nat
      BY <2>2 DEF ResetReport, ReportTypes
    <3> QED BY <3>1, <3>2, <3>3, <3>4 DEF ReportTypes, events
  <2>3. CASE UNCHANGED accounting
    BY <2>3 DEF ReportTypes, accounting, events
  <2> QED BY <2>1, <2>2, <2>3
<1>2. pc' \in [Workers -> Locations]
  BY TransitionType, MasterIsWorker DEF MasterSendIfReady
<1> QED BY <1>1, <1>2

LEMMA TypeOKStep ==
  ASSUME TypeOK, HoldersLaunched, [Next]_vars
  PROVE  TypeOK'
<1> USE NumThreadsAssumption, NumTotalRunsAssumption
<1>a. ReportTypes
  BY DEF ReportTypes, TypeOK
<1>b. /\ {"loop", "exit", "enter"} \cup TaskLocations \subseteq Locations
      /\ MonitorLocations \cup {"join", "done"} \subseteq Locations
  BY DEF Locations, ActiveLocations
<1> USE DEF TypeOK, schedule, accounting, events, settings, thread
<1>1. ASSUME NEW t \in Workers, RunWorkerEnter(t) PROVE TypeOK'
  <2>1. pc' \in [Workers -> Locations]
    BY <1>1, <1>b, TransitionType DEF RunWorkerEnter
  <2>2. CounterOnEntry \in Int
    BY DEF CounterOnEntry
  <2>3. local_counter' \in [Workers -> Int]
    BY <1>1, <2>2 DEF RunWorkerEnter
  <2> QED BY <1>1, <2>1, <2>3 DEF RunWorkerEnter
<1>2. ASSUME NEW t \in Workers, RunWorkerExit(t) PROVE TypeOK'
  <2>1. pc' \in [Workers -> Locations]
    BY <1>2, <1>b, TransitionType DEF RunWorkerExit, MonitorLocations
  <2>2. num_waiting_reports' \in Int
    BY <1>2 DEF RunWorkerExit
  <2>3. ready' \in BOOLEAN
    BY <1>2 DEF RunWorkerExit
  <2> QED BY <1>2, <2>1, <2>2, <2>3 DEF RunWorkerExit, ActiveAfterExit
<1>3. ASSUME NEW t \in Workers, StartTask(t) PROVE TypeOK'
  <2>1. pc' \in [Workers -> Locations]
    BY <1>3, <1>b, TransitionType DEF StartTask, TaskLocations
  <2> QED BY <1>3, <2>1 DEF StartTask
<1>4. ASSUME NEW t \in Workers, FinishTask(t) PROVE TypeOK'
  <2>1. pc' \in [Workers -> Locations]
    BY <1>4, <1>b, TransitionType DEF FinishTask, TaskLocations
  <2> QED BY <1>4, <2>1 DEF FinishTask
<1>5. ASSUME NEW t \in Workers, CollectResult(t) PROVE TypeOK'
  <2>1. pc' \in [Workers -> Locations]
    BY <1>5, <1>b, TransitionType DEF CollectResult, TaskLocations
  <2>2. task_id[t] \in Tasks
    BY <1>5 DEF CollectResult, HoldersLaunched, Launched, Tasks, Transition,
                TaskLocations
  <2> QED BY <1>5, <2>1, <2>2 DEF CollectResult
<1>6. ASSUME NEW t \in Workers, CountCompleted(t) PROVE TypeOK'
  <2>1. pc' \in [Workers -> Locations]
    BY <1>6, <1>b, TransitionType DEF CountCompleted
  <2> QED BY <1>6, <2>1 DEF CountCompleted, CountOne
<1>7. ASSUME NEW t \in Workers, InterruptWithInnerException(t) PROVE TypeOK'
  <2>1. pc' \in [Workers -> Locations]
    BY <1>7, <1>b, TransitionType DEF InterruptWithInnerException
  <2> QED BY <1>7, <2>1 DEF InterruptWithInnerException, CatchException
<1>8. ASSUME NEW t \in Workers, WorkerPoll(t) PROVE TypeOK'
  <2>1. pc' \in [Workers -> Locations]
    BY <1>8, <1>b, TransitionType DEF WorkerPoll, TaskLocations
  <2> QED BY <1>8, <2>1 DEF WorkerPoll
<1>9. ASSUME NEW t \in Workers, SubmitStatusReport(t) PROVE TypeOK'
  <2>1. pc' \in [Workers -> Locations]
    BY <1>9, <1>b, TransitionType DEF SubmitStatusReport, TaskLocations
  <2>2. local_counter' \in [Workers -> Int]
    BY <1>9 DEF SubmitStatusReport
  <2> QED BY <1>9, <2>1, <2>2 DEF SubmitStatusReport
<1>10. ASSUME NEW t \in Workers, TreatReport(t) PROVE TypeOK'
  <2>1. pc' \in [Workers -> Locations]
    BY <1>10, <1>b, TransitionType DEF TreatReport, TaskLocations
  <2>2. num_waiting_reports' \in Int
    BY <1>10 DEF TreatReport, OneReportLess
  <2>3. workers_running' \subseteq Workers
    BY <1>10 DEF TreatReport
  <2>4. ready' \in BOOLEAN
    BY <1>10 DEF TreatReport
  <2>5. report_completed' \in Nat
    BY <1>10 DEF TreatReport, CompletedShown
  <2> QED BY <1>10, <2>1, <2>2, <2>3, <2>4, <2>5 DEF TreatReport
<1>11. ASSUME NEW t \in Workers, GetTask(t) PROVE TypeOK'
  <2>1. pc' \in [Workers -> Locations]
    BY <1>11, <1>b, TransitionType DEF GetTask, TaskLocations
  <2>2. num_launched' \in 0 .. NumTotalRuns
    BY <1>11 DEF GetTask, AllLaunched, LaunchTask
  <2>3. task_id' \in [Workers -> Tasks \cup {-1}]
    BY <1>11 DEF GetTask, AllLaunched, LaunchTask, Tasks
  <2> QED BY <1>11, <2>1, <2>2, <2>3 DEF GetTask, LaunchTask
<1>12. CASE MasterPoll
  <2>1. pc' \in [Workers -> Locations]
    BY <1>12, <1>b, TransitionType, MasterIsWorker DEF MasterPoll, TaskLocations
  <2>2. ReportTypes'
    BY <1>12, <1>a, UpdateTypes DEF MasterPoll, ReportTypes
  <2> QED BY <1>12, <2>1, <2>2 DEF MasterPoll, ReportTypes
<1>13. CASE MasterPollSend("except")
  <2>1. ReportTypes' /\ pc' \in [Workers -> Locations]
    BY <1>13, <1>a, <1>b, SendTypes DEF MasterPollSend, TaskLocations
  <2> QED BY <1>13, <2>1 DEF MasterPollSend, ReportTypes
<1>14. CASE MonitorPoll
  <2>1. pc' \in [Workers -> Locations]
    BY <1>14, <1>b, TransitionType, MasterIsWorker DEF MonitorPoll, MonitorLocations
  <2>2. ReportTypes'
    BY <1>14, <1>a, UpdateTypes DEF MonitorPoll, ReportTypes
  <2> QED BY <1>14, <2>1, <2>2 DEF MonitorPoll, ReportTypes
<1>15. CASE MonitorSend("monitor_except")
  <2>1. ReportTypes' /\ pc' \in [Workers -> Locations]
    BY <1>15, <1>a, <1>b, SendTypes DEF MonitorSend, MonitorLocations
  <2> QED BY <1>15, <2>1 DEF MonitorSend, ReportTypes
<1>16. CASE MonitorWhile
  <2>1. pc' \in [Workers -> Locations]
    BY <1>16, <1>b, TransitionType, MasterIsWorker DEF MonitorWhile, MonitorLocations
  <2> QED BY <1>16, <2>1 DEF MonitorWhile
<1>17. CASE RunEpilog
  <2>1. pc' \in [Workers -> Locations]
    BY <1>17, <1>b, TransitionType, MasterIsWorker DEF RunEpilog
  <2>2. outcome' \in {"ok", "interrupted", "exception"}
    BY <1>17 DEF RunEpilog, Epilog
  <2> QED BY <1>17, <2>1, <2>2 DEF RunEpilog
<1>18. CASE AfterExit
  <2>1. pc' \in [Workers -> Locations]
    BY <1>18, <1>b, TransitionType, MasterIsWorker DEF AfterExit, MonitorLocations
  <2> QED BY <1>18, <2>1 DEF AfterExit
<1>19. CASE RequestStatusReport
  BY <1>19 DEF RequestStatusReport
<1>20. CASE RequestInterrupt
  BY <1>20 DEF RequestInterrupt
<1>21. CASE IntervalElapses
  BY <1>21 DEF IntervalElapses
<1>22. CASE SetStatusReportHandler
  BY <1>22 DEF SetStatusReportHandler
<1>23. CASE RequestPeriodicStatusReport
  BY <1>23 DEF RequestPeriodicStatusReport
<1>24. CASE UNCHANGED vars
  BY <1>24 DEF vars
<1> QED
  BY NextCases, <1>1, <1>2, <1>3, <1>4, <1>5, <1>6, <1>7, <1>8, <1>9, <1>10,
     <1>11, <1>12, <1>13, <1>14, <1>15, <1>16, <1>17, <1>18, <1>19, <1>20,
     <1>21, <1>22, <1>23, <1>24

-----------------------------------------------------------------------------
\* The steps of Core, by what they do to the tasks.

\* Nothing about tasks, threads or the outcome changes.
LEMMA CoreUnchanged ==
  ASSUME Core,
         UNCHANGED <<num_launched, interrupt_requested, inner_exception,
                     results, pc, task_id, outcome>>
  PROVE  Core'
BY DEF Core, Launched, HoldersLaunched, TaskOwnership, NothingDropped, Held,
       LeaveForAReason, OutcomeLast, OutcomeSound

\* A thread that works on a task goes on working on it.
LEMMA KeepTask ==
  ASSUME Core, TypeOK, NEW t \in Workers, NEW to \in TaskLocations \ {"count"},
         pc[t] \in TaskLocations \ {"count"},
         pc' = [pc EXCEPT ![t] = to],
         UNCHANGED <<num_launched, interrupt_requested, inner_exception,
                     results, task_id, outcome>>
  PROVE  Core'
<1> USE DEF Core, TypeOK, Launched
<1>1. \A u \in Workers :
        /\ pc'[u] = IF u = t THEN to ELSE pc[u]
        /\ pc'[u] \in TaskLocations <=> pc[u] \in TaskLocations
        /\ pc'[u] = "count" <=> pc[u] = "count"
  OBVIOUS
<1>2. HoldersLaunched' BY <1>1 DEF HoldersLaunched
<1>3. TaskOwnership' BY <1>1 DEF TaskOwnership
<1>4. NothingDropped' BY <1>1 DEF NothingDropped, Held
<1>5. to \notin LeaveLocations /\ pc[t] # "done"
  BY DEF TaskLocations, LeaveLocations, MonitorLocations
<1>6. LeaveForAReason' BY <1>1, <1>5 DEF LeaveForAReason
<1>7. OutcomeLast' BY <1>1, <1>5 DEF OutcomeLast
<1>8. OutcomeSound' BY DEF OutcomeSound
<1> QED BY <1>2, <1>3, <1>4, <1>6, <1>7, <1>8

\* A thread lets go of its task, if it has one, or moves outside of run_task.
LEMMA NoTask ==
  ASSUME Core, TypeOK, NEW t \in Workers, NEW to,
         to \notin TaskLocations, pc[t] # "done",
         to \in LeaveLocations =>
           interrupt_requested \/ num_launched = NumTotalRuns
             \/ interrupt_requested',
         pc[t] \in TaskLocations \ {"count"} => interrupt_requested',
         pc' = [pc EXCEPT ![t] = to],
         \A u \in Workers \ {t} : task_id'[u] = task_id[u],
         interrupt_requested => interrupt_requested',
         inner_exception' => interrupt_requested',
         UNCHANGED <<num_launched, results, outcome>>
  PROVE  Core'
<1> USE DEF Core, TypeOK, Launched
<1>1. \A u \in Workers : pc'[u] = IF u = t THEN to ELSE pc[u]
  OBVIOUS
<1>2. HoldersLaunched' BY <1>1 DEF HoldersLaunched
<1>3. TaskOwnership' BY <1>1 DEF TaskOwnership
<1>4. NothingDropped' BY <1>1 DEF NothingDropped, Held
<1>5. LeaveForAReason' BY <1>1 DEF LeaveForAReason
<1>6. outcome = "none"
  BY DEF OutcomeLast
<1>7. OutcomeLast' BY <1>6 DEF OutcomeLast
<1>8. OutcomeSound' BY <1>6 DEF OutcomeSound
<1> QED BY <1>2, <1>3, <1>4, <1>5, <1>7, <1>8

LEMMA CollectCore ==
  ASSUME Core, TypeOK, NEW t \in Workers, CollectResult(t)
  PROVE  Core'
<1> USE DEF Core, TypeOK, Launched, CollectResult, Transition, thread
<1>a. pc[t] \in TaskLocations \ {"count"}
  BY DEF TaskLocations
<1>1. \A u \in Workers :
        /\ pc'[u] = IF u = t THEN "count" ELSE pc[u]
        /\ pc'[u] \in TaskLocations <=> pc[u] \in TaskLocations
  BY DEF TaskLocations
<1>2. (results \subseteq Launched)' BY <1>a DEF HoldersLaunched
<1>3. HoldersLaunched' BY <1>1 DEF HoldersLaunched
<1>4. TaskOwnership' BY <1>1, <1>a DEF TaskOwnership
<1>5. NothingDropped' BY <1>1 DEF NothingDropped, Held
<1>6. LeaveForAReason' BY <1>1 DEF LeaveForAReason, LeaveLocations, MonitorLocations
<1>7. outcome = "none" BY DEF OutcomeLast
<1>8. OutcomeLast' BY <1>7 DEF OutcomeLast
<1>9. OutcomeSound' BY <1>7 DEF OutcomeSound
<1> QED BY <1>2, <1>3, <1>4, <1>5, <1>6, <1>8, <1>9

\* The third alternative of GetTask: the next task number is taken.
LEMMA LaunchCore ==
  ASSUME Core, TypeOK, NEW t \in Workers, ~interrupt_requested, ~AllLaunched,
         Transition(t, "loop", "run"), LaunchTask(t),
         UNCHANGED <<interrupt_requested, inner_exception, results, outcome>>
  PROVE  Core'
<1> USE NumTotalRunsAssumption
<1> USE DEF Core, TypeOK, Launched, Transition, LaunchTask
<1>1. \A u \in Workers :
        /\ pc'[u] = IF u = t THEN "run" ELSE pc[u]
        /\ task_id'[u] = IF u = t THEN num_launched ELSE task_id[u]
  OBVIOUS
<1>0. num_launched \in Nat /\ num_launched' = num_launched + 1
  OBVIOUS
<1>2. pc[t] \notin TaskLocations /\ "run" \in TaskLocations \ {"count"}
  BY DEF TaskLocations
<1>3. (results \subseteq Launched)' OBVIOUS
<1>4. HoldersLaunched' BY <1>1 DEF HoldersLaunched
<1>5. TaskOwnership'
  <2>1. \A u \in Workers : pc[u] \in TaskLocations => task_id[u] # num_launched
    BY <1>0 DEF HoldersLaunched
  <2>2. num_launched \notin results BY <1>0
  <2> QED BY <1>1, <1>2, <2>1, <2>2 DEF TaskOwnership
<1>6. NothingDropped'
  <2>1. \A k : k = num_launched => Held(k)'
    BY <1>1, <1>2 DEF Held
  <2>2. \A k : Held(k) => Held(k)' BY <1>1, <1>2 DEF Held
  <2>3. Launched' = Launched \cup {num_launched} OBVIOUS
  <2> QED BY <2>1, <2>2, <2>3, Zenon DEF NothingDropped
<1>7. LeaveForAReason'
  <2>1. \A u \in Workers : pc[u] \notin LeaveLocations
    BY DEF LeaveForAReason, AllLaunched
  <2> QED BY <1>1, <2>1 DEF LeaveForAReason, LeaveLocations, MonitorLocations
<1>8. outcome = "none" BY DEF OutcomeLast
<1>9. OutcomeLast' BY <1>8 DEF OutcomeLast
<1>10. OutcomeSound' BY <1>8 DEF OutcomeSound
<1> QED BY <1>3, <1>4, <1>5, <1>6, <1>7, <1>9, <1>10

\* The end of run(): all threads are out, so nobody holds a task.
LEMMA EpilogCore ==
  ASSUME Core, TypeOK, RunEpilog
  PROVE  Core'
<1> USE MasterIsWorker, NumTotalRunsAssumption
<1> USE DEF Core, TypeOK, Launched, RunEpilog, Transition, schedule, thread
<1>1. \A u \in Workers : pc'[u] = "done" /\ pc[u] \in {"join", "done"}
  BY DEF JoinThreads
<1>2. \A u \in Workers : pc'[u] \notin TaskLocations /\ pc[u] \notin TaskLocations
  BY <1>1 DEF TaskLocations
<1>3. HoldersLaunched' BY <1>2 DEF HoldersLaunched
<1>4. TaskOwnership' BY <1>2 DEF TaskOwnership
<1>5. NothingDropped' BY <1>2 DEF NothingDropped, Held
<1>6. interrupt_requested \/ num_launched = NumTotalRuns
  BY <1>1 DEF LeaveForAReason, LeaveLocations
<1>7. LeaveForAReason' BY <1>6 DEF LeaveForAReason
<1>8. OutcomeLast' BY <1>1 DEF OutcomeLast
<1>9. OutcomeSound'
  <2> SUFFICES ASSUME outcome' = "ok" PROVE results = Tasks /\ ~inner_exception
    BY DEF OutcomeSound
  <2>1. ~inner_exception /\ ~interrupt_requested BY DEF Epilog
  <2>2. Launched = Tasks BY <2>1, <1>6 DEF Tasks
  <2>3. \A k \in Launched : ~Held(k) BY <1>2 DEF Held
  <2>4. Launched \subseteq results BY <2>1, <2>3 DEF NothingDropped
  <2> QED BY <2>1, <2>2, <2>4
<1> QED BY <1>3, <1>4, <1>5, <1>7, <1>8, <1>9

\* Core along every step.
LEMMA CoreStep ==
  ASSUME Core, TypeOK, [Next]_vars
  PROVE  Core'
<1> USE MasterIsWorker
<1> USE DEF Transition, schedule, thread
<1>a. inner_exception => interrupt_requested
  BY DEF Core, OutcomeLast
<1>b. {"run", "task", "poll", "submit", "treat", "collect", "except"}
        \subseteq TaskLocations \ {"count"}
  BY DEF TaskLocations
<1>c. {"enter", "loop", "exit", "exited", "sleep", "monitor", "while",
       "monitor_except", "join", "done"} \cap TaskLocations = {}
  BY DEF TaskLocations
<1>d. {"exit", "exited", "sleep", "monitor", "while", "monitor_except",
       "join"} \subseteq LeaveLocations
  BY DEF LeaveLocations, MonitorLocations
<1>e. "loop" \notin LeaveLocations
  BY DEF LeaveLocations, MonitorLocations
<1>f. ASSUME NEW t \in Workers, pc[t] \in LeaveLocations
      PROVE  interrupt_requested \/ num_launched = NumTotalRuns
  BY <1>f DEF Core, LeaveForAReason
<1>1. ASSUME NEW t \in Workers, RunWorkerEnter(t) PROVE Core'
  BY <1>1, <1>a, <1>c, <1>e, NoTask DEF RunWorkerEnter
<1>2. ASSUME NEW t \in Workers, RunWorkerExit(t) PROVE Core'
  <2>1. interrupt_requested \/ num_launched = NumTotalRuns
    BY <1>2, <1>d, <1>f DEF RunWorkerExit
  <2> QED BY <1>2, <2>1, <1>a, <1>c, NoTask DEF RunWorkerExit
<1>3. ASSUME NEW t \in Workers, StartTask(t) PROVE Core'
  <2>1. CASE interrupt_requested
    BY <1>3, <2>1, <1>a, <1>c, <1>e, NoTask DEF StartTask
  <2>2. CASE ~interrupt_requested
    BY <1>3, <2>2, <1>b, KeepTask DEF StartTask
  <2> QED BY <2>1, <2>2
<1>4. ASSUME NEW t \in Workers, FinishTask(t) PROVE Core'
  BY <1>4, <1>b, KeepTask DEF FinishTask
<1>5. ASSUME NEW t \in Workers, CollectResult(t) PROVE Core'
  BY <1>5, CollectCore
<1>6. ASSUME NEW t \in Workers, CountCompleted(t) PROVE Core'
  BY <1>6, <1>a, <1>c, <1>e, NoTask DEF CountCompleted
<1>7. ASSUME NEW t \in Workers, InterruptWithInnerException(t) PROVE Core'
  BY <1>7, <1>c, NoTask DEF InterruptWithInnerException, CatchException
<1>8. ASSUME NEW t \in Workers, WorkerPoll(t) PROVE Core'
  <2>1. CASE interrupt_requested
    BY <1>8, <2>1, <1>a, <1>c, <1>e, NoTask DEF WorkerPoll, TaskInterrupted
  <2>2. CASE ~interrupt_requested
    BY <1>8, <2>2, <1>b, KeepTask DEF WorkerPoll, TaskInterrupted
  <2> QED BY <2>1, <2>2
<1>9. ASSUME NEW t \in Workers, SubmitStatusReport(t) PROVE Core'
  BY <1>9, <1>b, KeepTask DEF SubmitStatusReport
<1>10. ASSUME NEW t \in Workers, TreatReport(t) PROVE Core'
  BY <1>10, <1>b, KeepTask DEF TreatReport
<1>11. ASSUME NEW t \in Workers, GetTask(t) PROVE Core'
  <2>1. CASE interrupt_requested
    BY <1>11, <2>1, <1>a, <1>c, NoTask DEF GetTask
  <2>2. CASE ~interrupt_requested /\ AllLaunched
    <3>1. \A u \in Workers \ {t} : task_id'[u] = task_id[u]
      BY <1>11, <2>2 DEF GetTask, TypeOK
    <3> QED BY <1>11, <2>2, <3>1, <1>a, <1>c, NoTask DEF GetTask, AllLaunched
  <2>3. CASE ~interrupt_requested /\ ~AllLaunched
    BY <1>11, <2>3, LaunchCore DEF GetTask
  <2> QED BY <2>1, <2>2, <2>3
<1>12. CASE MasterPoll
  <2>1. CASE interrupt_requested
    BY <1>12, <2>1, <1>a, <1>c, <1>e, NoTask DEF MasterPoll, TaskInterrupted
  <2>2. CASE ~interrupt_requested
    BY <1>12, <2>2, <1>b, KeepTask DEF MasterPoll, TaskInterrupted
  <2> QED BY <2>1, <2>2
<1>13. CASE MasterPollSend("except")
  BY <1>13, <1>b, KeepTask DEF MasterPollSend, MasterSendIfReady
<1>14. CASE MonitorPoll
  <2>1. interrupt_requested \/ num_launched = NumTotalRuns
    BY <1>14, <1>d, <1>f DEF MonitorPoll
  <2> QED BY <1>14, <2>1, <1>a, <1>c, NoTask DEF MonitorPoll
<1>15. CASE MonitorSend("monitor_except")
  <2>1. interrupt_requested \/ num_launched = NumTotalRuns
    BY <1>15, <1>d, <1>f DEF MonitorSend, MasterSendIfReady
  <2> QED BY <1>15, <2>1, <1>a, <1>c, NoTask DEF MonitorSend, MasterSendIfReady
<1>16. CASE MonitorWhile
  <2>1. interrupt_requested \/ num_launched = NumTotalRuns
    BY <1>16, <1>d, <1>f DEF MonitorWhile
  <2> QED BY <1>16, <2>1, <1>a, <1>c, NoTask DEF MonitorWhile
<1>17. CASE RunEpilog
  BY <1>17, EpilogCore
<1>18. CASE AfterExit
  <2>1. interrupt_requested \/ num_launched = NumTotalRuns
    BY <1>18, <1>d, <1>f DEF AfterExit
  <2> QED BY <1>18, <2>1, <1>a, <1>c, NoTask DEF AfterExit
<1>19. CASE RequestInterrupt
  <2> USE <1>19 DEF RequestInterrupt, Core, Launched
  <2>1. HoldersLaunched' BY DEF HoldersLaunched
  <2>2. TaskOwnership' BY DEF TaskOwnership
  <2>3. NothingDropped' BY DEF NothingDropped
  <2>4. LeaveForAReason' BY DEF LeaveForAReason
  <2>5. OutcomeLast' BY DEF OutcomeLast
  <2>6. OutcomeSound' BY DEF OutcomeSound
  <2> QED BY <2>1, <2>2, <2>3, <2>4, <2>5, <2>6
<1>20. CASE RequestStatusReport
  BY <1>20, CoreUnchanged DEF RequestStatusReport
<1>21. CASE IntervalElapses
  BY <1>21, CoreUnchanged DEF IntervalElapses
<1>22. CASE SetStatusReportHandler
  BY <1>22, CoreUnchanged DEF SetStatusReportHandler
<1>23. CASE RequestPeriodicStatusReport
  BY <1>23, CoreUnchanged DEF RequestPeriodicStatusReport
<1>24. CASE UNCHANGED vars
  BY <1>24, CoreUnchanged DEF vars
<1> QED
  BY NextCases, <1>1, <1>2, <1>3, <1>4, <1>5, <1>6, <1>7, <1>8, <1>9, <1>10,
     <1>11, <1>12, <1>13, <1>14, <1>15, <1>16, <1>17, <1>18, <1>19, <1>20,
     <1>21, <1>22, <1>23, <1>24

-----------------------------------------------------------------------------
\* The vectors of the full report along every step.
LEMMA SendKeepsVectors ==
  ASSUME VectorsInPlace, NEW from, NEW next, NEW failed,
         MasterSendIfReady(from, next, failed)
  PROVE  VectorsInPlace'
<1>1. ResetReport \/ UNCHANGED accounting
  BY Zenon DEF MasterSendIfReady
<1> QED BY <1>1 DEF VectorsInPlace, ResetReport, accounting

LEMMA UpdateKeepsVectors ==
  ASSUME VectorsInPlace, MasterUpdateEventCounter
  PROVE  VectorsInPlace'
BY DEF VectorsInPlace, MasterUpdateEventCounter, InitiateStatusReport, accounting

LEMMA VectorsStep ==
  ASSUME VectorsInPlace, TypeOK, [Next]_vars
  PROVE  VectorsInPlace'
<1>a. ASSUME UNCHANGED accounting PROVE VectorsInPlace'
  BY <1>a DEF accounting, VectorsInPlace
<1>1. ASSUME NEW t \in Workers, RunWorkerExit(t) PROVE VectorsInPlace'
  BY <1>1 DEF RunWorkerExit, LeavesLastReport, VectorsInPlace
<1>2. ASSUME NEW t \in Workers, TreatReport(t) PROVE VectorsInPlace'
  <2>1. HasSlot(t) => in_preparation
    BY MasterIsWorker DEF HasSlot, VectorsInPlace
  <2> QED BY <1>2, <2>1 DEF TreatReport, VectorsInPlace
<1>3. CASE MasterPoll
  BY <1>3, <1>a, UpdateKeepsVectors DEF MasterPoll, accounting
<1>4. CASE MonitorPoll
  BY <1>4, <1>a, UpdateKeepsVectors DEF MonitorPoll, accounting
<1>5. CASE MasterPollSend("except")
  BY <1>5, SendKeepsVectors DEF MasterPollSend
<1>6. CASE MonitorSend("monitor_except")
  BY <1>6, SendKeepsVectors DEF MonitorSend
<1>7. ASSUME NEW t \in Workers,
             \/ RunWorkerEnter(t) \/ StartTask(t) \/ FinishTask(t)
             \/ CollectResult(t) \/ CountCompleted(t)
             \/ InterruptWithInnerException(t) \/ WorkerPoll(t)
             \/ SubmitStatusReport(t) \/ GetTask(t)
      PROVE  UNCHANGED accounting
  BY <1>7 DEF RunWorkerEnter, StartTask, FinishTask, CollectResult,
              CountCompleted, InterruptWithInnerException, WorkerPoll,
              SubmitStatusReport, GetTask, accounting
<1>8. ASSUME \/ MonitorWhile \/ RunEpilog \/ AfterExit \/ RequestStatusReport
             \/ RequestInterrupt \/ IntervalElapses \/ SetStatusReportHandler
             \/ RequestPeriodicStatusReport \/ UNCHANGED vars
      PROVE  UNCHANGED accounting
  BY <1>8 DEF MonitorWhile, RunEpilog, AfterExit, RequestStatusReport,
              RequestInterrupt, IntervalElapses, SetStatusReportHandler,
              RequestPeriodicStatusReport, vars, accounting
<1> QED
  BY NextCases, <1>a, <1>1, <1>2, <1>3, <1>4, <1>5, <1>6, <1>7, <1>8

-----------------------------------------------------------------------------
\* The initial states satisfy the invariant.
LEMMA IInvInit ==
  ASSUME Init
  PROVE  IInv
<1> USE NumThreadsAssumption, NumTotalRunsAssumption
<1>1. TypeOK
  <2>1. pc \in [Workers -> Locations] BY DEF Init, Locations
  <2>2. /\ task_id \in [Workers -> Tasks \cup {-1}]
        /\ local_counter \in [Workers -> Int]
    BY DEF Init
  <2>3. num_launched \in 0 .. NumTotalRuns BY DEF Init
  <2>4. results \subseteq Tasks /\ workers_running \subseteq Workers
    BY DEF Init
  <2>5. /\ interrupt_requested \in BOOLEAN /\ inner_exception \in BOOLEAN
        /\ in_preparation \in BOOLEAN /\ ready \in BOOLEAN
        /\ user_fn \in BOOLEAN /\ periodic \in BOOLEAN
        /\ interval_elapsed \in BOOLEAN
    BY DEF Init
  <2>6. /\ num_active_working_threads \in Int /\ num_completed \in Nat
        /\ num_waiting_reports \in Int /\ reports_size \in {0, NumThreads}
        /\ report_completed \in Nat
        /\ event_counter_user \in Nat /\ event_counter_master \in Nat
        /\ ticks \in Nat /\ local_counter_user \in Nat
        /\ outcome \in {"none", "ok", "interrupted", "exception"}
    BY DEF Init
  <2> QED BY <2>1, <2>2, <2>3, <2>4, <2>5, <2>6 DEF TypeOK
<1>2. /\ \A t \in Workers : pc[t] = "enter"
      /\ results = {} /\ num_launched = 0 /\ outcome = "none"
      /\ ~inner_exception
  BY DEF Init
<1>3. "enter" \notin TaskLocations /\ "enter" \notin LeaveLocations
  BY DEF TaskLocations, LeaveLocations, MonitorLocations
<1>4. results \subseteq Launched BY <1>2 DEF Launched
<1>5. HoldersLaunched BY <1>2, <1>3 DEF HoldersLaunched
<1>6. TaskOwnership BY <1>2, <1>3 DEF TaskOwnership
<1>7. NothingDropped BY <1>2 DEF NothingDropped, Launched
<1>8. LeaveForAReason BY <1>2, <1>3 DEF LeaveForAReason
<1>9. OutcomeLast /\ OutcomeSound BY <1>2 DEF OutcomeLast, OutcomeSound
<1>10. VectorsInPlace BY DEF Init, VectorsInPlace
<1> QED
  BY <1>1, <1>4, <1>5, <1>6, <1>7, <1>8, <1>9, <1>10 DEF IInv

LEMMA IInvStep ==
  ASSUME IInv, [Next]_vars
  PROVE  IInv'
<1>1. TypeOK /\ HoldersLaunched /\ Core /\ VectorsInPlace
  BY DEF IInv, Core
<1>2. TypeOK' BY <1>1, TypeOKStep
<1>3. Core' BY <1>1, CoreStep
<1>4. VectorsInPlace' BY <1>1, VectorsStep
<1> QED BY <1>2, <1>3, <1>4 DEF IInv, Core

\* IInv is an invariant of the C++ thread dispatcher.
THEOREM Invariance == Spec => []IInv
<1>1. Init => IInv BY IInvInit
<1>2. IInv /\ [Next]_vars => IInv' BY IInvStep
<1> QED BY <1>1, <1>2, PTL DEF Spec

\* Every variable of the dispatcher has its type in every state of run().
THEOREM TypeCorrect == Spec => []TypeOK
<1>1. IInv => TypeOK BY DEF IInv
<1> QED BY <1>1, Invariance, PTL

\* No two threads ever run the same task, and no task runs again once its
\* result is stored: the unlocked write of run_task to the result vector has
\* one writer per slot.
THEOREM OwnershipHolds == Spec => []TaskOwnership
<1>1. IInv => TaskOwnership BY DEF IInv
<1> QED BY <1>1, Invariance, PTL

\* If run() returns normally, every task has delivered its result.
THEOREM OutcomeIsSound == Spec => []OutcomeSound
<1>1. IInv => OutcomeSound BY DEF IInv
<1> QED BY <1>1, Invariance, PTL

\* The user's callback only gets reports in preparation, with their vectors.
THEOREM ReadyReportsDeliverable == Spec => []ReadyIsDeliverable
<1>1. IInv => ReadyIsDeliverable
  BY DEF IInv, VectorsInPlace, ReadyIsDeliverable
<1> QED BY <1>1, Invariance, PTL

-----------------------------------------------------------------------------
\* The refinement: the dispatcher keeps the promises of the interface.

LEMMA ContractInit ==
  ASSUME Init
  PROVE  Contract!Init
BY DEF Init, Contract!Init

\* A step that leaves the variables of the contract alone.
LEMMA ContractStutter ==
  ASSUME UNCHANGED <<num_launched, results, interrupt_requested,
                     inner_exception, outcome>>
  PROVE  UNCHANGED Contract!vars
BY DEF Contract!vars

\* Every step of the dispatcher is a step of the contract, or none: taking a
\* task starts it, storing a result delivers it, catching an exception fails.
LEMMA ContractStep ==
  ASSUME IInv, [Next]_vars
  PROVE  [Contract!Next]_(Contract!vars)
<1> USE MasterIsWorker
<1> USE DEF schedule
<1>a. ASSUME NEW t \in Workers, pc[t] # "done" PROVE outcome = "none"
  BY <1>a DEF IInv, OutcomeLast
<1>1. ASSUME NEW t \in Workers, CollectResult(t)
      PROVE  Contract!Deliver(task_id[t]) /\ task_id[t] \in Tasks
  <2>1. pc[t] = "collect" /\ outcome = "none"
    BY <1>1, <1>a DEF CollectResult, Transition
  <2>2. pc[t] \in TaskLocations /\ pc[t] # "count"
    BY <2>1 DEF TaskLocations
  <2>3. task_id[t] \in Launched /\ task_id[t] \notin results
    BY <2>2 DEF IInv, HoldersLaunched, TaskOwnership
  <2>4. task_id[t] \in Tasks
    BY <2>3, NumTotalRunsAssumption DEF IInv, TypeOK, Launched, Tasks
  <2> QED BY <1>1, <2>1, <2>3, <2>4 DEF CollectResult, Contract!Deliver, Launched
<1>2. ASSUME NEW t \in Workers, GetTask(t), ~interrupt_requested, ~AllLaunched
      PROVE  Contract!Start(num_launched) /\ num_launched \in Tasks
  <2>1. outcome = "none"
    BY <1>2, <1>a DEF GetTask, Transition
  <2>2. /\ num_launched \in Nat /\ num_launched \in Tasks
        /\ num_launched' = num_launched + 1
    BY <1>2, NumTotalRunsAssumption
       DEF GetTask, LaunchTask, AllLaunched, IInv, TypeOK, Tasks
  <2>3. 0 .. (num_launched' - 1) = (0 .. (num_launched - 1)) \cup {num_launched}
    BY <2>2
  <2> QED BY <1>2, <2>1, <2>2, <2>3 DEF GetTask, Contract!Start
<1>3. ASSUME NEW t \in Workers, InterruptWithInnerException(t)
      PROVE  Contract!Fail
  <2>1. outcome = "none"
    BY <1>3, <1>a DEF InterruptWithInnerException, Transition
  <2> QED BY <1>3, <2>1
          DEF InterruptWithInnerException, CatchException, Contract!Fail
<1>4. CASE RunEpilog
  <2>1. outcome = "none"
    BY <1>4, <1>a DEF RunEpilog, Transition
  <2>2. outcome' = "ok" => results = Tasks
    BY <1>4, IInvStep DEF IInv, OutcomeSound, RunEpilog
  <2>3. Contract!End(outcome') /\ outcome' \in Contract!Outcomes
    BY <1>4, <2>1, <2>2 DEF RunEpilog, Epilog, Contract!End, Contract!Outcomes
  <2> QED BY <2>3 DEF Contract!Next
<1>5. CASE RequestInterrupt
  BY <1>5 DEF RequestInterrupt, Contract!AskToStop, Contract!Next
<1>6. ASSUME NEW t \in Workers,
             \/ RunWorkerEnter(t) \/ RunWorkerExit(t) \/ StartTask(t)
             \/ FinishTask(t) \/ CountCompleted(t) \/ WorkerPoll(t)
             \/ SubmitStatusReport(t) \/ TreatReport(t)
             \/ GetTask(t) /\ (interrupt_requested \/ AllLaunched)
      PROVE  UNCHANGED Contract!vars
  BY <1>6, ContractStutter
     DEF RunWorkerEnter, RunWorkerExit, StartTask, FinishTask, CountCompleted,
         WorkerPoll, SubmitStatusReport, TreatReport, GetTask
<1>7. ASSUME \/ MasterPoll \/ MasterPollSend("except")
             \/ MonitorPoll \/ MonitorSend("monitor_except")
             \/ MonitorWhile \/ AfterExit \/ RequestStatusReport
             \/ IntervalElapses \/ SetStatusReportHandler
             \/ RequestPeriodicStatusReport \/ UNCHANGED vars
      PROVE  UNCHANGED Contract!vars
  BY <1>7, ContractStutter
     DEF MasterPoll, MasterPollSend, MonitorPoll, MonitorSend, MonitorWhile,
         AfterExit, RequestStatusReport, IntervalElapses,
         SetStatusReportHandler, RequestPeriodicStatusReport, vars
<1> QED
  BY NextCases, <1>1, <1>2, <1>3, <1>4, <1>5, <1>6, <1>7 DEF Contract!Next

\* The C++ thread dispatcher implements the contract of the interface.
THEOREM Refinement == Spec => ImplementsContract
<1>1. Init => Contract!Init BY ContractInit
<1>2. IInv /\ [Next]_vars => [Contract!Next]_(Contract!vars) BY ContractStep
<1> QED BY <1>1, <1>2, Invariance, PTL DEF Spec, ImplementsContract, Contract!Spec

-----------------------------------------------------------------------------
\* Part two: the counters.

\* the threads at one of the locations L
At(L) == {t \in Workers : pc[t] \in L}

\* num_active_working_threads counts the threads in the active region.
ActiveAccounting ==
  num_active_working_threads = Cardinality(At(ActiveLocations))

Counters ==
  /\ ActiveAccounting
  /\ CompletedAccounting
  /\ MasterLeavesLast

-----------------------------------------------------------------------------
\* There are finitely many threads and tasks.
LEMMA Finiteness ==
  /\ IsFiniteSet(Workers)
  /\ IsFiniteSet(Tasks)
  /\ Cardinality(Tasks) = NumTotalRuns
<1> USE NumThreadsAssumption, NumTotalRunsAssumption
<1>1. IsFiniteSet(Workers) BY FS_Interval DEF Workers
<1>2. IsFiniteSet(Tasks) /\ Cardinality(Tasks) = NumTotalRuns
  BY FS_Interval DEF Tasks
<1> QED BY <1>1, <1>2

\* A set of threads is finite and has a size.
LEMMA SizeOfThreads ==
  ASSUME NEW S \in SUBSET Workers
  PROVE  IsFiniteSet(S) /\ Cardinality(S) \in Nat
BY Finiteness, FS_Subset, FS_CardinalityType

\* A thread that moves into L makes At(L) one larger.
LEMMA MovesIn ==
  ASSUME NEW L, NEW t \in Workers, pc[t] \notin L, pc'[t] \in L,
         \A u \in Workers \ {t} : pc'[u] = pc[u]
  PROVE  Cardinality(At(L))' = Cardinality(At(L)) + 1
<1>1. At(L)' = At(L) \cup {t} /\ t \notin At(L) /\ At(L) \in SUBSET Workers
  BY DEF At
<1> QED BY <1>1, SizeOfThreads, FS_AddElement

\* A thread that moves out of L makes it one smaller.
LEMMA MovesOut ==
  ASSUME NEW L, NEW t \in Workers, pc[t] \in L, pc'[t] \notin L,
         \A u \in Workers \ {t} : pc'[u] = pc[u]
  PROVE  Cardinality(At(L))' = Cardinality(At(L)) - 1
<1>1. At(L)' = At(L) \ {t} /\ t \in At(L) /\ At(L) \in SUBSET Workers
  BY DEF At
<1> QED BY <1>1, SizeOfThreads, FS_RemoveElement

-----------------------------------------------------------------------------
\* Nobody enters or leaves the active region or the location "count", and
\* nobody takes up a task unless it was launched by this step.
Quiet ==
  /\ \A u \in Workers :
       /\ pc'[u] \in ActiveLocations <=> pc[u] \in ActiveLocations
       /\ pc'[u] = "count" <=> pc[u] = "count"
       /\ pc'[u] \in TaskLocations =>
            \/ pc[u] \in TaskLocations
            \/ ~interrupt_requested /\ num_launched # NumTotalRuns
  /\ UNCHANGED <<num_active_working_threads, num_completed, results>>

\* A transition of one thread is quiet if its ends are on the same side.
LEMMA QuietTransition ==
  ASSUME TypeOK, NEW t \in Workers, NEW from, NEW to, Transition(t, from, to),
         from \in ActiveLocations <=> to \in ActiveLocations,
         from # "count", to # "count",
         to \in TaskLocations =>
            \/ from \in TaskLocations
            \/ ~interrupt_requested /\ num_launched # NumTotalRuns,
         UNCHANGED <<num_active_working_threads, num_completed, results>>
  PROVE  Quiet
BY DEF TypeOK, Transition, Quiet

\* Four kinds of step change what is counted.
Counts(t) ==
  RunWorkerEnter(t) \/ RunWorkerExit(t) \/ CollectResult(t) \/ CountCompleted(t)

LEMMA CountsOrQuiet ==
  ASSUME TypeOK, [Next]_vars
  PROVE  Quiet \/ \E t \in Workers : Counts(t)
<1> USE MasterIsWorker
<1> USE DEF schedule, TaskLocations, ActiveLocations
<1>1. ASSUME NEW t \in Workers,
             \/ StartTask(t) \/ FinishTask(t) \/ InterruptWithInnerException(t)
             \/ WorkerPoll(t) \/ SubmitStatusReport(t) \/ TreatReport(t)
      PROVE  Quiet
  <2>1. CASE StartTask(t)
    BY <2>1, QuietTransition DEF StartTask
  <2>2. CASE FinishTask(t)
    BY <2>2, QuietTransition DEF FinishTask
  <2>3. CASE InterruptWithInnerException(t)
    BY <2>3, QuietTransition DEF InterruptWithInnerException
  <2>4. CASE WorkerPoll(t)
    BY <2>4, QuietTransition DEF WorkerPoll
  <2>5. CASE SubmitStatusReport(t)
    BY <2>5, QuietTransition DEF SubmitStatusReport
  <2>6. CASE TreatReport(t)
    BY <2>6, QuietTransition DEF TreatReport
  <2> QED BY <1>1, <2>1, <2>2, <2>3, <2>4, <2>5, <2>6
<1>2. ASSUME NEW t \in Workers, GetTask(t) PROVE Quiet
  BY <1>2, QuietTransition DEF GetTask, LaunchTask, AllLaunched
<1>3. CASE MasterPoll
  BY <1>3, QuietTransition DEF MasterPoll
<1>4. CASE MasterPollSend("except")
  BY <1>4, QuietTransition DEF MasterPollSend, MasterSendIfReady
<1>5. CASE MonitorPoll
  BY <1>5, QuietTransition DEF MonitorPoll
<1>6. CASE MonitorSend("monitor_except")
  BY <1>6, QuietTransition DEF MonitorSend, MasterSendIfReady
<1>7. CASE MonitorWhile
  BY <1>7, QuietTransition DEF MonitorWhile
<1>8. CASE RunEpilog
  BY <1>8, QuietTransition DEF RunEpilog
<1>9. CASE AfterExit
  BY <1>9, QuietTransition DEF AfterExit
<1>10. ASSUME \/ RequestStatusReport \/ RequestInterrupt \/ IntervalElapses
              \/ SetStatusReportHandler \/ RequestPeriodicStatusReport
              \/ UNCHANGED vars
       PROVE  Quiet
  BY <1>10 DEF RequestStatusReport, RequestInterrupt, IntervalElapses,
               SetStatusReportHandler, RequestPeriodicStatusReport, vars, Quiet
<1> QED
  BY NextCases, <1>1, <1>2, <1>3, <1>4, <1>5, <1>6, <1>7, <1>8, <1>9, <1>10
     DEF Counts

-----------------------------------------------------------------------------
\* The active threads.  Only entering and leaving the region counts.
LEMMA ActiveStep ==
  ASSUME TypeOK, ActiveAccounting, [Next]_vars
  PROVE  ActiveAccounting'
<1> USE DEF ActiveAccounting, Transition, TypeOK
<1>a. /\ "enter" \notin ActiveLocations /\ "loop" \in ActiveLocations
      /\ "exit" \in ActiveLocations /\ "exited" \notin ActiveLocations
      /\ "done" \notin ActiveLocations
      /\ "collect" \in ActiveLocations /\ "count" \in ActiveLocations
  BY DEF ActiveLocations, TaskLocations
<1>1. ASSUME NEW t \in Workers, RunWorkerEnter(t) PROVE ActiveAccounting'
  <2>1. Cardinality(At(ActiveLocations))' = Cardinality(At(ActiveLocations)) + 1
    BY <1>1, <1>a, MovesIn DEF RunWorkerEnter
  <2> QED BY <1>1, <2>1 DEF RunWorkerEnter
<1>2. ASSUME NEW t \in Workers, RunWorkerExit(t) PROVE ActiveAccounting'
  <2>1. Cardinality(At(ActiveLocations))' = Cardinality(At(ActiveLocations)) - 1
    BY <1>2, <1>a, MovesOut DEF RunWorkerExit
  <2> QED BY <1>2, <2>1 DEF RunWorkerExit, ActiveAfterExit
<1>3. ASSUME NEW t \in Workers, CollectResult(t) \/ CountCompleted(t)
      PROVE  ActiveAccounting'
  <2>1. At(ActiveLocations)' = At(ActiveLocations)
    BY <1>3, <1>a DEF CollectResult, CountCompleted, At
  <2> QED BY <1>3, <2>1 DEF CollectResult, CountCompleted
<1>4. ASSUME Quiet PROVE ActiveAccounting'
  BY <1>4 DEF Quiet, At
<1> QED BY CountsOrQuiet, <1>1, <1>2, <1>3, <1>4 DEF Counts

\* The completed tasks.  Storing a result and counting it are two steps, with
\* the thread at "count" between them.
LEMMA CompletedStep ==
  ASSUME TypeOK, HoldersLaunched, TaskOwnership, CompletedAccounting, [Next]_vars
  PROVE  CompletedAccounting'
<1> DEFINE Counting == At({"count"})
<1>a. /\ CompletedAccounting
           <=> num_completed + Cardinality(Counting) = Cardinality(results)
      /\ CompletedAccounting'
           <=> (num_completed + Cardinality(Counting) = Cardinality(results))'
  BY DEF CompletedAccounting, At
<1>b. /\ Counting \in SUBSET Workers /\ Cardinality(Counting) \in Nat
      /\ IsFiniteSet(results) /\ Cardinality(results) \in Nat
  BY SizeOfThreads, Finiteness, FS_Subset, FS_CardinalityType DEF At, TypeOK
<1> USE DEF TypeOK, Transition
<1>1. ASSUME NEW t \in Workers, CollectResult(t) PROVE CompletedAccounting'
  <2>1. Cardinality(Counting)' = Cardinality(Counting) + 1
    BY <1>1, MovesIn DEF CollectResult
  <2>2. task_id[t] \notin results
    BY <1>1 DEF CollectResult, TaskOwnership, TaskLocations
  <2>3. Cardinality(results') = Cardinality(results) + 1
    BY <1>1, <1>b, <2>2, FS_AddElement DEF CollectResult
  <2>4. num_completed' = num_completed
    BY <1>1 DEF CollectResult
  <2> HIDE DEF Counting
  <2> QED BY <1>a, <1>b, <2>1, <2>3, <2>4
<1>2. ASSUME NEW t \in Workers, CountCompleted(t) PROVE CompletedAccounting'
  <2>1. Cardinality(Counting)' = Cardinality(Counting) - 1
    BY <1>2, MovesOut DEF CountCompleted
  <2>2. num_completed' = num_completed + 1 /\ results' = results
    BY <1>2 DEF CountCompleted, CountOne
  <2> HIDE DEF Counting
  <2> QED BY <1>a, <1>b, <2>1, <2>2
<1>3. ASSUME NEW t \in Workers, RunWorkerEnter(t) \/ RunWorkerExit(t)
      PROVE  CompletedAccounting'
  <2>1. Counting' = Counting
    BY <1>3 DEF RunWorkerEnter, RunWorkerExit, At
  <2>2. UNCHANGED <<num_completed, results>>
    BY <1>3 DEF RunWorkerEnter, RunWorkerExit
  <2> HIDE DEF Counting
  <2> QED BY <1>a, <2>1, <2>2
<1>4. ASSUME Quiet PROVE CompletedAccounting'
  <2>1. Counting' = Counting
    BY <1>4 DEF Quiet, At
  <2>2. UNCHANGED <<num_completed, results>>
    BY <1>4 DEF Quiet
  <2> HIDE DEF Counting
  <2> QED BY <1>a, <2>1, <2>2
<1> QED BY CountsOrQuiet, <1>1, <1>2, <1>3, <1>4 DEF Counts

-----------------------------------------------------------------------------
\* Once no thread is active after the last launch, everything is done.
LEMMA NobodyActive ==
  ASSUME IInv, ActiveAccounting, CompletedAccounting, ~KeepMonitoring,
         num_launched = NumTotalRuns, ~interrupt_requested
  PROVE  /\ results = Tasks
         /\ num_completed = NumTotalRuns
         /\ \A t \in Workers : pc[t] \notin TaskLocations
<1>1. At(ActiveLocations) = {}
  <2>1. /\ IsFiniteSet(At(ActiveLocations))
        /\ Cardinality(At(ActiveLocations)) \in Nat
    BY SizeOfThreads DEF At
  <2>2. Cardinality(At(ActiveLocations)) = 0
    BY <2>1 DEF ActiveAccounting, KeepMonitoring
  <2> QED BY <2>1, <2>2, FS_EmptySet
<1>2. \A t \in Workers : pc[t] \notin TaskLocations
  BY <1>1 DEF At, ActiveLocations
<1>3. results = Tasks
  BY <1>2 DEF IInv, TypeOK, NothingDropped, Held, Launched, Tasks
<1>4. {t \in Workers : pc[t] = "count"} = {}
  BY <1>2 DEF TaskLocations
<1>5. Cardinality({t \in Workers : pc[t] = "count"}) = 0
  BY <1>4, FS_EmptySet
<1>6. num_completed = NumTotalRuns
  BY <1>3, <1>5, Finiteness DEF CompletedAccounting, IInv, TypeOK
<1> QED BY <1>2, <1>3, <1>6

\* The master leaves either stopped, or finding nobody active; afterwards
\* nobody finds another task.
LEMMA MasterStepLast ==
  ASSUME IInv, ActiveAccounting, CompletedAccounting, MasterLeavesLast, [Next]_vars
  PROVE  MasterLeavesLast'
<1> DEFINE AllDone == /\ results = Tasks
                      /\ num_completed = NumTotalRuns
                      /\ \A t \in Workers : pc[t] \notin TaskLocations
<1> SUFFICES ASSUME pc'[Master] \in {"join", "done"}, ~interrupt_requested'
             PROVE  AllDone'
  BY DEF MasterLeavesLast
<1>a. TypeOK /\ [Next]_vars
  BY DEF IInv
<1> USE MasterIsWorker
<1>b. pc \in [Workers -> Locations]
  BY <1>a DEF TypeOK
<1>1. CASE MonitorWhile /\ ~KeepMonitoring
  <2>1. pc[Master] = "while" /\ UNCHANGED <<results, num_completed, interrupt_requested>>
    BY <1>1 DEF MonitorWhile, Transition, schedule
  <2>2. num_launched = NumTotalRuns /\ ~interrupt_requested
    BY <2>1 DEF IInv, LeaveForAReason, LeaveLocations, MonitorLocations
  <2>3. AllDone
    BY <1>1, <2>2, NobodyActive
  <2>4. \A t \in Workers : pc'[t] \notin TaskLocations
    BY <1>1, <1>b, <2>3 DEF MonitorWhile, Transition, TaskLocations
  <2> QED BY <2>1, <2>3, <2>4
<1>2. CASE pc[Master] \in {"join", "done"} /\ ~interrupt_requested
  <2>1. AllDone
    BY <1>2 DEF MasterLeavesLast
  <2>2. num_launched = NumTotalRuns
    BY <1>2 DEF IInv, LeaveForAReason, LeaveLocations
  <2>3. CASE Quiet
    BY <2>1, <2>2, <2>3 DEF Quiet
  <2>4. ASSUME NEW t \in Workers, Counts(t) PROVE AllDone'
    <3>1. ~CollectResult(t) /\ ~CountCompleted(t)
      BY <2>1 DEF CollectResult, CountCompleted, Transition, TaskLocations
    <3>2. RunWorkerEnter(t) \/ RunWorkerExit(t)
      BY <2>4, <3>1 DEF Counts
    <3>3. UNCHANGED <<results, num_completed>>
      BY <3>2 DEF RunWorkerEnter, RunWorkerExit
    <3>4. \A u \in Workers : pc'[u] \notin TaskLocations
      BY <1>b, <2>1, <3>2
         DEF RunWorkerEnter, RunWorkerExit, Transition, TaskLocations
    <3> QED BY <2>1, <3>3, <3>4
  <2> QED BY <1>a, <2>3, <2>4, CountsOrQuiet
\* no other step brings the master there without an interrupt
<1>3. \/ MonitorWhile /\ ~KeepMonitoring
      \/ pc[Master] \in {"join", "done"} /\ ~interrupt_requested
  <2>a. /\ "join" \notin ActiveLocations \cup MonitorLocations \cup {"enter"}
        /\ "done" \notin ActiveLocations \cup MonitorLocations \cup {"enter"}
    BY DEF ActiveLocations, TaskLocations, MonitorLocations
  <2> USE <1>b
  <2> USE DEF Transition, schedule
  <2>1. ASSUME NEW t \in Workers,
               \/ RunWorkerEnter(t) \/ RunWorkerExit(t) \/ StartTask(t)
               \/ FinishTask(t) \/ CollectResult(t) \/ CountCompleted(t)
        PROVE  pc[Master] \in {"join", "done"} /\ ~interrupt_requested
    BY <2>1 DEF RunWorkerEnter, RunWorkerExit, StartTask, FinishTask,
                CollectResult, CountCompleted
  <2>2. ASSUME NEW t \in Workers,
               \/ WorkerPoll(t) \/ SubmitStatusReport(t) \/ TreatReport(t)
               \/ GetTask(t)
        PROVE  pc[Master] \in {"join", "done"} /\ ~interrupt_requested
    BY <2>2 DEF WorkerPoll, SubmitStatusReport, TreatReport, GetTask
  <2>3. ASSUME NEW t \in Workers, InterruptWithInnerException(t) PROVE FALSE
    BY <2>3 DEF InterruptWithInnerException, CatchException
  <2>4. ASSUME MasterPoll \/ MonitorPoll PROVE FALSE
    BY <2>4 DEF MasterPoll, MonitorPoll, TaskInterrupted
  <2>5. ASSUME MasterPollSend("except") \/ MonitorSend("monitor_except")
        PROVE  FALSE
    BY <2>5 DEF MasterPollSend, MonitorSend, MasterSendIfReady
  <2>6. ASSUME MonitorWhile PROVE ~KeepMonitoring
    BY <2>6 DEF MonitorWhile
  <2>7. ASSUME AfterExit PROVE FALSE
    BY <2>7 DEF AfterExit
  <2>8. ASSUME RunEpilog
        PROVE  pc[Master] \in {"join", "done"} /\ ~interrupt_requested
    BY <2>8 DEF RunEpilog
  <2>9. ASSUME \/ RequestStatusReport \/ RequestInterrupt \/ IntervalElapses
               \/ SetStatusReportHandler \/ RequestPeriodicStatusReport
               \/ UNCHANGED vars
        PROVE  pc[Master] \in {"join", "done"} /\ ~interrupt_requested
    BY <2>9 DEF RequestStatusReport, RequestInterrupt, IntervalElapses,
                SetStatusReportHandler, RequestPeriodicStatusReport, vars
  <2> QED BY NextCases, <2>1, <2>2, <2>3, <2>4, <2>5, <2>6, <2>7, <2>8, <2>9
<1> QED BY <1>1, <1>2, <1>3

-----------------------------------------------------------------------------
LEMMA CountersInit ==
  ASSUME Init
  PROVE  Counters
<1>1. pc = [t \in Workers |-> "enter"] /\ num_completed = 0 /\ results = {}
      /\ num_active_working_threads = 0
  BY DEF Init
<1>2. At(ActiveLocations) = {} /\ {t \in Workers : pc[t] = "count"} = {}
  BY <1>1 DEF At, ActiveLocations, TaskLocations
<1>3. ActiveAccounting /\ CompletedAccounting
  BY <1>1, <1>2, FS_EmptySet DEF ActiveAccounting, CompletedAccounting
<1>4. MasterLeavesLast
  BY <1>1, MasterIsWorker DEF MasterLeavesLast
<1> QED BY <1>3, <1>4 DEF Counters

LEMMA CountersStep ==
  ASSUME IInv, Counters, [Next]_vars
  PROVE  Counters'
<1>1. TypeOK /\ HoldersLaunched /\ TaskOwnership BY DEF IInv
<1>2. ActiveAccounting' BY <1>1, ActiveStep DEF Counters
<1>3. CompletedAccounting' BY <1>1, CompletedStep DEF Counters
<1>4. MasterLeavesLast' BY MasterStepLast DEF Counters
<1> QED BY <1>2, <1>3, <1>4 DEF Counters

\* The counters of CxxThreads are right in every state of run().
THEOREM CountersRight == Spec => []Counters
<1>1. Init => Counters BY CountersInit
<1>2. IInv /\ Counters /\ [Next]_vars => Counters' BY CountersStep
<1> QED BY <1>1, <1>2, Invariance, PTL DEF Spec

\* num_completed never overtakes the stored results, and lags them exactly by
\* the threads between storing a result and counting it.
THEOREM CompletedCountExact == Spec => []CompletedAccounting
<1>1. Counters => CompletedAccounting BY DEF Counters
<1> QED BY <1>1, CountersRight, PTL

\* Unless stopped, the master stops monitoring only when every task has been
\* completed and counted and no thread runs one.
THEOREM MasterIsLast == Spec => []MasterLeavesLast
<1>1. Counters => MasterLeavesLast BY DEF Counters
<1> QED BY <1>1, CountersRight, PTL

-----------------------------------------------------------------------------
\* Part three: the full reports.

\* the threads in the hands of a task
Holders == At(TaskLocations)

\* the tasks counted and the tasks in hand are different launched tasks
LaunchedBound ==
  num_completed + Cardinality(Holders) <= num_launched

\* so are the tasks counted when the report was begun and those of the threads
\* which have answered or still may
ReportBound ==
  in_preparation =>
    report_completed + Cardinality(workers_running \cup Holders) <= num_launched

Figures ==
  /\ WaitingBounded
  /\ LaunchedBound
  /\ ReportBound

-----------------------------------------------------------------------------
\* A smaller set of threads has a smaller size.
LEMMA Smaller ==
  ASSUME NEW S \in SUBSET Workers, NEW R \in SUBSET S
  PROVE  Cardinality(R) <= Cardinality(S)
BY SizeOfThreads, FS_Subset

\* One more thread adds one at most.
LEMMA OneMore ==
  ASSUME NEW S \in SUBSET Workers, NEW t \in Workers, NEW R \in SUBSET (S \cup {t})
  PROVE  Cardinality(R) <= Cardinality(S) + 1
<1>1. Cardinality(S \cup {t}) <= Cardinality(S) + 1
  BY SizeOfThreads, FS_AddElement
<1>2. Cardinality(R) <= Cardinality(S \cup {t})
  BY Smaller
<1>3. /\ Cardinality(S) \in Nat /\ Cardinality(R) \in Nat
      /\ Cardinality(S \cup {t}) \in Nat
  BY SizeOfThreads
<1> QED BY <1>1, <1>2, <1>3

LEMMA HoldersAreWorkers == Holders \in SUBSET Workers
BY DEF Holders, At

-----------------------------------------------------------------------------
\* A thread comes to hold a task only by launching it.
Launches(t) ==
  /\ t \in Workers
  /\ Holders' \subseteq Holders \cup {t}
  /\ num_launched' = num_launched + 1
  /\ UNCHANGED <<accounting, num_completed>>

NobodyLaunches ==
  Holders' \subseteq Holders /\ UNCHANGED num_launched

LEMMA HoldersStep ==
  ASSUME TypeOK, [Next]_vars
  PROVE  NobodyLaunches \/ \E t \in Workers : Launches(t)
<1> USE MasterIsWorker
<1> USE DEF TypeOK, schedule, TaskLocations, Holders, At, Transition,
            NobodyLaunches
<1>1. ASSUME NEW t \in Workers,
             \/ RunWorkerEnter(t) \/ RunWorkerExit(t) \/ StartTask(t)
             \/ FinishTask(t) \/ CollectResult(t) \/ CountCompleted(t)
      PROVE  NobodyLaunches
  BY <1>1 DEF RunWorkerEnter, RunWorkerExit, StartTask, FinishTask,
              CollectResult, CountCompleted
<1>2. ASSUME NEW t \in Workers,
             \/ InterruptWithInnerException(t) \/ WorkerPoll(t)
             \/ SubmitStatusReport(t) \/ TreatReport(t)
      PROVE  NobodyLaunches
  BY <1>2 DEF InterruptWithInnerException, WorkerPoll, SubmitStatusReport,
              TreatReport
<1>3. ASSUME NEW t \in Workers, GetTask(t)
      PROVE  NobodyLaunches \/ Launches(t)
  BY <1>3 DEF GetTask, LaunchTask, Launches
<1>4. ASSUME MasterPoll \/ MonitorPoll PROVE NobodyLaunches
  BY <1>4 DEF MasterPoll, MonitorPoll
<1>5. ASSUME MasterPollSend("except") PROVE NobodyLaunches
  BY <1>5 DEF MasterPollSend, MasterSendIfReady
<1>6. ASSUME MonitorSend("monitor_except") PROVE NobodyLaunches
  BY <1>6 DEF MonitorSend, MasterSendIfReady
<1>7. ASSUME MonitorWhile \/ RunEpilog \/ AfterExit PROVE NobodyLaunches
  BY <1>7 DEF MonitorWhile, RunEpilog, AfterExit
<1>8. ASSUME \/ RequestStatusReport \/ RequestInterrupt \/ IntervalElapses
             \/ SetStatusReportHandler \/ RequestPeriodicStatusReport
             \/ UNCHANGED vars
      PROVE  NobodyLaunches
  BY <1>8 DEF RequestStatusReport, RequestInterrupt, IntervalElapses,
              SetStatusReportHandler, RequestPeriodicStatusReport, vars
<1> QED BY NextCases, <1>1, <1>2, <1>3, <1>4, <1>5, <1>6, <1>7, <1>8

\* What a step does to the accounting of the report: nothing, a report begun
\* or sent, one answer, or a thread that leaves.
Begins ==
  /\ in_preparation'
  /\ workers_running' = {}
  /\ report_completed' = num_completed
  /\ num_waiting_reports' = num_active_working_threads

Answers(t) ==
  /\ UNCHANGED <<in_preparation, report_completed>>
  /\ t \in Holders
  /\ num_waiting_reports' = num_waiting_reports - 1
  /\ workers_running' \subseteq workers_running \cup {t}

WaitsForLess ==
  /\ UNCHANGED <<in_preparation, report_completed, workers_running>>
  /\ num_waiting_reports' \in Int
  /\ num_waiting_reports' <= num_waiting_reports

LEMMA AccountingStep ==
  ASSUME TypeOK, [Next]_vars
  PROVE  \/ UNCHANGED accounting \/ Begins \/ ~in_preparation'
         \/ (\E t \in Workers : Answers(t)) \/ WaitsForLess
<1> USE MasterIsWorker
<1> DEFINE Goal == \/ UNCHANGED accounting \/ Begins \/ ~in_preparation'
                   \/ (\E t \in Workers : Answers(t)) \/ WaitsForLess
<1>1. ASSUME MasterPoll \/ MonitorPoll PROVE Goal
  <2>1. UNCHANGED accounting \/ InitiateStatusReport
    BY <1>1, Zenon DEF MasterPoll, MonitorPoll, MasterUpdateEventCounter, accounting
  <2>2. CASE InitiateStatusReport
    BY <2>2 DEF InitiateStatusReport, Begins
  <2> QED BY <2>1, <2>2
<1>2. ASSUME MasterPollSend("except") \/ MonitorSend("monitor_except") PROVE Goal
  <2>1. UNCHANGED accounting \/ ResetReport
    BY <1>2, Zenon DEF MasterPollSend, MonitorSend, MasterSendIfReady
  <2> QED BY <2>1 DEF ResetReport
<1>3. ASSUME NEW t \in Workers, RunWorkerExit(t) PROVE Goal
  BY <1>3 DEF RunWorkerExit, LeavesLastReport, WaitsForLess, TypeOK
<1>4. ASSUME NEW t \in Workers, TreatReport(t) PROVE Goal
  <2>1. t \in Holders
    BY <1>4 DEF TreatReport, Transition, Holders, At, TaskLocations
  <2> QED BY <1>4, <2>1 DEF TreatReport, Answers, OneReportLess, CompletedShown
<1>5. ASSUME NEW t \in Workers,
             \/ RunWorkerEnter(t) \/ StartTask(t) \/ FinishTask(t)
             \/ CollectResult(t) \/ CountCompleted(t)
             \/ InterruptWithInnerException(t) \/ WorkerPoll(t)
             \/ SubmitStatusReport(t) \/ GetTask(t)
      PROVE  UNCHANGED accounting
  BY <1>5 DEF RunWorkerEnter, StartTask, FinishTask, CollectResult,
              CountCompleted, InterruptWithInnerException, WorkerPoll,
              SubmitStatusReport, GetTask, accounting
<1>6. ASSUME \/ MonitorWhile \/ RunEpilog \/ AfterExit \/ RequestStatusReport
             \/ RequestInterrupt \/ IntervalElapses \/ SetStatusReportHandler
             \/ RequestPeriodicStatusReport \/ UNCHANGED vars
      PROVE  UNCHANGED accounting
  BY <1>6 DEF MonitorWhile, RunEpilog, AfterExit, RequestStatusReport,
              RequestInterrupt, IntervalElapses, SetStatusReportHandler,
              RequestPeriodicStatusReport, vars, accounting
<1> QED BY NextCases, <1>1, <1>2, <1>3, <1>4, <1>5, <1>6

-----------------------------------------------------------------------------
\* A report begun waits for the active threads; an answer that fills a slot
\* takes one off.
LEMMA WaitingStep ==
  ASSUME TypeOK, ActiveAccounting, WaitingBounded, [Next]_vars
  PROVE  WaitingBounded'
<1>a. /\ \A S \in SUBSET Workers : Cardinality(S) \in Nat
      /\ workers_running \in SUBSET Workers /\ num_waiting_reports \in Int
      /\ Workers \in SUBSET Workers
  BY SizeOfThreads DEF TypeOK
<1>1. CASE UNCHANGED accounting
  BY <1>1 DEF accounting, WaitingBounded
<1>2. CASE Begins
  <2>1. /\ num_active_working_threads <= Cardinality(Workers)
        /\ num_active_working_threads \in Nat
    BY <1>a, Smaller DEF ActiveAccounting, At
  <2>2. Cardinality({}) = 0
    BY FS_EmptySet
  <2> QED BY <1>2, <1>a, <2>1, <2>2 DEF Begins, WaitingBounded
<1>3. CASE ~in_preparation'
  BY <1>3 DEF WaitingBounded
<1>4. ASSUME NEW t \in Workers, Answers(t) PROVE WaitingBounded'
  <2>1. /\ Cardinality(workers_running') <= Cardinality(workers_running) + 1
        /\ workers_running' \in SUBSET Workers
    BY <1>4, <1>a, OneMore DEF Answers
  <2>2. /\ num_waiting_reports' = num_waiting_reports - 1
        /\ in_preparation' = in_preparation
    BY <1>4 DEF Answers
  <2>3. Cardinality(workers_running) \in Nat /\ Cardinality(workers_running') \in Nat
        /\ Cardinality(Workers) \in Nat
    BY <1>a, <2>1
  <2> QED BY <1>a, <2>1, <2>2, <2>3 DEF WaitingBounded
<1>5. CASE WaitsForLess
  BY <1>5, <1>a DEF WaitsForLess, WaitingBounded
<1> QED BY AccountingStep, <1>1, <1>2, <1>3, <1>4, <1>5

\* Launching a task moves both sides of the bound, and counting a result moves
\* a thread from one summand to the other.
LEMMA LaunchedStep ==
  ASSUME TypeOK, LaunchedBound, [Next]_vars
  PROVE  LaunchedBound'
<1>a. /\ Cardinality(Holders) \in Nat /\ Cardinality(Holders)' \in Nat
      /\ num_launched \in Nat /\ num_completed \in Nat
      /\ Holders' \in SUBSET Workers
  BY HoldersAreWorkers, SizeOfThreads DEF TypeOK, Holders, At
<1>1. CASE \E t \in Workers : CountCompleted(t)
  <2>1. PICK t \in Workers : CountCompleted(t)
    BY <1>1
  <2>2. Cardinality(Holders)' = Cardinality(Holders) - 1
    BY <2>1, MovesOut
       DEF CountCompleted, Transition, TaskLocations, TypeOK, Holders
  <2>3. num_completed' = num_completed + 1 /\ num_launched' = num_launched
    BY <2>1 DEF CountCompleted, CountOne
  <2> QED BY <1>a, <2>2, <2>3 DEF LaunchedBound
<1>2. CASE UNCHANGED num_completed /\ NobodyLaunches
  <2>1. Cardinality(Holders') <= Cardinality(Holders)
    BY <1>2, HoldersAreWorkers, Smaller DEF NobodyLaunches
  <2> QED BY <1>2, <1>a, <2>1 DEF NobodyLaunches, LaunchedBound
<1>3. ASSUME NEW t \in Workers, Launches(t) PROVE LaunchedBound'
  <2>1. Cardinality(Holders') <= Cardinality(Holders) + 1
    BY <1>3, HoldersAreWorkers, OneMore DEF Launches
  <2> QED BY <1>3, <1>a, <2>1 DEF Launches, LaunchedBound
<1>4. UNCHANGED num_completed \/ \E t \in Workers : CountCompleted(t)
  <2>1. ASSUME NEW t \in Workers, Counts(t), ~CountCompleted(t)
        PROVE  UNCHANGED num_completed
    BY <2>1 DEF Counts, RunWorkerEnter, RunWorkerExit, CollectResult
  <2>2. ASSUME Quiet PROVE UNCHANGED num_completed
    BY <2>2 DEF Quiet
  <2> QED BY CountsOrQuiet, <2>1, <2>2
<1> QED BY HoldersStep, <1>1, <1>2, <1>3, <1>4

\* The bound of a report is that of its beginning, and an answer comes from a
\* thread that is in it already.
LEMMA ReportStep ==
  ASSUME TypeOK, LaunchedBound, ReportBound, [Next]_vars
  PROVE  ReportBound'
<1> DEFINE Shown == workers_running \cup Holders
<1>a. /\ Holders \in SUBSET Workers /\ Holders' \in SUBSET Workers
      /\ Shown \in SUBSET Workers
      /\ \A S \in SUBSET Workers : Cardinality(S) \in Nat
      /\ num_launched \in Nat /\ num_completed \in Nat /\ report_completed \in Nat
  BY HoldersAreWorkers, SizeOfThreads DEF TypeOK, Holders, At
<1>1. CASE ~in_preparation'
  BY <1>1 DEF ReportBound
<1>2. CASE NobodyLaunches /\ Begins
  <2>1. Cardinality(Holders') <= Cardinality(Holders)
    BY <1>2, <1>a, Smaller DEF NobodyLaunches
  <2>2. Shown' = Holders' /\ report_completed' = num_completed
    BY <1>2 DEF Begins
  <2> QED BY <1>2, <1>a, <2>1, <2>2 DEF NobodyLaunches, ReportBound, LaunchedBound
<1>3. CASE /\ NobodyLaunches
           /\ \/ UNCHANGED accounting \/ WaitsForLess
              \/ \E t \in Workers : Answers(t)
  <2>1. /\ UNCHANGED <<in_preparation, report_completed, num_launched>>
        /\ Shown' \in SUBSET Shown
    BY <1>3 DEF accounting, WaitsForLess, Answers, NobodyLaunches
  <2>2. Cardinality(Shown') <= Cardinality(Shown)
    BY <1>a, <2>1, Smaller
  <2>3. Cardinality(Shown) \in Nat /\ Cardinality(Shown') \in Nat
    BY <1>a, <2>1
  <2> HIDE DEF Shown
  <2>4. /\ ReportBound <=> (in_preparation =>
              report_completed + Cardinality(Shown) <= num_launched)
        /\ ReportBound' <=> (in_preparation' =>
              report_completed' + Cardinality(Shown') <= num_launched')
    BY DEF Shown, ReportBound
  <2> QED BY <1>a, <2>1, <2>2, <2>3, <2>4
<1>4. ASSUME NEW t \in Workers, Launches(t) PROVE ReportBound'
  <2>1. /\ UNCHANGED <<in_preparation, report_completed>>
        /\ num_launched' = num_launched + 1
        /\ Shown' \in SUBSET (Shown \cup {t})
    BY <1>4 DEF accounting, Launches
  <2>2. Cardinality(Shown') <= Cardinality(Shown) + 1
    BY <1>a, <2>1, OneMore
  <2>3. Cardinality(Shown) \in Nat /\ Cardinality(Shown') \in Nat
    BY <1>a, <2>1
  <2> HIDE DEF Shown
  <2>4. /\ ReportBound <=> (in_preparation =>
              report_completed + Cardinality(Shown) <= num_launched)
        /\ ReportBound' <=> (in_preparation' =>
              report_completed' + Cardinality(Shown') <= num_launched')
    BY DEF Shown, ReportBound
  <2> QED BY <1>a, <2>1, <2>2, <2>3, <2>4
<1> QED BY HoldersStep, AccountingStep, <1>1, <1>2, <1>3, <1>4

-----------------------------------------------------------------------------
LEMMA FiguresInit ==
  ASSUME Init
  PROVE  Figures
<1>1. ~in_preparation /\ num_completed = 0 /\ num_launched = 0
  BY DEF Init
<1>2. Holders = {}
  BY DEF Init, Holders, At, TaskLocations
<1>3. LaunchedBound
  BY <1>1, <1>2, FS_EmptySet DEF LaunchedBound
<1> QED BY <1>1, <1>3 DEF Figures, WaitingBounded, ReportBound

LEMMA FiguresStep ==
  ASSUME TypeOK, ActiveAccounting, Figures, [Next]_vars
  PROVE  Figures'
BY WaitingStep, LaunchedStep, ReportStep DEF Figures

\* The figures of the full reports are bounded in every state of run().
THEOREM FiguresRight == Spec => []Figures
<1>1. Init => Figures BY FiguresInit
<1>2. TypeOK /\ ActiveAccounting /\ Figures /\ [Next]_vars => Figures'
  BY FiguresStep
<1>3. Counters => ActiveAccounting BY DEF Counters
<1> QED BY <1>1, <1>2, <1>3, TypeCorrect, CountersRight, PTL DEF Spec

\* The master never waits for more answers than there are slots still empty.
THEOREM WaitingIsBounded == Spec => []WaitingBounded
<1>1. Figures => WaitingBounded BY DEF Figures
<1> QED BY <1>1, FiguresRight, PTL

\* totalFractionDone() never counts a task twice: the tasks that were completed
\* when the report was begun and one for each thread that has answered since
\* are at most all the tasks.
THEOREM ProgressIsAtMostOne == Spec => []ProgressAtMostOne
<1>1. TypeOK /\ Figures => ProgressAtMostOne
  <2> SUFFICES ASSUME TypeOK, Figures, in_preparation
               PROVE  report_completed + Cardinality(workers_running) <= NumTotalRuns
    BY DEF ProgressAtMostOne
  <2>1. workers_running \cup Holders \in SUBSET Workers
    BY HoldersAreWorkers DEF TypeOK
  <2>2. Cardinality(workers_running) <= Cardinality(workers_running \cup Holders)
    BY <2>1, Smaller
  <2>3. /\ Cardinality(workers_running) \in Nat
        /\ Cardinality(workers_running \cup Holders) \in Nat
    BY <2>1, SizeOfThreads DEF TypeOK
  <2>4. report_completed + Cardinality(workers_running \cup Holders) <= num_launched
    BY DEF Figures, ReportBound
  <2> QED BY <2>2, <2>3, <2>4, NumTotalRunsAssumption DEF TypeOK
<1> QED BY <1>1, FiguresRight, TypeCorrect, PTL

\* Both counts of a report are right, for any number of threads and tasks.
THEOREM ReportCountsRight == Spec => []ReportCountsSound
<1>1. WaitingBounded /\ ProgressAtMostOne => ReportCountsSound BY DEF ReportCountsSound
<1> QED BY <1>1, WaitingIsBounded, ProgressIsAtMostOne, PTL

=============================================================================
