----------------------------- MODULE CxxThreads -----------------------------
(***************************************************************************)
(* The task dispatcher on C++11 threads, multiprocthreads.h: each thread   *)
(* takes the next task number under the schedule mutex until the tasks or  *)
(* an interrupt end its loop; thread 0 then goes on serving status reports *)
(* until no worker is active, joins the others and ends run().             *)
(***************************************************************************)
EXTENDS ThreadCommon

AllLaunched == num_launched = NumTotalRuns

LaunchTaskUnlocked(t) ==
  /\ task_id' = [task_id EXCEPT ![t] = num_launched]
  /\ num_launched' \in {num_launched, num_launched + 1}

LaunchTask(t) ==
  /\ task_id' = [task_id EXCEPT ![t] = num_launched]
  /\ num_launched' = num_launched + 1

\* the loop of the worker function: the interrupt check, then the next task
\* number, taken under schedule_mutex
GetTask(t) ==
  \/ /\ interrupt_requested
     /\ Transition(t, "loop", "exit")
     /\ UNCHANGED <<schedule, accounting, events, settings, thread, outcome>>
  \/ /\ ~interrupt_requested
     /\ AllLaunched
     /\ Transition(t, "loop", "exit")
     /\ task_id' = [task_id EXCEPT ![t] = -1]
     /\ UNCHANGED <<schedule, accounting, events, settings, local_counter,
                    outcome>>
  \/ /\ ~interrupt_requested
     /\ ~AllLaunched
     /\ Transition(t, "loop", "run")
     /\ LaunchTask(t)
     /\ UNCHANGED <<num_active_working_threads, num_completed,
                    interrupt_requested, inner_exception, results, accounting,
                    events, settings, local_counter, outcome>>

\* the master monitors once out of the active region, unless interrupted
AfterExit ==
  /\ Transition(Master, "exited",
                IF interrupt_requested THEN "join" ELSE "sleep")
  /\ UNCHANGED <<schedule, accounting, events, settings, thread, outcome>>

\* an exception of the callback releases the mutexes: statusReportRequested()
\* throws it into the task, or into the master's monitoring loop
MasterSend == MasterPollSend("except") \/ MonitorSend("monitor_except")

\* what a thread does by itself, whatever its task
Advance(t) ==
  \/ CommonStep(t)
  \/ GetTask(t)
  \/ t = Master /\ (MasterSend \/ AfterExit)

\* run() has ended, the threads are gone
Terminated == outcome # "none" /\ UNCHANGED vars

Next ==
  \/ \E t \in Workers : Advance(t) \/ FinishTask(t)
  \/ Environment
  \/ Terminated

Spec == Init /\ [][Next]_vars

\* every thread is scheduled, and every task keeps polling
FairSpec == Spec /\ \A t \in Workers : WF_vars(Advance(t))

-----------------------------------------------------------------------------
\* The promises of the dispatcher interface
Contract == INSTANCE DispatcherContract WITH
  started <- 0 .. (num_launched - 1),
  delivered <- results,
  stopping <- interrupt_requested,
  failed <- inner_exception

ImplementsContract == Contract!Spec

-----------------------------------------------------------------------------
\* The inductive invariant behind TaskOwnership, OutcomeSound,
\* ReadyIsDeliverable and the refinement

Launched == 0 .. (num_launched - 1)

\* a thread in run_task works on a task that was launched
HoldersLaunched ==
  \A t \in Workers : pc[t] \in TaskLocations => task_id[t] \in Launched

\* unless stopped, a launched task has a result or a thread that works on it
Held(k) == \E t \in Workers :
  task_id[t] = k /\ pc[t] \in TaskLocations \ {"count"}

NothingDropped ==
  \A k \in Launched : k \in results \/ interrupt_requested \/ Held(k)

\* a thread leaves the loop only for these two reasons
LeaveLocations == {"exit", "join", "done"} \cup MonitorLocations

LeaveForAReason ==
  \A t \in Workers :
    pc[t] \in LeaveLocations => interrupt_requested \/ num_launched = NumTotalRuns

\* run() ends after all its threads, and the outcome is final
OutcomeLast ==
  /\ outcome # "none" => \A t \in Workers : pc[t] = "done"
  /\ inner_exception => interrupt_requested

\* the vectors of the full report exist exactly while it is in preparation
VectorsInPlace ==
  /\ in_preparation => reports_size = NumThreads
  /\ ~in_preparation => ~ready /\ reports_size = 0

IInv ==
  /\ TypeOK
  /\ results \subseteq Launched
  /\ HoldersLaunched
  /\ TaskOwnership
  /\ NothingDropped
  /\ LeaveForAReason
  /\ OutcomeLast
  /\ OutcomeSound
  /\ VectorsInPlace

-----------------------------------------------------------------------------
\* Liveness

\* a task that is not stopped ends some day
TasksEnd == \A t \in Workers : SF_vars(FinishTask(t))

\* If the tasks end, run() returns or throws: nobody waits for a thread that is
\* gone, whatever has become of the status reports.
RunEnds == TasksEnd => <>(outcome # "none")

\* Once an interrupt is requested run() throws, although no task would have
\* ended by itself: polling is enough.
InterruptStops ==
  interrupt_requested /\ outcome = "none"
    ~> outcome \in {"interrupted", "exception"}

\* As long as every thread works on a task, a report once begun is handed over,
\* even if no task ever ends: late entrants and answers that come twice do not
\* hold it up.
ReportCompletes ==
  in_preparation ~> \/ ~in_preparation
                    \/ \E t \in Workers : pc[t] \notin ActiveLocations \ {"exit"}

-----------------------------------------------------------------------------
\* What the code says of itself, and does not keep

\* submitStatusReport() finds the slot of its thread in the full report, at
\* least while nobody interrupts: the code prints "Internal inconsistency"
\* otherwise.
NoInternalInconsistency ==
  \A t \in Workers : pc[t] = "treat" /\ ~interrupt_requested => HasSlot(t)

\* "When all the reports have been received from all running threads, the
\* full status report is passed on": a report that is not ready waits for
\* some running thread.
ReportWaitsForSomeone ==
  /\ in_preparation /\ ~ready /\ ~interrupt_requested
  /\ \E t \in Workers : pc[t] \in ActiveLocations
  => \E t \in Workers : /\ pc[t] \in ActiveLocations
                        /\ ReportDue(t) \/ pc[t] = "treat"

=============================================================================
