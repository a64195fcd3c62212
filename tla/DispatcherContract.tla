------------------------- MODULE DispatcherContract -------------------------
(***************************************************************************)
(* What a task dispatcher promises to the caller of its run() method: the  *)
(* type interface "TaskDispatcher" of the library, which the thread, OpenMP*)
(* and MPI dispatchers implement.                                          *)
(*                                                                         *)
(* Every task is handed out at most once and delivers at most one result;  *)
(* run() ends exactly once, and the way it ends is tied to what happened:  *)
(*   - normally only if every task delivered its result and nobody asked   *)
(*     the tasks to stop,                                                  *)
(*   - with TasksInterruptedException only if a stop was asked for and no  *)
(*     exception was caught,                                               *)
(*   - with a rethrown exception only if one was caught.                   *)
(* Nothing is handed out or delivered after run() has ended.               *)
(***************************************************************************)
EXTENDS Naturals

CONSTANT Tasks    \* the task numbers 0 .. num_total_runs-1

VARIABLES
  started,        \* tasks handed out to some worker
  delivered,      \* tasks whose result has been stored
  stopping,       \* the workers have been told to stop
  failed,         \* an exception has been caught in a task or a callback
  outcome         \* how run() ended: "none" until it has

vars == <<started, delivered, stopping, failed, outcome>>

Outcomes == {"none", "ok", "interrupted", "exception"}

TypeOK ==
  /\ started \subseteq Tasks
  /\ delivered \subseteq started
  /\ stopping \in BOOLEAN
  /\ failed \in BOOLEAN
  /\ outcome \in Outcomes

Init ==
  /\ started = {}
  /\ delivered = {}
  /\ stopping = FALSE
  /\ failed = FALSE
  /\ outcome = "none"

Start(k) ==
  /\ outcome = "none"
  /\ k \notin started
  /\ started' = started \cup {k}
  /\ UNCHANGED <<delivered, stopping, failed, outcome>>

Deliver(k) ==
  /\ outcome = "none"
  /\ k \in started \ delivered
  /\ delivered' = delivered \cup {k}
  /\ UNCHANGED <<started, stopping, failed, outcome>>

AskToStop ==
  /\ stopping' = TRUE
  /\ UNCHANGED <<started, delivered, failed, outcome>>

Fail ==
  /\ outcome = "none"
  /\ failed' = TRUE
  /\ stopping' = TRUE
  /\ UNCHANGED <<started, delivered, outcome>>

End(how) ==
  /\ outcome = "none"
  /\ \/ how = "ok" /\ delivered = Tasks /\ ~stopping /\ ~failed
     \/ how = "interrupted" /\ stopping /\ ~failed
     \/ how = "exception" /\ failed
  /\ outcome' = how
  /\ UNCHANGED <<started, delivered, stopping, failed>>

Next ==
  \/ \E k \in Tasks : Start(k) \/ Deliver(k)
  \/ AskToStop
  \/ Fail
  \/ \E how \in Outcomes : End(how)

Spec == Init /\ [][Next]_vars

=============================================================================
