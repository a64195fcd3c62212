----------------------------- MODULE OMPThreads -----------------------------
(***************************************************************************)
(* The task dispatcher on OpenMP threads, multiprocomp.h.  The iterations  *)
(* of the parallel loop, one per task, are dealt out by the OpenMP runtime *)
(* in chunks; a thread runs through all the iterations of its chunk, and   *)
(* run_task() skips them once an interrupt is requested.  Thread 0 then    *)
(* serves status reports in any case, and all the threads meet at the end  *)
(* of the parallel region.                                                 *)
(*                                                                         *)
(* All critical sections are the one unnamed "omp critical" region, which  *)
(* an exception cannot leave: the runtime ends the program.                *)
(*                                                                         *)
(* Init is the state right after the barrier at the start of the parallel  *)
(* region: the master has set schedule.num_threads to the size of the team.*)
(***************************************************************************)
EXTENDS ThreadCommon

CONSTANT ChunkSize    \* n_chunk

ASSUME ChunkSizeAssumption == ChunkSize \in Nat \ {0}
ASSUME TeamAssumption == NumThreads >= 1

VARIABLES
  next_iteration,     \* first iteration that the runtime has not dealt out
  chunk               \* the iterations each thread has still to run through

loop == <<next_iteration, chunk>>

ompvars == <<vars, loop>>

Least(S) == CHOOSE k \in S : \A j \in S : k <= j

OMPInit ==
  /\ Init
  /\ next_iteration = 0
  /\ chunk = [t \in Workers |-> {}]

-----------------------------------------------------------------------------
\* The loop "omp for schedule(dynamic, n_chunk) nowait"

\* for (k = 0; k < num_total_runs; ++k)
Iterations == 0 .. (NumTotalRuns - 1)

\* the iterations dealt out next; the last chunk may be shorter
NextChunk == {k \in Iterations : next_iteration <= k /\ k < next_iteration + ChunkSize}

\* a thread that has run through its chunk asks the runtime for another
TakeChunk(t) ==
  /\ pc[t] = "loop"
  /\ chunk[t] = {}
  /\ NextChunk # {}
  /\ chunk' = [chunk EXCEPT ![t] = NextChunk]
  /\ next_iteration' = next_iteration + ChunkSize
  /\ UNCHANGED vars

IterationShared(t) == Least(UNION {chunk[u] : u \in Workers})

\* k, which is private to the thread
Iteration(t) == Least(chunk[t])

\* private_data.task_id = k, then run_task()
NextIteration(t) ==
  /\ chunk[t] # {}
  /\ Transition(t, "loop", "run")
  /\ task_id' = [task_id EXCEPT ![t] = Iteration(t)]
  /\ chunk' = [chunk EXCEPT ![t] = @ \ {Least(@)}]
  /\ UNCHANGED <<schedule, accounting, events, settings, local_counter, outcome,
                 next_iteration>>

LeaveLoop(t) ==
  /\ chunk[t] = {}
  /\ NextChunk = {}
  /\ Transition(t, "loop", "exit")
  /\ UNCHANGED <<schedule, accounting, events, settings, thread, outcome, loop>>

\* the master monitors whether or not an interrupt was requested
AfterExit ==
  /\ Transition(Master, "exited", "sleep")
  /\ UNCHANGED <<schedule, accounting, events, settings, thread, outcome, loop>>

\* an exception of the callback cannot leave the critical region
Aborted == pc[Master] = "terminated"

MasterSend ==
  /\ MasterPollSend("terminated") \/ MonitorSend("terminated")
  /\ UNCHANGED loop

-----------------------------------------------------------------------------
Advance(t) ==
  /\ ~Aborted
  /\ \/ CommonStep(t) /\ UNCHANGED loop
     \/ TakeChunk(t) \/ NextIteration(t) \/ LeaveLoop(t)
     \/ t = Master /\ (MasterSend \/ AfterExit)

EndTask(t) == ~Aborted /\ FinishTask(t) /\ UNCHANGED loop

Disturb == ~Aborted /\ Environment /\ UNCHANGED loop

Terminated == (Aborted \/ outcome # "none") /\ UNCHANGED ompvars

Next ==
  \/ \E t \in Workers : Advance(t) \/ EndTask(t)
  \/ Disturb
  \/ Terminated

Spec == OMPInit /\ [][Next]_ompvars

FairSpec == Spec /\ \A t \in Workers : WF_ompvars(Advance(t))

-----------------------------------------------------------------------------
\* The loop is dealt out completely and to one thread each: unless stopped,
\* every iteration is still with the runtime, in one thread's chunk, in one
\* thread's hands, or its result is stored - and in one of these places only.
Undealt == {k \in Tasks : next_iteration <= k}

InHand == {task_id[t] : t \in {u \in Workers : pc[u] \in TaskLocations \ {"count"}}}

Partition ==
  /\ TaskOwnership
  /\ Undealt \cap results = {}
  /\ \A t \in Workers :
       /\ chunk[t] \cap (Undealt \cup InHand \cup results) = {}
       /\ \A u \in Workers \ {t} : chunk[t] \cap chunk[u] = {}
  /\ ~interrupt_requested /\ ~Aborted =>
       Tasks = Undealt \cup (UNION {chunk[t] : t \in Workers}) \cup InHand \cup results

OMPTypeOK ==
  /\ TypeOK
  /\ next_iteration \in Nat
  /\ chunk \in [Workers -> SUBSET Tasks]

-----------------------------------------------------------------------------
\* The inductive invariant

LoopTypes ==
  /\ next_iteration \in Nat
  /\ chunk \in [Workers -> SUBSET Tasks]
  /\ pc \in [Workers -> Locations]
  /\ task_id \in [Workers -> Tasks \cup {-1}]
  /\ results \subseteq Tasks
  /\ interrupt_requested \in BOOLEAN
  /\ inner_exception \in BOOLEAN

Holding(t) == pc[t] \in TaskLocations \ {"count"}

\* a thread in run_task() has an iteration that was dealt out, and has stored
\* its result by the time it counts it
HandsDealt ==
  \A t \in Workers : pc[t] \in TaskLocations =>
    /\ task_id[t] \in Tasks
    /\ task_id[t] < next_iteration
    /\ pc[t] = "count" => task_id[t] \in results

\* the parts of Partition, iteration by iteration
DealtOnce ==
  /\ \A k \in results : k < next_iteration
  /\ \A t \in Workers : \A k \in chunk[t] :
       /\ k < next_iteration /\ k \notin results
       /\ \A u \in Workers : Holding(u) => task_id[u] # k
       /\ \A u \in Workers \ {t} : k \notin chunk[u]

NothingDropped ==
  ~interrupt_requested /\ ~Aborted =>
    \A k \in Tasks : k < next_iteration =>
      \/ k \in results
      \/ \E t \in Workers : k \in chunk[t] \/ (Holding(t) /\ task_id[t] = k)

\* past the loop there is no iteration left, neither with the runtime nor in
\* the thread's chunk
AfterLoop == MonitorLocations \cup {"exit", "join", "done"}

LoopDone ==
  \A t \in Workers : pc[t] \in AfterLoop =>
    NumTotalRuns <= next_iteration /\ chunk[t] = {}

\* no thread outlives run(), and an exception interrupts the others
OutcomeLast ==
  /\ outcome # "none" => \A t \in Workers : pc[t] = "done"
  /\ inner_exception => interrupt_requested

IInv ==
  /\ LoopTypes
  /\ TaskOwnership /\ HandsDealt /\ DealtOnce /\ NothingDropped
  /\ LoopDone /\ OutcomeLast

-----------------------------------------------------------------------------
\* The promises of the dispatcher interface; an iteration that is skipped
\* because of an interrupt counts as started
Contract == INSTANCE DispatcherContract WITH
  started <- Tasks \ (Undealt \cup UNION {chunk[t] : t \in Workers}),
  delivered <- results,
  stopping <- interrupt_requested,
  failed <- inner_exception

ImplementsContract == Contract!Spec

\* a task that is not stopped ends some day
TasksEnd == \A t \in Workers : SF_ompvars(EndTask(t))

\* If the tasks end run() ends, unless the callback throws.
RunEnds == TasksEnd => <>(outcome # "none" \/ Aborted)

\* Once an interrupt is requested every thread runs through what is left of
\* the loop without starting a task, and run() throws: no task has to end.
InterruptStops ==
  interrupt_requested /\ outcome = "none"
    ~> outcome \in {"interrupted", "exception"} \/ Aborted

=============================================================================
