-------------------------- MODULE OMPThreadsProofs --------------------------
(***************************************************************************)
(* Proofs about OMPThreads, for any number of threads and iterations and   *)
(* any size of the chunks.                                                 *)
(***************************************************************************)
EXTENDS OMPThreads, WellFoundedInduction, TLAPS

-----------------------------------------------------------------------------
\* The locations of a thread and the steps between them

LEMMA NextCases ==
  ASSUME Next
  PROVE  \/ \E t \in Workers :
              \/ /\ ~Aborted /\ UNCHANGED loop
                 /\ \/ RunWorkerEnter(t) \/ RunWorkerExit(t) \/ StartTask(t)
                    \/ FinishTask(t) \/ CollectResult(t) \/ CountCompleted(t)
                    \/ InterruptWithInnerException(t) \/ WorkerPoll(t)
                    \/ SubmitStatusReport(t) \/ TreatReport(t)
              \/ ~Aborted /\ (TakeChunk(t) \/ NextIteration(t) \/ LeaveLoop(t))
         \/ /\ ~Aborted /\ UNCHANGED loop
            /\ \/ MasterPoll \/ MasterPollSend("terminated")
               \/ MonitorPoll \/ MonitorSend("terminated")
               \/ MonitorWhile \/ RunEpilog \/ AfterExit
               \/ RequestStatusReport \/ RequestInterrupt \/ IntervalElapses
               \/ SetStatusReportHandler \/ RequestPeriodicStatusReport
         \/ UNCHANGED ompvars
BY DEF Next, Advance, EndTask, Disturb, CommonStep, MasterStep, MasterSend, AfterExit,
   Environment, Terminated

LEMMA MasterIsWorker == Master \in Workers
BY NumThreadsAssumption DEF Master, Workers

LEMMA Places ==
  /\ TaskLocations \subseteq Locations /\ AfterLoop \subseteq Locations
  /\ {"run", "task", "poll", "submit", "treat", "collect", "except"}
       \subseteq TaskLocations \ {"count"}
  /\ "count" \in TaskLocations
  /\ {"exit", "exited", "sleep", "monitor", "while", "monitor_except", "join", "done"}
       \subseteq AfterLoop
  /\ {"enter", "loop", "terminated"} \subseteq Locations
  /\ {"enter", "loop", "terminated"} \cap (TaskLocations \cup AfterLoop) = {}
  /\ TaskLocations \cap AfterLoop = {}
BY DEF Locations, ActiveLocations, TaskLocations, MonitorLocations, AfterLoop

\* A set of natural numbers has a least one.
LEMMA LeastIn ==
  ASSUME NEW S \in SUBSET Nat, S # {}
  PROVE  Least(S) \in S
<1> DEFINE R == {ss \in Nat \X Nat : ss[1] < ss[2]}
<1>1. IsWellFoundedOn(R, Nat)
  BY NatLessThanWellFounded, Zenon DEF OpToRel
<1>2. \E x \in S : \A y \in S : x <= y
  <2>1. PICK x \in S : \A y \in S : <<y, x>> \notin R
    BY <1>1, WFMin
  <2>2. ASSUME NEW y \in S PROVE x <= y
    <3>1. <<y, x>> \in Nat \X Nat /\ <<y, x>>[1] = y /\ <<y, x>>[2] = x
      OBVIOUS
    <3>2. ~(y < x)
      BY <2>1, <3>1
    <3> QED BY <3>1, <3>2
  <2> QED BY <2>2
<1> QED BY <1>2 DEF Least

LEMMA TaskNumbers == Tasks \subseteq Nat /\ Iterations = Tasks
BY NumTotalRunsAssumption DEF Tasks, Iterations

-----------------------------------------------------------------------------
\* The parts of the invariant that are about iterations
Dealing ==
  LoopTypes /\ TaskOwnership /\ HandsDealt /\ DealtOnce /\ NothingDropped /\ LoopDone

\* A thread goes from one place to another and keeps its iteration, or drops
\* it because of an interrupt.
LEMMA MoveKeeps ==
  ASSUME Dealing, NEW t \in Workers, pc' \in [Workers -> Locations],
         \A u \in Workers \ {t} : pc'[u] = pc[u],
         UNCHANGED <<task_id, results, loop>>,
         interrupt_requested' \in BOOLEAN, inner_exception' \in BOOLEAN,
         interrupt_requested => interrupt_requested',
         Aborted => Aborted',
         pc'[t] \in TaskLocations =>
           pc[t] \in TaskLocations /\ (pc'[t] = "count" <=> pc[t] = "count"),
         Holding(t) /\ pc'[t] \notin TaskLocations => interrupt_requested' \/ Aborted',
         pc'[t] \in AfterLoop => NumTotalRuns <= next_iteration /\ chunk[t] = {}
  PROVE  Dealing'
<1> USE DEF Dealing, loop
<1>1. LoopTypes'
  BY DEF LoopTypes
<1>2. \A u \in Workers : /\ pc'[u] \in TaskLocations => pc[u] \in TaskLocations
                         /\ Holding(u)' => Holding(u)
                         /\ pc'[u] = "count" => pc[u] = "count"
  BY Places DEF Holding
<1>3. TaskOwnership'
  BY <1>2 DEF TaskOwnership, Holding
<1>4. HandsDealt'
  BY <1>2 DEF HandsDealt
<1>5. DealtOnce'
  BY <1>2 DEF DealtOnce
<1>6. NothingDropped'
  <2> SUFFICES ASSUME ~interrupt_requested', ~Aborted', NEW k \in Tasks,
                      k < next_iteration
               PROVE  \/ k \in results
                      \/ \E u \in Workers :
                           k \in chunk[u] \/ (Holding(u)' /\ task_id[u] = k)
    BY DEF NothingDropped
  <2>1. \A u \in Workers : Holding(u) => Holding(u)'
    BY Places DEF Holding
  <2> QED BY <2>1 DEF NothingDropped
<1>7. LoopDone'
  BY DEF LoopDone
<1> QED BY <1>1, <1>3, <1>4, <1>5, <1>6, <1>7

\* A result is stored.
LEMMA CollectKeeps ==
  ASSUME Dealing, NEW t \in Workers, CollectResult(t), UNCHANGED loop
  PROVE  Dealing'
<1> USE DEF Dealing, loop
<1>1. /\ pc[t] = "collect" /\ pc' = [pc EXCEPT ![t] = "count"]
      /\ results' = results \cup {task_id[t]}
      /\ UNCHANGED <<task_id, interrupt_requested, inner_exception>>
  BY DEF CollectResult, Transition, thread
<1>2. \A u \in Workers : pc'[u] = IF u = t THEN "count" ELSE pc[u]
  BY <1>1 DEF LoopTypes
<1>3. /\ pc[t] \in TaskLocations /\ Holding(t) /\ ~Holding(t)'
      /\ task_id[t] \in Tasks /\ task_id[t] < next_iteration
  BY <1>1, <1>2, Places DEF HandsDealt, Holding
<1>4. \A u \in Workers : /\ pc'[u] \in TaskLocations <=> pc[u] \in TaskLocations
                         /\ u # t => (Holding(u)' <=> Holding(u))
                         /\ pc'[u] = "count" => u = t \/ pc[u] = "count"
                         /\ pc'[u] \in AfterLoop => pc[u] \in AfterLoop
  BY <1>1, <1>2, Places DEF Holding
<1>5. LoopTypes'
  BY <1>1, <1>3, Places DEF LoopTypes
<1>6. TaskOwnership'
  <2>1. \A u \in Workers \ {t} : pc[u] \in TaskLocations => task_id[u] # task_id[t]
    BY <1>3 DEF TaskOwnership
  <2> QED BY <1>1, <1>2, <1>4, <2>1 DEF TaskOwnership
<1>7. HandsDealt'
  BY <1>1, <1>3, <1>4 DEF HandsDealt
<1>8. DealtOnce'
  <2>1. \A u \in Workers : task_id[t] \notin chunk[u]
    BY <1>3 DEF DealtOnce
  <2> QED BY <1>1, <1>3, <1>4, <2>1 DEF DealtOnce
<1>9. NothingDropped'
  <2>1. Aborted' <=> Aborted
    BY <1>1, <1>2, MasterIsWorker DEF Aborted
  <2> QED BY <1>1, <1>4, <2>1 DEF NothingDropped
<1>10. LoopDone'
  BY <1>4 DEF LoopDone
<1> QED BY <1>5, <1>6, <1>7, <1>8, <1>9, <1>10

\* The runtime deals out the next chunk.
LEMMA TakeChunkKeeps ==
  ASSUME Dealing, NEW t \in Workers, TakeChunk(t)
  PROVE  Dealing'
<1> USE DEF Dealing
<1>1. /\ pc[t] = "loop" /\ chunk[t] = {}
      /\ chunk' = [chunk EXCEPT ![t] = NextChunk]
      /\ next_iteration' = next_iteration + ChunkSize
      /\ UNCHANGED <<pc, task_id, results, interrupt_requested, inner_exception>>
  BY DEF TakeChunk, vars, schedule, thread
<1>2. \A u \in Workers : chunk'[u] = IF u = t THEN NextChunk ELSE chunk[u]
  BY <1>1 DEF LoopTypes
<1>3. /\ next_iteration \in Nat /\ next_iteration' \in Nat
      /\ \A k \in Nat : k < next_iteration => k < next_iteration'
  BY <1>1, ChunkSizeAssumption DEF LoopTypes
<1>4. \A k \in Tasks : k \in NextChunk <=> ~(k < next_iteration) /\ k < next_iteration'
  BY <1>1, <1>3, TaskNumbers DEF NextChunk
<1>5. NextChunk \subseteq Tasks
  BY TaskNumbers DEF NextChunk
<1>6. \A u \in Workers : Holding(u)' <=> Holding(u)
  BY <1>1 DEF Holding
<1>7. LoopTypes'
  BY <1>1, <1>3, <1>5 DEF LoopTypes
<1>8. TaskOwnership'
  BY <1>1 DEF TaskOwnership
<1>9. HandsDealt'
  BY <1>1, <1>3, TaskNumbers DEF HandsDealt
<1>10. DealtOnce'
  <2>1. \A k \in results : k < next_iteration'
    BY <1>3, TaskNumbers DEF DealtOnce, LoopTypes
  <2>2. ASSUME NEW u \in Workers, NEW k \in chunk'[u]
        PROVE  /\ k < next_iteration' /\ k \notin results
               /\ \A v \in Workers : Holding(v)' => task_id[v] # k
               /\ \A v \in Workers \ {u} : k \notin chunk'[v]
    <3>1. CASE u = t
      <4>1. k \in Tasks /\ k \in NextChunk /\ ~(k < next_iteration) /\ k < next_iteration'
        BY <1>2, <1>4, <1>5, <2>2, <3>1
      <4>2. k \notin results
        BY <4>1 DEF DealtOnce
      <4>3. \A v \in Workers : Holding(v)' => task_id[v] # k
        BY <1>6, <4>1, Places DEF HandsDealt, Holding
      <4>4. \A v \in Workers \ {u} : k \notin chunk'[v]
        BY <1>2, <3>1, <4>1 DEF DealtOnce
      <4> QED BY <4>1, <4>2, <4>3, <4>4
    <3>2. CASE u # t
      <4>1. k \in chunk[u] /\ k < next_iteration /\ k \in Tasks
        BY <1>2, <2>2, <3>2 DEF DealtOnce, LoopTypes
      <4>2. k \notin chunk'[t]
        BY <1>2, <1>4, <4>1
      <4> QED BY <1>2, <1>3, <1>6, <4>1, <4>2, TaskNumbers DEF DealtOnce
    <3> QED BY <3>1, <3>2
  <2> QED BY <1>1, <2>1, <2>2 DEF DealtOnce
<1>11. NothingDropped'
  <2> SUFFICES ASSUME ~interrupt_requested, ~Aborted, NEW k \in Tasks,
                      k < next_iteration'
               PROVE  \/ k \in results
                      \/ \E u \in Workers :
                           k \in chunk'[u] \/ (Holding(u)' /\ task_id[u] = k)
    BY <1>1 DEF NothingDropped, Aborted
  <2>1. CASE k < next_iteration
    <3>1. \A u \in Workers : k \in chunk[u] => k \in chunk'[u]
      BY <1>1, <1>2
    <3> QED BY <1>6, <2>1, <3>1 DEF NothingDropped
  <2>2. CASE ~(k < next_iteration)
    BY <1>2, <1>4, <2>2
  <2> QED BY <2>1, <2>2
<1>12. LoopDone'
  <2>1. pc[t] \notin AfterLoop
    BY <1>1, Places
  <2> QED BY <1>1, <1>2, <1>3, <2>1, NumTotalRunsAssumption DEF LoopDone
<1> QED BY <1>7, <1>8, <1>9, <1>10, <1>11, <1>12

\* A thread takes the next iteration of its chunk.
LEMMA NextIterationKeeps ==
  ASSUME Dealing, NEW t \in Workers, NextIteration(t)
  PROVE  /\ Dealing'
         /\ Iteration(t) \in chunk[t]
         /\ task_id'[t] = Iteration(t)
         /\ chunk' = [chunk EXCEPT ![t] = @ \ {Iteration(t)}]
<1> USE DEF Dealing
<1> DEFINE k0 == Iteration(t)
<1>1. /\ chunk[t] # {} /\ pc[t] = "loop" /\ pc' = [pc EXCEPT ![t] = "run"]
      /\ task_id' = [task_id EXCEPT ![t] = k0]
      /\ chunk' = [chunk EXCEPT ![t] = @ \ {k0}]
      /\ UNCHANGED <<next_iteration, results, interrupt_requested, inner_exception>>
  BY DEF NextIteration, Transition, schedule, Iteration
<1>2. k0 \in chunk[t] /\ k0 \in Tasks
  <2>1. chunk[t] \in SUBSET Nat /\ chunk[t] \subseteq Tasks
    BY TaskNumbers DEF LoopTypes
  <2> QED BY <1>1, <2>1, LeastIn DEF Iteration
<1> HIDE DEF k0
<1>3. \A u \in Workers : /\ pc'[u] = IF u = t THEN "run" ELSE pc[u]
                         /\ task_id'[u] = IF u = t THEN k0 ELSE task_id[u]
                         /\ chunk'[u] = IF u = t THEN chunk[t] \ {k0} ELSE chunk[u]
  BY <1>1 DEF LoopTypes
<1>4. /\ pc[t] \notin TaskLocations /\ pc'[t] \in TaskLocations \ {"count"}
      /\ pc'[t] \notin AfterLoop
      /\ Holding(t)' /\ ~Holding(t)
      /\ \A u \in Workers \ {t} : Holding(u)' <=> Holding(u)
  BY <1>1, <1>3, Places DEF Holding
<1>5. /\ k0 < next_iteration /\ k0 \notin results
      /\ \A u \in Workers \ {t} : k0 \notin chunk[u]
      /\ \A u \in Workers : Holding(u) => task_id[u] # k0
  BY <1>2 DEF DealtOnce
<1>6. \A u \in Workers : pc[u] \in TaskLocations => task_id[u] # k0
  BY <1>5 DEF HandsDealt, Holding
<1>7. LoopTypes'
  BY <1>1, <1>2, Places DEF LoopTypes
<1>8. TaskOwnership'
  BY <1>1, <1>3, <1>4, <1>5, <1>6 DEF TaskOwnership
<1>9. HandsDealt'
  BY <1>1, <1>2, <1>3, <1>4, <1>5 DEF HandsDealt
<1>10. DealtOnce'
  <2>1. ASSUME NEW u \in Workers, NEW k \in chunk'[u]
        PROVE  /\ k < next_iteration /\ k \notin results
               /\ \A v \in Workers : Holding(v)' => task_id'[v] # k
               /\ \A v \in Workers \ {u} : k \notin chunk'[v]
    <3>1. k \in chunk[u] /\ k # k0
      BY <1>3, <1>5, <2>1
    <3> QED BY <1>3, <1>4, <3>1 DEF DealtOnce
  <2> QED BY <1>1, <2>1 DEF DealtOnce
<1>11. NothingDropped'
  <2> SUFFICES ASSUME ~interrupt_requested, ~Aborted, NEW k \in Tasks,
                      k < next_iteration
               PROVE  \/ k \in results
                      \/ \E u \in Workers :
                           k \in chunk'[u] \/ (Holding(u)' /\ task_id'[u] = k)
    BY <1>1, <1>3, MasterIsWorker DEF NothingDropped, Aborted
  <2>1. CASE k = k0
    BY <1>3, <1>4, <2>1
  <2>2. CASE k # k0
    <3>1. \A u \in Workers : /\ k \in chunk[u] => k \in chunk'[u]
                             /\ Holding(u) => Holding(u)' /\ task_id'[u] = task_id[u]
      BY <1>3, <1>4, <2>2
    <3> QED BY <3>1 DEF NothingDropped
  <2> QED BY <2>1, <2>2
<1>12. LoopDone'
  BY <1>1, <1>3, <1>4 DEF LoopDone
<1> USE DEF k0
<1> QED BY <1>1, <1>2, <1>3, <1>7, <1>8, <1>9, <1>10, <1>11, <1>12

\* Once the runtime has no chunk left, all the iterations are dealt out.
LEMMA NoChunkLeft ==
  ASSUME next_iteration \in Nat, NextChunk = {}
  PROVE  NumTotalRuns <= next_iteration
<1> SUFFICES ASSUME next_iteration < NumTotalRuns PROVE FALSE
  BY NumTotalRunsAssumption
<1>1. next_iteration \in NextChunk
  BY NumTotalRunsAssumption, ChunkSizeAssumption DEF NextChunk, Iterations
<1> QED BY <1>1

LEMMA DealingStep ==
  ASSUME Dealing, OutcomeLast, [Next]_ompvars
  PROVE  Dealing'
<1> USE MasterIsWorker
<1> USE DEF Transition, schedule, thread
<1>t. /\ pc \in [Workers -> Locations] /\ next_iteration \in Nat
      /\ interrupt_requested \in BOOLEAN /\ inner_exception \in BOOLEAN
  BY DEF Dealing, LoopTypes
<1>h. /\ \A t \in Workers : Holding(t) <=> pc[t] \in TaskLocations /\ pc[t] # "count"
      /\ Aborted <=> pc[Master] = "terminated"
      /\ Aborted' <=> pc'[Master] = "terminated"
  BY DEF Holding, Aborted
<1>l. ASSUME NEW t \in Workers, pc[t] \in AfterLoop
      PROVE  NumTotalRuns <= next_iteration /\ chunk[t] = {}
  BY <1>l DEF Dealing, LoopDone
\* a thread goes to another place, out of the hands of its iteration, ...
<1>o. ASSUME NEW t \in Workers, NEW to \in {"loop", "terminated"},
             pc' = [pc EXCEPT ![t] = to], ~Aborted,
             UNCHANGED <<task_id, results, interrupt_requested, inner_exception, loop>>,
             ~Holding(t) \/ interrupt_requested \/ Aborted'
      PROVE  Dealing'
  <2>1. pc' \in [Workers -> Locations] /\ pc'[t] = to
        /\ \A u \in Workers \ {t} : pc'[u] = pc[u]
    BY <1>o, <1>t, Places
  <2>2. pc'[t] \notin TaskLocations /\ pc'[t] \notin AfterLoop
    BY <2>1, Places
  <2> QED BY <1>o, <1>t, <2>1, <2>2, MoveKeeps
\* ... with its iteration, ...
<1>k. ASSUME NEW t \in Workers, NEW to \in TaskLocations \ {"count"},
             pc' = [pc EXCEPT ![t] = to], ~Aborted, Holding(t),
             UNCHANGED <<task_id, results, interrupt_requested, inner_exception, loop>>
      PROVE  Dealing'
  <2>1. pc' \in [Workers -> Locations] /\ pc'[t] = to
        /\ \A u \in Workers \ {t} : pc'[u] = pc[u]
    BY <1>k, <1>t, Places
  <2>2. /\ pc'[t] \in TaskLocations /\ pc'[t] \notin AfterLoop
        /\ pc[t] \in TaskLocations /\ (pc'[t] = "count" <=> pc[t] = "count")
    BY <1>h, <1>k, <2>1, Places
  <2> QED BY <1>k, <1>t, <2>1, <2>2, MoveKeeps
\* ... or past the loop
<1>r. ASSUME NEW t \in Workers, NEW to \in AfterLoop, ~Holding(t),
             pc' = [pc EXCEPT ![t] = to], ~Aborted,
             NumTotalRuns <= next_iteration, chunk[t] = {},
             UNCHANGED <<task_id, results, loop>>,
             interrupt_requested' \in BOOLEAN, inner_exception' \in BOOLEAN,
             interrupt_requested => interrupt_requested'
      PROVE  Dealing'
  <2>1. pc' \in [Workers -> Locations] /\ pc'[t] = to
        /\ \A u \in Workers \ {t} : pc'[u] = pc[u]
    BY <1>r, <1>t, Places
  <2>2. pc'[t] \notin TaskLocations
    BY <1>r, <2>1, Places
  <2> QED BY <1>r, <2>1, <2>2, MoveKeeps
<1>p. ASSUME NEW t \in Workers, NEW to \in AfterLoop, ~Holding(t),
             pc' = [pc EXCEPT ![t] = to], ~Aborted,
             NumTotalRuns <= next_iteration, chunk[t] = {},
             UNCHANGED <<task_id, results, interrupt_requested, inner_exception, loop>>
      PROVE  Dealing'
  BY <1>p, <1>r, <1>t
\* nobody goes anywhere
<1>s. ASSUME UNCHANGED <<pc, task_id, results, inner_exception, loop>>,
             interrupt_requested' = interrupt_requested \/ interrupt_requested' = TRUE
      PROVE  Dealing'
  <2>1. interrupt_requested' \in BOOLEAN /\ inner_exception' \in BOOLEAN
        /\ (interrupt_requested => interrupt_requested')
    BY <1>s, <1>t, Zenon
  <2> QED BY <1>h, <1>l, <1>s, <1>t, <2>1, MoveKeeps
<1>1. ASSUME NEW t \in Workers, RunWorkerEnter(t), ~Aborted, UNCHANGED loop PROVE Dealing'
  <2>1. ~Holding(t)
    BY <1>1, <1>h, Places DEF RunWorkerEnter
  <2> QED BY <1>1, <1>o, <2>1 DEF RunWorkerEnter
<1>2. ASSUME NEW t \in Workers, RunWorkerExit(t), ~Aborted, UNCHANGED loop PROVE Dealing'
  <2>1. NumTotalRuns <= next_iteration /\ chunk[t] = {} /\ ~Holding(t)
    BY <1>2, <1>h, <1>l, Places DEF RunWorkerExit
  <2>2. PICK to \in {"exited", "done"} : pc' = [pc EXCEPT ![t] = to]
    BY <1>2 DEF RunWorkerExit
  <2> QED BY <1>2, <1>p, <2>1, <2>2, Places DEF RunWorkerExit
<1>3. ASSUME NEW t \in Workers, StartTask(t), ~Aborted, UNCHANGED loop PROVE Dealing'
  <2>1. Holding(t)
    BY <1>3, <1>h, Places DEF StartTask
  <2>2. PICK to \in {"loop", "task", "except"} :
          pc' = [pc EXCEPT ![t] = to] /\ (to = "loop" => interrupt_requested)
    BY <1>3 DEF StartTask
  <2>3. CASE to = "loop"
    BY <1>3, <1>o, <2>2, <2>3 DEF StartTask
  <2>4. CASE to # "loop"
    BY <1>3, <1>k, <2>1, <2>2, <2>4, Places DEF StartTask
  <2> QED BY <2>3, <2>4
<1>4. ASSUME NEW t \in Workers, FinishTask(t), ~Aborted, UNCHANGED loop PROVE Dealing'
  <2>1. PICK to \in {"collect", "except"} : pc' = [pc EXCEPT ![t] = to]
    BY <1>4 DEF FinishTask
  <2>2. Holding(t)
    BY <1>4, <1>h, Places DEF FinishTask
  <2> QED BY <1>4, <1>k, <2>1, <2>2, Places DEF FinishTask
<1>5. ASSUME NEW t \in Workers, CollectResult(t), UNCHANGED loop PROVE Dealing'
  BY <1>5, CollectKeeps
<1>6. ASSUME NEW t \in Workers, CountCompleted(t), ~Aborted, UNCHANGED loop PROVE Dealing'
  <2>1. ~Holding(t)
    BY <1>6, <1>h DEF CountCompleted
  <2> QED BY <1>6, <1>o, <2>1 DEF CountCompleted
<1>7. ASSUME NEW t \in Workers, InterruptWithInnerException(t), ~Aborted, UNCHANGED loop
      PROVE  Dealing'
  <2>1. /\ interrupt_requested' = TRUE /\ inner_exception' = TRUE
        /\ interrupt_requested' \in BOOLEAN /\ inner_exception' \in BOOLEAN
        /\ UNCHANGED <<task_id, results, loop>>
    BY <1>7 DEF InterruptWithInnerException, CatchException
  <2>2. CASE pc[t] = "except" /\ pc' = [pc EXCEPT ![t] = "loop"]
    <3>1. /\ pc' \in [Workers -> Locations] /\ pc'[t] = "loop"
          /\ \A u \in Workers \ {t} : pc'[u] = pc[u]
      BY <1>t, <2>2, Places
    <3>2. pc'[t] \notin TaskLocations /\ pc'[t] \notin AfterLoop
      BY <3>1, Places
    <3> QED BY <1>7, <2>1, <3>1, <3>2, MoveKeeps
  <2>3. CASE pc[t] = "monitor_except" /\ pc' = [pc EXCEPT ![t] = "join"]
    <3>1. NumTotalRuns <= next_iteration /\ chunk[t] = {} /\ ~Holding(t)
      BY <1>h, <1>l, <2>3, Places
    <3> QED BY <1>7, <1>r, <2>1, <2>3, <3>1, Places
  <2> QED BY <1>7, <2>2, <2>3 DEF InterruptWithInnerException
<1>8. ASSUME NEW t \in Workers, WorkerPoll(t), ~Aborted, UNCHANGED loop PROVE Dealing'
  <2>1. PICK to \in {"loop", "submit"} :
          pc' = [pc EXCEPT ![t] = to] /\ (to = "loop" => interrupt_requested)
    BY <1>8 DEF WorkerPoll, TaskInterrupted
  <2>2. Holding(t)
    BY <1>8, <1>h, Places DEF WorkerPoll
  <2>3. CASE to = "loop"
    BY <1>8, <1>o, <2>1, <2>3 DEF WorkerPoll
  <2>4. CASE to # "loop"
    BY <1>8, <1>k, <2>1, <2>2, <2>4, Places DEF WorkerPoll
  <2> QED BY <2>3, <2>4
<1>9. ASSUME NEW t \in Workers, SubmitStatusReport(t) \/ TreatReport(t), ~Aborted,
             UNCHANGED loop
      PROVE  Dealing'
  <2>1. PICK to \in {"treat", "task"} : pc' = [pc EXCEPT ![t] = to]
    BY <1>9 DEF SubmitStatusReport, TreatReport
  <2>2. Holding(t)
    BY <1>9, <1>h, Places DEF SubmitStatusReport, TreatReport
  <2> QED BY <1>9, <1>k, <2>1, <2>2, Places DEF SubmitStatusReport, TreatReport
<1>10. ASSUME NEW t \in Workers, TakeChunk(t) \/ NextIteration(t) PROVE Dealing'
  BY <1>10, TakeChunkKeeps, NextIterationKeeps
<1>11. ASSUME NEW t \in Workers, LeaveLoop(t), ~Aborted PROVE Dealing'
  <2>1. ~Holding(t) /\ NumTotalRuns <= next_iteration
    BY <1>11, <1>h, <1>t, NoChunkLeft, Places DEF LeaveLoop
  <2> QED BY <1>11, <1>p, <2>1, Places DEF LeaveLoop
<1>12. CASE MasterPoll /\ ~Aborted /\ UNCHANGED loop
  <2>1. PICK to \in {"loop", "poll"} :
          pc' = [pc EXCEPT ![Master] = to] /\ (to = "loop" => interrupt_requested)
    BY <1>12 DEF MasterPoll, TaskInterrupted
  <2>2. Holding(Master)
    BY <1>12, <1>h, Places DEF MasterPoll
  <2>3. CASE to = "loop"
    BY <1>12, <1>o, <2>1, <2>3 DEF MasterPoll
  <2>4. CASE to # "loop"
    BY <1>12, <1>k, <2>1, <2>2, <2>4, Places DEF MasterPoll
  <2> QED BY <2>3, <2>4
<1>13. CASE MasterPollSend("terminated") /\ ~Aborted /\ UNCHANGED loop
  <2>1. PICK to \in {"submit", "task", "terminated"} : pc' = [pc EXCEPT ![Master] = to]
    BY <1>13 DEF MasterPollSend, MasterSendIfReady
  <2>2. Holding(Master) /\ (to = "terminated" => Aborted')
    BY <1>13, <1>h, <1>t, <2>1, Places DEF MasterPollSend, MasterSendIfReady
  <2>3. CASE to = "terminated"
    BY <1>13, <1>o, <2>1, <2>2, <2>3 DEF MasterPollSend
  <2>4. CASE to # "terminated"
    BY <1>13, <1>k, <2>1, <2>2, <2>4, Places DEF MasterPollSend
  <2> QED BY <2>3, <2>4
\* the master monitors the others, past the loop
<1>14. ASSUME ~Aborted, UNCHANGED loop, pc[Master] \in AfterLoop,
              NEW to \in AfterLoop \cup {"terminated"}, pc' = [pc EXCEPT ![Master] = to],
              UNCHANGED <<task_id, results, interrupt_requested, inner_exception>>
       PROVE  Dealing'
  <2>1. ~Holding(Master) /\ NumTotalRuns <= next_iteration /\ chunk[Master] = {}
    BY <1>14, <1>h, <1>l, Places
  <2> QED BY <1>14, <1>o, <1>p, <2>1, Places
<1>15. CASE MonitorPoll /\ ~Aborted /\ UNCHANGED loop
  <2>1. PICK to \in {"join", "monitor"} : pc' = [pc EXCEPT ![Master] = to]
    BY <1>15 DEF MonitorPoll
  <2> QED BY <1>14, <1>15, <2>1, Places DEF MonitorPoll
<1>16. CASE MonitorSend("terminated") /\ ~Aborted /\ UNCHANGED loop
  <2>1. PICK to \in {"while", "terminated"} :
           pc[Master] = "monitor" /\ pc' = [pc EXCEPT ![Master] = to]
    BY <1>16 DEF MonitorSend, MasterSendIfReady
  <2> QED BY <1>14, <1>16, <2>1, Places DEF MonitorSend
<1>17. CASE (MonitorWhile \/ AfterExit \/ RunEpilog) /\ ~Aborted /\ UNCHANGED loop
  <2>1. PICK to \in {"sleep", "join", "done"} : pc' = [pc EXCEPT ![Master] = to]
    BY <1>17 DEF MonitorWhile, AfterExit, RunEpilog
  <2> QED BY <1>14, <1>17, <2>1, Places DEF MonitorWhile, AfterExit, RunEpilog
<1>18. CASE /\ UNCHANGED loop
            /\ \/ RequestStatusReport \/ RequestInterrupt \/ IntervalElapses
               \/ SetStatusReportHandler \/ RequestPeriodicStatusReport
  BY <1>18, <1>s DEF RequestStatusReport, RequestInterrupt, IntervalElapses,
     SetStatusReportHandler, RequestPeriodicStatusReport
<1>19. CASE UNCHANGED ompvars
  BY <1>19, <1>s DEF ompvars, vars
<1> QED BY NextCases, <1>1, <1>2, <1>3, <1>4, <1>5, <1>6, <1>7, <1>8, <1>9, <1>10,
           <1>11, <1>12, <1>13, <1>15, <1>16, <1>17, <1>18, <1>19

\* run() ends once all threads are through, and nobody goes on after that.
LEMMA OutcomeStep ==
  ASSUME Dealing, OutcomeLast, [Next]_ompvars
  PROVE  /\ OutcomeLast'
         /\ outcome' = outcome \/ (RunEpilog /\ UNCHANGED loop)
<1> USE MasterIsWorker DEF Transition, schedule
<1>t. pc \in [Workers -> Locations]
  BY DEF Dealing, LoopTypes
<1>n. ASSUME NEW t \in Workers, pc[t] # "done" PROVE outcome = "none"
  BY <1>n DEF OutcomeLast
<1>1. ASSUME NEW t \in Workers,
             \/ RunWorkerEnter(t) \/ RunWorkerExit(t) \/ StartTask(t) \/ FinishTask(t)
             \/ CollectResult(t) \/ CountCompleted(t) \/ WorkerPoll(t)
             \/ SubmitStatusReport(t) \/ TreatReport(t) \/ TakeChunk(t)
             \/ NextIteration(t) \/ LeaveLoop(t)
      PROVE  outcome' = outcome /\ OutcomeLast'
  <2>1. /\ pc[t] # "done" /\ outcome' = outcome
        /\ UNCHANGED <<interrupt_requested, inner_exception>>
    BY <1>1 DEF RunWorkerEnter, RunWorkerExit, StartTask, FinishTask, CollectResult,
       CountCompleted, WorkerPoll, SubmitStatusReport, TreatReport, TakeChunk,
       NextIteration, LeaveLoop, vars
  <2> QED BY <1>n, <2>1 DEF OutcomeLast
<1>2. ASSUME NEW t \in Workers, InterruptWithInnerException(t)
      PROVE  outcome' = outcome /\ OutcomeLast'
  <2>1. /\ pc[t] # "done" /\ outcome' = outcome /\ interrupt_requested' = TRUE
    BY <1>2 DEF InterruptWithInnerException, CatchException
  <2> QED BY <1>n, <2>1 DEF OutcomeLast
<1>3. CASE \/ MasterPoll \/ MasterPollSend("terminated") \/ MonitorPoll
           \/ MonitorSend("terminated") \/ MonitorWhile \/ AfterExit
  <2>1. /\ pc[Master] # "done" /\ outcome' = outcome
        /\ UNCHANGED <<interrupt_requested, inner_exception>>
    BY <1>3 DEF MasterPoll, MasterPollSend, MasterSendIfReady, MonitorPoll, MonitorSend,
       MonitorWhile, AfterExit
  <2> QED BY <1>n, <2>1 DEF OutcomeLast
<1>4. CASE RunEpilog /\ UNCHANGED loop
  <2>1. /\ \A u \in Workers : pc'[u] = "done"
        /\ UNCHANGED <<interrupt_requested, inner_exception>>
    BY <1>4, <1>t DEF RunEpilog, JoinThreads
  <2> QED BY <1>4, <2>1 DEF OutcomeLast
<1>5. CASE \/ RequestStatusReport \/ RequestInterrupt \/ IntervalElapses
           \/ SetStatusReportHandler \/ RequestPeriodicStatusReport \/ UNCHANGED ompvars
  <2>1. /\ UNCHANGED <<pc, outcome, inner_exception>>
        /\ interrupt_requested' = interrupt_requested \/ interrupt_requested' = TRUE
    BY <1>5 DEF RequestStatusReport, RequestInterrupt, IntervalElapses,
       SetStatusReportHandler, RequestPeriodicStatusReport, ompvars, vars
  <2> QED BY <2>1 DEF OutcomeLast
<1> QED BY NextCases, <1>1, <1>2, <1>3, <1>4, <1>5

LEMMA InvariantInit ==
  ASSUME OMPInit
  PROVE  IInv
<1> USE DEF OMPInit, Init
<1>1. \A t \in Workers : pc[t] = "enter" /\ chunk[t] = {} /\ ~Holding(t)
  BY Places DEF Holding
<1>2. LoopTypes
  BY Places DEF LoopTypes
<1>3. TaskOwnership /\ HandsDealt /\ LoopDone
  BY <1>1, Places DEF TaskOwnership, HandsDealt, LoopDone
<1>4. DealtOnce
  BY <1>1 DEF DealtOnce
<1>5. NothingDropped
  <2>1. \A k \in Tasks : ~(k < next_iteration)
    BY DEF Tasks
  <2> QED BY <2>1 DEF NothingDropped
<1>6. OutcomeLast
  BY DEF OutcomeLast
<1> QED BY <1>2, <1>3, <1>4, <1>5, <1>6 DEF IInv

\* IInv is an invariant of the dispatcher.
THEOREM Invariance == Spec => []IInv
<1>1. OMPInit => IInv
  BY InvariantInit
<1>2. IInv /\ [Next]_ompvars => IInv'
  BY DealingStep, OutcomeStep DEF IInv, Dealing
<1> QED BY <1>1, <1>2, PTL DEF Spec

\* The loop is dealt out completely and to one thread each.
THEOREM LoopIsPartitioned == Spec => []Partition
<1>1. IInv => Partition
  <2> SUFFICES ASSUME IInv PROVE Partition
    OBVIOUS
  <2> USE DEF IInv
  <2>1. Undealt \cap results = {}
    <3>1. \A k \in results : k \in Nat /\ next_iteration \in Nat /\ k < next_iteration
      BY TaskNumbers DEF DealtOnce, LoopTypes
    <3>2. \A k \in results : ~(next_iteration <= k)
      BY <3>1
    <3> QED BY <3>2 DEF Undealt
  <2>2. \A k : k \in InHand <=> \E u \in Workers : Holding(u) /\ task_id[u] = k
    BY DEF InHand, Holding
  <2>3. ASSUME NEW t \in Workers
        PROVE  /\ chunk[t] \cap (Undealt \cup InHand \cup results) = {}
               /\ \A u \in Workers \ {t} : chunk[t] \cap chunk[u] = {}
    <3>1. \A k \in chunk[t] : k \in Nat /\ k < next_iteration /\ next_iteration \in Nat
      BY TaskNumbers DEF DealtOnce, LoopTypes
    <3>2. \A k \in chunk[t] : k \notin Undealt
      BY <3>1 DEF Undealt
    <3> QED BY <2>2, <3>2 DEF DealtOnce
  <2>4. ASSUME ~interrupt_requested, ~Aborted
        PROVE  Tasks = Undealt \cup (UNION {chunk[t] : t \in Workers}) \cup InHand \cup results
    <3>1. /\ UNION {chunk[t] : t \in Workers} \subseteq Tasks /\ Undealt \subseteq Tasks
          /\ InHand \subseteq Tasks /\ results \subseteq Tasks
      BY <2>2 DEF LoopTypes, Undealt, HandsDealt, Holding
    <3>2. ASSUME NEW k \in Tasks, k < next_iteration
          PROVE  k \in (UNION {chunk[t] : t \in Workers}) \cup InHand \cup results
      BY <2>2, <2>4, <3>2 DEF NothingDropped
    <3>3. ASSUME NEW k \in Tasks, ~(k < next_iteration) PROVE k \in Undealt
      BY <3>3, TaskNumbers DEF Undealt, LoopTypes
    <3> QED BY <3>1, <3>2, <3>3
  <2> QED BY <2>1, <2>3, <2>4 DEF Partition
<1> QED BY <1>1, Invariance, PTL

-----------------------------------------------------------------------------
\* The refinement: the dispatcher keeps the promises of the interface.

Started == Tasks \ (Undealt \cup UNION {chunk[t] : t \in Workers})

LEMMA StartedMeans ==
  ASSUME LoopTypes, LoopTypes'
  PROVE  /\ \A k : k \in Started <=>
              k \in Tasks /\ k < next_iteration /\ \A t \in Workers : k \notin chunk[t]
         /\ \A k : k \in Started' <=>
              k \in Tasks /\ k < next_iteration' /\ \A t \in Workers : k \notin chunk'[t]
<1>1. next_iteration \in Nat /\ next_iteration' \in Nat
  BY DEF LoopTypes
<1> DEFINE InChunks == UNION {chunk[t] : t \in Workers}
<1>3. /\ Started = Tasks \ (Undealt \cup InChunks)
      /\ Started' = Tasks \ (Undealt' \cup InChunks')
  BY DEF Started
<1>4. /\ \A k : k \in InChunks <=> \E t \in Workers : k \in chunk[t]
      /\ \A k : k \in InChunks' <=> \E t \in Workers : k \in chunk'[t]
  OBVIOUS
<1>5. /\ \A k \in Tasks : k \in Undealt <=> ~(k < next_iteration)
      /\ \A k \in Tasks : k \in Undealt' <=> ~(k < next_iteration')
  BY <1>1, TaskNumbers DEF Undealt
<1> HIDE DEF InChunks
<1>6. \A k : k \in Started <=>
           k \in Tasks /\ k < next_iteration /\ \A t \in Workers : k \notin chunk[t]
  BY <1>3, <1>4, <1>5, Zenon
<1>7. \A k : k \in Started' <=>
           k \in Tasks /\ k < next_iteration' /\ \A t \in Workers : k \notin chunk'[t]
  BY <1>3, <1>4, <1>5, Zenon
<1> QED BY <1>6, <1>7

LEMMA ContractInit ==
  ASSUME OMPInit
  PROVE  Contract!Init
<1>1. Undealt = Tasks
  BY NumTotalRunsAssumption DEF OMPInit, Undealt, Tasks
<1> QED BY <1>1 DEF OMPInit, Init, Contract!Init

LEMMA ContractStutter ==
  ASSUME UNCHANGED <<Started, results, interrupt_requested, inner_exception, outcome>>
  PROVE  UNCHANGED Contract!vars
BY DEF Contract!vars, Started

LEMMA ContractStep ==
  ASSUME IInv, [Next]_ompvars
  PROVE  [Contract!Next]_(Contract!vars)
<1> USE MasterIsWorker DEF Transition, schedule
<1>i. Dealing /\ OutcomeLast /\ LoopTypes /\ LoopTypes'
  BY DealingStep DEF IInv, Dealing
<1>n. ASSUME NEW t \in Workers, pc[t] # "done" PROVE outcome = "none"
  BY <1>i, <1>n DEF OutcomeLast
<1>s. ASSUME UNCHANGED loop PROVE Started' = Started
  BY <1>s DEF Started, Undealt, loop
<1>1. ASSUME NEW t \in Workers, CollectResult(t), UNCHANGED loop
      PROVE  [Contract!Next]_(Contract!vars)
  <2>1. /\ pc[t] = "collect" /\ outcome = "none"
        /\ results' = results \cup {task_id[t]}
        /\ UNCHANGED <<interrupt_requested, inner_exception, outcome>>
    BY <1>1, <1>n DEF CollectResult
  <2>2. Holding(t) /\ pc[t] \in TaskLocations /\ pc[t] # "count"
    BY <2>1, Places DEF Holding
  <2>3. /\ task_id[t] \in Tasks /\ task_id[t] < next_iteration
        /\ task_id[t] \notin results /\ \A u \in Workers : task_id[t] \notin chunk[u]
    BY <2>2 DEF IInv, HandsDealt, TaskOwnership, DealtOnce
  <2>4. task_id[t] \in Started \ results
    BY <1>i, <2>3, StartedMeans
  <2>5. Contract!Deliver(task_id[t])
    BY <1>1, <1>s, <2>1, <2>4 DEF Contract!Deliver, Started
  <2> QED BY <2>3, <2>5 DEF Contract!Next
<1>2. ASSUME NEW t \in Workers, NextIteration(t) PROVE [Contract!Next]_(Contract!vars)
  <2> DEFINE k0 == Iteration(t)
  <2>1. /\ pc[t] = "loop" /\ outcome = "none" /\ UNCHANGED next_iteration
        /\ UNCHANGED <<results, interrupt_requested, inner_exception, outcome>>
    BY <1>2, <1>n DEF NextIteration
  <2>2. k0 \in chunk[t] /\ chunk' = [chunk EXCEPT ![t] = @ \ {k0}]
    BY <1>2, <1>i, NextIterationKeeps
  <2>3. k0 \in Tasks /\ k0 < next_iteration /\ \A u \in Workers \ {t} : k0 \notin chunk[u]
    BY <2>2 DEF IInv, DealtOnce, LoopTypes
  <2> HIDE DEF k0
  <2>4. \A u \in Workers : chunk'[u] = IF u = t THEN chunk[t] \ {k0} ELSE chunk[u]
    BY <1>i, <2>2 DEF LoopTypes
  <2>5. k0 \notin Started
    BY <1>i, <2>2, StartedMeans
  <2>6. \A k : k \in Started' <=> k \in Started \/ k = k0
    BY <1>i, <2>1, <2>3, <2>4, StartedMeans
  <2>7. Started' = Started \cup {k0}
    BY <2>6
  <2>8. \E k \in Tasks : Contract!Start(k)
    BY <2>1, <2>3, <2>5, <2>7 DEF Contract!Start, Started
  <2> QED BY <2>8 DEF Contract!Next
<1>3. ASSUME NEW t \in Workers, InterruptWithInnerException(t), UNCHANGED loop
      PROVE  [Contract!Next]_(Contract!vars)
  <2>1. outcome = "none"
    BY <1>3, <1>n DEF InterruptWithInnerException
  <2>2. Contract!Fail
    BY <1>3, <1>s, <2>1 DEF InterruptWithInnerException, CatchException, Contract!Fail,
       Started
  <2> QED BY <2>2 DEF Contract!Next
<1>4. CASE RunEpilog /\ UNCHANGED loop
  <2>1. /\ outcome = "none" /\ outcome' = Epilog
        /\ UNCHANGED <<results, interrupt_requested, inner_exception>>
    BY <1>4, <1>n DEF RunEpilog
  <2>2. ASSUME ~interrupt_requested PROVE results = Tasks
    <3>1. \A u \in Workers : pc[u] \in {"join", "done"}
      BY <1>4 DEF RunEpilog, JoinThreads
    <3>2. \A u \in Workers : pc[u] \in AfterLoop /\ ~Holding(u)
      BY <3>1, Places DEF Holding
    <3>3. NumTotalRuns <= next_iteration /\ \A u \in Workers : chunk[u] = {}
      BY <3>2 DEF IInv, LoopDone
    <3>4. ~Aborted
      BY <3>2, Places DEF Aborted
    <3>5. \A k \in Tasks : k < next_iteration
      BY <1>i, <3>3, NumTotalRunsAssumption DEF LoopTypes, Tasks
    <3>6. \A k \in Tasks : k \in results
      BY <2>2, <3>2, <3>3, <3>4, <3>5 DEF IInv, NothingDropped
    <3> QED BY <1>i, <3>6 DEF LoopTypes
  <2>3. inner_exception => interrupt_requested
    BY <1>i DEF OutcomeLast
  <2>4. Started' = Started
    BY <1>4, <1>s
  <2>5. Epilog \in Contract!Outcomes
    BY DEF Epilog, Contract!Outcomes
  <2>6. Contract!End(Epilog)
    BY <2>1, <2>2, <2>3, <2>4 DEF Epilog, Contract!End, Started
  <2> QED BY <2>5, <2>6 DEF Contract!Next
<1>5. CASE RequestInterrupt /\ UNCHANGED loop
  <2>1. Contract!AskToStop
    BY <1>5, <1>s DEF RequestInterrupt, Contract!AskToStop, Started
  <2> QED BY <2>1 DEF Contract!Next
<1>6. ASSUME NEW t \in Workers, TakeChunk(t) PROVE UNCHANGED Contract!vars
  <2>1. /\ chunk[t] = {} /\ chunk' = [chunk EXCEPT ![t] = NextChunk]
        /\ next_iteration' = next_iteration + ChunkSize
        /\ UNCHANGED <<results, interrupt_requested, inner_exception, outcome>>
    BY <1>6 DEF TakeChunk, vars
  <2>2. \A u \in Workers : chunk'[u] = IF u = t THEN NextChunk ELSE chunk[u]
    BY <1>i, <2>1 DEF LoopTypes
  <2>3. /\ next_iteration \in Nat /\ next_iteration' \in Nat
        /\ \A k \in Nat : k < next_iteration => k < next_iteration'
    BY <1>i, <2>1, ChunkSizeAssumption DEF LoopTypes
  <2>4. \A k \in Tasks : k \in NextChunk <=> ~(k < next_iteration) /\ k < next_iteration'
    BY <2>1, <2>3, TaskNumbers DEF NextChunk
  <2>5. \A u \in Workers, k \in Tasks : k \in chunk[u] => k < next_iteration
    BY DEF IInv, DealtOnce
  <2>6. ASSUME NEW k \in Tasks PROVE k \in Started' <=> k \in Started
    <3>1. CASE k < next_iteration
      BY <1>i, <2>1, <2>2, <2>3, <2>4, <3>1, TaskNumbers, StartedMeans
    <3>2. CASE ~(k < next_iteration)
      BY <1>i, <2>2, <2>4, <3>2, StartedMeans
    <3> QED BY <3>1, <3>2
  <2>7. Started' = Started
    BY <1>i, <2>6, StartedMeans
  <2> QED BY <2>1, <2>7, ContractStutter
<1>7. ASSUME UNCHANGED loop,
             \/ MasterPoll \/ MasterPollSend("terminated")
             \/ MonitorPoll \/ MonitorSend("terminated") \/ MonitorWhile \/ AfterExit
             \/ RequestStatusReport \/ IntervalElapses \/ SetStatusReportHandler
             \/ RequestPeriodicStatusReport
             \/ \E t \in Workers :
                  \/ RunWorkerEnter(t) \/ RunWorkerExit(t) \/ StartTask(t)
                  \/ FinishTask(t) \/ CountCompleted(t) \/ WorkerPoll(t)
                  \/ SubmitStatusReport(t) \/ TreatReport(t)
      PROVE  UNCHANGED Contract!vars
  <2>1. UNCHANGED <<results, interrupt_requested, inner_exception, outcome>>
    BY <1>7 DEF MasterPoll, MasterPollSend, MonitorPoll, MonitorSend, MonitorWhile,
       AfterExit, RequestStatusReport, IntervalElapses, SetStatusReportHandler,
       RequestPeriodicStatusReport, RunWorkerEnter, RunWorkerExit, StartTask, FinishTask,
       CountCompleted, WorkerPoll, SubmitStatusReport, TreatReport
  <2> QED BY <1>7, <1>s, <2>1, ContractStutter
<1>8. ASSUME NEW t \in Workers, LeaveLoop(t) PROVE UNCHANGED Contract!vars
  BY <1>8, <1>s, ContractStutter DEF LeaveLoop
<1>9. CASE UNCHANGED ompvars
  BY <1>9, <1>s, ContractStutter DEF ompvars, vars
<1> QED BY NextCases, <1>1, <1>2, <1>3, <1>4, <1>5, <1>6, <1>7, <1>8, <1>9

\* The OpenMP dispatcher implements the contract of the interface, whatever the
\* chunks and however its threads interleave.
THEOREM Refinement == Spec => ImplementsContract
<1>1. OMPInit => Contract!Init
  BY ContractInit
<1>2. IInv /\ [Next]_ompvars => [Contract!Next]_(Contract!vars)
  BY ContractStep
<1> QED BY <1>1, <1>2, Invariance, PTL DEF Spec, ImplementsContract, Contract!Spec

=============================================================================
