------------------------ MODULE MPIDispatcherProofs ------------------------
(***************************************************************************)
(* Proofs about MPIDispatcher, for any number of processes and tasks.      *)
(***************************************************************************)
EXTENDS MPIDispatcher, FiniteSetTheorems, TLAPS

USE DEF Requests, Deliveries, InterruptOrders, ReportOrders, Reports,
        IdleReports, Results, Farewells

-----------------------------------------------------------------------------
\* A step is one of the master, of a worker, or of a caller on the master.
LEMMA NextCases ==
  ASSUME Next
  PROVE  \/ MasterNext \/ MasterPoll \/ MasterFinishTask \/ MasterWait
         \/ MasterCheckInterrupted \/ MasterCheckQuiet
         \/ \E w \in Workers :
              \/ TreatRequest(w) \/ TreatResult(w)
              \/ TreatReport(w) \/ TreatFarewell(w)
              \/ WorkerRequest(w) \/ WorkerReceiveTask(w)
              \/ WorkerProbeInterrupt(w) \/ WorkerProbeReport(w)
              \/ WorkerFinishTask(w) \/ WorkerLeave(w) \/ WorkerFarewell(w)
         \/ NextPhase \/ EndCheck
         \/ RequestStatusReport \/ RequestInterrupt
         \/ UNCHANGED vars
BY ProcsAssumption DEF Next, MasterStep, WorkerStep, FinishTask, Terminated, Procs

-----------------------------------------------------------------------------
\* Sequences of messages

LEMMA TailFacts ==
  ASSUME NEW S, NEW s \in Seq(S), s # <<>>
  PROVE  /\ Tail(s) \in Seq(S)
         /\ Len(s) \in Nat \ {0}
         /\ Len(Tail(s)) = Len(s) - 1
         /\ Head(s) = s[1] /\ Head(s) \in S
         /\ \A i \in 1 .. (Len(s) - 1) : Tail(s)[i] = s[i + 1]
OBVIOUS

LEMMA AppendFacts ==
  ASSUME NEW S, NEW s \in Seq(S), NEW m \in S
  PROVE  /\ Append(s, m) \in Seq(S)
         /\ Len(s) \in Nat
         /\ Len(Append(s, m)) = Len(s) + 1
         /\ Append(s, m) # <<>>
         /\ \A i \in 1 .. Len(s) : Append(s, m)[i] = s[i]
         /\ Append(s, m)[Len(s) + 1] = m
OBVIOUS

LEMMA EmptyFacts ==
  ASSUME NEW S, NEW s \in Seq(S)
  PROVE  /\ Len(s) \in Nat
         /\ DOMAIN s = 1 .. Len(s)
         /\ s # <<>> <=> Len(s) > 0
         /\ \A i \in 1 .. Len(s) : s[i] \in S
OBVIOUS

\* The queues of a tag keep their type if one of them changes.
LEMMA QueuesType ==
  ASSUME NEW S, NEW q \in [Workers -> S], NEW w \in Workers, NEW e \in S
  PROVE  [q EXCEPT ![w] = e] \in [Workers -> S]
OBVIOUS

\* A receipt takes the first message from one queue and leaves all others.
LEMMA ReceivedAt ==
  ASSUME ChannelsOK, NEW tag \in Tags, NEW w \in Workers,
         Waiting(tag, w), channel' = Received(tag, w)
  PROVE  /\ \A t \in Tags, v \in Workers :
              v # w \/ t # tag => channel'[t][v] = channel[t][v]
         /\ channel'[tag][w] = Tail(channel[tag][w])
         /\ ChannelsOK'
<1>1. DOMAIN channel' = Tags
  BY DEF Received, ChannelsOK
<1>2. /\ \A t \in Tags : t # tag => channel'[t] = channel[t]
      /\ channel'[tag] = [channel[tag] EXCEPT ![w] = Tail(channel[tag][w])]
  BY DEF Received, ChannelsOK
<1>3. /\ \A t \in Tags, v \in Workers :
           v # w \/ t # tag => channel'[t][v] = channel[t][v]
      /\ channel'[tag][w] = Tail(channel[tag][w])
  BY <1>2 DEF ChannelsOK
<1>4. channel[tag][w] \in Seq(MessagesOf(tag))
  BY DEF ChannelsOK
<1>5. /\ Tail(channel[tag][w]) \in Seq(MessagesOf(tag))
      /\ Len(Tail(channel[tag][w])) = Len(channel[tag][w]) - 1
      /\ Len(channel[tag][w]) \in Nat
  BY <1>4, TailFacts DEF Waiting
<1>6. ASSUME NEW t \in Tags
      PROVE  channel'[t] \in [Workers -> Seq(MessagesOf(t))]
  <2>1. CASE t = tag
    <3>1. channel[tag] \in [Workers -> Seq(MessagesOf(tag))]
      BY DEF ChannelsOK
    <3>2. channel'[tag] \in [Workers -> Seq(MessagesOf(tag))]
      BY <1>2, <1>5, <3>1, QueuesType
    <3> QED BY <2>1, <3>2
  <2>2. CASE t # tag
    BY <1>2, <2>2 DEF ChannelsOK
  <2> QED BY <2>1, <2>2
<1>7. ASSUME NEW v \in Workers
      PROVE  Len(channel'[InterruptOrders][v]) <= MaxOrders
  <2>1. Len(channel[InterruptOrders][v]) <= MaxOrders /\ InterruptOrders \in Tags
    BY DEF ChannelsOK, Tags
  <2>2. CASE InterruptOrders = tag /\ v = w
    <3>1. Len(channel'[tag][w]) = Len(channel[tag][w]) - 1
      BY <1>3, <1>5
    <3>2. Len(channel[tag][w]) <= MaxOrders
      BY <2>1, <2>2
    <3>3. Len(channel'[tag][w]) <= MaxOrders
      BY <1>5, <3>1, <3>2, BoundsAssumption
    <3> QED BY <2>2, <3>3
  <2>3. CASE InterruptOrders # tag \/ v # w
    BY <1>3, <2>1, <2>3
  <2> QED BY <2>2, <2>3
<1> QED BY <1>1, <1>3, <1>6, <1>7 DEF ChannelsOK, MessagesOf, Tasks

\* Sending adds one message at the end of one queue.
LEMMA SentAt ==
  ASSUME ChannelsOK, NEW tag \in Tags \ {InterruptOrders}, NEW w \in Workers,
         NEW m \in MessagesOf(tag), channel' = Sent(tag, w, m)
  PROVE  /\ \A t \in Tags, v \in Workers :
              v # w \/ t # tag => channel'[t][v] = channel[t][v]
         /\ channel'[tag][w] = Append(channel[tag][w], m)
         /\ ChannelsOK'
<1>1. DOMAIN channel' = Tags
  BY DEF Sent, ChannelsOK
<1>2. /\ \A t \in Tags : t # tag => channel'[t] = channel[t]
      /\ channel'[tag] = [channel[tag] EXCEPT ![w] = Append(channel[tag][w], m)]
  BY DEF Sent, ChannelsOK
<1>3. /\ \A t \in Tags, v \in Workers :
           v # w \/ t # tag => channel'[t][v] = channel[t][v]
      /\ channel'[tag][w] = Append(channel[tag][w], m)
  BY <1>2 DEF ChannelsOK
<1>4. Append(channel[tag][w], m) \in Seq(MessagesOf(tag))
  BY AppendFacts DEF ChannelsOK
<1>5. ASSUME NEW t \in Tags
      PROVE  channel'[t] \in [Workers -> Seq(MessagesOf(t))]
  <2>1. CASE t = tag
    <3>1. channel[tag] \in [Workers -> Seq(MessagesOf(tag))]
      BY DEF ChannelsOK
    <3>2. channel'[tag] \in [Workers -> Seq(MessagesOf(tag))]
      BY <1>2, <1>4, <3>1, QueuesType
    <3> QED BY <2>1, <3>2
  <2>2. CASE t # tag
    BY <1>2, <2>2 DEF ChannelsOK
  <2> QED BY <2>1, <2>2
<1>6. \A v \in Workers : Len(channel'[InterruptOrders][v]) <= MaxOrders
  BY <1>3 DEF ChannelsOK, Tags
<1> QED BY <1>1, <1>3, <1>5, <1>6 DEF ChannelsOK, MessagesOf, Tasks

\* An answer is a receipt and a message sent, by different tags.
LEMMA AnsweredAt ==
  ASSUME ChannelsOK, NEW tag \in Tags, NEW answer \in Tags \ {InterruptOrders, tag},
         NEW w \in Workers, Waiting(tag, w), NEW m \in MessagesOf(answer),
         channel' = Answered(tag, answer, w, m)
  PROVE  /\ \A t \in Tags, v \in Workers :
              v # w \/ t \notin {tag, answer} => channel'[t][v] = channel[t][v]
         /\ channel'[tag][w] = Tail(channel[tag][w])
         /\ channel'[answer][w] = Append(channel[answer][w], m)
         /\ ChannelsOK'
<1>1. DOMAIN channel' = Tags
  BY DEF Answered, ChannelsOK
<1>2. /\ \A t \in Tags \ {tag, answer} : channel'[t] = channel[t]
      /\ channel'[tag] = [channel[tag] EXCEPT ![w] = Tail(channel[tag][w])]
      /\ channel'[answer] = [channel[answer] EXCEPT ![w] = Append(channel[answer][w], m)]
  BY DEF Answered, ChannelsOK
<1>3. /\ \A t \in Tags, v \in Workers :
           v # w \/ t \notin {tag, answer} => channel'[t][v] = channel[t][v]
      /\ channel'[tag][w] = Tail(channel[tag][w])
      /\ channel'[answer][w] = Append(channel[answer][w], m)
  BY <1>2 DEF ChannelsOK
<1>4. channel[tag][w] \in Seq(MessagesOf(tag))
  BY DEF ChannelsOK
<1>5. /\ Tail(channel[tag][w]) \in Seq(MessagesOf(tag))
      /\ Len(Tail(channel[tag][w])) = Len(channel[tag][w]) - 1
      /\ Len(channel[tag][w]) \in Nat
  BY <1>4, TailFacts DEF Waiting
<1>6. Append(channel[answer][w], m) \in Seq(MessagesOf(answer))
  BY AppendFacts DEF ChannelsOK
<1>7. ASSUME NEW t \in Tags
      PROVE  channel'[t] \in [Workers -> Seq(MessagesOf(t))]
  <2>0. \A u \in Tags : channel[u] \in [Workers -> Seq(MessagesOf(u))]
    BY DEF ChannelsOK
  <2>1. CASE t = tag
    <3>1. channel'[tag] \in [Workers -> Seq(MessagesOf(tag))]
      BY <1>2, <1>5, <2>0, QueuesType
    <3> QED BY <2>1, <3>1
  <2>2. CASE t = answer
    <3>1. channel'[answer] \in [Workers -> Seq(MessagesOf(answer))]
      BY <1>2, <1>6, <2>0, QueuesType
    <3> QED BY <2>2, <3>1
  <2>3. CASE t \notin {tag, answer}
    BY <1>2, <2>0, <2>3
  <2> QED BY <2>1, <2>2, <2>3
<1>8. ASSUME NEW v \in Workers
      PROVE  Len(channel'[InterruptOrders][v]) <= MaxOrders
  <2>1. Len(channel[InterruptOrders][v]) <= MaxOrders /\ InterruptOrders \in Tags
    BY DEF ChannelsOK, Tags
  <2>2. CASE InterruptOrders = tag /\ v = w
    <3>1. Len(channel'[tag][w]) = Len(channel[tag][w]) - 1
      BY <1>3, <1>5
    <3>2. Len(channel[tag][w]) <= MaxOrders
      BY <2>1, <2>2
    <3>3. Len(channel'[tag][w]) <= MaxOrders
      BY <1>5, <3>1, <3>2, BoundsAssumption
    <3> QED BY <2>2, <3>3
  <2>3. CASE InterruptOrders # tag \/ v # w
    BY <1>3, <2>1, <2>3
  <2> QED BY <2>2, <2>3
<1> QED BY <1>1, <1>3, <1>7, <1>8 DEF ChannelsOK, MessagesOf, Tasks

\* Orders go to the processes flagged as running, and to nobody else.
LEMMA ReportOrdersAt ==
  ASSUME ChannelsOK, InitiateReport
  PROVE  /\ \A t \in Tags, v \in Workers :
              t # ReportOrders \/ v \notin workers_running
                => channel'[t][v] = channel[t][v]
         /\ \A v \in Workers \cap workers_running :
              channel'[ReportOrders][v] = Append(channel[ReportOrders][v], Signal)
         /\ ChannelsOK'
<1>1. DOMAIN channel' = Tags
  BY DEF InitiateReport, ChannelsOK
<1>2. /\ \A t \in Tags : t # ReportOrders => channel'[t] = channel[t]
      /\ channel'[ReportOrders] =
           [w \in Workers |-> IF w \in workers_running
                              THEN Append(channel[ReportOrders][w], Signal)
                              ELSE channel[ReportOrders][w]]
  BY DEF InitiateReport, ChannelsOK, Tags
<1>3. \A w \in Workers :
        Append(channel[ReportOrders][w], Signal) \in Seq(MessagesOf(ReportOrders))
  BY AppendFacts DEF ChannelsOK, MessagesOf, Tags
<1>4. ASSUME NEW t \in Tags
      PROVE  channel'[t] \in [Workers -> Seq(MessagesOf(t))]
  <2>0. \A u \in Tags : channel[u] \in [Workers -> Seq(MessagesOf(u))]
    BY DEF ChannelsOK
  <2>1. CASE t = ReportOrders
    <3>1. channel'[ReportOrders] \in [Workers -> Seq(MessagesOf(ReportOrders))]
      BY <1>2, <1>3, <2>0 DEF Tags
    <3> QED BY <2>1, <3>1
  <2>2. CASE t # ReportOrders
    BY <1>2, <2>0, <2>2
  <2> QED BY <2>1, <2>2
<1>5. \A v \in Workers : Len(channel'[InterruptOrders][v]) <= MaxOrders
  BY <1>2 DEF ChannelsOK, Tags
<1> QED BY <1>1, <1>2, <1>4, <1>5 DEF ChannelsOK, MessagesOf, Tasks

LEMMA InterruptOrdersAt ==
  ASSUME ChannelsOK, OrderInterrupt
  PROVE  /\ \A t \in Tags \ {InterruptOrders}, v \in Workers :
              channel'[t][v] = channel[t][v]
         /\ ChannelsOK'
<1>1. DOMAIN channel' = Tags
  BY DEF OrderInterrupt, ChannelsOK
<1>2. /\ \A t \in Tags : t # InterruptOrders => channel'[t] = channel[t]
      /\ channel'[InterruptOrders] =
           [w \in Workers |-> IF /\ w \in workers_running
                                 /\ Len(channel[InterruptOrders][w]) < MaxOrders
                              THEN Append(channel[InterruptOrders][w], Signal)
                              ELSE channel[InterruptOrders][w]]
  BY DEF OrderInterrupt, ChannelsOK, Tags
<1>3. \A w \in Workers :
        /\ Append(channel[InterruptOrders][w], Signal) \in Seq(MessagesOf(InterruptOrders))
        /\ Len(channel[InterruptOrders][w]) \in Nat
        /\ Len(Append(channel[InterruptOrders][w], Signal))
             = Len(channel[InterruptOrders][w]) + 1
  BY AppendFacts DEF ChannelsOK, MessagesOf, Tags
<1>4. ASSUME NEW t \in Tags
      PROVE  channel'[t] \in [Workers -> Seq(MessagesOf(t))]
  <2>0. \A u \in Tags : channel[u] \in [Workers -> Seq(MessagesOf(u))]
    BY DEF ChannelsOK
  <2>1. CASE t = InterruptOrders
    <3>1. channel'[InterruptOrders] \in [Workers -> Seq(MessagesOf(InterruptOrders))]
      BY <1>2, <1>3, <2>0 DEF Tags
    <3> QED BY <2>1, <3>1
  <2>2. CASE t # InterruptOrders
    BY <1>2, <2>0, <2>2
  <2> QED BY <2>1, <2>2
<1>5. \A v \in Workers : Len(channel'[InterruptOrders][v]) <= MaxOrders
  BY <1>2, <1>3, BoundsAssumption DEF ChannelsOK, Tags
<1> QED BY <1>1, <1>2, <1>4, <1>5 DEF ChannelsOK, MessagesOf, Tasks

-----------------------------------------------------------------------------
\* Types, of the variables that the counts of processes and tasks are not
\* needed for

BookTypes ==
  /\ num_tasks_completed \in Nat
  /\ num_tasks_launched \in 0 .. NumTotalRuns
  /\ num_workers_running \in Int
  /\ workers_running \subseteq Procs
  /\ interrupt_requested \in BOOLEAN
  /\ full_task_results \in [Tasks -> {"none", "ok", "error", "null"}]

ReportTypes ==
  /\ event_counter \in 0 .. MaxUserRequests
  /\ reacted_event_counter \in 0 .. event_counter
  /\ in_preparation \in BOOLEAN
  /\ num_reports_waiting \in Nat

CheckTypes ==
  /\ check_from \in {"before", "task", "wait"}
  /\ requested \in BOOLEAN
  /\ budget \in 0 .. CommSize

ProcessTypes ==
  /\ LocationsOK
  /\ task_id \in [Procs -> Tasks \cup {-1}]
  /\ interrupted \in [Procs -> BOOLEAN]
  /\ outcome \in {"none", "ok", "interrupted", "crash"}

Types == BookTypes /\ ReportTypes /\ CheckTypes /\ ProcessTypes /\ ChannelsOK

LEMMA ProcsFinite ==
  /\ IsFiniteSet(Procs) /\ CommSize \in Nat \ {0}
  /\ \A S \in SUBSET Procs :
       IsFiniteSet(S) /\ Cardinality(S) \in Nat /\ Cardinality(S) <= CommSize
  /\ CommSize = Cardinality(Workers) + 1
<1>1. IsFiniteSet(Procs) /\ CommSize = Cardinality(Workers) + 1
  BY ProcsAssumption, FS_AddElement DEF Procs, CommSize
<1>2. Cardinality(Workers) \in Nat
  BY ProcsAssumption, FS_CardinalityType
<1>3. \A S \in SUBSET Procs :
        IsFiniteSet(S) /\ Cardinality(S) \in Nat /\ Cardinality(S) <= CommSize
  BY <1>1, FS_Subset, FS_CardinalityType DEF CommSize
<1> QED BY <1>1, <1>2, <1>3

LEMMA ProcFacts ==
  /\ Master \in Procs /\ Workers \subseteq Procs
  /\ \A w \in Workers : w # Master
BY ProcsAssumption DEF Procs

LEMMA MasterMoves ==
  ASSUME LocationsOK, NEW from, NEW to \in MasterLocations,
         Transition(Master, from, to)
  PROVE  /\ LocationsOK'
         /\ pc[Master] = from /\ pc'[Master] = to
         /\ \A w \in Workers : pc'[w] = pc[w]
BY ProcFacts DEF LocationsOK, Transition, MasterLocations, WorkerLocations, Procs,
   Phases, PhaseAfter

LEMMA WorkerMoves ==
  ASSUME LocationsOK, NEW w \in Workers, NEW from, NEW to \in WorkerLocations,
         Transition(w, from, to)
  PROVE  /\ LocationsOK'
         /\ pc[w] = from /\ pc'[w] = to
         /\ \A p \in Procs \ {w} : pc'[p] = pc[p]
         /\ pc'[Master] = pc[Master]
BY ProcFacts DEF LocationsOK, Transition, MasterLocations, WorkerLocations, Procs,
   Phases, PhaseAfter

LEMMA PhaseFacts ==
  /\ DOMAIN PhaseAfter = {Requests, Results, Reports, IdleReports}
  /\ PhaseAfter[Requests] = Results
  /\ PhaseAfter[Results] = Reports
  /\ PhaseAfter[Reports] = IdleReports
  /\ PhaseAfter[IdleReports] = Farewells
  /\ Phases = {Requests, Results, Reports, IdleReports, Farewells}
  /\ MasterLocations = {"next", "check", "task", "wait", "done", Requests, Results,
                        Reports, IdleReports, Farewells}
BY DEF PhaseAfter, Phases, MasterLocations

LEMMA NewTaskFacts ==
  ASSUME num_tasks_launched \in 0 .. NumTotalRuns
  PROVE  /\ NewTask >= 0 => /\ NewTask = num_tasks_launched /\ NewTask \in Tasks
                            /\ num_tasks_launched < NumTotalRuns
         /\ ~(NewTask >= 0) => NewTask = -1 /\ num_tasks_launched = NumTotalRuns
         /\ NewTask \in Tasks \cup {-1}
BY NumTotalRunsAssumption DEF NewTask, Tasks

\* What the parts of the books keep through the operations on them
LEMMA StoreTypes ==
  ASSUME BookTypes, NEW p, NEW k, NEW how \in {"ok", "error", "null"},
         StoreTaskResult(p, k, how)
  PROVE  /\ num_tasks_completed' \in Nat
         /\ workers_running' \subseteq Procs
         /\ interrupt_requested' \in BOOLEAN
         /\ full_task_results' \in [Tasks -> {"none", "ok", "error", "null"}]
<1>1. full_task_results' \in [Tasks -> {"none", "ok", "error", "null"}]
  BY DEF StoreTaskResult, BookTypes
<1> QED BY <1>1 DEF StoreTaskResult, BookTypes

LEMMA NewTaskTypes ==
  ASSUME BookTypes, NEW p \in Procs, GetNewTaskId(p)
  PROVE  num_tasks_launched' \in 0 .. NumTotalRuns /\ workers_running' \subseteq Procs
BY NewTaskFacts, NumTotalRunsAssumption DEF GetNewTaskId, BookTypes

LEMMA HandleReportTypes ==
  ASSUME ReportTypes, HandleReport
  PROVE  ReportTypes'
<1>1. num_reports_waiting' \in Nat
  BY DEF HandleReport, OneReportLess, ReportTypes
<1>2. in_preparation' \in BOOLEAN
  BY DEF HandleReport, OneReportLess, ReportTypes
<1> QED BY <1>1, <1>2 DEF HandleReport, ReportTypes

LEMMA LeaveTypes ==
  ASSUME BookTypes, ProcessTypes,
         MasterLeaves \/ UNCHANGED <<interrupted, num_workers_running>>
  PROVE  num_workers_running' \in Int /\ interrupted' \in [Procs -> BOOLEAN]
<1>1. CASE MasterLeaves
  <2>1. num_workers_running' \in Int
    BY <1>1 DEF MasterLeaves, BookTypes
  <2>2. interrupted' \in [Procs -> BOOLEAN]
    BY <1>1 DEF MasterLeaves, ProcessTypes
  <2> QED BY <2>1, <2>2
<1>2. CASE UNCHANGED <<interrupted, num_workers_running>>
  BY <1>2 DEF BookTypes, ProcessTypes
<1> QED BY <1>1, <1>2

LEMMA TypesStep ==
  ASSUME Types, WorkHasTask, [Next]_vars
  PROVE  Types'
<1> USE ProcFacts, NumTotalRunsAssumption, BoundsAssumption DEF Types
<1>0. /\ BookTypes /\ ReportTypes /\ CheckTypes /\ ProcessTypes /\ ChannelsOK
      /\ LocationsOK
  BY DEF ProcessTypes
<1>n. NewTask \in Tasks \cup {-1} /\ (NewTask >= 0 => NewTask \in Tasks)
  BY <1>0, NewTaskFacts DEF BookTypes
<1>c. CommSize \in Nat \ {0}
  BY ProcsFinite
<1>t. /\ Requests \in Tags /\ Deliveries \in Tags /\ InterruptOrders \in Tags
      /\ ReportOrders \in Tags /\ Reports \in Tags /\ IdleReports \in Tags
      /\ Results \in Tags /\ Farewells \in Tags
      /\ Signal \in MessagesOf(Requests) /\ Signal \in MessagesOf(Reports)
      /\ Signal \in MessagesOf(IdleReports) /\ Signal \in MessagesOf(Farewells)
      /\ NewTask \in MessagesOf(Deliveries)
  BY <1>n DEF Tags, MessagesOf
<1>r. \A w \in Workers, how \in {"ok", "error", "null"} :
        AtWork(w) => Result(w, how) \in MessagesOf(Results)
  BY DEF WorkHasTask, Result, MessagesOf
<1>m. ASSUME NEW w \in Workers, Waiting(Results, w)
      PROVE  Head(channel[Results][w]) \in [task : Tasks, how : {"ok", "error", "null"}]
  <2>1. channel[Results][w] \in Seq(MessagesOf(Results))
    BY <1>0, <1>t DEF ChannelsOK
  <2>2. Head(channel[Results][w]) \in MessagesOf(Results)
    BY <1>m, <2>1, TailFacts DEF Waiting
  <2> QED BY <2>2 DEF MessagesOf
<1>d. ASSUME NEW w \in Workers, Waiting(Deliveries, w)
      PROVE  Head(channel[Deliveries][w]) \in Tasks \cup {-1}
  <2>1. channel[Deliveries][w] \in Seq(MessagesOf(Deliveries))
    BY <1>0, <1>t DEF ChannelsOK
  <2>2. Head(channel[Deliveries][w]) \in MessagesOf(Deliveries)
    BY <1>d, <2>1, TailFacts DEF Waiting
  <2> QED BY <2>2 DEF MessagesOf
<1>k. channel' = channel => ChannelsOK'
  BY <1>0 DEF ChannelsOK
<1>1. CASE MasterNext
  <2>1. BookTypes'
    <3>1. GetNewTaskId(Master)
      BY <1>1 DEF MasterNext
    <3>2. num_workers_running' \in Int
      BY <1>0, <1>1 DEF MasterNext, BookTypes
    <3> QED BY <1>0, <1>1, <3>1, <3>2, NewTaskTypes DEF MasterNext, BookTypes
  <2>2. LocationsOK'
    BY <1>0, <1>1, MasterMoves DEF MasterNext, MasterLocations
  <2>3. task_id' \in [Procs -> Tasks \cup {-1}]
    BY <1>0, <1>1, <1>n DEF MasterNext, ProcessTypes
  <2> QED BY <1>0, <1>k, <1>1, <2>1, <2>2, <2>3
          DEF MasterNext, ReportTypes, CheckTypes, ProcessTypes, report
<1>2. CASE MasterPoll
  <2>1. LocationsOK'
    BY <1>0, <1>2, MasterMoves DEF MasterPoll, MasterLocations
  <2> QED BY <1>0, <1>k, <1>2, <2>1 DEF MasterPoll, BookTypes, ReportTypes, CheckTypes,
          ProcessTypes, report, controller
<1>3. CASE MasterFinishTask
  <2>1. LocationsOK'
    BY <1>0, <1>3, MasterMoves DEF MasterFinishTask, MasterLocations
  <2>2. \E how \in {"ok", "error", "null"} : StoreTaskResult(Master, task_id[Master], how)
    BY <1>3 DEF MasterFinishTask
  <2>3. num_workers_running' \in Int /\ interrupted' \in [Procs -> BOOLEAN]
    <3>1. MasterLeaves \/ UNCHANGED <<interrupted, num_workers_running>>
      BY <1>3 DEF MasterFinishTask
    <3> QED BY <1>0, <3>1, LeaveTypes
  <2>4. BookTypes'
    BY <1>0, <1>3, <2>2, <2>3, StoreTypes DEF MasterFinishTask, BookTypes
  <2> QED BY <1>0, <1>k, <1>3, <2>1, <2>3, <2>4 DEF MasterFinishTask, ReportTypes,
          CheckTypes, ProcessTypes, report, check
<1>4. CASE MasterWait
  <2>1. LocationsOK'
    BY <1>0, <1>4, MasterMoves DEF MasterWait, MasterLocations
  <2> QED BY <1>0, <1>k, <1>4, <2>1 DEF MasterWait, BookTypes, ReportTypes, CheckTypes,
          ProcessTypes, report, controller
<1>5. CASE MasterCheckInterrupted
  <2>1. LocationsOK'
    BY <1>0, <1>5, MasterMoves DEF MasterCheckInterrupted, MasterLocations
  <2>2. ChannelsOK'
    BY <1>0, <1>5, InterruptOrdersAt DEF MasterCheckInterrupted
  <2>3. num_workers_running' \in Int /\ interrupted' \in [Procs -> BOOLEAN]
    <3>1. MasterLeaves \/ UNCHANGED <<interrupted, num_workers_running>>
      BY <1>5 DEF MasterCheckInterrupted, controller
    <3> QED BY <1>0, <3>1, LeaveTypes
  <2>4. BookTypes'
    <3>1. CASE StoreTaskResult(Master, task_id[Master], "error")
      BY <1>0, <1>5, <2>3, <3>1, StoreTypes DEF MasterCheckInterrupted, BookTypes
    <3>2. CASE UNCHANGED <<num_tasks_completed, workers_running, full_task_results,
                           interrupt_requested>>
      BY <1>0, <1>5, <2>3, <3>2 DEF MasterCheckInterrupted, BookTypes
    <3> QED BY <1>5, <3>1, <3>2 DEF MasterCheckInterrupted, controller
  <2> QED BY <1>0, <1>5, <2>1, <2>2, <2>3, <2>4 DEF MasterCheckInterrupted,
          ReportTypes, CheckTypes, ProcessTypes, report, check
<1>6. CASE MasterCheckQuiet
  <2>1. LocationsOK'
    BY <1>0, <1>6, MasterMoves, PhaseFacts DEF MasterCheckQuiet
  <2>2. ChannelsOK'
    BY <1>0, <1>6, ReportOrdersAt DEF MasterCheckQuiet, ChannelsOK
  <2>3. ReportTypes'
    <3>1. Cardinality(workers_running) \in Nat
      BY <1>0, ProcsFinite DEF BookTypes
    <3>2. CASE InitiateReport
             /\ event_counter' = event_counter
             /\ reacted_event_counter' \in {event_counter, reacted_event_counter}
      BY <1>0, <3>1, <3>2 DEF InitiateReport, ReportsExpected, ReportTypes
    <3>3. CASE UNCHANGED report
      BY <1>0, <3>3 DEF ReportTypes, report
    <3> QED BY <1>6, <3>2, <3>3, Zenon DEF MasterCheckQuiet
  <2>4. CheckTypes'
    <3>1. requested' \in BOOLEAN /\ budget' = CommSize /\ check_from' = check_from
      BY <1>6 DEF MasterCheckQuiet
    <3> QED BY <1>0, <1>c, <3>1 DEF CheckTypes
  <2> QED BY <1>0, <1>6, <2>1, <2>2, <2>3, <2>4 DEF MasterCheckQuiet, BookTypes,
          ProcessTypes, controller

<1>7. ASSUME NEW w \in Workers, TreatRequest(w) PROVE Types'
  <2>1. Waiting(Requests, w) /\ channel' = Answered(Requests, Deliveries, w, NewTask)
    BY <1>7 DEF TreatRequest, Receive, Delivery
  <2>2. ChannelsOK'
    BY <1>0, <1>t, <2>1, AnsweredAt
  <2>3. BookTypes'
    BY <1>0, <1>7, NewTaskTypes DEF TreatRequest, BookTypes
  <2>4. CheckTypes' /\ ProcessTypes'
    BY <1>0, <1>7, <1>c DEF TreatRequest, Receive, CheckTypes, ProcessTypes, LocationsOK
  <2> QED BY <1>0, <1>7, <2>2, <2>3, <2>4 DEF TreatRequest, ReportTypes, report
<1>8. ASSUME NEW w \in Workers, TreatResult(w) PROVE Types'
  <2>1. Waiting(Results, w) /\ channel' = Received(Results, w)
    BY <1>8 DEF TreatResult, Receive
  <2>2. ChannelsOK'
    BY <1>0, <1>t, <2>1, ReceivedAt
  <2>3. \E k \in Tasks, how \in {"ok", "error", "null"} : StoreTaskResult(w, k, how)
    <3> DEFINE m == Head(channel[Results][w])
    <3>1. StoreTaskResult(w, m.task, m.how)
      BY <1>8 DEF TreatResult
    <3>2. m.task \in Tasks /\ m.how \in {"ok", "error", "null"}
      BY <1>m, <2>1
    <3> QED BY <3>1, <3>2
  <2>4. BookTypes'
    BY <1>0, <1>8, <2>3, StoreTypes DEF TreatResult, BookTypes
  <2>5. CheckTypes' /\ ProcessTypes'
    BY <1>0, <1>8, <1>c DEF TreatResult, Receive, CheckTypes, ProcessTypes, LocationsOK
  <2> QED BY <1>0, <1>8, <2>2, <2>4, <2>5 DEF TreatResult, ReportTypes, report
<1>9. ASSUME NEW w \in Workers, TreatReport(w) PROVE Types'
  <2>1. PICK tag \in {Reports, IdleReports} :
          Receive(tag, w) /\ channel' = Received(tag, w)
    BY <1>9 DEF TreatReport
  <2>2. ChannelsOK'
    BY <1>0, <1>t, <2>1, ReceivedAt DEF Receive
  <2>3. CheckTypes' /\ ProcessTypes'
    BY <1>0, <2>1, <1>c DEF Receive, CheckTypes, ProcessTypes, LocationsOK
  <2>4. ReportTypes'
    BY <1>0, <1>9, HandleReportTypes DEF TreatReport
  <2> QED BY <1>0, <1>9, <2>2, <2>3, <2>4 DEF TreatReport, BookTypes, controller
<1>10. ASSUME NEW w \in Workers, TreatFarewell(w) PROVE Types'
  <2>1. ChannelsOK'
    BY <1>0, <1>t, <1>10, ReceivedAt DEF TreatFarewell, Receive
  <2>2. BookTypes'
    BY <1>0, <1>10 DEF TreatFarewell, BookTypes
  <2>3. CheckTypes' /\ ProcessTypes'
    BY <1>0, <1>10, <1>c DEF TreatFarewell, Receive, CheckTypes, ProcessTypes, LocationsOK
  <2> QED BY <1>0, <1>10, <2>1, <2>2, <2>3 DEF TreatFarewell, ReportTypes, report
<1>11. CASE NextPhase
  <2>1. LocationsOK'
    <3>1. PICK tag \in DOMAIN PhaseAfter : Transition(Master, tag, PhaseAfter[tag])
      BY <1>11 DEF NextPhase
    <3>2. PhaseAfter[tag] \in MasterLocations
      BY PhaseFacts
    <3> QED BY <1>0, <3>1, <3>2, MasterMoves
  <2> QED BY <1>0, <1>k, <1>c, <1>11, <2>1 DEF NextPhase, BookTypes, ReportTypes, CheckTypes,
          ProcessTypes, controller, report
<1>12. CASE EndCheck
  <2>1. LocationsOK'
    BY <1>0, <1>12, MasterMoves DEF EndCheck, MasterLocations
  <2>2. ReportTypes'
    BY <1>0, <1>12, HandleReportTypes DEF EndCheck, ReportTypes, report
  <2> QED BY <1>0, <1>k, <1>12, <2>1, <2>2 DEF EndCheck, BookTypes, CheckTypes,
          ProcessTypes, controller, check
<1>w. ASSUME NEW w \in Workers, WorkerKeeps, ChannelsOK', LocationsOK',
             task_id' \in [Procs -> Tasks \cup {-1}],
             interrupted' \in [Procs -> BOOLEAN]
      PROVE  Types'
  BY <1>0, <1>w DEF WorkerKeeps, BookTypes, ReportTypes, CheckTypes, ProcessTypes,
     controller, report, check
<1>13. ASSUME NEW w \in Workers, WorkerRequest(w) PROVE Types'
  <2>1. LocationsOK'
    BY <1>0, <1>13, WorkerMoves DEF WorkerRequest, WorkerLocations
  <2>2. ChannelsOK'
    BY <1>0, <1>t, <1>13, SentAt DEF WorkerRequest
  <2> QED BY <1>0, <1>13, <1>w, <2>1, <2>2 DEF WorkerRequest, ProcessTypes
<1>14. ASSUME NEW w \in Workers, WorkerReceiveTask(w) PROVE Types'
  <2>1. LocationsOK'
    BY <1>0, <1>14, WorkerMoves DEF WorkerReceiveTask, WorkerLocations
  <2>2. ChannelsOK'
    BY <1>0, <1>t, <1>14, ReceivedAt DEF WorkerReceiveTask
  <2>3. task_id' \in [Procs -> Tasks \cup {-1}]
    BY <1>0, <1>14, <1>d DEF WorkerReceiveTask, ProcessTypes
  <2> QED BY <1>0, <1>14, <1>w, <2>1, <2>2, <2>3 DEF WorkerReceiveTask, ProcessTypes
<1>15. ASSUME NEW w \in Workers, WorkerProbeInterrupt(w) PROVE Types'
  <2>1. LocationsOK'
    <3>1. PICK from \in Callers, to \in WorkerLocations : Transition(w, from, to)
      BY <1>15 DEF WorkerProbeInterrupt, Callers, ReportProbe, WorkerLocations
    <3> QED BY <1>0, <3>1, WorkerMoves
  <2>2. CASE UNCHANGED <<channel, interrupted>>
    BY <1>0, <1>15, <1>w, <2>1, <2>2 DEF WorkerProbeInterrupt, ProcessTypes, ChannelsOK
  <2>3. CASE /\ Waiting(InterruptOrders, w) /\ pc[w] = "task"
             /\ channel' = Answered(InterruptOrders, Results, w, Result(w, "null"))
             /\ UNCHANGED interrupted
    <3>1. AtWork(w)
      BY <2>3 DEF AtWork
    <3>2. Result(w, "null") \in MessagesOf(Results)
      BY <1>r, <3>1
    <3>3. ChannelsOK'
      BY <1>0, <1>t, <2>3, <3>2, AnsweredAt
    <3> QED BY <1>0, <1>15, <1>w, <2>1, <2>3, <3>3 DEF WorkerProbeInterrupt, ProcessTypes
  <2>4. CASE /\ Waiting(InterruptOrders, w)
             /\ channel' = Received(InterruptOrders, w)
             /\ interrupted' = [interrupted EXCEPT ![w] = TRUE]
    <3>1. ChannelsOK'
      BY <1>0, <1>t, <2>4, ReceivedAt
    <3> QED BY <1>0, <1>15, <1>w, <2>1, <2>4, <3>1 DEF WorkerProbeInterrupt, ProcessTypes
  <2> QED BY <1>15, <2>2, <2>3, <2>4 DEF WorkerProbeInterrupt, Transition
<1>16. ASSUME NEW w \in Workers, WorkerProbeReport(w) PROVE Types'
  <2>1. LocationsOK'
    <3>1. PICK from \in Callers : Transition(w, ReportProbe(from), AfterCheck(from))
      BY <1>16 DEF WorkerProbeReport
    <3>2. AfterCheck(from) \in WorkerLocations
      BY DEF AfterCheck, Callers, WorkerLocations
    <3> QED BY <1>0, <3>1, <3>2, WorkerMoves
  <2>2. ChannelsOK'
    <3>1. CASE UNCHANGED channel
      BY <1>0, <3>1 DEF ChannelsOK
    <3>2. CASE Waiting(ReportOrders, w) /\ \E tag \in {Reports, IdleReports} :
                 channel' = Answered(ReportOrders, tag, w, Signal)
      BY <1>0, <1>t, <3>2, AnsweredAt
    <3> QED BY <1>16, <3>1, <3>2 DEF WorkerProbeReport
  <2>3. interrupted' \in [Procs -> BOOLEAN]
    BY <1>0, <1>16 DEF WorkerProbeReport, ProcessTypes
  <2> QED BY <1>0, <1>16, <1>w, <2>1, <2>2, <2>3 DEF WorkerProbeReport, ProcessTypes
<1>17. ASSUME NEW w \in Workers, WorkerFinishTask(w) PROVE Types'
  <2>1. LocationsOK' /\ pc[w] = "task"
    BY <1>0, <1>17, WorkerMoves DEF WorkerFinishTask, WorkerLocations
  <2>2. AtWork(w)
    BY <2>1 DEF AtWork
  <2>3. ChannelsOK'
    BY <1>0, <1>t, <1>r, <1>17, <2>2, SentAt DEF WorkerFinishTask
  <2> QED BY <1>0, <1>17, <1>w, <2>1, <2>3 DEF WorkerFinishTask, ProcessTypes
<1>18. ASSUME NEW w \in Workers, WorkerLeave(w) PROVE Types'
  <2>1. LocationsOK'
    BY <1>0, <1>18, WorkerMoves DEF WorkerLeave, WorkerLocations
  <2>2. ChannelsOK'
    BY <1>0, <1>t, <1>18, ReceivedAt DEF WorkerLeave, ChannelsOK
  <2>3. interrupted' \in [Procs -> BOOLEAN]
    BY <1>0, <1>18 DEF WorkerLeave, ProcessTypes
  <2> QED BY <1>0, <1>18, <1>w, <2>1, <2>2, <2>3 DEF WorkerLeave, ProcessTypes
<1>19. ASSUME NEW w \in Workers, WorkerFarewell(w) PROVE Types'
  <2>1. LocationsOK'
    BY <1>0, <1>19, WorkerMoves DEF WorkerFarewell, WorkerLocations
  <2>2. ChannelsOK'
    BY <1>0, <1>t, <1>19, SentAt DEF WorkerFarewell
  <2> QED BY <1>0, <1>19, <1>w, <2>1, <2>2 DEF WorkerFarewell, ProcessTypes
<1>20. CASE RequestStatusReport
  BY <1>0, <1>20 DEF RequestStatusReport, BookTypes, ReportTypes, CheckTypes,
     ProcessTypes, ChannelsOK, LocationsOK, controller, check
<1>21. CASE RequestInterrupt
  BY <1>0, <1>21 DEF RequestInterrupt, BookTypes, ReportTypes, CheckTypes,
     ProcessTypes, ChannelsOK, LocationsOK, controller, report, check
<1>22. CASE UNCHANGED vars
  BY <1>0, <1>22 DEF vars, BookTypes, ReportTypes, CheckTypes,
     ProcessTypes, ChannelsOK, LocationsOK, controller, report, check
<1> QED
  BY <1>1, <1>2, <1>3, <1>4, <1>5, <1>6, <1>7, <1>8, <1>9, <1>10, <1>11, <1>12, <1>13,
     <1>14, <1>15, <1>16, <1>17, <1>18, <1>19, <1>20, <1>21, <1>22, NextCases

-----------------------------------------------------------------------------
\* Where a process is, and whether it is at work

\* What AtWork and AfterWork say of the master, before and after a step
LEMMA MasterPlaces ==
  ASSUME LocationsOK, LocationsOK'
  PROVE  /\ AtWork(Master) <=> \/ pc[Master] = "task"
                               \/ InCheck /\ check_from # "wait"
         /\ AfterWork <=> \/ pc[Master] \in {"wait", "done"}
                          \/ InCheck /\ check_from = "wait"
         /\ AtWork(Master)' <=> \/ pc'[Master] = "task"
                                \/ InCheck' /\ check_from' # "wait"
         /\ AfterWork' <=> \/ pc'[Master] \in {"wait", "done"}
                           \/ InCheck' /\ check_from' = "wait"
         /\ InCheck <=> pc[Master] \in {"check", Requests, Results, Reports,
                                        IdleReports, Farewells}
         /\ InCheck' <=> pc'[Master] \in {"check", Requests, Results, Reports,
                                          IdleReports, Farewells}
         /\ AtWork(Master) \/ AfterWork \/ pc[Master] = "next"
         /\ ~(AtWork(Master) /\ AfterWork)
         /\ AtWork(Master)' \/ AfterWork' \/ pc'[Master] = "next"
         /\ ~(AtWork(Master)' /\ AfterWork')
<1>1. /\ pc[Master] \in MasterLocations /\ pc'[Master] \in MasterLocations
  BY DEF LocationsOK
<1> QED BY <1>1, PhaseFacts DEF AtWork, AfterWork, InCheck

LEMMA MasterStays ==
  ASSUME pc'[Master] = pc[Master], check_from' = check_from
  PROVE  /\ AtWork(Master)' <=> AtWork(Master)
         /\ AfterWork' <=> AfterWork
         /\ InCheck' <=> InCheck
BY DEF AtWork, AfterWork, InCheck

LEMMA WorkerPlaces ==
  ASSUME NEW w \in Workers
  PROVE  /\ AtWork(w) <=> pc[w] \in {"task", "before", "before_report", "task_report"}
         /\ AtWork(w)' <=> pc'[w] \in {"task", "before", "before_report", "task_report"}
BY ProcFacts DEF AtWork

\* What a step of a worker leaves to all others, and where the worker goes
LEMMA WorkerMove ==
  ASSUME NEW w \in Workers, Types,
         \/ WorkerRequest(w) \/ WorkerReceiveTask(w)
         \/ WorkerProbeInterrupt(w) \/ WorkerProbeReport(w)
         \/ WorkerFinishTask(w) \/ WorkerLeave(w) \/ WorkerFarewell(w)
  PROVE  /\ WorkerKeeps
         /\ pc[w] # "done"
         /\ \A p \in Procs \ {w} : pc'[p] = pc[p]
         /\ pc'[Master] = pc[Master]
         /\ \A p \in Procs \ {w} : task_id'[p] = task_id[p]
         /\ interrupted'[Master] = interrupted[Master]
<1>0. LocationsOK /\ ProcessTypes
  BY DEF Types, ProcessTypes
<1>1. WorkerKeeps
  BY DEF WorkerRequest, WorkerReceiveTask, WorkerProbeInterrupt,
     WorkerProbeReport, WorkerFinishTask, WorkerLeave, WorkerFarewell
<1>2. \E from \in WorkerLocations \ {"done"} : \E to : Transition(w, from, to)
  <2>2. CASE WorkerProbeReport(w)
    BY <2>2 DEF WorkerProbeReport, Callers, ReportProbe, WorkerLocations
  <2>3. CASE WorkerRequest(w) \/ WorkerReceiveTask(w) \/ WorkerFinishTask(w)
             \/ WorkerLeave(w) \/ WorkerFarewell(w)
    BY <2>3 DEF WorkerRequest, WorkerReceiveTask, WorkerFinishTask, WorkerLeave,
       WorkerFarewell, WorkerLocations
  <2>4. CASE WorkerProbeInterrupt(w)
    <3>1. PICK from \in Callers : \E to : Transition(w, from, to)
      BY <2>4 DEF WorkerProbeInterrupt
    <3> QED BY <3>1 DEF Callers, WorkerLocations
  <2> QED BY <2>2, <2>3, <2>4
<1>3. /\ pc[w] # "done"
      /\ \A p \in Procs \ {w} : pc'[p] = pc[p]
  BY <1>0, <1>2 DEF Transition, LocationsOK
<1>4. \A p \in Procs \ {w} : task_id'[p] = task_id[p]
  <2>1. \/ UNCHANGED task_id
        \/ \E k : task_id' = [task_id EXCEPT ![w] = k]
    BY DEF WorkerRequest, WorkerReceiveTask, WorkerProbeInterrupt,
       WorkerProbeReport, WorkerFinishTask, WorkerLeave, WorkerFarewell
  <2> QED BY <1>0, <2>1 DEF ProcessTypes
<1>5. interrupted'[Master] = interrupted[Master]
  <2>1. \/ UNCHANGED interrupted
        \/ \E b : interrupted' = [interrupted EXCEPT ![w] = b]
    BY DEF WorkerRequest, WorkerReceiveTask, WorkerProbeInterrupt,
       WorkerProbeReport, WorkerFinishTask, WorkerLeave, WorkerFarewell
  <2> QED BY <1>0, <2>1, ProcFacts DEF ProcessTypes
<1> QED BY <1>1, <1>3, <1>4, <1>5, ProcFacts

-----------------------------------------------------------------------------
\* A process at work has a task to work on.
LEMMA WorkHasTaskStep ==
  ASSUME Types, Types', WorkHasTask, [Next]_vars
  PROVE  WorkHasTask'
<1> USE DEF Types
<1>0. /\ LocationsOK /\ LocationsOK' /\ ProcessTypes /\ CheckTypes
      /\ num_tasks_launched \in 0 .. NumTotalRuns
  BY DEF ProcessTypes, BookTypes
<1>p. WorkHasTask' <=> /\ AtWork(Master)' => task_id'[Master] \in Tasks
                       /\ \A v \in Workers : AtWork(v)' => task_id'[v] \in Tasks
  BY DEF WorkHasTask, Procs
<1>q. /\ AtWork(Master) => task_id[Master] \in Tasks
      /\ \A v \in Workers : AtWork(v) => task_id[v] \in Tasks
  BY DEF WorkHasTask, Procs
<1>m. ASSUME \A v \in Workers : pc'[v] = pc[v], UNCHANGED task_id,
             AtWork(Master)' => AtWork(Master)
      PROVE  WorkHasTask'
  BY <1>m, <1>p, <1>q, WorkerPlaces
<1>w. ASSUME NEW w \in Workers, WorkerKeeps, pc'[Master] = pc[Master],
             \A p \in Procs \ {w} : pc'[p] = pc[p] /\ task_id'[p] = task_id[p],
             AtWork(w)' => task_id'[w] \in Tasks
      PROVE  WorkHasTask'
  <2>1. AtWork(Master)' <=> AtWork(Master)
    BY <1>w, MasterStays DEF WorkerKeeps, check
  <2>2. \A v \in Workers \ {w} : AtWork(v)' <=> AtWork(v)
    BY <1>w, WorkerPlaces, ProcFacts
  <2> QED BY <1>p, <1>q, <1>w, <2>1, <2>2, ProcFacts
<1>1. CASE MasterNext
  <2>1. /\ \A v \in Workers : pc'[v] = pc[v]
        /\ \A p \in Procs \ {Master} : task_id'[p] = task_id[p]
    <3>1. \A v \in Workers : pc'[v] = pc[v]
      BY <1>0, <1>1, MasterMoves, PhaseFacts DEF MasterNext
    <3>2. UNCHANGED task_id \/ task_id' = [task_id EXCEPT ![Master] = NewTask]
      BY <1>1 DEF MasterNext
    <3> QED BY <1>0, <3>1, <3>2 DEF ProcessTypes
  <2>2. CASE NewTask >= 0
    <3>1. task_id'[Master] \in Tasks
      BY <1>0, <1>1, <2>2, NewTaskFacts, ProcFacts DEF MasterNext, ProcessTypes
    <3> QED BY <1>p, <1>q, <2>1, <3>1, WorkerPlaces, ProcFacts
  <2>3. CASE ~(NewTask >= 0)
    <3>1. pc'[Master] = "wait" /\ UNCHANGED task_id
      BY <1>0, <1>1, <2>3, MasterMoves, PhaseFacts DEF MasterNext
    <3>2. ~AtWork(Master)'
      BY <1>0, <3>1, MasterPlaces
    <3> QED BY <1>m, <2>1, <3>1, <3>2
  <2> QED BY <2>2, <2>3
<1>2. CASE MasterPoll
  <2>1. pc[Master] = "task" /\ \A v \in Workers : pc'[v] = pc[v]
    BY <1>0, <1>2, MasterMoves, PhaseFacts DEF MasterPoll
  <2>2. AtWork(Master)
    BY <2>1 DEF AtWork
  <2> QED BY <1>m, <1>2, <2>1, <2>2 DEF MasterPoll
<1>3. CASE MasterFinishTask
  <2>1. /\ pc'[Master] \in {"next", "wait"}
        /\ \A v \in Workers : pc'[v] = pc[v]
    BY <1>0, <1>3, MasterMoves, PhaseFacts DEF MasterFinishTask
  <2>2. ~AtWork(Master)'
    BY <1>0, <2>1, MasterPlaces
  <2> QED BY <1>m, <1>3, <2>1, <2>2 DEF MasterFinishTask
<1>4. CASE MasterWait
  <2>1. /\ pc'[Master] = "done" \/ check_from' = "wait"
        /\ pc'[Master] \in {"done", "check"}
        /\ \A v \in Workers : pc'[v] = pc[v]
    BY <1>0, <1>4, MasterMoves, PhaseFacts DEF MasterWait
  <2>2. ~AtWork(Master)'
    BY <1>0, <2>1, MasterPlaces
  <2> QED BY <1>m, <1>4, <2>1, <2>2 DEF MasterWait
<1>5. CASE MasterCheckInterrupted
  <2>1. /\ pc'[Master] = "wait"
        /\ \A v \in Workers : pc'[v] = pc[v]
    BY <1>0, <1>5, MasterMoves, PhaseFacts DEF MasterCheckInterrupted
  <2>2. ~AtWork(Master)'
    BY <1>0, <2>1, MasterPlaces
  <2> QED BY <1>m, <1>5, <2>1, <2>2 DEF MasterCheckInterrupted
<1>6. CASE MasterCheckQuiet
  <2>1. /\ pc[Master] = "check" /\ UNCHANGED check_from
        /\ \A v \in Workers : pc'[v] = pc[v]
    BY <1>0, <1>6, MasterMoves, PhaseFacts DEF MasterCheckQuiet
  <2>2. pc'[Master] = Requests
    BY <1>0, <1>6, MasterMoves, PhaseFacts DEF MasterCheckQuiet
  <2>3. AtWork(Master)' => AtWork(Master)
    BY <1>0, <2>1, <2>2, MasterPlaces
  <2> QED BY <1>m, <1>6, <2>1, <2>3 DEF MasterCheckQuiet
<1>7. ASSUME NEW w \in Workers,
             TreatRequest(w) \/ TreatResult(w) \/ TreatReport(w) \/ TreatFarewell(w)
      PROVE  WorkHasTask'
  <2>1. UNCHANGED <<pc, check_from, task_id>>
    BY <1>7 DEF TreatRequest, TreatResult, TreatReport, TreatFarewell, Receive
  <2> QED BY <1>m, <2>1, MasterStays
<1>8. CASE NextPhase
  <2>1. PICK tag \in DOMAIN PhaseAfter : Transition(Master, tag, PhaseAfter[tag])
    BY <1>8 DEF NextPhase
  <2>2. tag \in Phases /\ PhaseAfter[tag] \in Phases
    BY PhaseFacts
  <2>3. /\ pc[Master] \in Phases /\ pc'[Master] \in Phases
        /\ \A v \in Workers : pc'[v] = pc[v]
    BY <1>0, <2>1, <2>2, MasterMoves, PhaseFacts
  <2>4. AtWork(Master)' => AtWork(Master)
    BY <1>0, <1>8, <2>3, MasterPlaces, PhaseFacts DEF NextPhase
  <2> QED BY <1>m, <1>8, <2>3, <2>4 DEF NextPhase
<1>9. CASE EndCheck
  <2>1. /\ pc[Master] = Farewells
        /\ pc'[Master] = IF check_from = "wait" THEN "wait" ELSE "task"
        /\ \A v \in Workers : pc'[v] = pc[v]
    BY <1>0, <1>9, MasterMoves, PhaseFacts DEF EndCheck
  <2>2. AtWork(Master)' => AtWork(Master)
    BY <1>0, <2>1, MasterPlaces
  <2> QED BY <1>m, <1>9, <2>1, <2>2 DEF EndCheck
<1>10. ASSUME NEW w \in Workers,
              \/ WorkerRequest(w) \/ WorkerReceiveTask(w)
              \/ WorkerProbeInterrupt(w) \/ WorkerProbeReport(w)
              \/ WorkerFinishTask(w) \/ WorkerLeave(w) \/ WorkerFarewell(w)
       PROVE  WorkHasTask'
  <2>1. /\ WorkerKeeps /\ pc'[Master] = pc[Master]
        /\ \A p \in Procs \ {w} : pc'[p] = pc[p] /\ task_id'[p] = task_id[p]
    BY <1>10, WorkerMove
  <2>2. SUFFICES AtWork(w)' => task_id'[w] \in Tasks
    BY <1>w, <2>1
  <2>3. CASE WorkerReceiveTask(w)
    <3> DEFINE k == Head(channel[Deliveries][w])
    <3>1. channel[Deliveries][w] \in Seq(MessagesOf(Deliveries))
      BY DEF ChannelsOK, Tags
    <3>2. k \in Tasks \cup {-1}
      BY <2>3, <3>1, TailFacts DEF WorkerReceiveTask, Waiting, MessagesOf
    <3>3. task_id'[w] = k
      BY <1>0, <2>3, ProcFacts DEF WorkerReceiveTask, ProcessTypes
    <3>4. pc'[w] = IF k < 0 THEN "leave" ELSE "before"
      BY <1>0, <2>3, ProcFacts DEF WorkerReceiveTask, Transition, LocationsOK
    <3> QED BY <3>2, <3>3, <3>4, WorkerPlaces DEF Tasks
  <2>4. CASE \/ WorkerRequest(w) \/ WorkerFinishTask(w) \/ WorkerLeave(w)
             \/ WorkerFarewell(w)
    <3>1. pc'[w] \in {"await", "sent", "failed", "farewell", "done"}
      BY <1>0, <2>4, ProcFacts DEF WorkerRequest, WorkerFinishTask, WorkerLeave,
         WorkerFarewell, Transition, LocationsOK
    <3> QED BY <3>1, WorkerPlaces
  <2>5. CASE WorkerProbeInterrupt(w) \/ WorkerProbeReport(w)
    <3>1. UNCHANGED task_id
      BY <2>5 DEF WorkerProbeInterrupt, WorkerProbeReport
    <3>2. \E from \in Callers :
            \/ Transition(w, from, ReportProbe(from))
            \/ Transition(w, ReportProbe(from), AfterCheck(from))
            \/ Transition(w, from, "sent")
            \/ Transition(w, from, "farewell")
      BY <2>5 DEF WorkerProbeInterrupt, WorkerProbeReport
    <3>3. AtWork(w)' => AtWork(w)
      BY <1>0, <3>2, WorkerPlaces, ProcFacts
         DEF Transition, Callers, ReportProbe, AfterCheck, LocationsOK
    <3> QED BY <1>q, <3>1, <3>3
  <2> QED BY <1>10, <2>3, <2>4, <2>5
<1>11. CASE RequestStatusReport \/ RequestInterrupt \/ UNCHANGED vars
  <2>1. UNCHANGED <<pc, check_from, task_id>>
    BY <1>11 DEF RequestStatusReport, RequestInterrupt, vars, check
  <2> QED BY <1>m, <2>1, MasterStays
<1> QED
  BY <1>1, <1>2, <1>3, <1>4, <1>5, <1>6, <1>7, <1>8, <1>9, <1>10, <1>11, NextCases

-----------------------------------------------------------------------------
\* Which step touches which queue

LEMMA TagFacts ==
  /\ Requests \in Tags /\ Deliveries \in Tags /\ InterruptOrders \in Tags
  /\ ReportOrders \in Tags /\ Reports \in Tags /\ IdleReports \in Tags
  /\ Results \in Tags /\ Farewells \in Tags
  /\ Signal \in MessagesOf(Requests) /\ Signal \in MessagesOf(Reports)
  /\ Signal \in MessagesOf(IdleReports) /\ Signal \in MessagesOf(Farewells)
  /\ MessagesOf(Deliveries) = Tasks \cup {-1}
  /\ MessagesOf(Results) = [task : Tasks, how : {"ok", "error", "null"}]
BY DEF Tags, MessagesOf

LEMMA TreatRequestAt ==
  ASSUME Types, NEW w \in Workers, TreatRequest(w)
  PROVE  /\ Waiting(Requests, w)
         /\ \A t \in Tags, v \in Workers :
              v # w \/ t \notin {Requests, Deliveries} => channel'[t][v] = channel[t][v]
         /\ channel'[Requests][w] = Tail(channel[Requests][w])
         /\ channel'[Deliveries][w] = Append(channel[Deliveries][w], NewTask)
<1>1. Waiting(Requests, w) /\ channel' = Answered(Requests, Deliveries, w, NewTask)
  BY DEF TreatRequest, Receive, Delivery
<1>2. NewTask \in MessagesOf(Deliveries)
  BY NewTaskFacts, TagFacts DEF Types, BookTypes
<1>3. /\ \A t \in Tags, v \in Workers :
           v # w \/ t \notin {Requests, Deliveries} => channel'[t][v] = channel[t][v]
      /\ channel'[Requests][w] = Tail(channel[Requests][w])
      /\ channel'[Deliveries][w] = Append(channel[Deliveries][w], NewTask)
      /\ ChannelsOK'
  BY <1>1, <1>2, AnsweredAt, TagFacts DEF Types
<1> QED BY <1>1, <1>3

LEMMA TreatResultAt ==
  ASSUME Types, NEW w \in Workers, TreatResult(w)
  PROVE  /\ Waiting(Results, w)
         /\ \A t \in Tags, v \in Workers :
              v # w \/ t # Results => channel'[t][v] = channel[t][v]
         /\ channel'[Results][w] = Tail(channel[Results][w])
<1>1. Waiting(Results, w) /\ channel' = Received(Results, w)
  BY DEF TreatResult, Receive
<1>2. /\ \A t \in Tags, v \in Workers :
           v # w \/ t # Results => channel'[t][v] = channel[t][v]
      /\ channel'[Results][w] = Tail(channel[Results][w])
      /\ ChannelsOK'
  BY <1>1, ReceivedAt, TagFacts DEF Types
<1> QED BY <1>1, <1>2

LEMMA TreatReportAt ==
  ASSUME Types, NEW w \in Workers, TreatReport(w)
  PROVE  \E tag \in {Reports, IdleReports} :
           /\ Waiting(tag, w)
           /\ \A t \in Tags, v \in Workers :
                v # w \/ t # tag => channel'[t][v] = channel[t][v]
           /\ channel'[tag][w] = Tail(channel[tag][w])
<1>1. PICK tag \in {Reports, IdleReports} :
        Waiting(tag, w) /\ channel' = Received(tag, w)
  BY DEF TreatReport, Receive
<1>2. tag \in Tags
  BY TagFacts
<1>3. /\ \A t \in Tags, v \in Workers :
           v # w \/ t # tag => channel'[t][v] = channel[t][v]
      /\ channel'[tag][w] = Tail(channel[tag][w])
      /\ ChannelsOK'
  BY <1>1, <1>2, ReceivedAt DEF Types
<1> QED BY <1>1, <1>3

LEMMA TreatFarewellAt ==
  ASSUME Types, NEW w \in Workers, TreatFarewell(w)
  PROVE  /\ Waiting(Farewells, w)
         /\ \A t \in Tags, v \in Workers :
              v # w \/ t # Farewells => channel'[t][v] = channel[t][v]
         /\ channel'[Farewells][w] = Tail(channel[Farewells][w])
<1>1. Waiting(Farewells, w) /\ channel' = Received(Farewells, w)
  BY DEF TreatFarewell, Receive
<1>2. /\ \A t \in Tags, v \in Workers :
           v # w \/ t # Farewells => channel'[t][v] = channel[t][v]
      /\ channel'[Farewells][w] = Tail(channel[Farewells][w])
      /\ ChannelsOK'
  BY <1>1, ReceivedAt, TagFacts DEF Types
<1> QED BY <1>1, <1>2

LEMMA WorkerRequestAt ==
  ASSUME Types, NEW w \in Workers, WorkerRequest(w)
  PROVE  /\ \A t \in Tags, v \in Workers :
              v # w \/ t # Requests => channel'[t][v] = channel[t][v]
         /\ channel'[Requests][w] = Append(channel[Requests][w], Signal)
<1>1. /\ \A t \in Tags, v \in Workers :
           v # w \/ t # Requests => channel'[t][v] = channel[t][v]
      /\ channel'[Requests][w] = Append(channel[Requests][w], Signal)
      /\ ChannelsOK'
  BY SentAt, TagFacts DEF Types, WorkerRequest
<1> QED BY <1>1

LEMMA WorkerReceiveTaskAt ==
  ASSUME Types, NEW w \in Workers, WorkerReceiveTask(w)
  PROVE  /\ Waiting(Deliveries, w)
         /\ \A t \in Tags, v \in Workers :
              v # w \/ t # Deliveries => channel'[t][v] = channel[t][v]
         /\ channel'[Deliveries][w] = Tail(channel[Deliveries][w])
<1>1. Waiting(Deliveries, w) /\ channel' = Received(Deliveries, w)
  BY DEF WorkerReceiveTask
<1>2. /\ \A t \in Tags, v \in Workers :
           v # w \/ t # Deliveries => channel'[t][v] = channel[t][v]
      /\ channel'[Deliveries][w] = Tail(channel[Deliveries][w])
      /\ ChannelsOK'
  BY <1>1, ReceivedAt, TagFacts DEF Types
<1> QED BY <1>1, <1>2

LEMMA ResultFacts ==
  ASSUME WorkHasTask, NEW w \in Workers, AtWork(w)
  PROVE  \A how \in {"ok", "error", "null"} :
           /\ Result(w, how) \in MessagesOf(Results)
           /\ Result(w, how).task = task_id[w] /\ Result(w, how).how = how
BY TagFacts, ProcFacts DEF WorkHasTask, Result

LEMMA WorkerFinishTaskAt ==
  ASSUME Types, WorkHasTask, NEW w \in Workers, WorkerFinishTask(w)
  PROVE  /\ AtWork(w) /\ pc[w] = "task"
         /\ \A t \in Tags, v \in Workers :
              v # w \/ t # Results => channel'[t][v] = channel[t][v]
         /\ \/ /\ pc'[w] = "sent"
               /\ channel'[Results][w] = Append(channel[Results][w], Result(w, "ok"))
            \/ /\ MayFail /\ pc'[w] = "failed"
               /\ channel'[Results][w] = Append(channel[Results][w], Result(w, "error"))
<1>0. LocationsOK /\ ChannelsOK
  BY DEF Types, ProcessTypes
<1>1. pc[w] = "task" /\ AtWork(w)
  BY DEF WorkerFinishTask, Transition, AtWork
<1>2. CASE /\ Transition(w, "task", "sent")
           /\ channel' = Sent(Results, w, Result(w, "ok"))
  <2>1. pc'[w] = "sent"
    BY <1>0, <1>2, WorkerMoves DEF WorkerLocations
  <2>2. Result(w, "ok") \in MessagesOf(Results)
    BY <1>1, ResultFacts
  <2>3. /\ \A t \in Tags, v \in Workers :
             v # w \/ t # Results => channel'[t][v] = channel[t][v]
        /\ channel'[Results][w] = Append(channel[Results][w], Result(w, "ok"))
        /\ ChannelsOK'
    BY <1>0, <1>2, <2>2, SentAt, TagFacts
  <2> QED BY <1>1, <1>2, <2>1, <2>3
<1>3. CASE /\ MayFail
           /\ Transition(w, "task", "failed")
           /\ channel' = Sent(Results, w, Result(w, "error"))
  <2>1. pc'[w] = "failed"
    BY <1>0, <1>3, WorkerMoves DEF WorkerLocations
  <2>2. Result(w, "error") \in MessagesOf(Results)
    BY <1>1, ResultFacts
  <2>3. /\ \A t \in Tags, v \in Workers :
             v # w \/ t # Results => channel'[t][v] = channel[t][v]
        /\ channel'[Results][w] = Append(channel[Results][w], Result(w, "error"))
        /\ ChannelsOK'
    BY <1>0, <1>3, <2>2, SentAt, TagFacts
  <2> QED BY <1>1, <1>3, <2>1, <2>3
<1> QED BY <1>2, <1>3 DEF WorkerFinishTask

LEMMA WorkerProbeInterruptAt ==
  ASSUME Types, WorkHasTask, NEW w \in Workers, WorkerProbeInterrupt(w)
  PROVE  \/ /\ ~Waiting(InterruptOrders, w)
            /\ \E from \in Callers : pc[w] = from /\ pc'[w] = ReportProbe(from)
            /\ UNCHANGED channel
         \/ /\ Waiting(InterruptOrders, w)
            /\ pc[w] = "task" /\ AtWork(w) /\ pc'[w] = "sent"
            /\ \A t \in Tags, v \in Workers :
                 v # w \/ t \notin {InterruptOrders, Results}
                   => channel'[t][v] = channel[t][v]
            /\ channel'[Results][w] = Append(channel[Results][w], Result(w, "null"))
         \/ /\ Waiting(InterruptOrders, w)
            /\ pc[w] \in Callers \ {"task"} /\ pc'[w] = "farewell"
            /\ \A t \in Tags, v \in Workers :
                 v # w \/ t # InterruptOrders => channel'[t][v] = channel[t][v]
<1>0. LocationsOK /\ ChannelsOK
  BY DEF Types, ProcessTypes
<1>1. PICK from \in Callers :
       \/ /\ ~Waiting(InterruptOrders, w)
          /\ Transition(w, from, ReportProbe(from))
          /\ UNCHANGED <<channel, interrupted>>
       \/ /\ Waiting(InterruptOrders, w)
          /\ from = "task"
          /\ Transition(w, from, "sent")
          /\ channel' = Answered(InterruptOrders, Results, w, Result(w, "null"))
       \/ /\ Waiting(InterruptOrders, w)
          /\ from # "task"
          /\ Transition(w, from, "farewell")
          /\ channel' = Received(InterruptOrders, w)
  BY DEF WorkerProbeInterrupt
<1>2. CASE /\ ~Waiting(InterruptOrders, w)
           /\ Transition(w, from, ReportProbe(from))
           /\ UNCHANGED <<channel, interrupted>>
  <2>1. ReportProbe(from) \in WorkerLocations
    BY <1>1 DEF Callers, ReportProbe, WorkerLocations
  <2>2. pc[w] = from /\ pc'[w] = ReportProbe(from)
    BY <1>0, <1>2, <2>1, WorkerMoves
  <2> QED BY <1>2, <2>2
<1>3. CASE /\ Waiting(InterruptOrders, w)
           /\ from = "task"
           /\ Transition(w, from, "sent")
           /\ channel' = Answered(InterruptOrders, Results, w, Result(w, "null"))
  <2>1. pc[w] = "task" /\ pc'[w] = "sent"
    BY <1>0, <1>3, WorkerMoves DEF WorkerLocations
  <2>2. AtWork(w)
    BY <2>1 DEF AtWork
  <2>3. Result(w, "null") \in MessagesOf(Results)
    BY <2>2, ResultFacts
  <2>4. /\ \A t \in Tags, v \in Workers :
             v # w \/ t \notin {InterruptOrders, Results}
               => channel'[t][v] = channel[t][v]
        /\ channel'[InterruptOrders][w] = Tail(channel[InterruptOrders][w])
        /\ channel'[Results][w] = Append(channel[Results][w], Result(w, "null"))
        /\ ChannelsOK'
    BY <1>0, <1>3, <2>3, AnsweredAt, TagFacts
  <2> QED BY <1>3, <2>1, <2>2, <2>4
<1>4. CASE /\ Waiting(InterruptOrders, w)
           /\ from # "task"
           /\ Transition(w, from, "farewell")
           /\ channel' = Received(InterruptOrders, w)
  <2>1. pc[w] = from /\ pc'[w] = "farewell"
    BY <1>0, <1>4, WorkerMoves DEF WorkerLocations
  <2>2. /\ \A t \in Tags, v \in Workers :
             v # w \/ t # InterruptOrders => channel'[t][v] = channel[t][v]
        /\ channel'[InterruptOrders][w] = Tail(channel[InterruptOrders][w])
        /\ ChannelsOK'
    BY <1>0, <1>4, ReceivedAt, TagFacts
  <2> QED BY <1>4, <2>1, <2>2
<1> QED BY <1>1, <1>2, <1>3, <1>4

LEMMA WorkerProbeReportAt ==
  ASSUME Types, NEW w \in Workers, WorkerProbeReport(w)
  PROVE  /\ \E from \in Callers : pc[w] = ReportProbe(from) /\ pc'[w] = AfterCheck(from)
         /\ \/ UNCHANGED channel /\ ~Waiting(ReportOrders, w)
            \/ /\ Waiting(ReportOrders, w)
               /\ \E tag \in {Reports, IdleReports} :
                    /\ \A t \in Tags, v \in Workers :
                         v # w \/ t \notin {ReportOrders, tag}
                           => channel'[t][v] = channel[t][v]
                    /\ channel'[ReportOrders][w] = Tail(channel[ReportOrders][w])
                    /\ channel'[tag][w] = Append(channel[tag][w], Signal)
<1>0. LocationsOK /\ ChannelsOK
  BY DEF Types, ProcessTypes
<1>1. PICK from \in Callers :
        /\ Transition(w, ReportProbe(from), AfterCheck(from))
        /\ IF Waiting(ReportOrders, w)
           THEN channel' = Answered(ReportOrders,
                                    IF from = "task" THEN Reports ELSE IdleReports,
                                    w, Signal)
           ELSE UNCHANGED channel
  BY DEF WorkerProbeReport
<1>2. AfterCheck(from) \in WorkerLocations
  BY DEF Callers, AfterCheck, WorkerLocations
<1>3. pc[w] = ReportProbe(from) /\ pc'[w] = AfterCheck(from)
  BY <1>0, <1>1, <1>2, WorkerMoves
<1>4. CASE Waiting(ReportOrders, w)
  <2>1. PICK tag \in {Reports, IdleReports} :
          channel' = Answered(ReportOrders, tag, w, Signal)
    BY <1>1, <1>4
  <2>2. tag \in Tags \ {InterruptOrders, ReportOrders} /\ Signal \in MessagesOf(tag)
    BY TagFacts
  <2>3. /\ \A t \in Tags, v \in Workers :
             v # w \/ t \notin {ReportOrders, tag} => channel'[t][v] = channel[t][v]
        /\ channel'[ReportOrders][w] = Tail(channel[ReportOrders][w])
        /\ channel'[tag][w] = Append(channel[tag][w], Signal)
        /\ ChannelsOK'
    BY <1>0, <1>4, <2>1, <2>2, AnsweredAt, TagFacts
  <2> QED BY <1>3, <1>4, <2>3
<1>5. CASE ~Waiting(ReportOrders, w)
  BY <1>1, <1>3, <1>5
<1> QED BY <1>4, <1>5

LEMMA WorkerLeaveAt ==
  ASSUME Types, NEW w \in Workers, WorkerLeave(w)
  PROVE  /\ pc[w] = "leave" /\ pc'[w] = "farewell"
         /\ \A t \in Tags, v \in Workers :
              v # w \/ t # InterruptOrders => channel'[t][v] = channel[t][v]
         /\ UNCHANGED channel \/ Waiting(InterruptOrders, w)
<1>0. LocationsOK /\ ChannelsOK
  BY DEF Types, ProcessTypes
<1>1. pc[w] = "leave" /\ pc'[w] = "farewell"
  BY <1>0, WorkerMoves DEF WorkerLeave, WorkerLocations
<1>2. CASE UNCHANGED channel
  BY <1>1, <1>2
<1>3. CASE Waiting(InterruptOrders, w) /\ channel' = Received(InterruptOrders, w)
  <2>1. /\ \A t \in Tags, v \in Workers :
             v # w \/ t # InterruptOrders => channel'[t][v] = channel[t][v]
        /\ channel'[InterruptOrders][w] = Tail(channel[InterruptOrders][w])
        /\ ChannelsOK'
    BY <1>0, <1>3, ReceivedAt, TagFacts
  <2> QED BY <1>1, <1>3, <2>1
<1> QED BY <1>2, <1>3 DEF WorkerLeave

LEMMA WorkerFarewellAt ==
  ASSUME Types, NEW w \in Workers, WorkerFarewell(w)
  PROVE  /\ pc[w] = "farewell" /\ pc'[w] = "done"
         /\ \A t \in Tags, v \in Workers :
              v # w \/ t # Farewells => channel'[t][v] = channel[t][v]
         /\ channel'[Farewells][w] = Append(channel[Farewells][w], Signal)
<1>0. LocationsOK /\ ChannelsOK
  BY DEF Types, ProcessTypes
<1>1. pc[w] = "farewell" /\ pc'[w] = "done"
  BY <1>0, WorkerMoves DEF WorkerFarewell, WorkerLocations
<1>2. /\ \A t \in Tags, v \in Workers :
           v # w \/ t # Farewells => channel'[t][v] = channel[t][v]
      /\ channel'[Farewells][w] = Append(channel[Farewells][w], Signal)
      /\ ChannelsOK'
  BY <1>0, SentAt, TagFacts DEF WorkerFarewell
<1> QED BY <1>1, <1>2

-----------------------------------------------------------------------------
\* Where the steps of the master lead

MasterAction ==
  \/ MasterNext \/ MasterPoll \/ MasterFinishTask \/ MasterWait
  \/ MasterCheckInterrupted \/ MasterCheckQuiet
  \/ \E w \in Workers :
       TreatRequest(w) \/ TreatResult(w) \/ TreatReport(w) \/ TreatFarewell(w)
  \/ NextPhase \/ EndCheck

WorkerAction(w) ==
  \/ WorkerRequest(w) \/ WorkerReceiveTask(w)
  \/ WorkerProbeInterrupt(w) \/ WorkerProbeReport(w)
  \/ WorkerFinishTask(w) \/ WorkerLeave(w) \/ WorkerFarewell(w)

CallerAction == RequestStatusReport \/ RequestInterrupt \/ UNCHANGED vars

LEMMA ActionCases ==
  ASSUME [Next]_vars
  PROVE  MasterAction \/ (\E w \in Workers : WorkerAction(w)) \/ CallerAction
BY NextCases DEF MasterAction, WorkerAction, CallerAction

LEMMA MasterFlow ==
  ASSUME Types
  PROVE  /\ MasterNext =>
              /\ pc[Master] = "next"
              /\ \/ NewTask >= 0 /\ pc'[Master] = "check" /\ check_from' = "before"
                 \/ ~(NewTask >= 0) /\ pc'[Master] = "wait"
         /\ MasterPoll =>
              pc[Master] = "task" /\ pc'[Master] = "check" /\ check_from' = "task"
         /\ MasterFinishTask => pc[Master] = "task" /\ pc'[Master] \in {"next", "wait"}
         /\ MasterWait =>
              /\ pc[Master] = "wait"
              /\ \/ pc'[Master] = "check" /\ check_from' = "wait"
                 \/ pc'[Master] = "done" /\ check_from' = check_from
         /\ MasterCheckInterrupted => pc[Master] = "check" /\ pc'[Master] = "wait"
         /\ MasterCheckQuiet =>
              /\ pc[Master] = "check" /\ pc'[Master] = Requests
              /\ check_from' = check_from
         /\ NextPhase => /\ pc[Master] \in DOMAIN PhaseAfter
                         /\ pc'[Master] = PhaseAfter[pc[Master]]
                         /\ check_from' = check_from
         /\ EndCheck =>
              /\ pc[Master] = Farewells
              /\ pc'[Master] = (IF check_from = "wait" THEN "wait" ELSE "task")
              /\ check_from' = check_from
         /\ \A w \in Workers :
              TreatRequest(w) \/ TreatResult(w) \/ TreatReport(w) \/ TreatFarewell(w)
                => UNCHANGED <<pc, check_from>>
         /\ MasterAction => \A v \in Workers : pc'[v] = pc[v]
<1>0. LocationsOK
  BY DEF Types, ProcessTypes
<1>1. ASSUME MasterNext
      PROVE  /\ pc[Master] = "next"
             /\ \/ NewTask >= 0 /\ pc'[Master] = "check" /\ check_from' = "before"
                \/ ~(NewTask >= 0) /\ pc'[Master] = "wait"
             /\ \A v \in Workers : pc'[v] = pc[v]
  BY <1>0, <1>1, MasterMoves, PhaseFacts DEF MasterNext
<1>2. ASSUME MasterPoll
      PROVE  /\ pc[Master] = "task" /\ pc'[Master] = "check" /\ check_from' = "task"
             /\ \A v \in Workers : pc'[v] = pc[v]
  BY <1>0, <1>2, MasterMoves, PhaseFacts DEF MasterPoll
<1>3. ASSUME MasterFinishTask
      PROVE  /\ pc[Master] = "task" /\ pc'[Master] \in {"next", "wait"}
             /\ \A v \in Workers : pc'[v] = pc[v]
  BY <1>0, <1>3, MasterMoves, PhaseFacts DEF MasterFinishTask
<1>4. ASSUME MasterWait
      PROVE  /\ pc[Master] = "wait"
             /\ \/ pc'[Master] = "check" /\ check_from' = "wait"
                \/ pc'[Master] = "done" /\ check_from' = check_from
             /\ \A v \in Workers : pc'[v] = pc[v]
  BY <1>0, <1>4, MasterMoves, PhaseFacts DEF MasterWait
<1>5. ASSUME MasterCheckInterrupted
      PROVE  /\ pc[Master] = "check" /\ pc'[Master] = "wait"
             /\ \A v \in Workers : pc'[v] = pc[v]
  BY <1>0, <1>5, MasterMoves, PhaseFacts DEF MasterCheckInterrupted
<1>6. ASSUME MasterCheckQuiet
      PROVE  /\ pc[Master] = "check" /\ pc'[Master] = Requests
             /\ check_from' = check_from
             /\ \A v \in Workers : pc'[v] = pc[v]
  BY <1>0, <1>6, MasterMoves, PhaseFacts DEF MasterCheckQuiet
<1>7. ASSUME NextPhase
      PROVE  /\ pc[Master] \in DOMAIN PhaseAfter
             /\ pc'[Master] = PhaseAfter[pc[Master]]
             /\ check_from' = check_from
             /\ \A v \in Workers : pc'[v] = pc[v]
  <2>1. PICK tag \in DOMAIN PhaseAfter : Transition(Master, tag, PhaseAfter[tag])
    BY <1>7 DEF NextPhase
  <2>2. PhaseAfter[tag] \in MasterLocations
    BY PhaseFacts
  <2> QED BY <1>0, <1>7, <2>1, <2>2, MasterMoves DEF NextPhase
<1>8. ASSUME EndCheck
      PROVE  /\ pc[Master] = Farewells
             /\ pc'[Master] = (IF check_from = "wait" THEN "wait" ELSE "task")
             /\ check_from' = check_from
             /\ \A v \in Workers : pc'[v] = pc[v]
  BY <1>0, <1>8, MasterMoves, PhaseFacts DEF EndCheck, check
<1>9. \A w \in Workers :
        TreatRequest(w) \/ TreatResult(w) \/ TreatReport(w) \/ TreatFarewell(w)
          => UNCHANGED <<pc, check_from>>
  BY DEF TreatRequest, TreatResult, TreatReport, TreatFarewell, Receive
<1>10. ASSUME MasterAction PROVE \A v \in Workers : pc'[v] = pc[v]
  BY <1>1, <1>2, <1>3, <1>4, <1>5, <1>6, <1>7, <1>8, <1>9, <1>10 DEF MasterAction
<1> QED BY <1>1, <1>2, <1>3, <1>4, <1>5, <1>6, <1>7, <1>8, <1>9, <1>10

\* An interrupt is never taken back.
LEMMA InterruptStays ==
  ASSUME Types, [Next]_vars, interrupt_requested
  PROVE  interrupt_requested'
<1>1. CASE MasterAction
  BY <1>1, Zenon DEF MasterAction, MasterNext, MasterPoll, MasterFinishTask, MasterWait,
     MasterCheckInterrupted, MasterCheckQuiet, TreatRequest, TreatResult,
     TreatReport, TreatFarewell, NextPhase, EndCheck, StoreTaskResult
<1>2. CASE \E w \in Workers : WorkerAction(w)
  BY <1>2, WorkerMove DEF WorkerAction, WorkerKeeps
<1>3. CASE CallerAction
  BY <1>3 DEF CallerAction, RequestStatusReport, RequestInterrupt, vars
<1> QED BY <1>1, <1>2, <1>3, ActionCases

\* Without an interrupt nobody is sent an order to stop.
OrdersAreInterrupts == \A w \in Workers : Waiting(InterruptOrders, w) => interrupt_requested

LEMMA OrdersAreInterruptsStep ==
  ASSUME Types, Types', WorkHasTask, OrdersAreInterrupts, [Next]_vars
  PROVE  OrdersAreInterrupts'
<1> SUFFICES ASSUME NEW v \in Workers, ~interrupt_requested'
             PROVE  ~Waiting(InterruptOrders, v)'
  BY DEF OrdersAreInterrupts
<1>0. ~interrupt_requested /\ \A w \in Workers : ~Waiting(InterruptOrders, w)
  BY InterruptStays DEF OrdersAreInterrupts
<1>1. SUFFICES channel'[InterruptOrders][v] = channel[InterruptOrders][v]
  BY <1>0 DEF Waiting
<1>2. CASE MasterAction
  <2>1. CASE \E w \in Workers : TreatRequest(w)
    BY <2>1, TreatRequestAt, TagFacts
  <2>2. CASE \E w \in Workers : TreatResult(w)
    BY <2>2, TreatResultAt, TagFacts
  <2>3. CASE \E w \in Workers : TreatReport(w)
    BY <2>3, TreatReportAt, TagFacts
  <2>4. CASE \E w \in Workers : TreatFarewell(w)
    BY <2>4, TreatFarewellAt, TagFacts
  <2>5. CASE MasterCheckQuiet
    <3>1. InitiateReport \/ UNCHANGED channel
      BY <2>5 DEF MasterCheckQuiet
    <3> QED BY <3>1, ReportOrdersAt, TagFacts DEF Types
  <2>6. CASE MasterCheckInterrupted
    BY <1>0, <2>6 DEF MasterCheckInterrupted
  <2>7. CASE \/ MasterNext \/ MasterPoll \/ MasterFinishTask \/ MasterWait
             \/ NextPhase \/ EndCheck
    BY <2>7 DEF MasterNext, MasterPoll, MasterFinishTask, MasterWait, NextPhase, EndCheck
  <2> QED BY <1>2, <2>1, <2>2, <2>3, <2>4, <2>5, <2>6, <2>7 DEF MasterAction
<1>3. ASSUME NEW w \in Workers, WorkerAction(w)
      PROVE  channel'[InterruptOrders][v] = channel[InterruptOrders][v]
  <2>1. CASE WorkerRequest(w)
    BY <2>1, WorkerRequestAt, TagFacts
  <2>2. CASE WorkerReceiveTask(w)
    BY <2>2, WorkerReceiveTaskAt, TagFacts
  <2>3. CASE WorkerProbeInterrupt(w)
    BY <1>0, <2>3, WorkerProbeInterruptAt, TagFacts
  <2>4. CASE WorkerProbeReport(w)
    BY <2>4, WorkerProbeReportAt, TagFacts
  <2>5. CASE WorkerFinishTask(w)
    BY <2>5, WorkerFinishTaskAt, TagFacts
  <2>6. CASE WorkerLeave(w)
    BY <1>0, <2>6, WorkerLeaveAt
  <2>7. CASE WorkerFarewell(w)
    BY <2>7, WorkerFarewellAt, TagFacts
  <2> QED BY <1>3, <2>1, <2>2, <2>3, <2>4, <2>5, <2>6, <2>7 DEF WorkerAction
<1>4. CASE CallerAction
  BY <1>4 DEF CallerAction, RequestStatusReport, RequestInterrupt, vars
<1> QED BY <1>2, <1>3, <1>4, ActionCases

LEMMA InterruptedStays ==
  ASSUME Types, [Next]_vars, interrupted[Master] => interrupt_requested
  PROVE  interrupted'[Master] => interrupt_requested'
<1>1. CASE UNCHANGED interrupted
  BY <1>1, InterruptStays
<1>2. CASE MasterFinishTask
  BY <1>2, InterruptStays DEF MasterFinishTask, StoreTaskResult
<1>3. CASE MasterCheckInterrupted
  BY <1>3, InterruptStays DEF MasterCheckInterrupted
<1>4. CASE \E w \in Workers : WorkerAction(w)
  BY <1>4, WorkerMove, InterruptStays DEF WorkerAction
<1>5. CASE MasterAction \/ CallerAction
  BY <1>1, <1>2, <1>3, <1>5 DEF MasterAction, CallerAction, MasterNext, MasterPoll,
     MasterWait, MasterCheckQuiet, TreatRequest, TreatResult, TreatReport,
     TreatFarewell, Receive, NextPhase, EndCheck, RequestStatusReport,
     RequestInterrupt, vars
<1> QED BY <1>4, <1>5, ActionCases

\* What the place of the master says about its books
LEMMA MasterControlStep ==
  ASSUME Types, Types', WorkHasTask, MasterControl, [Next]_vars
  PROVE  MasterControl'
<1>0. LocationsOK /\ LocationsOK'
  BY DEF Types, ProcessTypes
<1>a. \A w \in Workers : Waiting(InterruptOrders, w)' => interrupt_requested'
  <2>1. OrdersAreInterrupts'
    BY OrdersAreInterruptsStep DEF MasterControl, OrdersAreInterrupts
  <2> QED BY <2>1 DEF OrdersAreInterrupts
<1>b. interrupted'[Master] => interrupt_requested'
  BY InterruptedStays DEF MasterControl
<1> DEFINE Books ==
      /\ AtWork(Master) => Master \in workers_running
      /\ pc[Master] = "next" => Master \notin workers_running
      /\ AfterWork /\ ~interrupt_requested =>
           Master \notin workers_running /\ num_tasks_launched = NumTotalRuns
<1>c. Books /\ (outcome = "none" <=> pc[Master] # "done")
  BY DEF MasterControl
<1>d. SUFFICES Books' /\ (outcome' = "none" <=> pc'[Master] # "done")
  BY <1>a, <1>b DEF MasterControl
<1>n. num_tasks_launched \in 0 .. NumTotalRuns /\ NewTask = NewTask
  BY DEF Types, BookTypes
<1>k. ASSUME AtWork(Master)' => AtWork(Master), AfterWork' => AfterWork,
             pc'[Master] = "next" => pc[Master] = "next",
             pc'[Master] = "done" <=> pc[Master] = "done",
             UNCHANGED <<num_tasks_launched, workers_running, outcome>>
      PROVE  Books' /\ (outcome' = "none" <=> pc'[Master] # "done")
  BY <1>c, <1>k, InterruptStays
<1>l. ASSUME pc'[Master] = pc[Master], check_from' = check_from,
             UNCHANGED <<num_tasks_launched, workers_running, outcome>>
      PROVE  Books' /\ (outcome' = "none" <=> pc'[Master] # "done")
  BY <1>k, <1>l, MasterStays
<1>1. CASE MasterNext
  <2>1. outcome' = outcome /\ GetNewTaskId(Master)
    BY <1>1 DEF MasterNext
  <2>2. CASE NewTask >= 0
    <3>1. pc'[Master] = "check" /\ check_from' = "before"
      BY <1>1, <2>2, MasterFlow
    <3>2. AtWork(Master)' /\ ~AfterWork' /\ Master \in workers_running'
      BY <1>0, <2>1, <2>2, <3>1, MasterPlaces DEF GetNewTaskId
    <3> QED BY <1>c, <2>1, <3>1, <3>2, <1>1, MasterFlow
  <2>3. CASE ~(NewTask >= 0)
    <3>1. pc[Master] = "next" /\ pc'[Master] = "wait"
      BY <1>1, <2>3, MasterFlow
    <3>2. ~AtWork(Master)'
      BY <1>0, <3>1, MasterPlaces
    <3>3. Master \notin workers_running' /\ num_tasks_launched' = NumTotalRuns
      BY <1>c, <1>n, <2>1, <2>3, <3>1, NewTaskFacts DEF GetNewTaskId
    <3> QED BY <1>c, <2>1, <3>1, <3>2, <3>3
  <2> QED BY <2>2, <2>3
<1>2. CASE MasterPoll
  <2>1. pc[Master] = "task" /\ pc'[Master] = "check" /\ check_from' = "task"
    BY <1>2, MasterFlow
  <2>2. UNCHANGED <<num_tasks_launched, workers_running, outcome>>
    BY <1>2 DEF MasterPoll, controller
  <2> QED BY <1>0, <1>k, <2>1, <2>2, MasterPlaces
<1>3. CASE MasterFinishTask
  <2>1. pc[Master] = "task" /\ outcome' = outcome
    BY <1>3, MasterFlow DEF MasterFinishTask
  <2>2. workers_running' = workers_running \ {Master}
    BY <1>3 DEF MasterFinishTask, StoreTaskResult
  <2>3. CASE pc'[Master] = "next"
    BY <1>0, <1>c, <2>1, <2>2, <2>3, MasterPlaces
  <2>4. CASE pc'[Master] = "wait" /\ interrupt_requested'
    BY <1>0, <1>c, <2>1, <2>2, <2>4, MasterPlaces
  <2> QED BY <1>3, <1>0, <2>3, <2>4, MasterMoves, PhaseFacts
          DEF MasterFinishTask, StoreTaskResult
<1>4. CASE MasterWait
  <2>1. UNCHANGED <<num_tasks_launched, workers_running, interrupt_requested>>
    BY <1>4 DEF MasterWait, controller
  <2>2. pc[Master] = "wait" /\ pc'[Master] \in {"check", "done"}
    BY <1>4, MasterFlow
  <2>3. AfterWork /\ ~AtWork(Master)'
    BY <1>0, <1>4, <2>2, MasterPlaces, MasterFlow
  <2>4. outcome' = "none" <=> pc'[Master] # "done"
    <3>1. CASE OthersRunning
      <4>1. pc'[Master] = "check" /\ outcome' = outcome
        BY <1>0, <1>4, <3>1, MasterMoves, PhaseFacts DEF MasterWait
      <4> QED BY <1>c, <2>2, <4>1
    <3>2. CASE ~OthersRunning
      <4>1. pc'[Master] = "done" /\ outcome' \in {"crash", "interrupted", "ok"}
        BY <1>0, <1>4, <3>2, MasterMoves, PhaseFacts DEF MasterWait
      <4> QED BY <4>1
    <3> QED BY <3>1, <3>2
  <2> QED BY <1>c, <2>1, <2>2, <2>3, <2>4
<1>5. CASE MasterCheckInterrupted
  <2>1. /\ pc[Master] = "check" /\ pc'[Master] = "wait" /\ outcome' = outcome
        /\ interrupt_requested'
    BY <1>5, MasterFlow, InterruptStays DEF MasterCheckInterrupted
  <2>2. ~AtWork(Master)'
    BY <1>0, <2>1, MasterPlaces
  <2> QED BY <1>c, <2>1, <2>2
<1>6. CASE MasterCheckQuiet
  <2>1. UNCHANGED <<num_tasks_launched, workers_running, outcome>>
    BY <1>6 DEF MasterCheckQuiet, controller
  <2> QED BY <1>0, <1>6, <1>k, <2>1, MasterFlow, MasterPlaces
<1>7. ASSUME NEW w \in Workers, TreatRequest(w)
      PROVE  Books' /\ (outcome' = "none" <=> pc'[Master] # "done")
  <2>1. GetNewTaskId(w) /\ UNCHANGED <<pc, check_from, outcome, interrupt_requested>>
    BY <1>7 DEF TreatRequest, Receive
  <2>2. Master \in workers_running' <=> Master \in workers_running
    BY <2>1, ProcFacts DEF GetNewTaskId
  <2>3. num_tasks_launched = NumTotalRuns => num_tasks_launched' = NumTotalRuns
    BY <1>n, <2>1, NewTaskFacts DEF GetNewTaskId
  <2> QED BY <1>c, <2>1, <2>2, <2>3, MasterStays
<1>8. ASSUME NEW w \in Workers, TreatResult(w)
      PROVE  Books' /\ (outcome' = "none" <=> pc'[Master] # "done")
  <2>1. UNCHANGED <<pc, check_from, outcome, num_tasks_launched>>
    BY <1>8 DEF TreatResult, Receive
  <2>2. workers_running' = workers_running \ {w}
    BY <1>8 DEF TreatResult, StoreTaskResult
  <2> QED BY <1>c, <2>1, <2>2, MasterStays, InterruptStays, ProcFacts
<1>9. ASSUME NEW w \in Workers, TreatReport(w) \/ TreatFarewell(w)
      PROVE  Books' /\ (outcome' = "none" <=> pc'[Master] # "done")
  <2>1. UNCHANGED <<pc, check_from, num_tasks_launched, workers_running, outcome>>
    BY <1>9 DEF TreatReport, TreatFarewell, Receive, controller
  <2> QED BY <1>l, <2>1
<1>10. CASE NextPhase
  <2>1. UNCHANGED <<num_tasks_launched, workers_running, outcome>>
    BY <1>10 DEF NextPhase, controller
  <2>2. /\ pc[Master] \in {Requests, Results, Reports, IdleReports}
        /\ pc'[Master] \in {Results, Reports, IdleReports, Farewells}
        /\ check_from' = check_from
    BY <1>10, MasterFlow, PhaseFacts
  <2> QED BY <1>0, <1>k, <2>1, <2>2, MasterPlaces
<1>11. CASE EndCheck
  <2>1. UNCHANGED <<num_tasks_launched, workers_running, outcome>>
    BY <1>11 DEF EndCheck, controller
  <2> QED BY <1>0, <1>11, <1>k, <2>1, MasterFlow, MasterPlaces
<1>12. ASSUME NEW w \in Workers, WorkerAction(w)
       PROVE  Books' /\ (outcome' = "none" <=> pc'[Master] # "done")
  <2>1. WorkerKeeps /\ pc'[Master] = pc[Master]
    BY <1>12, WorkerMove DEF WorkerAction
  <2>2. UNCHANGED <<num_tasks_launched, workers_running, outcome, check_from>>
    BY <2>1 DEF WorkerKeeps, controller, check
  <2> QED BY <1>l, <2>1, <2>2
<1>13. CASE CallerAction
  <2>1. UNCHANGED <<pc, check_from, num_tasks_launched, workers_running, outcome>>
    BY <1>13 DEF CallerAction, RequestStatusReport, RequestInterrupt, vars, check,
       controller
  <2> QED BY <1>l, <2>1
<1> QED
  BY <1>1, <1>2, <1>3, <1>4, <1>5, <1>6, <1>7, <1>8, <1>9, <1>10, <1>11, <1>12, <1>13,
     ActionCases DEF MasterAction

-----------------------------------------------------------------------------
\* Every queue and every worker is in the hands of a few steps.

LEMMA QueueFacts ==
  ASSUME ChannelsOK, NEW t \in Tags, NEW v \in Workers
  PROVE  /\ channel[t][v] \in Seq(MessagesOf(t))
         /\ Len(channel[t][v]) \in Nat
         /\ DOMAIN channel[t][v] = 1 .. Len(channel[t][v])
         /\ Waiting(t, v) <=> Len(channel[t][v]) > 0
         /\ \A i \in DOMAIN channel[t][v] : channel[t][v][i] \in MessagesOf(t)
         /\ Waiting(t, v) =>
              /\ Len(Tail(channel[t][v])) = Len(channel[t][v]) - 1
              /\ Head(channel[t][v]) = channel[t][v][1]
              /\ Head(channel[t][v]) \in MessagesOf(t)
              /\ 1 \in DOMAIN channel[t][v]
              /\ DOMAIN Tail(channel[t][v]) = 1 .. (Len(channel[t][v]) - 1)
              /\ \A i \in DOMAIN Tail(channel[t][v]) :
                   Tail(channel[t][v])[i] = channel[t][v][i + 1]
         /\ \A m \in MessagesOf(t) :
              /\ Len(Append(channel[t][v], m)) = Len(channel[t][v]) + 1
              /\ Append(channel[t][v], m) # <<>>
              /\ DOMAIN Append(channel[t][v], m) = 1 .. (Len(channel[t][v]) + 1)
              /\ Append(channel[t][v], m)[Len(channel[t][v]) + 1] = m
              /\ \A i \in DOMAIN channel[t][v] :
                   Append(channel[t][v], m)[i] = channel[t][v][i]
<1>1. channel[t][v] \in Seq(MessagesOf(t))
  BY DEF ChannelsOK
<1>2. /\ Len(channel[t][v]) \in Nat
      /\ DOMAIN channel[t][v] = 1 .. Len(channel[t][v])
      /\ Waiting(t, v) <=> Len(channel[t][v]) > 0
      /\ \A i \in DOMAIN channel[t][v] : channel[t][v][i] \in MessagesOf(t)
  BY <1>1, EmptyFacts DEF Waiting
<1>3. ASSUME Waiting(t, v)
      PROVE  /\ Len(Tail(channel[t][v])) = Len(channel[t][v]) - 1
             /\ Head(channel[t][v]) = channel[t][v][1]
             /\ Head(channel[t][v]) \in MessagesOf(t)
             /\ 1 \in DOMAIN channel[t][v]
             /\ DOMAIN Tail(channel[t][v]) = 1 .. (Len(channel[t][v]) - 1)
             /\ \A i \in DOMAIN Tail(channel[t][v]) :
                  Tail(channel[t][v])[i] = channel[t][v][i + 1]
  <2>1. channel[t][v] # <<>>
    BY <1>3 DEF Waiting
  <2>2. DOMAIN Tail(channel[t][v]) = 1 .. Len(Tail(channel[t][v]))
    BY <1>1, <2>1, TailFacts, EmptyFacts
  <2> QED BY <1>1, <1>2, <1>3, <2>1, <2>2, TailFacts
<1>4. ASSUME NEW m \in MessagesOf(t)
      PROVE  /\ Len(Append(channel[t][v], m)) = Len(channel[t][v]) + 1
             /\ Append(channel[t][v], m) # <<>>
             /\ DOMAIN Append(channel[t][v], m) = 1 .. (Len(channel[t][v]) + 1)
             /\ Append(channel[t][v], m)[Len(channel[t][v]) + 1] = m
             /\ \A i \in DOMAIN channel[t][v] :
                  Append(channel[t][v], m)[i] = channel[t][v][i]
  <2>1. /\ Append(channel[t][v], m) \in Seq(MessagesOf(t))
        /\ Len(Append(channel[t][v], m)) = Len(channel[t][v]) + 1
        /\ Append(channel[t][v], m) # <<>>
        /\ Append(channel[t][v], m)[Len(channel[t][v]) + 1] = m
        /\ \A i \in 1 .. Len(channel[t][v]) : Append(channel[t][v], m)[i] = channel[t][v][i]
    BY <1>1, AppendFacts
  <2>2. DOMAIN Append(channel[t][v], m) = 1 .. Len(Append(channel[t][v], m))
    BY <2>1, EmptyFacts
  <2> QED BY <1>2, <2>1, <2>2
<1> QED BY <1>1, <1>2, <1>3, <1>4

LEMMA Touched ==
  ASSUME Types, WorkHasTask, [Next]_vars, NEW v \in Workers
  PROVE  /\ channel'[Requests][v] # channel[Requests][v] =>
              TreatRequest(v) \/ WorkerRequest(v)
         /\ channel'[Deliveries][v] # channel[Deliveries][v] =>
              TreatRequest(v) \/ WorkerReceiveTask(v)
         /\ channel'[ReportOrders][v] # channel[ReportOrders][v] =>
              MasterCheckQuiet \/ WorkerProbeReport(v)
         /\ channel'[Reports][v] # channel[Reports][v] =>
              TreatReport(v) \/ WorkerProbeReport(v)
         /\ channel'[IdleReports][v] # channel[IdleReports][v] =>
              TreatReport(v) \/ WorkerProbeReport(v)
         /\ channel'[Results][v] # channel[Results][v] =>
              TreatResult(v) \/ WorkerFinishTask(v) \/ WorkerProbeInterrupt(v)
         /\ channel'[Farewells][v] # channel[Farewells][v] =>
              TreatFarewell(v) \/ WorkerFarewell(v)
<1>1. CASE MasterAction
  <2>1. CASE \E w \in Workers : TreatRequest(w)
    BY <2>1, TreatRequestAt, TagFacts
  <2>2. CASE \E w \in Workers : TreatResult(w)
    BY <2>2, TreatResultAt, TagFacts
  <2>3. CASE \E w \in Workers : TreatReport(w)
    BY <2>3, TreatReportAt, TagFacts
  <2>4. CASE \E w \in Workers : TreatFarewell(w)
    BY <2>4, TreatFarewellAt, TagFacts
  <2>5. CASE MasterCheckQuiet
    <3>1. InitiateReport \/ UNCHANGED channel
      BY <2>5 DEF MasterCheckQuiet
    <3> QED BY <2>5, <3>1, ReportOrdersAt, TagFacts DEF Types
  <2>6. CASE MasterCheckInterrupted
    <3>1. OrderInterrupt
      BY <2>6 DEF MasterCheckInterrupted
    <3> QED BY <3>1, InterruptOrdersAt, TagFacts DEF Types
  <2>7. CASE \/ MasterNext \/ MasterPoll \/ MasterFinishTask \/ MasterWait
             \/ NextPhase \/ EndCheck
    BY <2>7 DEF MasterNext, MasterPoll, MasterFinishTask, MasterWait, NextPhase, EndCheck
  <2> QED BY <1>1, <2>1, <2>2, <2>3, <2>4, <2>5, <2>6, <2>7 DEF MasterAction
<1>2. CASE \E w \in Workers : WorkerAction(w)
  <2>0. PICK w \in Workers : WorkerAction(w)
    BY <1>2
  <2>1. CASE WorkerRequest(w)
    BY <2>1, WorkerRequestAt, TagFacts
  <2>2. CASE WorkerReceiveTask(w)
    BY <2>2, WorkerReceiveTaskAt, TagFacts
  <2>3. CASE WorkerProbeInterrupt(w)
    BY <2>3, WorkerProbeInterruptAt, TagFacts
  <2>4. CASE WorkerProbeReport(w)
    BY <2>4, WorkerProbeReportAt, TagFacts
  <2>5. CASE WorkerFinishTask(w)
    BY <2>5, WorkerFinishTaskAt, TagFacts
  <2>6. CASE WorkerLeave(w)
    BY <2>6, WorkerLeaveAt, TagFacts
  <2>7. CASE WorkerFarewell(w)
    BY <2>7, WorkerFarewellAt, TagFacts
  <2> QED BY <2>0, <2>1, <2>2, <2>3, <2>4, <2>5, <2>6, <2>7 DEF WorkerAction
<1>3. CASE CallerAction
  BY <1>3 DEF CallerAction, RequestStatusReport, RequestInterrupt, vars
<1> QED BY <1>1, <1>2, <1>3, ActionCases

\* Where the steps of a worker lead
LEMMA WorkerFlow ==
  ASSUME Types, WorkHasTask, NEW w \in Workers
  PROVE  /\ WorkerRequest(w) => pc[w] = "request" /\ pc'[w] = "await"
         /\ WorkerReceiveTask(w) =>
              /\ pc[w] = "await"
              /\ LET k == Head(channel[Deliveries][w]) IN
                   /\ task_id'[w] = k
                   /\ \/ k = -1 /\ pc'[w] = "leave"
                      \/ k \in Tasks /\ pc'[w] = "before"
         /\ WorkerProbeInterrupt(w) =>
              /\ pc[w] \in Callers
              /\ pc'[w] \in {"before_report", "task_report", "sent_report",
                             "failed_report", "sent", "farewell"}
         /\ WorkerProbeReport(w) =>
              \/ pc[w] = "before_report" /\ pc'[w] = "task"
              \/ pc[w] = "task_report" /\ pc'[w] = "task"
              \/ pc[w] = "sent_report" /\ pc'[w] = "request"
              \/ pc[w] = "failed_report" /\ pc'[w] = "farewell"
         /\ WorkerFinishTask(w) => pc[w] = "task" /\ pc'[w] \in {"sent", "failed"}
         /\ WorkerLeave(w) => pc[w] = "leave" /\ pc'[w] = "farewell"
         /\ WorkerFarewell(w) => pc[w] = "farewell" /\ pc'[w] = "done"
         /\ WorkerAction(w) /\ ~WorkerReceiveTask(w) => UNCHANGED task_id
<1>0. LocationsOK /\ ChannelsOK /\ ProcessTypes
  BY DEF Types, ProcessTypes
<1>1. ASSUME WorkerRequest(w) PROVE pc[w] = "request" /\ pc'[w] = "await"
  BY <1>0, <1>1, WorkerMoves DEF WorkerRequest, WorkerLocations
<1>2. ASSUME WorkerReceiveTask(w)
      PROVE  /\ pc[w] = "await"
             /\ LET k == Head(channel[Deliveries][w]) IN
                  /\ task_id'[w] = k
                  /\ \/ k = -1 /\ pc'[w] = "leave"
                     \/ k \in Tasks /\ pc'[w] = "before"
  <2> DEFINE k == Head(channel[Deliveries][w])
  <2>1. k \in Tasks \cup {-1}
    BY <1>0, <1>2, QueueFacts, TagFacts DEF WorkerReceiveTask
  <2>2. pc[w] = "await" /\ pc'[w] = IF k < 0 THEN "leave" ELSE "before"
    BY <1>0, <1>2, WorkerMoves DEF WorkerReceiveTask, WorkerLocations
  <2>3. task_id'[w] = k
    BY <1>0, <1>2, ProcFacts DEF WorkerReceiveTask, ProcessTypes
  <2> QED BY <2>1, <2>2, <2>3 DEF Tasks
<1>3. ASSUME WorkerProbeInterrupt(w)
      PROVE  /\ pc[w] \in Callers
             /\ pc'[w] \in {"before_report", "task_report", "sent_report",
                            "failed_report", "sent", "farewell"}
  BY <1>3, WorkerProbeInterruptAt DEF Callers, ReportProbe
<1>4. ASSUME WorkerProbeReport(w)
      PROVE  \/ pc[w] = "before_report" /\ pc'[w] = "task"
             \/ pc[w] = "task_report" /\ pc'[w] = "task"
             \/ pc[w] = "sent_report" /\ pc'[w] = "request"
             \/ pc[w] = "failed_report" /\ pc'[w] = "farewell"
  BY <1>4, WorkerProbeReportAt DEF Callers, ReportProbe, AfterCheck
<1>5. ASSUME WorkerFinishTask(w) PROVE pc[w] = "task" /\ pc'[w] \in {"sent", "failed"}
  BY <1>5, WorkerFinishTaskAt
<1>6. WorkerLeave(w) => pc[w] = "leave" /\ pc'[w] = "farewell"
  BY WorkerLeaveAt
<1>7. WorkerFarewell(w) => pc[w] = "farewell" /\ pc'[w] = "done"
  BY WorkerFarewellAt
<1>8. WorkerAction(w) /\ ~WorkerReceiveTask(w) => UNCHANGED task_id
  BY DEF WorkerAction, WorkerRequest, WorkerProbeInterrupt, WorkerProbeReport,
     WorkerFinishTask, WorkerLeave, WorkerFarewell
<1> QED BY <1>1, <1>2, <1>3, <1>4, <1>5, <1>6, <1>7, <1>8

LEMMA OthersStay ==
  ASSUME Types, [Next]_vars, NEW v \in Workers, ~WorkerAction(v)
  PROVE  pc'[v] = pc[v] /\ task_id'[v] = task_id[v]
<1>0. ProcessTypes
  BY DEF Types
<1>1. CASE MasterAction
  <2>1. UNCHANGED task_id \/ \E k : task_id' = [task_id EXCEPT ![Master] = k]
    BY <1>1 DEF MasterAction, MasterNext, MasterPoll, MasterFinishTask,
       MasterWait, MasterCheckInterrupted, MasterCheckQuiet, TreatRequest, TreatResult,
       TreatReport, TreatFarewell, Receive, NextPhase, EndCheck
  <2> QED BY <1>0, <1>1, <2>1, MasterFlow, ProcFacts DEF ProcessTypes
<1>2. CASE \E w \in Workers : WorkerAction(w)
  BY <1>2, WorkerMove, ProcFacts DEF WorkerAction
<1>3. CASE CallerAction
  BY <1>3 DEF CallerAction, RequestStatusReport, RequestInterrupt, vars
<1> QED BY <1>1, <1>2, <1>3, ActionCases

-----------------------------------------------------------------------------
\* From here on the tags are just different names.
LEMMA TagsDiffer ==
  /\ Requests \notin {Deliveries, InterruptOrders, ReportOrders, Reports, IdleReports,
                      Results, Farewells}
  /\ Deliveries \notin {InterruptOrders, ReportOrders, Reports, IdleReports, Results,
                        Farewells}
  /\ InterruptOrders \notin {ReportOrders, Reports, IdleReports, Results, Farewells}
  /\ ReportOrders \notin {Reports, IdleReports, Results, Farewells}
  /\ Reports \notin {IdleReports, Results, Farewells}
  /\ IdleReports \notin {Results, Farewells}
  /\ Results # Farewells
  /\ {"next", "check", "task", "wait", "done", "own", "work"} \cap Tags = {}
BY DEF Tags

HIDE DEF Requests, Deliveries, InterruptOrders, ReportOrders, Reports,
         IdleReports, Results, Farewells

-----------------------------------------------------------------------------
\* Receiving takes the first message, and sending adds one at the end.
LEMMA QueueLength ==
  ASSUME ChannelsOK, NEW t \in Tags, NEW v \in Workers
  PROVE  Len(channel[t][v]) \in Nat /\ (Waiting(t, v) <=> Len(channel[t][v]) > 0)
BY QueueFacts

LEMMA TailLength ==
  ASSUME ChannelsOK, NEW t \in Tags, NEW v \in Workers, Waiting(t, v)
  PROVE  Len(Tail(channel[t][v])) = Len(channel[t][v]) - 1
BY QueueFacts

LEMMA AppendLength ==
  ASSUME ChannelsOK, NEW t \in Tags, NEW v \in Workers, NEW m \in MessagesOf(t)
  PROVE  Len(Append(channel[t][v], m)) = Len(channel[t][v]) + 1
BY QueueFacts

-----------------------------------------------------------------------------
\* One request or one answer of each worker that waits
LEMMA RequestReplyStep ==
  ASSUME Types, Types', WorkHasTask, RequestReply, [Next]_vars
  PROVE  RequestReply'
<1> SUFFICES ASSUME NEW v \in Workers
             PROVE  Len(channel'[Requests][v]) + Len(channel'[Deliveries][v])
                      = IF pc'[v] = "await" THEN 1 ELSE 0
  BY DEF RequestReply
<1>1. Len(channel[Requests][v]) + Len(channel[Deliveries][v])
        = IF pc[v] = "await" THEN 1 ELSE 0
  BY DEF RequestReply
<1>2. ChannelsOK
  BY DEF Types
<1>3. Len(channel[Requests][v]) \in Nat /\ Len(channel[Deliveries][v]) \in Nat
  BY <1>2, QueueLength, TagFacts
<1> DEFINE requests == Len(channel[Requests][v])
           deliveries == Len(channel[Deliveries][v])
           waits(p) == IF p = "await" THEN 1 ELSE 0
<1>s. SUFFICES requests' + deliveries' = waits(pc'[v])
  OBVIOUS
<1>t. requests \in Nat /\ deliveries \in Nat /\ requests + deliveries = waits(pc[v])
  BY <1>1, <1>3
<1>4. CASE TreatRequest(v)
  <2>1. /\ Waiting(Requests, v)
        /\ channel'[Requests][v] = Tail(channel[Requests][v])
        /\ channel'[Deliveries][v] = Append(channel[Deliveries][v], NewTask)
    BY <1>4, TreatRequestAt
  <2>2. NewTask \in MessagesOf(Deliveries)
    BY NewTaskFacts, TagFacts DEF Types, BookTypes
  <2>3. requests' = requests - 1
    BY <1>2, <2>1, TailLength, TagFacts
  <2>4. deliveries' = deliveries + 1
    BY <1>2, <2>1, <2>2, AppendLength, TagFacts
  <2>5. pc'[v] = pc[v]
    BY <1>4, MasterFlow
  <2> HIDE DEF requests, deliveries
  <2> QED BY <1>t, <2>3, <2>4, <2>5
<1>5. CASE WorkerRequest(v)
  <2>1. /\ channel'[Deliveries][v] = channel[Deliveries][v]
        /\ channel'[Requests][v] = Append(channel[Requests][v], Signal)
    BY <1>5, WorkerRequestAt, TagFacts, TagsDiffer
  <2>2. requests' = requests + 1
    BY <1>2, <2>1, AppendLength, TagFacts
  <2>3. pc[v] = "request" /\ pc'[v] = "await"
    BY <1>5, WorkerFlow
  <2>4. deliveries' = deliveries
    BY <2>1
  <2> HIDE DEF requests, deliveries
  <2> QED BY <1>t, <2>2, <2>3, <2>4
<1>6. CASE WorkerReceiveTask(v)
  <2>1. /\ Waiting(Deliveries, v)
        /\ channel'[Requests][v] = channel[Requests][v]
        /\ channel'[Deliveries][v] = Tail(channel[Deliveries][v])
    BY <1>6, WorkerReceiveTaskAt, TagFacts, TagsDiffer
  <2>2. deliveries' = deliveries - 1
    BY <1>2, <2>1, TailLength, TagFacts
  <2>3. pc[v] = "await" /\ pc'[v] # "await"
    BY <1>6, WorkerFlow
  <2>4. requests' = requests
    BY <2>1
  <2> HIDE DEF requests, deliveries
  <2> QED BY <1>t, <2>2, <2>3, <2>4
<1>7. CASE ~TreatRequest(v) /\ ~WorkerRequest(v) /\ ~WorkerReceiveTask(v)
  <2>1. /\ channel'[Requests][v] = channel[Requests][v]
        /\ channel'[Deliveries][v] = channel[Deliveries][v]
    BY <1>7, Touched
  <2>2. pc'[v] = "await" <=> pc[v] = "await"
    <3>1. CASE WorkerAction(v)
      BY <1>7, <3>1, WorkerFlow DEF WorkerAction, Callers
    <3>2. CASE ~WorkerAction(v)
      BY <3>2, OthersStay
    <3> QED BY <3>1, <3>2
  <2> QED BY <1>1, <2>1, <2>2
<1> QED BY <1>4, <1>5, <1>6, <1>7

\* A worker says goodbye once, as the last thing it does.
LEMMA FarewellOnceStep ==
  ASSUME Types, Types', WorkHasTask, FarewellOnce, [Next]_vars
  PROVE  FarewellOnce'
<1> SUFFICES ASSUME NEW v \in Workers
             PROVE  /\ Len(channel'[Farewells][v]) <= 1
                    /\ channel'[Farewells][v] # <<>> => pc'[v] = "done"
  BY DEF FarewellOnce, Waiting
<1>1. /\ Len(channel[Farewells][v]) <= 1
      /\ Waiting(Farewells, v) => pc[v] = "done"
  BY DEF FarewellOnce
<1>2. ChannelsOK /\ ChannelsOK'
  BY DEF Types
<1>3. Len(channel[Farewells][v]) \in Nat
      /\ (Waiting(Farewells, v) <=> Len(channel[Farewells][v]) > 0)
  BY <1>2, QueueLength, TagFacts
<1>4. CASE TreatFarewell(v)
  <2>1. channel'[Farewells][v] = Tail(channel[Farewells][v]) /\ Waiting(Farewells, v)
    BY <1>4, TreatFarewellAt
  <2>2. Len(channel'[Farewells][v]) = Len(channel[Farewells][v]) - 1
    BY <1>2, <2>1, TailLength, TagFacts
  <2>3. pc'[v] = pc[v]
    BY <1>4, MasterFlow
  <2> QED BY <1>1, <1>3, <2>1, <2>2, <2>3
<1>5. CASE WorkerFarewell(v)
  <2>1. channel'[Farewells][v] = Append(channel[Farewells][v], Signal)
    BY <1>5, WorkerFarewellAt
  <2>2. Len(channel'[Farewells][v]) = Len(channel[Farewells][v]) + 1
    BY <1>2, <2>1, AppendLength, TagFacts
  <2>3. pc[v] = "farewell" /\ pc'[v] = "done"
    BY <1>5, WorkerFarewellAt
  <2> QED BY <1>1, <1>3, <2>2, <2>3
<1>6. CASE ~TreatFarewell(v) /\ ~WorkerFarewell(v)
  <2>1. channel'[Farewells][v] = channel[Farewells][v]
    BY <1>6, Touched
  <2>2. pc[v] = "done" => pc'[v] = "done"
    <3>1. CASE WorkerAction(v)
      BY <3>1, WorkerMove DEF WorkerAction
    <3>2. CASE ~WorkerAction(v)
      BY <3>2, OthersStay
    <3> QED BY <3>1, <3>2
  <2> QED BY <1>1, <2>1, <2>2 DEF Waiting
<1> QED BY <1>4, <1>5, <1>6

-----------------------------------------------------------------------------
\* The count of running processes

LEMMA OneLess ==
  ASSUME NEW S, IsFiniteSet(S), NEW x \in S
  PROVE  IsFiniteSet(S \ {x}) /\ Cardinality(S \ {x}) = Cardinality(S) - 1
BY FS_RemoveElement

LEMMA OneMore ==
  ASSUME NEW S, IsFiniteSet(S), NEW x, x \notin S
  PROVE  IsFiniteSet(S \cup {x}) /\ Cardinality(S \cup {x}) = Cardinality(S) + 1
BY FS_AddElement

PresentWorkers == {w \in Workers : pc[w] # "done" \/ Waiting(Farewells, w)}

LEMMA PresentFacts ==
  /\ Present \subseteq Procs /\ PresentWorkers \subseteq Workers
  /\ Present = PresentWorkers \cup (IF AfterWork THEN {} ELSE {Master})
  /\ Present' = PresentWorkers' \cup (IF AfterWork' THEN {} ELSE {Master})
  /\ Master \notin PresentWorkers /\ Master \notin PresentWorkers'
  /\ IsFiniteSet(Present) /\ Cardinality(Present) \in Nat
  /\ Cardinality(Present) <= CommSize
<1>1. Present \subseteq Procs
  BY DEF Present, Procs
<1> QED BY <1>1, ProcFacts, ProcsFinite DEF Present, PresentWorkers

\* Only a farewell received takes a worker from the processes present.
LEMMA PresentWorkersStep ==
  ASSUME Types, Types', WorkHasTask, FarewellOnce, [Next]_vars
  PROVE  \/ \E w \in PresentWorkers : /\ TreatFarewell(w)
                                      /\ PresentWorkers' = PresentWorkers \ {w}
         \/ /\ \A w \in Workers : ~TreatFarewell(w)
            /\ PresentWorkers' = PresentWorkers
<1> DEFINE There(v) == pc[v] # "done" \/ Waiting(Farewells, v)
<1>1. ASSUME NEW v \in Workers, ~TreatFarewell(v)
      PROVE  There(v)' <=> There(v)
  <2>1. CASE WorkerFarewell(v)
    <3>1. pc[v] = "farewell"
      BY <2>1, WorkerFlow
    <3>2. channel'[Farewells][v] = Append(channel[Farewells][v], Signal)
      BY <2>1, WorkerFarewellAt
    <3>3. channel[Farewells][v] \in Seq(MessagesOf(Farewells))
      BY TagFacts DEF Types, ChannelsOK
    <3>4. channel'[Farewells][v] # <<>>
      BY <3>2, <3>3, AppendFacts, TagFacts
    <3> QED BY <3>1, <3>4 DEF Waiting
  <2>2. CASE ~WorkerFarewell(v)
    <3>1. channel'[Farewells][v] = channel[Farewells][v]
      BY <1>1, <2>2, Touched
    <3>2. pc'[v] = "done" <=> pc[v] = "done"
      <4>1. CASE WorkerAction(v)
        BY <2>2, <4>1, WorkerFlow, WorkerMove DEF WorkerAction
      <4>2. CASE ~WorkerAction(v)
        BY <4>2, OthersStay
      <4> QED BY <4>1, <4>2
    <3> QED BY <3>1, <3>2 DEF Waiting
  <2> QED BY <2>1, <2>2
<1>2. CASE \A w \in Workers : ~TreatFarewell(w)
  BY <1>1, <1>2 DEF PresentWorkers
<1>3. ASSUME NEW w \in Workers, TreatFarewell(w)
      PROVE  w \in PresentWorkers /\ PresentWorkers' = PresentWorkers \ {w}
  <2>1. Waiting(Farewells, w) /\ channel'[Farewells][w] = Tail(channel[Farewells][w])
    BY <1>3, TreatFarewellAt
  <2>2. pc[w] = "done" /\ Len(channel[Farewells][w]) <= 1 /\ UNCHANGED pc
    BY <1>3, <2>1, MasterFlow DEF FarewellOnce
  <2>3. channel[Farewells][w] \in Seq(MessagesOf(Farewells))
    BY TagFacts DEF Types, ChannelsOK
  <2>4. channel'[Farewells][w] = <<>>
    BY <2>1, <2>2, <2>3 DEF Waiting
  <2>5. ~There(w)' /\ There(w)
    BY <2>1, <2>2, <2>4 DEF Waiting
  <2>6. ASSUME NEW v \in Workers \ {w} PROVE There(v)' <=> There(v)
    <3>1. channel'[Farewells][v] = channel[Farewells][v]
      BY <1>3, TreatFarewellAt, TagFacts
    <3> QED BY <2>2, <3>1 DEF Waiting
  <2> QED BY <2>5, <2>6 DEF PresentWorkers
<1> QED BY <1>2, <1>3

LEMMA PresentCountedStep ==
  ASSUME Types, Types', WorkHasTask, MasterControl, FarewellOnce, PresentCounted,
         [Next]_vars
  PROVE  PresentCounted'
<1>0. LocationsOK /\ LocationsOK' /\ num_workers_running \in Int
  BY DEF Types, ProcessTypes, BookTypes
<1>s. ASSUME PresentWorkers' = PresentWorkers, AfterWork' <=> AfterWork,
             UNCHANGED num_workers_running
      PROVE  PresentCounted'
  <2>1. Present' = Present
    BY <1>s, PresentFacts
  <2> QED BY <1>s, <2>1 DEF PresentCounted
<1>l. ASSUME PresentWorkers' = PresentWorkers, ~AfterWork, AfterWork',
             num_workers_running' = num_workers_running - 1
      PROVE  PresentCounted'
  <2>1. Present' = Present \ {Master} /\ Master \in Present
    BY <1>l, PresentFacts
  <2>2. Cardinality(Present') = Cardinality(Present) - 1
    <3>1. Cardinality(Present \ {Master}) = Cardinality(Present) - 1
      BY <2>1, PresentFacts, OneLess
    <3> QED BY <2>1, <3>1
  <2> QED BY <1>l, <2>2 DEF PresentCounted
<1>1. ASSUME NEW w \in PresentWorkers, TreatFarewell(w),
             PresentWorkers' = PresentWorkers \ {w}
      PROVE  PresentCounted'
  <2>1. UNCHANGED <<pc, check_from>> /\ num_workers_running' = num_workers_running - 1
    BY <1>1, MasterFlow, PresentFacts DEF TreatFarewell
  <2>2. AfterWork' <=> AfterWork
    BY <2>1, MasterStays
  <2>3. Present' = Present \ {w} /\ w \in Present
    BY <1>1, <2>2, PresentFacts
  <2>4. Cardinality(Present') = Cardinality(Present) - 1
    <3>1. Cardinality(Present \ {w}) = Cardinality(Present) - 1
      BY <2>3, PresentFacts, OneLess
    <3> QED BY <2>3, <3>1
  <2> QED BY <2>1, <2>4 DEF PresentCounted
<1>2. CASE (\A w \in Workers : ~TreatFarewell(w)) /\ PresentWorkers' = PresentWorkers
  <2>1. CASE MasterNext
    <3>1. ~AfterWork
      BY <1>0, <2>1, MasterFlow, MasterPlaces, TagsDiffer, TagFacts
    <3>2. CASE NewTask >= 0
      <4>1. ~AfterWork' /\ UNCHANGED num_workers_running
        BY <1>0, <2>1, <3>2, MasterFlow, MasterPlaces DEF MasterNext
      <4> QED BY <1>2, <1>s, <3>1, <4>1
    <3>3. CASE ~(NewTask >= 0)
      <4>1. AfterWork' /\ num_workers_running' = num_workers_running - 1
        BY <1>0, <2>1, <3>3, MasterFlow, MasterPlaces DEF MasterNext
      <4> QED BY <1>2, <1>l, <3>1, <4>1
    <3> QED BY <3>2, <3>3
  <2>2. CASE MasterPoll \/ MasterCheckQuiet \/ NextPhase \/ EndCheck \/ MasterWait
    <3>1. UNCHANGED num_workers_running
      BY <2>2 DEF MasterPoll, MasterCheckQuiet, NextPhase, EndCheck, MasterWait, controller
    <3>2. AfterWork' <=> AfterWork
      BY <1>0, <2>2, MasterFlow, MasterPlaces, PhaseFacts, TagsDiffer, TagFacts
    <3> QED BY <1>2, <1>s, <3>1, <3>2
  <2>3. CASE MasterFinishTask
    <3>1. ~AfterWork /\ pc[Master] = "task"
      BY <1>0, <2>3, MasterFlow, MasterPlaces, TagsDiffer, TagFacts
    <3>2. CASE Transition(Master, "task", "next") /\ UNCHANGED num_workers_running
      <4>1. ~AfterWork'
        BY <1>0, <3>2, MasterMoves, MasterPlaces, PhaseFacts, TagsDiffer, TagFacts
      <4> QED BY <1>2, <1>s, <3>1, <3>2, <4>1
    <3>3. CASE Transition(Master, "task", "wait") /\ MasterLeaves
      <4>1. AfterWork'
        BY <1>0, <3>3, MasterMoves, MasterPlaces, PhaseFacts
      <4> QED BY <1>2, <1>l, <3>1, <3>3, <4>1 DEF MasterLeaves
    <3> QED BY <2>3, <3>2, <3>3 DEF MasterFinishTask
  <2>4. CASE MasterCheckInterrupted
    <3>1. pc[Master] = "check" /\ AfterWork'
      BY <1>0, <2>4, MasterFlow, MasterPlaces
    <3>2. CASE check_from \in {"before", "task"} /\ MasterLeaves
      <4>1. ~AfterWork
        BY <1>0, <3>1, <3>2, MasterPlaces, TagsDiffer, TagFacts
      <4> QED BY <1>2, <1>l, <3>1, <3>2, <4>1 DEF MasterLeaves
    <3>3. CASE check_from = "wait" /\ UNCHANGED num_workers_running
      <4>1. AfterWork
        BY <1>0, <3>1, <3>3, MasterPlaces
      <4> QED BY <1>2, <1>s, <3>1, <3>3, <4>1
    <3> QED BY <2>4, <3>2, <3>3 DEF MasterCheckInterrupted, controller
  <2>5. CASE \E w \in Workers : TreatRequest(w) \/ TreatResult(w) \/ TreatReport(w)
    <3>1. UNCHANGED <<pc, check_from, num_workers_running>>
      BY <2>5, MasterFlow DEF TreatRequest, TreatResult, TreatReport, controller
    <3> QED BY <1>2, <1>s, <3>1, MasterStays
  <2>6. CASE \E w \in Workers : WorkerAction(w)
    <3>1. pc'[Master] = pc[Master] /\ WorkerKeeps
      BY <2>6, WorkerMove DEF WorkerAction
    <3>2. check_from' = check_from /\ UNCHANGED num_workers_running
      BY <3>1 DEF WorkerKeeps, check, controller
    <3> QED BY <1>2, <1>s, <3>1, <3>2, MasterStays
  <2>7. CASE CallerAction
    <3>1. UNCHANGED <<pc, check_from, num_workers_running>>
      BY <2>7 DEF CallerAction, RequestStatusReport, RequestInterrupt, vars, check,
         controller
    <3> QED BY <1>2, <1>s, <3>1, MasterStays
  <2> QED BY <1>2, <2>1, <2>2, <2>3, <2>4, <2>5, <2>6, <2>7, ActionCases DEF MasterAction
<1> QED BY <1>1, <1>2, PresentWorkersStep

\* run() ends on the master when no process is counted any more, and then none
\* comes back.
\* run() ends where the master waits for nobody any more.
LEMMA OutcomeStep ==
  ASSUME Types, [Next]_vars
  PROVE  outcome' = outcome \/ (MasterWait /\ ~OthersRunning)
<1>1. CASE MasterAction
  BY <1>1 DEF MasterAction, MasterNext, MasterPoll, MasterFinishTask, MasterWait,
     MasterCheckInterrupted, MasterCheckQuiet, TreatRequest, TreatResult,
     TreatReport, TreatFarewell, Receive, NextPhase, EndCheck
<1>2. CASE \E w \in Workers : WorkerAction(w)
  BY <1>2, WorkerMove DEF WorkerAction, WorkerKeeps
<1>3. CASE CallerAction
  BY <1>3 DEF CallerAction, RequestStatusReport, RequestInterrupt, vars
<1> QED BY <1>1, <1>2, <1>3, ActionCases

LEMMA MasterLeavesLastStep ==
  ASSUME Types, Types', WorkHasTask, MasterControl, FarewellOnce, PresentCounted,
         MasterLeavesLast, [Next]_vars
  PROVE  MasterLeavesLast'
<1>0. LocationsOK /\ LocationsOK'
  BY DEF Types, ProcessTypes
<1>1. MasterLeavesLast <=> (outcome # "none" => PresentWorkers = {})
  BY DEF MasterLeavesLast, PresentWorkers
<1>2. MasterLeavesLast' <=> (outcome' # "none" => PresentWorkers' = {})
  BY DEF MasterLeavesLast, PresentWorkers
<1>3. PresentWorkers' \subseteq PresentWorkers
  BY PresentWorkersStep
<1>4. CASE MasterWait /\ ~OthersRunning
  <2>1. Cardinality(Present) = 0
    BY <1>4 DEF OthersRunning, PresentCounted
  <2>2. Present = {}
    BY <2>1, PresentFacts, FS_EmptySet
  <2> QED BY <1>2, <1>3, <2>2, PresentFacts
<1>5. CASE outcome' = outcome
  BY <1>1, <1>2, <1>3, <1>5
<1>6. outcome' = outcome \/ (MasterWait /\ ~OthersRunning)
  BY OutcomeStep
<1> QED BY <1>4, <1>5, <1>6

-----------------------------------------------------------------------------
\* Status reports: a process owes one at most, and the master counts them.

LEMMA ReportsOfStep ==
  ASSUME Types, WorkHasTask, [Next]_vars, NEW v \in Workers
  PROVE  /\ ReportsOf(v) \in Nat
         /\ \/ TreatReport(v) /\ ReportsOf(v)' = ReportsOf(v) - 1
            \/ /\ MasterCheckQuiet /\ InitiateReport /\ ~in_preparation
               /\ ReportsOf(v)' = ReportsOf(v) + IF v \in workers_running THEN 1 ELSE 0
            \/ /\ ~TreatReport(v)
               /\ ~MasterCheckQuiet \/ UNCHANGED in_preparation
               /\ ReportsOf(v)' = ReportsOf(v)
<1> DEFINE a == Len(channel[ReportOrders][v])
           b == Len(channel[Reports][v])
           c == Len(channel[IdleReports][v])
<1>0. ChannelsOK
  BY DEF Types
<1>1. a \in Nat /\ b \in Nat /\ c \in Nat
  BY <1>0, QueueLength, TagFacts
<1>2. ReportsOf(v) = a + b + c /\ ReportsOf(v)' = a' + b' + c'
  BY DEF ReportsOf
<1>3. ReportsOf(v) \in Nat
  <2> HIDE DEF a, b, c
  <2> QED BY <1>1, <1>2
<1>4. CASE TreatReport(v)
  <2>1. PICK tag \in {Reports, IdleReports} :
           /\ Waiting(tag, v)
           /\ \A t \in Tags, u \in Workers :
                u # v \/ t # tag => channel'[t][u] = channel[t][u]
           /\ channel'[tag][v] = Tail(channel[tag][v])
    BY <1>4, TreatReportAt
  <2>2. Len(channel'[tag][v]) = Len(channel[tag][v]) - 1
    BY <1>0, <2>1, TailLength, TagFacts
  <2>3. a' = a
    BY <2>1, TagFacts, TagsDiffer
  <2>4. (b' = b - 1 /\ c' = c) \/ (b' = b /\ c' = c - 1)
    BY <2>1, <2>2, TagFacts, TagsDiffer
  <2> HIDE DEF a, b, c
  <2> QED BY <1>1, <1>2, <1>3, <1>4, <2>3, <2>4
<1>5. CASE MasterCheckQuiet /\ InitiateReport /\ ~in_preparation
  <2>1. b' = b /\ c' = c
    BY <1>0, <1>5, ReportOrdersAt, TagFacts, TagsDiffer
  <2>2. CASE v \in workers_running
    <3>1. channel'[ReportOrders][v] = Append(channel[ReportOrders][v], Signal)
      BY <1>0, <1>5, <2>2, ReportOrdersAt
    <3>2. Signal \in MessagesOf(ReportOrders)
      BY TagsDiffer DEF MessagesOf
    <3>3. a' = a + 1
      BY <1>0, <3>1, <3>2, AppendLength, TagFacts
    <3> HIDE DEF a, b, c
    <3> QED BY <1>1, <1>2, <1>3, <1>5, <2>1, <2>2, <3>3
  <2>3. CASE v \notin workers_running
    <3>1. a' = a
      BY <1>0, <1>5, <2>3, ReportOrdersAt, TagFacts
    <3> HIDE DEF a, b, c
    <3> QED BY <1>1, <1>2, <1>3, <1>5, <2>1, <2>3, <3>1
  <2> QED BY <2>2, <2>3
<1>6. CASE WorkerProbeReport(v)
  <2>0. ~TreatReport(v) /\ ~MasterCheckQuiet
    <3>1. pc'[v] # pc[v]
      BY <1>6, WorkerFlow
    <3> QED BY <3>1, MasterFlow DEF MasterAction
  <2>1. CASE UNCHANGED channel
    BY <1>2, <1>3, <2>0, <2>1
  <2>2. ASSUME NEW tag \in {Reports, IdleReports}, Waiting(ReportOrders, v),
               \A t \in Tags, u \in Workers :
                 u # v \/ t \notin {ReportOrders, tag} => channel'[t][u] = channel[t][u],
               channel'[ReportOrders][v] = Tail(channel[ReportOrders][v]),
               channel'[tag][v] = Append(channel[tag][v], Signal)
        PROVE  ReportsOf(v)' = ReportsOf(v)
    <3>1. a' = a - 1
      BY <1>0, <2>2, TailLength, TagFacts
    <3>s. tag \in Tags /\ Signal \in MessagesOf(tag)
      BY <2>2, TagFacts, TagsDiffer DEF MessagesOf
    <3>2. Len(channel'[tag][v]) = Len(channel[tag][v]) + 1
      BY <1>0, <2>2, <3>s, AppendLength
    <3>3. (b' = b + 1 /\ c' = c) \/ (b' = b /\ c' = c + 1)
      BY <2>2, <3>2, TagFacts, TagsDiffer
    <3> HIDE DEF a, b, c
    <3> QED BY <1>1, <1>2, <3>1, <3>3
  <2> QED BY <1>3, <1>6, <2>0, <2>1, <2>2, WorkerProbeReportAt
<1>7. CASE /\ ~TreatReport(v) /\ ~WorkerProbeReport(v)
           /\ ~MasterCheckQuiet \/ UNCHANGED <<channel, in_preparation>>
  <2>1. a' = a /\ b' = b /\ c' = c
    BY <1>7, Touched
  <2> QED BY <1>2, <1>3, <1>7, <2>1
<1>8. MasterCheckQuiet => \/ InitiateReport /\ ~in_preparation
                        \/ UNCHANGED <<channel, in_preparation>>
  BY DEF MasterCheckQuiet, UserRequestPending, report
<1> QED BY <1>4, <1>5, <1>6, <1>7, <1>8

ReportingWorkers == {w \in Workers : ReportsOf(w) # 0}

OwnReport == requested /\ pc[Master] \in Phases /\ check_from # "wait"

LEMMA ReportingFacts ==
  /\ Reporting = ReportingWorkers \cup (IF OwnReport THEN {Master} ELSE {})
  /\ Reporting' = ReportingWorkers' \cup (IF OwnReport' THEN {Master} ELSE {})
  /\ ReportingWorkers \subseteq Workers /\ ReportingWorkers' \subseteq Workers
  /\ Master \notin ReportingWorkers /\ Master \notin ReportingWorkers'
  /\ IsFiniteSet(Reporting) /\ Cardinality(Reporting) \in Nat
<1>1. Reporting = ReportingWorkers \cup (IF OwnReport THEN {Master} ELSE {})
  BY DEF Reporting, ReportingWorkers, OwnReport
<1>2. Reporting' = ReportingWorkers' \cup (IF OwnReport' THEN {Master} ELSE {})
  BY DEF Reporting, ReportingWorkers, OwnReport
<1>3. Reporting \subseteq Procs
  BY <1>1 DEF ReportingWorkers, Procs
<1>4. IsFiniteSet(Reporting) /\ Cardinality(Reporting) \in Nat
  BY <1>3, ProcsFinite
<1> QED BY <1>1, <1>2, <1>4, ProcFacts DEF ReportingWorkers

\* The count goes down with one of the processes that report.
LEMMA CountDown ==
  ASSUME ReportsCounted, HandleReport, NEW p \in Reporting,
         Reporting' = Reporting \ {p}
  PROVE  ReportsCounted'
<1>1. in_preparation /\ num_reports_waiting = Cardinality(Reporting)
  BY DEF ReportsCounted
<1>2. Cardinality(Reporting \ {p}) = Cardinality(Reporting) - 1
      /\ IsFiniteSet(Reporting \ {p})
  BY OneLess, ReportingFacts
<1>3. Cardinality(Reporting') = Cardinality(Reporting) - 1 /\ IsFiniteSet(Reporting')
  BY <1>2
<1>4. Cardinality(Reporting') \in Nat
  BY <1>3, FS_CardinalityType
<1>5. CASE Cardinality(Reporting) - 1 > 0
  <2>1. OneReportLess = Cardinality(Reporting') /\ OneReportLess > 0
    BY <1>1, <1>3, <1>5 DEF OneReportLess
  <2>2. in_preparation' = TRUE
    BY <2>1 DEF HandleReport
  <2>3. num_reports_waiting' = OneReportLess
    BY <1>4, <2>1 DEF HandleReport
  <2> QED BY <2>1, <2>2, <2>3 DEF ReportsCounted
<1>6. CASE ~(Cardinality(Reporting) - 1 > 0)
  <2>0. OneReportLess \in Int /\ OneReportLess <= 0
    BY <1>1, <1>6, ReportingFacts DEF OneReportLess
  <2>1. ~in_preparation' /\ num_reports_waiting' = 0
    <3>1. ~(OneReportLess > 0)
      BY <2>0
    <3>2. ~in_preparation'
      BY <3>1 DEF HandleReport
    <3>3. num_reports_waiting' = 0
      BY <2>0 DEF HandleReport
    <3> QED BY <3>2, <3>3
  <2>2. Cardinality(Reporting') = 0
    BY <1>3, <1>4, <1>6, ReportingFacts
  <2>3. Reporting' = {}
    BY <1>3, <2>2, FS_EmptySet
  <2> QED BY <2>1, <2>3 DEF ReportsCounted
<1> QED BY <1>5, <1>6

\* A report is started when nobody owes one any more.
LEMMA OneReportStep ==
  ASSUME Types, WorkHasTask, OneReport, ReportsCounted, [Next]_vars
  PROVE  OneReport'
<1> SUFFICES ASSUME NEW v \in Workers
             PROVE  ReportsOf(v)' <= 1
  BY DEF OneReport
<1>1. ReportsOf(v) <= 1
  BY DEF OneReport
<1>2. ReportsOf(v) \in Nat
  BY ReportsOfStep
<1>3. CASE TreatReport(v) /\ ReportsOf(v)' = ReportsOf(v) - 1
  BY <1>1, <1>2, <1>3
<1>4. CASE /\ ~in_preparation
           /\ ReportsOf(v)' = ReportsOf(v) + IF v \in workers_running THEN 1 ELSE 0
  <2>1. ReportsOf(v) = 0
    BY <1>4, ReportingFacts DEF ReportsCounted, ReportingWorkers
  <2> QED BY <1>4, <2>1
<1>5. CASE ReportsOf(v)' = ReportsOf(v)
  BY <1>1, <1>5
<1> QED BY <1>3, <1>4, <1>5, ReportsOfStep

\* The master waits for as many reports as are owed to it.
LEMMA ReportsCountedStep ==
  ASSUME Types, Types', WorkHasTask, MasterControl, OneReport, ReportsCounted,
         [Next]_vars
  PROVE  ReportsCounted'
<1>0. LocationsOK /\ LocationsOK' /\ ChannelsOK /\ ChannelsOK'
  BY DEF Types, ProcessTypes
<1>s. ASSUME ReportingWorkers' = ReportingWorkers, OwnReport' <=> OwnReport,
             UNCHANGED <<in_preparation, num_reports_waiting>>
      PROVE  ReportsCounted'
  <2>1. Reporting' = Reporting
    BY <1>s, ReportingFacts
  <2> QED BY <1>s, <2>1 DEF ReportsCounted
<1>1. ASSUME NEW w \in Workers, TreatReport(w)
      PROVE  ReportsCounted'
  <2>1. ReportsOf(w)' = ReportsOf(w) - 1 /\ ReportsOf(w) \in Nat /\ ReportsOf(w) <= 1
    <3>1. TreatReport(w) => ~MasterCheckQuiet
      BY TagsDiffer, TagFacts, MasterFlow, PhaseFacts DEF TreatReport, Receive
    <3> QED BY <1>1, <3>1, ReportsOfStep DEF OneReport
  <2>2. ReportsOf(w)' \in Nat
    <3> DEFINE n(t) == Len(channel'[t][w])
    <3>1. n(ReportOrders) \in Nat /\ n(Reports) \in Nat /\ n(IdleReports) \in Nat
      <4>1. \A t \in Tags : channel'[t][w] \in Seq(MessagesOf(t))
        BY <1>0 DEF ChannelsOK
      <4> QED BY <4>1, TagFacts, EmptyFacts
    <3>2. ReportsOf(w)' = n(ReportOrders) + n(Reports) + n(IdleReports)
      BY DEF ReportsOf
    <3> HIDE DEF n
    <3> QED BY <3>1, <3>2
  <2>3. ReportsOf(w) # 0 /\ ReportsOf(w)' = 0
    BY <2>1, <2>2
  <2>4. ASSUME NEW v \in Workers \ {w} PROVE ReportsOf(v)' = ReportsOf(v)
    <3>1. \A t \in Tags : channel'[t][v] = channel[t][v]
      BY <1>1, TreatReportAt
    <3> QED BY <3>1, TagFacts DEF ReportsOf
  <2>5. ReportingWorkers' = ReportingWorkers \ {w} /\ w \in ReportingWorkers
    BY <2>3, <2>4 DEF ReportingWorkers
  <2>6. OwnReport' <=> OwnReport
    BY <1>1 DEF TreatReport, Receive, OwnReport
  <2>7. Reporting' = Reporting \ {w} /\ w \in Reporting
    BY <2>5, <2>6, ReportingFacts, ProcFacts
  <2>8. HandleReport
    BY <1>1 DEF TreatReport
  <2> QED BY <2>7, <2>8, CountDown
<1>q. ASSUME \A w \in Workers : ~TreatReport(w), ~MasterCheckQuiet
      PROVE  ReportingWorkers' = ReportingWorkers
  <2>1. \A v \in Workers : ReportsOf(v)' = ReportsOf(v)
    BY <1>q, ReportsOfStep
  <2> QED BY <2>1 DEF ReportingWorkers
<1>2. CASE MasterCheckQuiet
  <2>0. /\ pc[Master] = "check" /\ pc'[Master] = Requests /\ check_from' = check_from
        /\ ~interrupt_requested
    BY <1>2, MasterFlow DEF MasterCheckQuiet
  <2>1. CASE InitiateReport /\ ~in_preparation /\ requested'
    <3>1. Reporting = {}
      BY <2>1 DEF ReportsCounted
    <3>2. ASSUME NEW v \in Workers
          PROVE  ReportsOf(v)' = IF v \in workers_running THEN 1 ELSE 0
      <4>1. ReportsOf(v) = 0
        BY <3>1, ReportingFacts DEF ReportingWorkers
      <4>2. ~TreatReport(v)
        BY <2>0, TagsDiffer, TagFacts DEF TreatReport, Receive
      <4>3. ReportsOf(v)' = ReportsOf(v) + IF v \in workers_running THEN 1 ELSE 0
        BY <1>2, <2>1, <4>2, ReportsOfStep DEF InitiateReport
      <4> QED BY <4>1, <4>3
    <3>3. OwnReport' <=> check_from # "wait"
      BY <2>0, <2>1, PhaseFacts DEF OwnReport
    <3>4. check_from # "wait" <=> Master \in workers_running
      BY <1>0, <2>0, MasterPlaces DEF MasterControl
    <3>5. workers_running \subseteq Procs
      BY DEF Types, BookTypes
    <3>6. ReportingWorkers' = workers_running \cap Workers
      BY <3>2 DEF ReportingWorkers
    <3>7. Reporting' = workers_running
      BY <3>3, <3>4, <3>5, <3>6, ReportingFacts, ProcFacts DEF Procs
    <3> QED BY <2>1, <3>7 DEF InitiateReport, ReportsExpected, ReportsCounted
  <2>2. CASE /\ ~requested'
             /\ UNCHANGED <<in_preparation, num_reports_waiting, channel>>
    <3>1. ~OwnReport /\ ~OwnReport'
      BY <2>0, <2>2, PhaseFacts, TagsDiffer, TagFacts DEF OwnReport
    <3>2. ReportingWorkers' = ReportingWorkers
      BY <2>2 DEF ReportingWorkers, ReportsOf
    <3> QED BY <1>s, <2>2, <3>1, <3>2
  <2> QED BY <1>2, <2>1, <2>2 DEF MasterCheckQuiet, UserRequestPending, report
<1>3. CASE EndCheck
  <2>0. /\ pc[Master] = Farewells /\ pc'[Master] \in {"wait", "task"}
        /\ check_from' = check_from /\ requested' = requested
    BY <1>3, MasterFlow DEF EndCheck, check
  <2>1. ~OwnReport'
    BY <2>0, PhaseFacts, TagsDiffer, TagFacts DEF OwnReport
  <2>2. ReportingWorkers' = ReportingWorkers
    BY <1>q, <2>0, TagsDiffer, TagFacts, MasterFlow DEF TreatReport, Receive
  <2>3. CASE requested /\ check_from # "wait"
    <3>1. OwnReport /\ HandleReport
      BY <1>3, <2>0, <2>3, PhaseFacts DEF OwnReport, EndCheck
    <3>2. Reporting' = Reporting \ {Master} /\ Master \in Reporting
      BY <2>1, <2>2, <3>1, ReportingFacts
    <3> QED BY <3>1, <3>2, CountDown
  <2>4. CASE ~(requested /\ check_from # "wait")
    BY <1>3, <1>s, <2>1, <2>2, <2>4 DEF OwnReport, EndCheck, report
  <2> QED BY <2>3, <2>4
<1>4. CASE /\ \A w \in Workers : ~TreatReport(w)
           /\ ~MasterCheckQuiet /\ ~EndCheck
  <2>1. UNCHANGED <<in_preparation, num_reports_waiting>>
    <3>1. CASE MasterAction
      BY <1>4, <3>1 DEF MasterAction, MasterNext, MasterPoll, MasterFinishTask,
         MasterWait, MasterCheckInterrupted, TreatRequest, TreatResult, TreatFarewell,
         NextPhase, report
    <3>2. CASE \E w \in Workers : WorkerAction(w)
      BY <3>2, WorkerMove DEF WorkerAction, WorkerKeeps, report
    <3>3. CASE CallerAction
      BY <3>3 DEF CallerAction, RequestStatusReport, RequestInterrupt, vars, report
    <3> QED BY <3>1, <3>2, <3>3, ActionCases
  <2>2. OwnReport' <=> OwnReport
    <3>1. CASE MasterNext \/ MasterPoll \/ MasterFinishTask \/ MasterWait
               \/ MasterCheckInterrupted
      <4>1. /\ pc[Master] \in {"next", "check", "task", "wait", "done"}
            /\ pc'[Master] \in {"next", "check", "task", "wait", "done"}
        BY <3>1, MasterFlow
      <4> QED BY <4>1, PhaseFacts, TagsDiffer, TagFacts DEF OwnReport
    <3>2. CASE NextPhase
      <4>1. pc[Master] \in Phases /\ pc'[Master] \in Phases /\ check_from' = check_from
        BY <3>2, MasterFlow, PhaseFacts
      <4> QED BY <3>2, <4>1 DEF OwnReport, NextPhase
    <3>3. CASE \E w \in Workers : TreatRequest(w) \/ TreatResult(w) \/ TreatFarewell(w)
      BY <3>3 DEF TreatRequest, TreatResult, TreatFarewell, Receive, OwnReport
    <3>4. CASE \E w \in Workers : WorkerAction(w)
      BY <3>4, WorkerMove DEF WorkerAction, WorkerKeeps, check, OwnReport
    <3>5. CASE CallerAction
      BY <3>5 DEF CallerAction, RequestStatusReport, RequestInterrupt, vars, check,
         OwnReport
    <3> QED BY <1>4, <3>1, <3>2, <3>3, <3>4, <3>5, ActionCases DEF MasterAction
  <2> QED BY <1>4, <1>q, <1>s, <2>1, <2>2
<1> QED BY <1>1, <1>2, <1>3, <1>4

\* A process that reports accounts for one of the orders, the answers and the
\* report of the master itself.
LEMMA OutstandingIsReporting ==
  ASSUME Types, OneReport
  PROVE  Cardinality(Outstanding) = Cardinality(Reporting)
         /\ (Outstanding = {} <=> Reporting = {})
<1> DEFINE Own == {own \in {<<"own", Master>>} : OwnReport}
           ReportTags == {ReportOrders, Reports, IdleReports}
           Owed == {tw \in ReportTags \X Workers : Waiting(tw[1], tw[2])}
           g == [tw \in Outstanding |-> tw[2]]
<1>0. ChannelsOK
  BY DEF Types
<1>1. Outstanding = Owed \cup Own
  BY DEF Outstanding, OwnReport
<1>2. ASSUME NEW w \in Workers
      PROVE  /\ ReportsOf(w) # 0 <=> \E t \in ReportTags : Waiting(t, w)
             /\ \A t, u \in ReportTags : Waiting(t, w) /\ Waiting(u, w) => t = u
  <2> DEFINE n(t) == Len(channel[t][w])
  <2>1. \A t \in ReportTags : n(t) \in Nat /\ (Waiting(t, w) <=> n(t) > 0)
    BY <1>0, QueueLength, TagFacts
  <2>2. n(ReportOrders) + n(Reports) + n(IdleReports) = ReportsOf(w)
    BY DEF ReportsOf
  <2>3. ReportsOf(w) <= 1
    BY DEF OneReport
  <2> HIDE DEF n
  <2>4. /\ n(ReportOrders) \in Nat /\ n(Reports) \in Nat /\ n(IdleReports) \in Nat
    BY <2>1
  <2>5. ReportsOf(w) # 0 <=> n(ReportOrders) > 0 \/ n(Reports) > 0 \/ n(IdleReports) > 0
    <3> DEFINE a == n(ReportOrders)
               b == n(Reports)
               c == n(IdleReports)
    <3>1. a \in Nat /\ b \in Nat /\ c \in Nat /\ ReportsOf(w) = a + b + c
      BY <2>2, <2>4
    <3> HIDE DEF a, b, c
    <3>2. ReportsOf(w) # 0 <=> a > 0 \/ b > 0 \/ c > 0
      BY <3>1
    <3> QED BY <3>2 DEF a, b, c
  <2>6. \/ n(ReportOrders) = 0 /\ n(Reports) = 0
        \/ n(ReportOrders) = 0 /\ n(IdleReports) = 0
        \/ n(Reports) = 0 /\ n(IdleReports) = 0
    BY <2>2, <2>3, <2>4
  <2>7. /\ Waiting(ReportOrders, w) <=> n(ReportOrders) > 0
        /\ Waiting(Reports, w) <=> n(Reports) > 0
        /\ Waiting(IdleReports, w) <=> n(IdleReports) > 0
    BY <2>1
  <2>8. \/ ~Waiting(ReportOrders, w) /\ ~Waiting(Reports, w)
        \/ ~Waiting(ReportOrders, w) /\ ~Waiting(IdleReports, w)
        \/ ~Waiting(Reports, w) /\ ~Waiting(IdleReports, w)
    BY <2>6, <2>7
  <2>9. ReportsOf(w) # 0 <=>
          Waiting(ReportOrders, w) \/ Waiting(Reports, w) \/ Waiting(IdleReports, w)
    BY <2>5, <2>7
  <2> QED BY <2>8, <2>9
<1>3. \A tw \in Outstanding : tw[2] \in Reporting
  <2>1. \A tw \in Owed : tw[2] \in Reporting
    BY <1>2, ReportingFacts DEF ReportingWorkers
  <2>2. \A tw \in Own : tw[2] \in Reporting
    BY ReportingFacts
  <2> QED BY <1>1, <2>1, <2>2
<1>4. \A p \in Reporting : \E tw \in Outstanding : tw[2] = p
  <2>1. ASSUME NEW w \in ReportingWorkers PROVE \E tw \in Owed : tw[2] = w
    <3>1. PICK t \in ReportTags : Waiting(t, w)
      BY <1>2 DEF ReportingWorkers
    <3>2. <<t, w>> \in Owed
      BY <3>1 DEF ReportingWorkers
    <3> QED BY <3>2
  <2>2. OwnReport => <<"own", Master>> \in Own
    OBVIOUS
  <2>3. ASSUME NEW p \in Reporting PROVE \E tw \in Outstanding : tw[2] = p
    <3>1. CASE p \in ReportingWorkers
      <4>1. PICK tw \in Owed : tw[2] = p
        BY <2>1, <3>1
      <4> QED BY <1>1, <4>1
    <3>2. CASE OwnReport /\ p = Master
      <4>1. <<"own", Master>> \in Outstanding
        BY <1>1, <2>2, <3>2
      <4> QED BY <3>2, <4>1
    <3> QED BY <3>1, <3>2, ReportingFacts
  <2> QED BY <2>3
<1>5. \A tw, uv \in Outstanding : tw[2] = uv[2] => tw = uv
  <2>1. \A tw, uv \in Owed : tw[2] = uv[2] => tw = uv
    BY <1>2
  <2>2. \A tw \in Owed, uv \in Own : tw[2] # uv[2]
    BY ProcFacts
  <2> QED BY <1>1, <2>1, <2>2
<1>6. g \in Injection(Outstanding, Reporting)
  BY <1>3, <1>5 DEF Injection, IsInjective
<1>7. g \in Surjection(Outstanding, Reporting)
  BY <1>3, <1>4 DEF Surjection
<1>8. Cardinality(Outstanding) = Cardinality(Reporting)
  BY <1>6, <1>7, ReportingFacts, FS_Injection
<1> QED BY <1>3, <1>4, <1>8

LEMMA ReportsAreOutstanding ==
  ASSUME Types, OneReport, ReportsCounted
  PROVE  ReportAccounting
BY OutstandingIsReporting DEF ReportsCounted, ReportAccounting

-----------------------------------------------------------------------------
\* What a step does to the places of the tasks

\* A step leaves p in the middle of its task, or out of work.
WorkStays(p) ==
  /\ AtWork(p)' <=> AtWork(p)
  /\ AtWork(p) => task_id'[p] = task_id[p]

QueueStays(tag, w) == channel'[tag][w] = channel[tag][w]

BooksStay == UNCHANGED <<num_tasks_launched, num_tasks_completed, full_task_results>>

TaskStays ==
  /\ BooksStay
  /\ \A k \in Tasks, kind \in Kinds, p \in Procs : \A i \in Nat :
       Holds(kind, p, i, k)' <=> Holds(kind, p, i, k)

\* The next task number is handed out.
TaskIsNew(kind0, p0, i0) ==
  /\ num_tasks_launched \in Tasks
  /\ num_tasks_launched' = num_tasks_launched + 1
  /\ UNCHANGED <<num_tasks_completed, full_task_results>>
  /\ \A k \in Tasks, kind \in Kinds, p \in Procs : \A i \in Nat :
       Holds(kind, p, i, k)' <=>
         \/ Holds(kind, p, i, k)
         \/ kind = kind0 /\ p = p0 /\ i = i0 /\ k = num_tasks_launched

\* Task k0, the only one in its place, goes on to another.
TaskMoves(kind1, kind0, p0, i0, k0) ==
  /\ BooksStay
  /\ Holds(kind1, p0, 1, k0)
  /\ \A k \in Tasks, kind \in Kinds, p \in Procs : \A i \in Nat :
       Holds(kind, p, i, k)' <=>
         \/ Holds(kind, p, i, k) /\ ~(kind = kind1 /\ p = p0)
         \/ kind = kind0 /\ p = p0 /\ i = i0 /\ k = k0
  /\ \A k \in Tasks : \A i \in Nat : Holds(kind1, p0, i, k) => k = k0

\* Task k0, the first one in its place, is stored, or lost to an interrupt.
TaskEnds(kind0, p0, k0) ==
  /\ Holds(kind0, p0, 1, k0)
  /\ UNCHANGED num_tasks_launched
  /\ \/ interrupt_requested /\ BooksStay
     \/ \E how \in {"ok", "error", "null"} :
          /\ full_task_results' = [full_task_results EXCEPT ![k0] = how]
          /\ num_tasks_completed' = num_tasks_completed + 1
  /\ \A k \in Tasks, kind \in Kinds, p \in Procs : \A i \in Nat :
       Holds(kind, p, i, k)' <=>
         IF kind = kind0 /\ p = p0 THEN i # 0 /\ Holds(kind, p, i + 1, k)
         ELSE Holds(kind, p, i, k)

LEMMA HoldsAt ==
  ASSUME NEW p \in Procs, NEW i \in Nat, NEW k \in Tasks
  PROVE  /\ Holds("work", p, i, k) <=> i = 1 /\ AtWork(p) /\ task_id[p] = k
         /\ Holds("work", p, i, k)' <=> i = 1 /\ AtWork(p)' /\ task_id'[p] = k
         /\ Holds(Deliveries, p, i, k) <=>
              /\ p \in Workers
              /\ i \in DOMAIN channel[Deliveries][p]
              /\ channel[Deliveries][p][i] = k
         /\ Holds(Deliveries, p, i, k)' <=>
              /\ p \in Workers
              /\ i \in DOMAIN channel'[Deliveries][p]
              /\ channel'[Deliveries][p][i] = k
         /\ Holds(Results, p, i, k) <=>
              /\ p \in Workers
              /\ i \in DOMAIN channel[Results][p]
              /\ channel[Results][p][i].task = k
         /\ Holds(Results, p, i, k)' <=>
              /\ p \in Workers
              /\ i \in DOMAIN channel'[Results][p]
              /\ channel'[Results][p][i].task = k
BY TagsDiffer, TagFacts DEF Holds

\* The places that a step does not touch
LEMMA PlacesStay ==
  ASSUME NEW p \in Procs, NEW i \in Nat, NEW k \in Tasks
  PROVE  /\ WorkStays(p) => (Holds("work", p, i, k)' <=> Holds("work", p, i, k))
         /\ p \notin Workers \/ QueueStays(Deliveries, p) =>
              (Holds(Deliveries, p, i, k)' <=> Holds(Deliveries, p, i, k))
         /\ p \notin Workers \/ QueueStays(Results, p) =>
              (Holds(Results, p, i, k)' <=> Holds(Results, p, i, k))
BY HoldsAt DEF WorkStays, QueueStays

LEMMA AllStays ==
  ASSUME \A p \in Procs : WorkStays(p),
         \A w \in Workers : QueueStays(Deliveries, w) /\ QueueStays(Results, w),
         BooksStay
  PROVE  TaskStays
<1> SUFFICES ASSUME NEW k \in Tasks, NEW kind \in Kinds, NEW p \in Procs, NEW i \in Nat
             PROVE  Holds(kind, p, i, k)' <=> Holds(kind, p, i, k)
  BY DEF TaskStays
<1>1. kind = "work" \/ kind = Deliveries \/ kind = Results
  BY DEF Kinds
<1> QED BY <1>1, PlacesStay

-----------------------------------------------------------------------------
\* Who works on

LEMMA OthersWorkOn ==
  ASSUME Types, [Next]_vars, NEW v \in Workers, ~WorkerAction(v)
  PROVE  WorkStays(v)
BY OthersStay, WorkerPlaces DEF WorkStays

LEMMA MasterWorksOn ==
  ASSUME Types, NEW w \in Workers, WorkerAction(w)
  PROVE  WorkStays(Master)
<1>1. WorkerKeeps /\ pc'[Master] = pc[Master] /\ task_id'[Master] = task_id[Master]
  BY WorkerMove, ProcFacts DEF WorkerAction
<1> QED BY <1>1, MasterStays DEF WorkerKeeps, check, WorkStays

LEMMA MasterWork ==
  ASSUME Types, Types', WorkHasTask
  PROVE  /\ MasterNext => /\ ~AtWork(Master)
                          /\ NewTask >= 0 => AtWork(Master)' /\ task_id'[Master] = NewTask
                          /\ ~(NewTask >= 0) => ~AtWork(Master)'
         /\ MasterFinishTask => AtWork(Master) /\ ~AtWork(Master)'
         /\ MasterCheckInterrupted =>
              /\ AtWork(Master) <=> check_from # "wait"
              /\ ~AtWork(Master)'
         /\ MasterPoll \/ MasterWait \/ MasterCheckQuiet \/ NextPhase \/ EndCheck =>
              WorkStays(Master)
         /\ \A w \in Workers :
              TreatRequest(w) \/ TreatResult(w) \/ TreatReport(w) \/ TreatFarewell(w) =>
                WorkStays(Master)
         /\ CallerAction => WorkStays(Master)
<1>0. LocationsOK /\ LocationsOK' /\ ProcessTypes
  BY DEF Types, ProcessTypes
<1>1. ASSUME MasterNext
      PROVE  /\ ~AtWork(Master)
             /\ NewTask >= 0 => AtWork(Master)' /\ task_id'[Master] = NewTask
             /\ ~(NewTask >= 0) => ~AtWork(Master)'
  <2>1. ~AtWork(Master)
    BY <1>0, <1>1, MasterFlow, MasterPlaces, TagsDiffer, TagFacts
  <2>2. ASSUME NewTask >= 0 PROVE AtWork(Master)' /\ task_id'[Master] = NewTask
    <3>1. task_id'[Master] = NewTask
      BY <1>0, <1>1, <2>2, ProcFacts DEF MasterNext, ProcessTypes
    <3> QED BY <1>0, <1>1, <2>2, <3>1, MasterFlow, MasterPlaces
  <2>3. ASSUME ~(NewTask >= 0) PROVE ~AtWork(Master)'
    BY <1>0, <1>1, <2>3, MasterFlow, MasterPlaces, TagsDiffer, TagFacts
  <2> QED BY <2>1, <2>2, <2>3
<1>2. ASSUME MasterFinishTask PROVE AtWork(Master) /\ ~AtWork(Master)'
  BY <1>0, <1>2, MasterFlow, MasterPlaces, TagsDiffer, TagFacts
<1>3. ASSUME MasterCheckInterrupted
      PROVE  (AtWork(Master) <=> check_from # "wait") /\ ~AtWork(Master)'
  BY <1>0, <1>3, MasterFlow, MasterPlaces, TagsDiffer, TagFacts
<1>4. ASSUME MasterPoll \/ MasterWait \/ MasterCheckQuiet \/ NextPhase \/ EndCheck
      PROVE  WorkStays(Master)
  <2>1. AtWork(Master)' <=> AtWork(Master)
    BY <1>0, <1>4, MasterFlow, MasterPlaces, PhaseFacts, TagsDiffer, TagFacts
  <2>2. UNCHANGED task_id
    BY <1>4 DEF MasterPoll, MasterWait, MasterCheckQuiet, NextPhase, EndCheck
  <2> QED BY <2>1, <2>2 DEF WorkStays
<1>5. ASSUME NEW w \in Workers,
             TreatRequest(w) \/ TreatResult(w) \/ TreatReport(w) \/ TreatFarewell(w)
      PROVE  WorkStays(Master)
  BY <1>5, MasterStays DEF TreatRequest, TreatResult, TreatReport, TreatFarewell, Receive,
     WorkStays
<1>6. ASSUME CallerAction PROVE WorkStays(Master)
  BY <1>6, MasterStays DEF CallerAction, RequestStatusReport, RequestInterrupt, vars,
     check, WorkStays
<1> QED BY <1>1, <1>2, <1>3, <1>4, <1>5, <1>6

LEMMA WorkersWorkOn ==
  ASSUME Types, MasterAction \/ CallerAction, NEW w \in Workers
  PROVE  WorkStays(w)
<1>0. ProcessTypes
  BY DEF Types
<1>1. CASE MasterAction
  <2>1. UNCHANGED task_id \/ \E k : task_id' = [task_id EXCEPT ![Master] = k]
    BY <1>1 DEF MasterAction, MasterNext, MasterPoll, MasterFinishTask,
       MasterWait, MasterCheckInterrupted, MasterCheckQuiet, TreatRequest, TreatResult,
       TreatReport, TreatFarewell, Receive, NextPhase, EndCheck
  <2>2. pc'[w] = pc[w] /\ task_id'[w] = task_id[w]
    BY <1>0, <1>1, <2>1, MasterFlow, ProcFacts DEF ProcessTypes
  <2> QED BY <2>2, WorkerPlaces DEF WorkStays
<1>2. CASE CallerAction
  <2>1. UNCHANGED <<pc, task_id>>
    BY <1>2 DEF CallerAction, RequestStatusReport, RequestInterrupt, vars
  <2> QED BY <2>1, WorkerPlaces DEF WorkStays
<1> QED BY <1>1, <1>2

-----------------------------------------------------------------------------
\* The steps that take a task from one place to the next

LEMMA TailEntries ==
  ASSUME NEW S, NEW q \in Seq(S), q # <<>>, NEW i \in Nat
  PROVE  /\ i \in DOMAIN Tail(q) <=> i # 0 /\ i + 1 \in DOMAIN q
         /\ i \in DOMAIN Tail(q) => Tail(q)[i] = q[i + 1]
<1>1. DOMAIN Tail(q) = 1 .. (Len(q) - 1) /\ Len(q) \in Nat /\ DOMAIN q = 1 .. Len(q)
  BY TailFacts, EmptyFacts
<1> QED BY <1>1, TailFacts

LEMMA AppendEntries ==
  ASSUME NEW S, NEW q \in Seq(S), NEW m \in S, NEW i \in Nat
  PROVE  /\ i \in DOMAIN Append(q, m) <=> i \in DOMAIN q \/ i = Len(q) + 1
         /\ i \in DOMAIN q => Append(q, m)[i] = q[i] /\ i # Len(q) + 1
         /\ i = Len(q) + 1 => Append(q, m)[i] = m
<1>1. /\ DOMAIN Append(q, m) = 1 .. (Len(q) + 1)
      /\ Len(q) \in Nat /\ DOMAIN q = 1 .. Len(q)
  BY AppendFacts, EmptyFacts
<1> QED BY <1>1, AppendFacts

LEMMA QueuedAt ==
  ASSUME NEW w \in Workers, NEW i \in Nat, NEW k \in Tasks
  PROVE  /\ Holds(Deliveries, w, i, k)' <=>
              i \in DOMAIN channel'[Deliveries][w] /\ channel'[Deliveries][w][i] = k
         /\ Holds(Results, w, i, k)' <=>
              i \in DOMAIN channel'[Results][w] /\ channel'[Results][w][i].task = k
BY HoldsAt, ProcFacts

\* A result received is the first one of its queue, and the others move up.
LEMMA ResultReceived ==
  ASSUME ChannelsOK, NEW w \in Workers, Waiting(Results, w),
         channel'[Results][w] = Tail(channel[Results][w]),
         NEW i \in Nat, NEW k \in Tasks
  PROVE  Holds(Results, w, i, k)' <=> i # 0 /\ Holds(Results, w, i + 1, k)
<1> DEFINE q == channel[Results][w]
           r == channel'[Results][w]
<1>1. q \in Seq(MessagesOf(Results)) /\ q # <<>> /\ r = Tail(q)
  BY TagFacts DEF ChannelsOK, Waiting
<1>2. Holds(Results, w, i, k)' <=> i \in DOMAIN r /\ r[i].task = k
  BY QueuedAt
<1>3. Holds(Results, w, i + 1, k) <=> i + 1 \in DOMAIN q /\ q[i + 1].task = k
  BY HoldsAt, ProcFacts
<1> HIDE DEF q, r
<1> QED BY <1>1, <1>2, <1>3, TailEntries

LEMMA ResultSent ==
  ASSUME ChannelsOK, NEW w \in Workers, NEW m \in MessagesOf(Results),
         channel'[Results][w] = Append(channel[Results][w], m),
         NEW i \in Nat, NEW k \in Tasks
  PROVE  Holds(Results, w, i, k)' <=> \/ Holds(Results, w, i, k)
                                      \/ i = Len(channel[Results][w]) + 1 /\ k = m.task
<1> DEFINE q == channel[Results][w]
           r == channel'[Results][w]
<1>1. q \in Seq(MessagesOf(Results)) /\ r = Append(q, m)
  BY TagFacts DEF ChannelsOK
<1>2. Holds(Results, w, i, k)' <=> i \in DOMAIN r /\ r[i].task = k
  BY QueuedAt
<1>3. Holds(Results, w, i, k) <=> i \in DOMAIN q /\ q[i].task = k
  BY HoldsAt, ProcFacts
<1>4. Holds(Results, w, i, k)' <=> \/ Holds(Results, w, i, k)
                                   \/ i = Len(q) + 1 /\ k = m.task
  <2> HIDE DEF q, r
  <2> QED BY <1>1, <1>2, <1>3, AppendEntries
<1> QED BY <1>4

LEMMA TaskDelivered ==
  ASSUME ChannelsOK, NEW w \in Workers, NEW m \in MessagesOf(Deliveries),
         channel'[Deliveries][w] = Append(channel[Deliveries][w], m),
         NEW i \in Nat, NEW k \in Tasks
  PROVE  Holds(Deliveries, w, i, k)' <=> \/ Holds(Deliveries, w, i, k)
                                         \/ i = Len(channel[Deliveries][w]) + 1 /\ k = m
<1> DEFINE q == channel[Deliveries][w]
           r == channel'[Deliveries][w]
<1>1. q \in Seq(MessagesOf(Deliveries)) /\ r = Append(q, m)
  BY TagFacts DEF ChannelsOK
<1>2. Holds(Deliveries, w, i, k)' <=> i \in DOMAIN r /\ r[i] = k
  BY QueuedAt
<1>3. Holds(Deliveries, w, i, k) <=> i \in DOMAIN q /\ q[i] = k
  BY HoldsAt, ProcFacts
<1>4. Holds(Deliveries, w, i, k)' <=> \/ Holds(Deliveries, w, i, k)
                                      \/ i = Len(q) + 1 /\ k = m
  <2> HIDE DEF q, r
  <2> QED BY <1>1, <1>2, <1>3, AppendEntries
<1> QED BY <1>4

\* A delivery received is the only one of its queue.
LEMMA OneDelivery ==
  ASSUME Types, RequestReply, NEW w \in Workers, Waiting(Deliveries, w),
         NEW i \in Nat, NEW k \in Tasks
  PROVE  /\ Holds(Deliveries, w, i, k) <=> i = 1 /\ k = Head(channel[Deliveries][w])
         /\ channel'[Deliveries][w] = Tail(channel[Deliveries][w])
              => ~Holds(Deliveries, w, i, k)'
<1> DEFINE q == channel[Deliveries][w]
           r == channel'[Deliveries][w]
           n == Len(channel[Requests][w])
<1>0. ChannelsOK
  BY DEF Types
<1>1. q \in Seq(MessagesOf(Deliveries)) /\ q # <<>>
  BY <1>0, TagFacts DEF ChannelsOK, Waiting
<1>2. Len(q) = 1
  <2>1. n \in Nat
    BY <1>0, QueueLength, TagFacts
  <2>2. n + Len(q) = 0 \/ n + Len(q) = 1
    <3>1. n + Len(q) = IF pc[w] = "await" THEN 1 ELSE 0
      BY DEF RequestReply
    <3> QED BY <3>1
  <2> HIDE DEF q, n
  <2>3. Len(q) \in Nat \ {0}
    BY <1>1, TailFacts
  <2> QED BY <2>1, <2>2, <2>3
<1>3. Holds(Deliveries, w, i, k) <=> i \in DOMAIN q /\ q[i] = k
  BY HoldsAt, ProcFacts
<1>4. Holds(Deliveries, w, i, k)' <=> i \in DOMAIN r /\ r[i] = k
  BY QueuedAt
<1>5. /\ Holds(Deliveries, w, i, k) <=> i = 1 /\ k = Head(q)
      /\ r = Tail(q) => ~Holds(Deliveries, w, i, k)'
  <2> HIDE DEF q, r
  <2>1. DOMAIN q = 1 .. 1 /\ Head(q) = q[1]
    BY <1>1, <1>2, EmptyFacts, TailFacts
  <2>2. r = Tail(q) => i \notin DOMAIN r
    BY <1>1, <2>1, TailEntries
  <2> QED BY <1>3, <1>4, <2>1, <2>2
<1> QED BY <1>5

\* p stops working on its task.
LEMMA WorkEnds ==
  ASSUME NEW p0 \in Procs, AtWork(p0), ~AtWork(p0)', task_id[p0] \in Tasks,
         \A p \in Procs \ {p0} : WorkStays(p),
         \A w \in Workers : QueueStays(Deliveries, w) /\ QueueStays(Results, w),
         UNCHANGED num_tasks_launched,
         \/ interrupt_requested /\ BooksStay
         \/ \E how \in {"ok", "error", "null"} :
              /\ full_task_results' = [full_task_results EXCEPT ![task_id[p0]] = how]
              /\ num_tasks_completed' = num_tasks_completed + 1
  PROVE  TaskEnds("work", p0, task_id[p0])
<1>1. Holds("work", p0, 1, task_id[p0])
  BY HoldsAt
<1>2. ASSUME NEW k \in Tasks, NEW kind \in Kinds, NEW p \in Procs, NEW i \in Nat
      PROVE  Holds(kind, p, i, k)' <=>
               IF kind = "work" /\ p = p0 THEN i # 0 /\ Holds(kind, p, i + 1, k)
               ELSE Holds(kind, p, i, k)
  <2>1. CASE kind = "work" /\ p = p0
    <3>1. i + 1 \in Nat /\ (i # 0 => i + 1 # 1)
      OBVIOUS
    <3>2. ~(i # 0 /\ Holds("work", p0, i + 1, k))
      BY <3>1, HoldsAt
    <3>3. ~Holds("work", p0, i, k)'
      BY HoldsAt
    <3> QED BY <2>1, <3>2, <3>3
  <2>2. CASE kind = "work" /\ p # p0
    BY <2>2, PlacesStay
  <2>3. CASE kind = Deliveries \/ kind = Results
    BY <2>3, PlacesStay, TagsDiffer, TagFacts
  <2> QED BY <2>1, <2>2, <2>3 DEF Kinds
<1> QED BY <1>1, <1>2 DEF TaskEnds

\* A step of the master moves its own task, hands one out, or stores a result.
LEMMA MasterEffects ==
  ASSUME Types, Types', WorkHasTask, MasterAction
  PROVE  \/ TaskStays
         \/ \E w \in Workers :
              TaskIsNew(Deliveries, w, Len(channel[Deliveries][w]) + 1)
         \/ ~AtWork(Master) /\ TaskIsNew("work", Master, 1)
         \/ \E w \in Workers, k \in Tasks : TaskEnds(Results, w, k)
         \/ \E k \in Tasks : TaskEnds("work", Master, k)
<1>0. /\ LocationsOK /\ LocationsOK' /\ ProcessTypes /\ BookTypes /\ ChannelsOK
      /\ num_tasks_launched \in 0 .. NumTotalRuns
  BY DEF Types, ProcessTypes, BookTypes
<1>1. \A w \in Workers : WorkStays(w)
  BY WorkersWorkOn
<1>p. \A p \in Procs : p \in Workers \/ p = Master
  BY DEF Procs
<1>n. /\ NewTask >= 0 => NewTask = num_tasks_launched /\ num_tasks_launched \in Tasks
      /\ ~(NewTask >= 0) => NewTask = -1
      /\ NewTask \in MessagesOf(Deliveries)
  BY <1>0, NewTaskFacts, TagFacts
<1>2. ASSUME NEW w \in Workers, TreatRequest(w)
      PROVE  TaskStays \/ TaskIsNew(Deliveries, w, Len(channel[Deliveries][w]) + 1)
  <2>1. \A p \in Procs : WorkStays(p)
    BY <1>1, <1>2, <1>p, MasterWork
  <2>2. /\ \A v \in Workers : QueueStays(Results, v)
        /\ \A v \in Workers \ {w} : QueueStays(Deliveries, v)
        /\ channel'[Deliveries][w] = Append(channel[Deliveries][w], NewTask)
    BY <1>2, TreatRequestAt, TagFacts, TagsDiffer DEF QueueStays
  <2>3. /\ GetNewTaskId(w)
        /\ UNCHANGED <<num_tasks_completed, full_task_results>>
    BY <1>2 DEF TreatRequest
  <2>4. ASSUME NEW k \in Tasks, NEW kind \in Kinds, NEW p \in Procs, NEW i \in Nat
        PROVE  Holds(kind, p, i, k)' <=>
                 \/ Holds(kind, p, i, k)
                 \/ /\ kind = Deliveries /\ p = w
                    /\ i = Len(channel[Deliveries][w]) + 1 /\ k = NewTask
    <3>1. CASE kind = Deliveries /\ p = w
      BY <1>0, <1>n, <2>2, <3>1, TaskDelivered
    <3>2. CASE kind = Deliveries /\ p # w
      BY <2>2, <3>2, PlacesStay
    <3>3. CASE kind = Results
      BY <2>2, <3>3, PlacesStay, TagsDiffer, TagFacts
    <3>4. CASE kind = "work"
      BY <2>1, <3>4, PlacesStay, TagsDiffer, TagFacts
    <3> QED BY <3>1, <3>2, <3>3, <3>4 DEF Kinds
  <2>5. CASE NewTask >= 0
    <3>1. num_tasks_launched' = num_tasks_launched + 1
      BY <2>3, <2>5 DEF GetNewTaskId
    <3> QED BY <1>n, <2>3, <2>4, <2>5, <3>1 DEF TaskIsNew
  <2>6. CASE ~(NewTask >= 0)
    <3>1. BooksStay
      BY <2>3, <2>6 DEF GetNewTaskId, BooksStay
    <3>2. NewTask \notin Tasks
      BY <1>n, <2>6 DEF Tasks
    <3> QED BY <2>4, <3>1, <3>2 DEF TaskStays
  <2> QED BY <2>5, <2>6
<1>3. ASSUME NEW w \in Workers, TreatResult(w)
      PROVE  \E k \in Tasks : TaskEnds(Results, w, k)
  <2> DEFINE m == Head(channel[Results][w])
  <2>1. \A p \in Procs : WorkStays(p)
    BY <1>1, <1>3, <1>p, MasterWork
  <2>2. /\ Waiting(Results, w)
        /\ \A v \in Workers : QueueStays(Deliveries, v)
        /\ \A v \in Workers \ {w} : QueueStays(Results, v)
        /\ channel'[Results][w] = Tail(channel[Results][w])
    BY <1>3, TreatResultAt, TagFacts, TagsDiffer DEF QueueStays
  <2>3. StoreTaskResult(w, m.task, m.how) /\ UNCHANGED num_tasks_launched
    BY <1>3 DEF TreatResult
  <2>4. /\ m \in MessagesOf(Results)
        /\ 1 \in DOMAIN channel[Results][w] /\ m = channel[Results][w][1]
    BY <1>0, <2>2, QueueFacts, TagFacts
  <2>5. m.task \in Tasks /\ m.how \in {"ok", "error", "null"}
    BY <2>4, TagFacts
  <2>6. Holds(Results, w, 1, m.task)
    BY <2>4, <2>5, HoldsAt, ProcFacts
  <2>7. ASSUME NEW k \in Tasks, NEW kind \in Kinds, NEW p \in Procs, NEW i \in Nat
        PROVE  Holds(kind, p, i, k)' <=>
                 IF kind = Results /\ p = w THEN i # 0 /\ Holds(kind, p, i + 1, k)
                 ELSE Holds(kind, p, i, k)
    <3>1. CASE kind = Results /\ p = w
      BY <1>0, <2>2, <3>1, ResultReceived
    <3>2. CASE kind = Results /\ p # w
      BY <2>2, <3>2, PlacesStay
    <3>3. CASE kind = Deliveries
      BY <2>2, <3>3, PlacesStay, TagsDiffer, TagFacts
    <3>4. CASE kind = "work"
      BY <2>1, <3>4, PlacesStay, TagsDiffer, TagFacts
    <3> QED BY <3>1, <3>2, <3>3, <3>4 DEF Kinds
  <2>8. \E how \in {"ok", "error", "null"} :
          /\ full_task_results' = [full_task_results EXCEPT ![m.task] = how]
          /\ num_tasks_completed' = num_tasks_completed + 1
    BY <2>3, <2>5 DEF StoreTaskResult
  <2>9. TaskEnds(Results, w, m.task)
    BY <2>3, <2>6, <2>7, <2>8 DEF TaskEnds
  <2> QED BY <2>5, <2>9
<1>q. ASSUME UNCHANGED channel \/ OrderInterrupt
      PROVE  \A w \in Workers : QueueStays(Deliveries, w) /\ QueueStays(Results, w)
  BY <1>0, <1>q, InterruptOrdersAt, TagFacts, TagsDiffer DEF QueueStays
<1>4. CASE MasterNext
  <2>1. \A w \in Workers : QueueStays(Deliveries, w) /\ QueueStays(Results, w)
    BY <1>4, <1>q DEF MasterNext
  <2>2. GetNewTaskId(Master) /\ UNCHANGED <<num_tasks_completed, full_task_results>>
    BY <1>4 DEF MasterNext
  <2>3. CASE NewTask >= 0
    <3>1. ~AtWork(Master) /\ AtWork(Master)' /\ task_id'[Master] = NewTask
      BY <1>4, <2>3, MasterWork
    <3>2. num_tasks_launched' = num_tasks_launched + 1
      BY <2>2, <2>3 DEF GetNewTaskId
    <3>3. ASSUME NEW k \in Tasks, NEW kind \in Kinds, NEW p \in Procs, NEW i \in Nat
          PROVE  Holds(kind, p, i, k)' <=>
                   \/ Holds(kind, p, i, k)
                   \/ kind = "work" /\ p = Master /\ i = 1 /\ k = num_tasks_launched
      <4>1. CASE kind = "work" /\ p = Master
        BY <1>n, <2>3, <3>1, <4>1, HoldsAt
      <4>2. CASE kind = "work" /\ p # Master
        BY <1>1, <1>p, <4>2, PlacesStay
      <4>3. CASE kind = Deliveries \/ kind = Results
        BY <2>1, <4>3, PlacesStay, TagsDiffer, TagFacts
      <4> QED BY <4>1, <4>2, <4>3 DEF Kinds
    <3> QED BY <1>n, <2>2, <2>3, <3>1, <3>2, <3>3 DEF TaskIsNew
  <2>4. CASE ~(NewTask >= 0)
    <3>1. ~AtWork(Master) /\ ~AtWork(Master)'
      BY <1>4, <2>4, MasterWork
    <3>2. \A p \in Procs : WorkStays(p)
      BY <1>1, <1>p, <3>1 DEF WorkStays
    <3>3. BooksStay
      BY <2>2, <2>4 DEF GetNewTaskId, BooksStay
    <3> QED BY <2>1, <3>2, <3>3, AllStays
  <2> QED BY <2>3, <2>4
<1>w. AtWork(Master) => task_id[Master] \in Tasks
  BY ProcFacts DEF WorkHasTask
<1>o. \A p \in Procs \ {Master} : WorkStays(p)
  BY <1>1, <1>p
<1>5. CASE MasterFinishTask
  <2>1. AtWork(Master) /\ ~AtWork(Master)'
    BY <1>5, MasterWork
  <2>2. \A w \in Workers : QueueStays(Deliveries, w) /\ QueueStays(Results, w)
    BY <1>5, <1>q DEF MasterFinishTask
  <2>3. \E how \in {"ok", "error", "null"} :
          /\ full_task_results' = [full_task_results EXCEPT ![task_id[Master]] = how]
          /\ num_tasks_completed' = num_tasks_completed + 1
    BY <1>5 DEF MasterFinishTask, StoreTaskResult
  <2>4. TaskEnds("work", Master, task_id[Master])
    BY <1>5, <1>w, <1>o, <2>1, <2>2, <2>3, WorkEnds, ProcFacts DEF MasterFinishTask
  <2> QED BY <1>w, <2>1, <2>4
<1>6. CASE MasterCheckInterrupted
  <2>1. (AtWork(Master) <=> check_from # "wait") /\ ~AtWork(Master)'
    BY <1>6, MasterWork
  <2>2. \A w \in Workers : QueueStays(Deliveries, w) /\ QueueStays(Results, w)
    BY <1>6, <1>q DEF MasterCheckInterrupted
  <2>3. CASE check_from = "wait"
    <3>1. BooksStay
      BY <1>6, <2>3 DEF MasterCheckInterrupted, BooksStay, controller
    <3>2. \A p \in Procs : WorkStays(p)
      BY <1>1, <1>p, <2>1, <2>3 DEF WorkStays
    <3> QED BY <2>2, <3>1, <3>2, AllStays
  <2>4. CASE check_from # "wait"
    <3>1. \/ interrupt_requested /\ BooksStay
          \/ \E how \in {"ok", "error", "null"} :
               /\ full_task_results' = [full_task_results EXCEPT ![task_id[Master]] = how]
               /\ num_tasks_completed' = num_tasks_completed + 1
      BY <1>6, <2>4 DEF MasterCheckInterrupted, StoreTaskResult, BooksStay
    <3>2. UNCHANGED num_tasks_launched
      BY <1>6 DEF MasterCheckInterrupted
    <3>3. TaskEnds("work", Master, task_id[Master])
      BY <1>w, <1>o, <2>1, <2>2, <2>4, <3>1, <3>2, WorkEnds, ProcFacts
    <3> QED BY <1>w, <2>1, <2>4, <3>3
  <2> QED BY <2>3, <2>4
<1>7. CASE \/ MasterPoll \/ MasterWait \/ MasterCheckQuiet \/ NextPhase \/ EndCheck
           \/ \E w \in Workers : TreatReport(w) \/ TreatFarewell(w)
  <2>1. \A p \in Procs : WorkStays(p)
    BY <1>1, <1>7, <1>p, MasterWork
  <2>2. BooksStay
    BY <1>7 DEF MasterPoll, MasterWait, MasterCheckQuiet, NextPhase, EndCheck,
       TreatReport, TreatFarewell, controller, BooksStay
  <2>3. \A w \in Workers : QueueStays(Deliveries, w) /\ QueueStays(Results, w)
    <3>1. CASE MasterPoll \/ MasterWait \/ NextPhase \/ EndCheck
      BY <1>q, <3>1 DEF MasterPoll, MasterWait, NextPhase, EndCheck
    <3>2. CASE MasterCheckQuiet
      <4>1. UNCHANGED channel \/ InitiateReport
        BY <3>2 DEF MasterCheckQuiet
      <4> QED BY <1>0, <1>q, <4>1, ReportOrdersAt, TagFacts, TagsDiffer DEF QueueStays
    <3>3. CASE \E w \in Workers : TreatReport(w)
      BY <3>3, TreatReportAt, TagFacts, TagsDiffer DEF QueueStays
    <3>4. CASE \E w \in Workers : TreatFarewell(w)
      BY <3>4, TreatFarewellAt, TagFacts, TagsDiffer DEF QueueStays
    <3> QED BY <1>7, <3>1, <3>2, <3>3, <3>4
  <2> QED BY <2>1, <2>2, <2>3, AllStays
<1> QED BY <1>2, <1>3, <1>4, <1>5, <1>6, <1>7 DEF MasterAction

\* A step of a worker takes its task in hand, sends in the result, or gives it
\* up on an order to stop.
LEMMA WorkerEffects ==
  ASSUME Types, Types', WorkHasTask, RequestReply, MasterControl,
         NEW w \in Workers, WorkerAction(w)
  PROVE  \/ TaskStays
         \/ \E k \in Tasks : ~AtWork(w) /\ TaskMoves(Deliveries, "work", w, 1, k)
         \/ \E k \in Tasks :
              TaskMoves("work", Results, w, Len(channel[Results][w]) + 1, k)
         \/ \E k \in Tasks : TaskEnds("work", w, k)
<1>0. LocationsOK /\ LocationsOK' /\ ProcessTypes /\ ChannelsOK
  BY DEF Types, ProcessTypes
<1>b. BooksStay
  BY WorkerMove DEF WorkerAction, WorkerKeeps, controller, BooksStay
<1>o. \A p \in Procs \ {w} : WorkStays(p)
  <2>1. \A p \in Procs \ {w} : pc'[p] = pc[p] /\ task_id'[p] = task_id[p]
    BY WorkerMove DEF WorkerAction
  <2>2. \A v \in Workers \ {w} : WorkStays(v)
    BY <2>1, WorkerPlaces, ProcFacts DEF WorkStays
  <2> QED BY <2>2, MasterWorksOn DEF Procs
<1>t. AtWork(w) => task_id[w] \in Tasks
  BY ProcFacts DEF WorkHasTask
<1>s. ASSUME WorkStays(w),
             \A v \in Workers : QueueStays(Deliveries, v) /\ QueueStays(Results, v)
      PROVE  TaskStays
  BY <1>b, <1>o, <1>s, AllStays
<1>f. ASSUME AtWork(w), ~AtWork(w)', NEW how \in {"ok", "error", "null"},
             \A v \in Workers : QueueStays(Deliveries, v),
             \A v \in Workers \ {w} : QueueStays(Results, v),
             channel'[Results][w] = Append(channel[Results][w], Result(w, how))
      PROVE  \E k \in Tasks :
               TaskMoves("work", Results, w, Len(channel[Results][w]) + 1, k)
  <2>1. Result(w, how) \in MessagesOf(Results) /\ Result(w, how).task = task_id[w]
    BY <1>f, ResultFacts
  <2>2. Holds("work", w, 1, task_id[w])
    BY <1>f, <1>t, HoldsAt, ProcFacts
  <2>3. \A k \in Tasks : \A i \in Nat : Holds("work", w, i, k) => k = task_id[w]
    BY HoldsAt, ProcFacts
  <2>4. ASSUME NEW k \in Tasks, NEW kind \in Kinds, NEW p \in Procs, NEW i \in Nat
        PROVE  Holds(kind, p, i, k)' <=>
                 \/ Holds(kind, p, i, k) /\ ~(kind = "work" /\ p = w)
                 \/ /\ kind = Results /\ p = w
                    /\ i = Len(channel[Results][w]) + 1 /\ k = task_id[w]
    <3>1. CASE kind = "work" /\ p = w
      BY <1>f, <3>1, HoldsAt, TagsDiffer, TagFacts
    <3>2. CASE kind = "work" /\ p # w
      BY <1>o, <3>2, PlacesStay
    <3>3. CASE kind = Results /\ p = w
      <4>1. Holds(Results, w, i, k)' <=>
              \/ Holds(Results, w, i, k)
              \/ i = Len(channel[Results][w]) + 1 /\ k = Result(w, how).task
        BY <1>0, <1>f, <2>1, ResultSent
      <4> QED BY <2>1, <3>3, <4>1, TagsDiffer, TagFacts
    <3>4. CASE kind = Results /\ p # w
      BY <1>f, <3>4, PlacesStay
    <3>5. CASE kind = Deliveries
      BY <1>f, <3>5, PlacesStay, TagsDiffer, TagFacts
    <3> QED BY <3>1, <3>2, <3>3, <3>4, <3>5 DEF Kinds
  <2>5. TaskMoves("work", Results, w, Len(channel[Results][w]) + 1, task_id[w])
    BY <1>b, <2>2, <2>3, <2>4 DEF TaskMoves
  <2> QED BY <1>f, <1>t, <2>5
<1>1. CASE WorkerReceiveTask(w)
  <2> DEFINE k0 == Head(channel[Deliveries][w])
  <2>1. /\ Waiting(Deliveries, w)
        /\ \A v \in Workers : QueueStays(Results, v)
        /\ \A v \in Workers \ {w} : QueueStays(Deliveries, v)
        /\ channel'[Deliveries][w] = Tail(channel[Deliveries][w])
    BY <1>1, WorkerReceiveTaskAt, TagFacts, TagsDiffer DEF QueueStays
  <2>2. /\ pc[w] = "await" /\ task_id'[w] = k0
        /\ \/ k0 = -1 /\ pc'[w] = "leave"
           \/ k0 \in Tasks /\ pc'[w] = "before"
    BY <1>1, WorkerFlow
  <2>3. ~AtWork(w) /\ (AtWork(w)' <=> k0 \in Tasks)
    BY <2>2, WorkerPlaces DEF Tasks
  <2>4. ASSUME NEW k \in Tasks, NEW kind \in Kinds, NEW p \in Procs, NEW i \in Nat
        PROVE  Holds(kind, p, i, k)' <=>
                 \/ Holds(kind, p, i, k) /\ ~(kind = Deliveries /\ p = w)
                 \/ kind = "work" /\ p = w /\ i = 1 /\ k = k0
    <3>1. CASE kind = "work" /\ p = w
      BY <2>2, <2>3, <3>1, HoldsAt, TagsDiffer, TagFacts
    <3>2. CASE kind = "work" /\ p # w
      BY <1>o, <3>2, PlacesStay, TagsDiffer, TagFacts
    <3>3. CASE kind = Results
      BY <2>1, <3>3, PlacesStay, TagsDiffer, TagFacts
    <3>4. CASE kind = Deliveries /\ p = w
      <4>1. ~Holds(Deliveries, w, i, k)'
        BY <2>1, OneDelivery
      <4> QED BY <3>4, <4>1, TagsDiffer, TagFacts
    <3>5. CASE kind = Deliveries /\ p # w
      BY <2>1, <3>5, PlacesStay, TagsDiffer, TagFacts
    <3> QED BY <3>1, <3>2, <3>3, <3>4, <3>5 DEF Kinds
  <2>5. \A k \in Tasks : \A i \in Nat : Holds(Deliveries, w, i, k) <=> i = 1 /\ k = k0
    BY <2>1, OneDelivery
  <2>6. CASE k0 \in Tasks
    <3>1. Holds(Deliveries, w, 1, k0)
      BY <2>5, <2>6
    <3>2. TaskMoves(Deliveries, "work", w, 1, k0)
      BY <1>b, <2>4, <2>5, <3>1 DEF TaskMoves
    <3> QED BY <2>3, <2>6, <3>2
  <2>7. CASE k0 \notin Tasks
    <3>1. ASSUME NEW k \in Tasks, NEW kind \in Kinds, NEW p \in Procs, NEW i \in Nat
          PROVE  Holds(kind, p, i, k)' <=> Holds(kind, p, i, k)
      <4>1. k # k0
        BY <2>7
      <4>2. ~Holds(Deliveries, w, i, k)
        BY <2>5, <4>1
      <4> HIDE DEF k0
      <4> QED BY <2>4, <4>1, <4>2
    <3> QED BY <1>b, <3>1 DEF TaskStays
  <2> QED BY <2>6, <2>7
<1>2. CASE WorkerFinishTask(w)
  <2>1. /\ AtWork(w) /\ pc[w] = "task"
        /\ \A v \in Workers : QueueStays(Deliveries, v)
        /\ \A v \in Workers \ {w} : QueueStays(Results, v)
        /\ pc'[w] \in {"sent", "failed"}
        /\ \E how \in {"ok", "error", "null"} :
             channel'[Results][w] = Append(channel[Results][w], Result(w, how))
    BY <1>2, WorkerFinishTaskAt, TagFacts, TagsDiffer DEF QueueStays
  <2>2. ~AtWork(w)'
    BY <2>1, WorkerPlaces
  <2> QED BY <1>f, <2>1, <2>2
<1>3. CASE WorkerProbeInterrupt(w)
  <2>1. CASE /\ ~Waiting(InterruptOrders, w)
             /\ \E from \in Callers : pc[w] = from /\ pc'[w] = ReportProbe(from)
             /\ UNCHANGED channel
    <3>1. AtWork(w)' <=> AtWork(w)
      BY <2>1, WorkerPlaces DEF Callers, ReportProbe
    <3>2. UNCHANGED task_id
      BY <1>3 DEF WorkerProbeInterrupt
    <3> QED BY <1>s, <2>1, <3>1, <3>2 DEF WorkStays, QueueStays
  <2>2. CASE /\ pc[w] = "task" /\ AtWork(w) /\ pc'[w] = "sent"
             /\ \A t \in Tags, v \in Workers :
                  v # w \/ t \notin {InterruptOrders, Results}
                    => channel'[t][v] = channel[t][v]
             /\ channel'[Results][w] = Append(channel[Results][w], Result(w, "null"))
    <3>1. ~AtWork(w)'
      BY <2>2, WorkerPlaces
    <3>2. /\ \A v \in Workers : QueueStays(Deliveries, v)
          /\ \A v \in Workers \ {w} : QueueStays(Results, v)
      BY <2>2, TagFacts, TagsDiffer DEF QueueStays
    <3> QED BY <1>f, <2>2, <3>1, <3>2
  <2>3. CASE /\ Waiting(InterruptOrders, w)
             /\ pc[w] \in Callers \ {"task"} /\ pc'[w] = "farewell"
             /\ \A t \in Tags, v \in Workers :
                  v # w \/ t # InterruptOrders => channel'[t][v] = channel[t][v]
    <3>1. ~AtWork(w)'
      BY <2>3, WorkerPlaces
    <3>2. \A v \in Workers : QueueStays(Deliveries, v) /\ QueueStays(Results, v)
      BY <2>3, TagFacts, TagsDiffer DEF QueueStays
    <3>3. CASE AtWork(w)
      <4>1. interrupt_requested
        BY <2>3 DEF MasterControl
      <4>2. TaskEnds("work", w, task_id[w])
        BY <1>b, <1>o, <1>t, <3>1, <3>2, <3>3, <4>1, WorkEnds, ProcFacts DEF BooksStay
      <4> QED BY <1>t, <3>3, <4>2
    <3>4. CASE ~AtWork(w)
      BY <1>s, <3>1, <3>2, <3>4 DEF WorkStays
    <3> QED BY <3>3, <3>4
  <2> QED BY <1>3, <2>1, <2>2, <2>3, WorkerProbeInterruptAt
<1>4. CASE WorkerRequest(w) \/ WorkerProbeReport(w) \/ WorkerLeave(w) \/ WorkerFarewell(w)
  <2>1. AtWork(w)' <=> AtWork(w)
    BY <1>4, WorkerFlow, WorkerPlaces
  <2>2. UNCHANGED task_id
    BY <1>4 DEF WorkerRequest, WorkerProbeReport, WorkerLeave, WorkerFarewell
  <2>3. \A v \in Workers : QueueStays(Deliveries, v) /\ QueueStays(Results, v)
    <3>1. CASE WorkerRequest(w)
      BY <3>1, WorkerRequestAt, TagFacts, TagsDiffer DEF QueueStays
    <3>2. CASE WorkerProbeReport(w)
      BY <3>2, WorkerProbeReportAt, TagFacts, TagsDiffer DEF QueueStays
    <3>3. CASE WorkerLeave(w)
      BY <3>3, WorkerLeaveAt, TagFacts, TagsDiffer DEF QueueStays
    <3>4. CASE WorkerFarewell(w)
      BY <3>4, WorkerFarewellAt, TagFacts, TagsDiffer DEF QueueStays
    <3> QED BY <1>4, <3>1, <3>2, <3>3, <3>4
  <2> QED BY <1>s, <2>1, <2>2, <2>3 DEF WorkStays
<1> QED BY <1>1, <1>2, <1>3, <1>4 DEF WorkerAction

LEMMA TaskEffects ==
  ASSUME Types, Types', WorkHasTask, RequestReply, MasterControl, [Next]_vars
  PROVE  \/ TaskStays
         \/ \E kind \in Kinds, p \in Procs : \E i \in Nat : TaskIsNew(kind, p, i)
         \/ \E kind, next \in Kinds, p \in Procs, k \in Tasks :
              kind # next /\ \E i \in Nat : TaskMoves(kind, next, p, i, k)
         \/ \E kind \in Kinds, p \in Procs, k \in Tasks : TaskEnds(kind, p, k)
<1>k. "work" \in Kinds /\ Deliveries \in Kinds /\ Results \in Kinds
  BY DEF Kinds
<1>n. \A w \in Workers : /\ Len(channel[Deliveries][w]) + 1 \in Nat
                         /\ Len(channel[Results][w]) + 1 \in Nat
  <2>1. \A w \in Workers : Len(channel[Deliveries][w]) \in Nat
                           /\ Len(channel[Results][w]) \in Nat
    BY QueueLength, TagFacts DEF Types
  <2> QED BY <2>1
<1>1. CASE MasterAction
  BY <1>1, <1>k, <1>n, MasterEffects, ProcFacts
<1>2. CASE \E w \in Workers : WorkerAction(w)
  BY <1>2, <1>k, <1>n, WorkerEffects, ProcFacts, TagsDiffer, TagFacts
<1>3. CASE CallerAction
  <2>1. /\ UNCHANGED <<channel, pc, task_id, check_from>> /\ BooksStay
    BY <1>3 DEF CallerAction, RequestStatusReport, RequestInterrupt, vars, controller,
       check, BooksStay
  <2>2. \A p \in Procs : WorkStays(p)
    BY <1>3, WorkersWorkOn, MasterWork DEF Procs
  <2> QED BY <2>1, <2>2, AllStays DEF QueueStays
<1> QED BY <1>1, <1>2, <1>3, ActionCases

-----------------------------------------------------------------------------
\* Each task in one place: what the four effects keep

TasksInPlace ==
  /\ HeldOnce /\ HeldIsPending
  /\ StoredWereLaunched /\ PendingIsHeld
  /\ StoredCounted

LEMMA InPlaceStays ==
  ASSUME Types, TasksInPlace, TaskStays, [Next]_vars
  PROVE  TasksInPlace'
<1> USE DEF TasksInPlace
<1>1. BooksStay
  BY DEF TaskStays
<1>2. HeldOnce'
  BY DEF TaskStays, HeldOnce
<1>3. HeldIsPending'
  BY <1>1 DEF TaskStays, BooksStay, HeldIsPending
<1>4. Stored' = Stored
  BY <1>1 DEF BooksStay, Stored
<1>5. StoredWereLaunched' /\ StoredCounted'
  BY <1>1, <1>4 DEF BooksStay, StoredWereLaunched, StoredCounted
<1>6. PendingIsHeld'
  <2> SUFFICES ASSUME ~interrupt_requested', NEW k \in 0 .. (num_tasks_launched - 1),
                      full_task_results[k] = "none"
               PROVE  \E kind \in Kinds, p \in Procs : \E i \in Nat : Holds(kind, p, i, k)'
    BY <1>1 DEF BooksStay, PendingIsHeld
  <2>1. ~interrupt_requested
    BY InterruptStays
  <2>2. PICK kind \in Kinds, p \in Procs : \E i \in Nat : Holds(kind, p, i, k)
    BY <2>1 DEF PendingIsHeld
  <2>3. k \in Tasks
    BY NumTotalRunsAssumption DEF Types, BookTypes, Tasks
  <2> QED BY <2>2, <2>3 DEF TaskStays
<1> QED BY <1>2, <1>3, <1>5, <1>6

LEMMA InPlaceNew ==
  ASSUME Types, TasksInPlace, [Next]_vars,
         NEW kind0 \in Kinds, NEW p0 \in Procs, NEW i0 \in Nat, TaskIsNew(kind0, p0, i0)
  PROVE  TasksInPlace'
<1> USE DEF TasksInPlace
<1> DEFINE k0 == num_tasks_launched
<1>1. /\ k0 \in Tasks /\ num_tasks_launched' = k0 + 1 /\ k0 \in Nat
      /\ UNCHANGED <<num_tasks_completed, full_task_results>>
  BY DEF TaskIsNew, Tasks
<1>2. ASSUME NEW k \in Tasks, NEW kind \in Kinds, NEW p \in Procs, NEW i \in Nat
      PROVE  Holds(kind, p, i, k)' <=>
               \/ Holds(kind, p, i, k)
               \/ kind = kind0 /\ p = p0 /\ i = i0 /\ k = k0
  BY DEF TaskIsNew
<1>3. ASSUME NEW k \in Tasks, NEW kind \in Kinds, NEW p \in Procs, NEW i \in Nat,
             Holds(kind, p, i, k)
      PROVE  k # k0 /\ k < k0 /\ full_task_results[k] = "none"
  BY <1>1, <1>3 DEF HeldIsPending
<1>4. HeldOnce'
  <2> SUFFICES ASSUME NEW k \in Tasks, NEW kind1 \in Kinds, NEW kind2 \in Kinds,
                      NEW p \in Procs, NEW q \in Procs, NEW i \in Nat, NEW j \in Nat,
                      Holds(kind1, p, i, k)', Holds(kind2, q, j, k)'
               PROVE  kind1 = kind2 /\ p = q /\ i = j
    BY DEF HeldOnce
  <2>1. CASE k = k0
    BY <1>2, <1>3, <2>1
  <2>2. CASE k # k0
    BY <1>2, <2>2 DEF HeldOnce
  <2> QED BY <2>1, <2>2
<1>5. full_task_results[k0] = "none"
  BY <1>1 DEF StoredWereLaunched, Stored
<1>6. HeldIsPending'
  <2> SUFFICES ASSUME NEW k \in Tasks, NEW kind \in Kinds, NEW p \in Procs, NEW i \in Nat,
                      Holds(kind, p, i, k)'
               PROVE  k < num_tasks_launched' /\ full_task_results[k] = "none"
    BY <1>1 DEF HeldIsPending
  <2>1. CASE k = k0
    BY <1>1, <1>5, <2>1
  <2>2. CASE k # k0
    <3>1. k < k0 /\ full_task_results[k] = "none"
      BY <1>2, <1>3, <2>2
    <3> QED BY <1>1, <3>1 DEF Tasks
  <2> QED BY <2>1, <2>2
<1>7. Stored' = Stored
  BY <1>1 DEF Stored
<1>8. StoredWereLaunched' /\ StoredCounted'
  BY <1>1, <1>7 DEF StoredWereLaunched, StoredCounted, Stored, Tasks
<1>9. PendingIsHeld'
  <2> SUFFICES ASSUME ~interrupt_requested', NEW k \in 0 .. k0,
                      full_task_results[k] = "none"
               PROVE  \E kind \in Kinds, p \in Procs : \E i \in Nat : Holds(kind, p, i, k)'
    BY <1>1 DEF PendingIsHeld
  <2>1. ~interrupt_requested
    BY InterruptStays
  <2>2. CASE k = k0
    BY <1>1, <1>2, <2>2
  <2>3. CASE k # k0
    <3>1. k \in 0 .. (num_tasks_launched - 1) /\ k \in Tasks
      BY <1>1, <2>3, NumTotalRunsAssumption DEF Tasks
    <3>2. PICK kind \in Kinds, p \in Procs : \E i \in Nat : Holds(kind, p, i, k)
      BY <2>1, <3>1 DEF PendingIsHeld
    <3> QED BY <1>2, <3>1, <3>2
  <2> QED BY <2>2, <2>3
<1> QED BY <1>4, <1>6, <1>8, <1>9

LEMMA InPlaceMoves ==
  ASSUME Types, TasksInPlace, [Next]_vars,
         NEW kind1 \in Kinds, NEW kind0 \in Kinds, kind1 # kind0,
         NEW p0 \in Procs, NEW i0 \in Nat, NEW k0 \in Tasks,
         TaskMoves(kind1, kind0, p0, i0, k0)
  PROVE  TasksInPlace'
<1> USE DEF TasksInPlace
<1>1. /\ num_tasks_launched' = num_tasks_launched
      /\ num_tasks_completed' = num_tasks_completed
      /\ full_task_results' = full_task_results
      /\ Holds(kind1, p0, 1, k0)
  BY DEF TaskMoves, BooksStay
<1>2. ASSUME NEW k \in Tasks, NEW kind \in Kinds, NEW p \in Procs, NEW i \in Nat
      PROVE  Holds(kind, p, i, k)' <=>
               \/ Holds(kind, p, i, k) /\ ~(kind = kind1 /\ p = p0)
               \/ kind = kind0 /\ p = p0 /\ i = i0 /\ k = k0
  BY DEF TaskMoves
<1>3. ASSUME NEW kind \in Kinds, NEW p \in Procs, NEW i \in Nat, Holds(kind, p, i, k0)
      PROVE  kind = kind1 /\ p = p0
  <2>1. 1 \in Nat
    OBVIOUS
  <2> QED BY <1>1, <1>3, <2>1 DEF HeldOnce
<1>4. HeldOnce'
  <2> SUFFICES ASSUME NEW k \in Tasks, NEW kind \in Kinds, NEW kind2 \in Kinds,
                      NEW p \in Procs, NEW q \in Procs, NEW i \in Nat, NEW j \in Nat,
                      Holds(kind, p, i, k)', Holds(kind2, q, j, k)'
               PROVE  kind = kind2 /\ p = q /\ i = j
    BY DEF HeldOnce
  <2>1. CASE k = k0
    BY <1>2, <1>3, <2>1
  <2>2. CASE k # k0
    BY <1>2, <2>2 DEF HeldOnce
  <2> QED BY <2>1, <2>2
<1>5. HeldIsPending'
  <2> SUFFICES ASSUME NEW k \in Tasks, NEW kind \in Kinds, NEW p \in Procs, NEW i \in Nat,
                      Holds(kind, p, i, k)'
               PROVE  k < num_tasks_launched /\ full_task_results[k] = "none"
    BY <1>1 DEF HeldIsPending
  <2>1. CASE k = k0
    <3>1. 1 \in Nat
      OBVIOUS
    <3> QED BY <1>1, <2>1, <3>1 DEF HeldIsPending
  <2>2. CASE k # k0
    BY <1>2, <2>2 DEF HeldIsPending
  <2> QED BY <2>1, <2>2
<1>6. Stored' = Stored
  BY <1>1 DEF Stored
<1>7. StoredWereLaunched' /\ StoredCounted'
  BY <1>1, <1>6 DEF StoredWereLaunched, StoredCounted
<1>8. PendingIsHeld'
  <2> SUFFICES ASSUME ~interrupt_requested', NEW k \in 0 .. (num_tasks_launched - 1),
                      full_task_results[k] = "none"
               PROVE  \E kind \in Kinds, p \in Procs : \E i \in Nat : Holds(kind, p, i, k)'
    BY <1>1 DEF PendingIsHeld
  <2>1. ~interrupt_requested
    BY InterruptStays
  <2>2. k \in Tasks
    BY NumTotalRunsAssumption DEF Types, BookTypes, Tasks
  <2>3. PICK kind \in Kinds, p \in Procs : \E i \in Nat : Holds(kind, p, i, k)
    BY <2>1 DEF PendingIsHeld
  <2>4. CASE kind = kind1 /\ p = p0
    <3>1. k = k0
      BY <2>2, <2>3, <2>4 DEF TaskMoves
    <3> QED BY <1>2, <3>1
  <2>5. CASE ~(kind = kind1 /\ p = p0)
    BY <1>2, <2>2, <2>3, <2>5
  <2> QED BY <2>4, <2>5
<1> QED BY <1>4, <1>5, <1>7, <1>8

LEMMA TasksFinite ==
  /\ \A S \in SUBSET Tasks : IsFiniteSet(S) /\ Cardinality(S) \in Nat
  /\ IsFiniteSet(Tasks) /\ Cardinality(Tasks) = NumTotalRuns
<1>1. IsFiniteSet(Tasks) /\ Cardinality(Tasks) = NumTotalRuns
  <2>1. CASE NumTotalRuns = 0
    <3>1. Tasks = {}
      BY <2>1 DEF Tasks
    <3> QED BY <2>1, <3>1, FS_EmptySet
  <2>2. CASE NumTotalRuns # 0
    <3>1. 0 \in Int /\ NumTotalRuns - 1 \in Int /\ 0 <= NumTotalRuns - 1
      BY <2>2, NumTotalRunsAssumption
    <3>2. /\ IsFiniteSet(0 .. (NumTotalRuns - 1))
          /\ Cardinality(0 .. (NumTotalRuns - 1)) = (NumTotalRuns - 1) - 0 + 1
      BY <3>1, FS_Interval
    <3> QED BY <3>2, NumTotalRunsAssumption DEF Tasks
  <2> QED BY <2>1, <2>2
<1> QED BY <1>1, FS_Subset, FS_CardinalityType

\* A position of a place holds one task, and positions count from 1.
LEMMA OneTaskPerPosition ==
  ASSUME Types, NEW kind \in Kinds, NEW p \in Procs, NEW i \in Nat,
         NEW k \in Tasks, Holds(kind, p, i, k)
  PROVE  i # 0 /\ \A k2 \in Tasks : Holds(kind, p, i, k2) => k2 = k
<1>1. \A w \in Workers : 0 \notin DOMAIN channel[Deliveries][w]
                         /\ 0 \notin DOMAIN channel[Results][w]
  <2>1. \A w \in Workers : /\ channel[Deliveries][w] \in Seq(MessagesOf(Deliveries))
                           /\ channel[Results][w] \in Seq(MessagesOf(Results))
    BY TagFacts DEF Types, ChannelsOK
  <2> QED BY <2>1, EmptyFacts
<1> QED BY <1>1, HoldsAt DEF Kinds

LEMMA InPlaceEnds ==
  ASSUME Types, TasksInPlace, [Next]_vars,
         NEW kind0 \in Kinds, NEW p0 \in Procs, NEW k0 \in Tasks,
         TaskEnds(kind0, p0, k0)
  PROVE  TasksInPlace'
<1> USE DEF TasksInPlace
<1>0. full_task_results \in [Tasks -> {"none", "ok", "error", "null"}]
  BY DEF Types, BookTypes
<1>1. num_tasks_launched' = num_tasks_launched /\ Holds(kind0, p0, 1, k0) /\ 1 \in Nat
  BY DEF TaskEnds
<1>2. ASSUME NEW k \in Tasks, NEW kind \in Kinds, NEW p \in Procs, NEW i \in Nat
      PROVE  Holds(kind, p, i, k)' <=>
               IF kind = kind0 /\ p = p0 THEN i # 0 /\ Holds(kind, p, i + 1, k)
               ELSE Holds(kind, p, i, k)
  BY DEF TaskEnds
<1>3. k0 < num_tasks_launched /\ full_task_results[k0] = "none"
  BY <1>1 DEF HeldIsPending
<1>4. ASSUME NEW k \in Tasks, NEW kind \in Kinds, NEW p \in Procs, NEW i \in Nat,
             Holds(kind, p, i, k)'
      PROVE  /\ k # k0
             /\ k < num_tasks_launched /\ full_task_results[k] = "none"
  <2>1. CASE kind = kind0 /\ p = p0
    <3>1. i # 0 /\ Holds(kind, p, i + 1, k) /\ i + 1 \in Nat /\ i + 1 # 1
      BY <1>2, <1>4, <2>1
    <3>2. k # k0
      BY <1>1, <3>1 DEF HeldOnce
    <3> QED BY <3>1, <3>2 DEF HeldIsPending
  <2>2. CASE ~(kind = kind0 /\ p = p0)
    <3>1. Holds(kind, p, i, k)
      BY <1>2, <1>4, <2>2
    <3>2. k # k0
      BY <1>1, <2>2, <3>1 DEF HeldOnce
    <3> QED BY <3>1, <3>2 DEF HeldIsPending
  <2> QED BY <2>1, <2>2
<1>5. HeldOnce'
  <2> SUFFICES ASSUME NEW k \in Tasks, NEW kind1 \in Kinds, NEW kind2 \in Kinds,
                      NEW p \in Procs, NEW q \in Procs, NEW i \in Nat, NEW j \in Nat,
                      Holds(kind1, p, i, k)', Holds(kind2, q, j, k)'
               PROVE  kind1 = kind2 /\ p = q /\ i = j
    BY DEF HeldOnce
  <2>1. PICK i1 \in Nat : /\ Holds(kind1, p, i1, k)
                          /\ i1 = IF kind1 = kind0 /\ p = p0 THEN i + 1 ELSE i
    BY <1>2
  <2>2. PICK j1 \in Nat : /\ Holds(kind2, q, j1, k)
                          /\ j1 = IF kind2 = kind0 /\ q = p0 THEN j + 1 ELSE j
    BY <1>2
  <2>3. kind1 = kind2 /\ p = q /\ i1 = j1
    BY <2>1, <2>2 DEF HeldOnce
  <2> QED BY <2>1, <2>2, <2>3
<1>6. \A k \in Tasks : k # k0 => full_task_results'[k] = full_task_results[k]
  BY <1>0 DEF TaskEnds, BooksStay
<1>7. HeldIsPending'
  BY <1>1, <1>4, <1>6 DEF HeldIsPending
<1>8. StoredWereLaunched' /\ StoredCounted'
  <2>1. CASE BooksStay
    <3>1. Stored' = Stored
      BY <2>1 DEF BooksStay, Stored
    <3> QED BY <2>1, <3>1 DEF BooksStay, StoredWereLaunched, StoredCounted
  <2>2. ASSUME NEW how \in {"ok", "error", "null"},
               full_task_results' = [full_task_results EXCEPT ![k0] = how],
               num_tasks_completed' = num_tasks_completed + 1
        PROVE  StoredWereLaunched' /\ StoredCounted'
    <3>1. full_task_results'[k0] # "none"
      BY <1>0, <2>2
    <3>2. Stored' = Stored \cup {k0} /\ k0 \notin Stored
      BY <1>3, <1>6, <3>1 DEF Stored
    <3>3. IsFiniteSet(Stored)
      BY TasksFinite DEF Stored
    <3>4. Cardinality(Stored \cup {k0}) = Cardinality(Stored) + 1
      BY <3>2, <3>3, OneMore
    <3>5. StoredCounted'
      BY <2>2, <3>2, <3>4 DEF StoredCounted
    <3> QED BY <1>1, <1>3, <3>2, <3>5 DEF StoredWereLaunched
  <2> QED BY <2>1, <2>2 DEF TaskEnds
<1>9. PendingIsHeld'
  <2> SUFFICES ASSUME ~interrupt_requested', NEW k \in 0 .. (num_tasks_launched - 1),
                      full_task_results'[k] = "none"
               PROVE  \E kind \in Kinds, p \in Procs : \E i \in Nat : Holds(kind, p, i, k)'
    BY <1>1 DEF PendingIsHeld
  <2>1. ~interrupt_requested
    BY InterruptStays
  <2>2. k \in Tasks
    BY NumTotalRunsAssumption DEF Types, BookTypes, Tasks
  <2>3. k # k0
    BY <1>0, <2>1 DEF TaskEnds
  <2>4. full_task_results[k] = "none"
    BY <1>6, <2>2, <2>3
  <2>5. PICK kind \in Kinds, p \in Procs : \E i \in Nat : Holds(kind, p, i, k)
    BY <2>1, <2>4 DEF PendingIsHeld
  <2>6. PICK i \in Nat : Holds(kind, p, i, k)
    BY <2>5
  <2>7. CASE kind = kind0 /\ p = p0
    <3>1. i # 0 /\ i # 1
      BY <1>1, <2>2, <2>3, <2>6, <2>7, OneTaskPerPosition
    <3>2. i - 1 \in Nat /\ i - 1 # 0 /\ (i - 1) + 1 = i
      BY <3>1
    <3>3. Holds(kind, p, i - 1, k)'
      BY <1>2, <2>2, <2>6, <2>7, <3>2
    <3> QED BY <3>2, <3>3
  <2>8. CASE ~(kind = kind0 /\ p = p0)
    BY <1>2, <2>2, <2>6, <2>8
  <2> QED BY <2>7, <2>8
<1> QED BY <1>5, <1>7, <1>8, <1>9

LEMMA TasksInPlaceStep ==
  ASSUME Types, Types', WorkHasTask, RequestReply, MasterControl, TasksInPlace,
         [Next]_vars
  PROVE  TasksInPlace'
BY TaskEffects, InPlaceStays, InPlaceNew, InPlaceMoves, InPlaceEnds

LEMMA AtMostOne ==
  ASSUME NEW S, \A x, y \in S : x = y
  PROVE  Cardinality(S) = IF S = {} THEN 0 ELSE 1
<1>1. CASE S = {}
  BY <1>1, FS_EmptySet
<1>2. CASE S # {}
  <2>1. PICK x \in S : TRUE
    BY <1>2
  <2>2. S = {x}
    BY <2>1
  <2> QED BY <1>2, <2>2, FS_Singleton
<1> QED BY <1>1, <1>2

LEMMA InPlaceIsOnePlace ==
  ASSUME Types, TasksInPlace
  PROVE  EachTaskInOnePlace
<1> USE DEF TasksInPlace
<1> SUFFICES ASSUME NEW k \in Tasks
             PROVE  /\ Places(k) <= 1
                    /\ Places(k) = 0 => k >= num_tasks_launched \/ interrupt_requested
  BY DEF EachTaskInOnePlace
<1> DEFINE A == {p \in Procs : AtWork(p) /\ task_id[p] = k}
           B == {m \in Messages(Deliveries) : Content(m) = k}
           C == {m \in Messages(Results) : Content(m).task = k}
           s == IF full_task_results[k] # "none" THEN 1 ELSE 0
<1>k. "work" \in Kinds /\ Deliveries \in Kinds /\ Results \in Kinds
  BY DEF Kinds
<1>d. "work" # Deliveries /\ "work" # Results /\ Deliveries # Results
  BY TagsDiffer, TagFacts
<1>1. \A p \in Procs : p \in A <=> Holds("work", p, 1, k)
  BY HoldsAt
<1>q. \A w \in Workers, t \in {Deliveries, Results} :
        \A i \in DOMAIN channel[t][w] : i \in Nat
  <2>1. \A w \in Workers, t \in {Deliveries, Results} :
          channel[t][w] \in Seq(MessagesOf(t))
    BY TagFacts DEF Types, ChannelsOK
  <2> QED BY <2>1, EmptyFacts
<1>2. \A m \in B : \E w \in Workers, i \in Nat :
        m = <<Deliveries, w, i>> /\ Holds(Deliveries, w, i, k)
  BY <1>q, HoldsAt, ProcFacts DEF Messages, Content
<1>3. \A m \in C : \E w \in Workers, i \in Nat :
        m = <<Results, w, i>> /\ Holds(Results, w, i, k)
  BY <1>q, HoldsAt, ProcFacts DEF Messages, Content
<1>4. \A x, y \in A : x = y
  <2>1. \A x, y \in Procs :
          Holds("work", x, 1, k) /\ Holds("work", y, 1, k) => x = y
    BY <1>k DEF HeldOnce
  <2> QED BY <1>1, <2>1
<1>5. \A x, y \in B : x = y
  BY <1>2, <1>k, ProcFacts DEF HeldOnce
<1>6. \A x, y \in C : x = y
  BY <1>3, <1>k, ProcFacts DEF HeldOnce
<1>7. ~(A # {} /\ B # {}) /\ ~(A # {} /\ C # {}) /\ ~(B # {} /\ C # {})
  <2>1. A # {} => \E p \in Procs, i \in Nat : Holds("work", p, i, k)
    BY <1>1
  <2>2. B # {} => \E p \in Procs, i \in Nat : Holds(Deliveries, p, i, k)
    BY <1>2, ProcFacts
  <2>3. C # {} => \E p \in Procs, i \in Nat : Holds(Results, p, i, k)
    BY <1>3, ProcFacts
  <2> HIDE DEF A, B, C
  <2>4. ~(A # {} /\ B # {})
    BY <1>d, <1>k, <2>1, <2>2 DEF HeldOnce
  <2>5. ~(A # {} /\ C # {})
    BY <1>d, <1>k, <2>1, <2>3 DEF HeldOnce
  <2>6. ~(B # {} /\ C # {})
    BY <1>d, <1>k, <2>2, <2>3 DEF HeldOnce
  <2> QED BY <2>4, <2>5, <2>6
<1>8. s = 1 => A = {} /\ B = {} /\ C = {}
  <2>1. s = 1 => \A kind \in Kinds, p \in Procs : \A i \in Nat : ~Holds(kind, p, i, k)
    BY DEF HeldIsPending
  <2> QED BY <1>1, <1>2, <1>3, <1>k, <2>1, ProcFacts
<1>9. /\ Cardinality(A) = IF A = {} THEN 0 ELSE 1
      /\ Cardinality(B) = IF B = {} THEN 0 ELSE 1
      /\ Cardinality(C) = IF C = {} THEN 0 ELSE 1
  <2> HIDE DEF A, B, C
  <2> QED BY <1>4, <1>5, <1>6, AtMostOne
<1>10. A = {} /\ B = {} /\ C = {} /\ s = 0 =>
         k >= num_tasks_launched \/ interrupt_requested
  <2> SUFFICES ASSUME A = {}, B = {}, C = {}, s = 0,
                      ~interrupt_requested, k < num_tasks_launched
               PROVE  FALSE
    BY NumTotalRunsAssumption DEF Types, BookTypes, Tasks
  <2>1. k \in 0 .. (num_tasks_launched - 1) /\ full_task_results[k] = "none"
    BY NumTotalRunsAssumption DEF Types, BookTypes, Tasks
  <2>2. PICK kind \in Kinds, p \in Procs : \E i \in Nat : Holds(kind, p, i, k)
    BY <2>1 DEF PendingIsHeld
  <2>3. PICK i \in Nat : Holds(kind, p, i, k)
    BY <2>2
  <2>4. CASE kind = "work"
    <3>1. i = 1
      BY <2>3, <2>4, HoldsAt
    <3> QED BY <1>1, <2>3, <2>4, <3>1
  <2>5. CASE kind = Deliveries
    <3>1. <<Deliveries, p, i>> \in B
      BY <2>3, <2>5, HoldsAt DEF Messages, Content
    <3> QED BY <3>1
  <2>6. CASE kind = Results
    <3>1. <<Results, p, i>> \in C
      BY <2>3, <2>6, HoldsAt DEF Messages, Content
    <3> QED BY <3>1
  <2> QED BY <2>4, <2>5, <2>6 DEF Kinds
<1>11. s \in {0, 1}
  OBVIOUS
<1>12. Places(k) = Cardinality(A) + Cardinality(B) + Cardinality(C) + s
  BY DEF Places
<1> HIDE DEF A, B, C, s
<1> QED BY <1>7, <1>8, <1>9, <1>10, <1>11, <1>12

-----------------------------------------------------------------------------
\* Without failures and interrupts: what does not happen

LEMMA NobodyFailsStep ==
  ASSUME Types, WorkHasTask, NobodyFails, [Next]_vars
  PROVE  NobodyFails'
<1> SUFFICES ASSUME ~MayFail, NEW w \in Workers
             PROVE  pc'[w] \notin {"failed", "failed_report"}
  BY DEF NobodyFails
<1>1. pc[w] \notin {"failed", "failed_report"}
  BY DEF NobodyFails
<1>2. CASE ~WorkerAction(w)
  BY <1>1, <1>2, OthersStay
<1>3. CASE WorkerProbeInterrupt(w)
  BY <1>1, <1>3, WorkerProbeInterruptAt DEF Callers, ReportProbe
<1>4. CASE WorkerFinishTask(w)
  BY <1>4, WorkerFinishTaskAt
<1>5. CASE \/ WorkerRequest(w) \/ WorkerReceiveTask(w) \/ WorkerProbeReport(w)
           \/ WorkerLeave(w) \/ WorkerFarewell(w)
  BY <1>5, WorkerFlow
<1> QED BY <1>2, <1>3, <1>4, <1>5 DEF WorkerAction

LEMMA OnlyResultsStep ==
  ASSUME Types, WorkHasTask, MasterControl, OnlyResults, [Next]_vars
  PROVE  OnlyResults'
<1> SUFFICES ASSUME ~MayFail, ~MayInterrupt
             PROVE  /\ ~interrupt_requested'
                    /\ \A k \in Tasks : full_task_results'[k] \in {"none", "ok"}
                    /\ \A w \in Workers : \A i \in DOMAIN channel'[Results][w] :
                         channel'[Results][w][i].how = "ok"
  BY DEF OnlyResults, Stored
<1>0. ChannelsOK /\ full_task_results \in [Tasks -> {"none", "ok", "error", "null"}]
  BY DEF Types, BookTypes
<1>1. /\ ~interrupt_requested
      /\ \A k \in Tasks : full_task_results[k] \in {"none", "ok"}
      /\ \A w \in Workers : \A i \in DOMAIN channel[Results][w] :
           channel[Results][w][i].how = "ok"
      /\ \A w \in Workers : ~Waiting(InterruptOrders, w)
  BY DEF OnlyResults, Stored, MasterControl
<1>2. ASSUME NEW w \in Workers, TreatResult(w)
      PROVE  Head(channel[Results][w]).how = "ok"
  <2>1. Waiting(Results, w)
    BY <1>2, TreatResultAt
  <2>2. Head(channel[Results][w]) = channel[Results][w][1] /\ 1 \in DOMAIN channel[Results][w]
    BY <1>0, <2>1, QueueFacts, TagFacts
  <2> QED BY <1>1, <2>2
<1>3. /\ ~interrupt_requested'
      /\ \A k \in Tasks : full_task_results'[k] \in {"none", "ok"}
  <2>s. ASSUME NEW p, NEW k, StoreTaskResult(p, k, "ok")
        PROVE  /\ ~interrupt_requested'
               /\ \A j \in Tasks : full_task_results'[j] \in {"none", "ok"}
    BY <1>0, <1>1, <2>s DEF StoreTaskResult
  <2>1. CASE \E w \in Workers : TreatResult(w)
    BY <1>2, <2>1, <2>s DEF TreatResult
  <2>2. CASE MasterFinishTask
    BY <2>2, <2>s DEF MasterFinishTask
  <2>3. CASE UNCHANGED <<interrupt_requested, full_task_results>>
    BY <1>1, <2>3
  <2>4. CASE MasterAction
    BY <1>1, <2>1, <2>2, <2>3, <2>4 DEF MasterAction, MasterNext, MasterPoll, MasterWait,
       MasterCheckInterrupted, MasterCheckQuiet, TreatRequest, TreatReport,
       TreatFarewell, NextPhase, EndCheck, controller
  <2>5. CASE \E w \in Workers : WorkerAction(w)
    BY <2>3, <2>5, WorkerMove DEF WorkerAction, WorkerKeeps, controller
  <2>6. CASE CallerAction
    BY <2>3, <2>6 DEF CallerAction, RequestStatusReport, RequestInterrupt, vars, controller
  <2> QED BY <2>4, <2>5, <2>6, ActionCases
<1>4. ASSUME NEW w \in Workers, NEW i \in DOMAIN channel'[Results][w]
      PROVE  channel'[Results][w][i].how = "ok"
  <2> DEFINE q == channel[Results][w]
             r == channel'[Results][w]
  <2>0. q \in Seq(MessagesOf(Results))
    BY <1>0, TagFacts DEF ChannelsOK
  <2>1. CASE TreatResult(w)
    <3>1. r = Tail(q) /\ q # <<>>
      BY <2>1, TreatResultAt DEF Waiting
    <3>2. i \in DOMAIN Tail(q)
      BY <3>1
    <3>3. DOMAIN Tail(q) = 1 .. Len(Tail(q))
      BY <2>0, <3>1, TailFacts, EmptyFacts
    <3>4. i \in Nat /\ i + 1 \in DOMAIN q /\ r[i] = q[i + 1]
      <4> HIDE DEF q, r
      <4>1. i \in Nat
        BY <3>2, <3>3
      <4> QED BY <2>0, <3>1, <3>2, <4>1, TailEntries
    <3> QED BY <1>1, <3>4
  <2>2. CASE WorkerFinishTask(w)
    <3>1. AtWork(w) /\ r = Append(q, Result(w, "ok"))
      BY <2>2, WorkerFinishTaskAt
    <3>2. Result(w, "ok") \in MessagesOf(Results) /\ Result(w, "ok").how = "ok"
      BY <3>1, ResultFacts
    <3>3. i \in Nat
      <4>1. DOMAIN Append(q, Result(w, "ok")) = 1 .. Len(Append(q, Result(w, "ok")))
        BY <2>0, <3>2, AppendFacts, EmptyFacts
      <4> QED BY <3>1, <4>1
    <3>4. \/ i \in DOMAIN q /\ r[i] = q[i]
          \/ r[i] = Result(w, "ok")
      <4> HIDE DEF q
      <4> QED BY <2>0, <3>1, <3>2, <3>3, AppendEntries
    <3> QED BY <1>1, <3>2, <3>4
  <2>3. CASE ~TreatResult(w) /\ ~WorkerFinishTask(w)
    <3>1. ~WorkerProbeInterrupt(w) \/ QueueStays(Results, w)
      BY <1>1, WorkerProbeInterruptAt, TagFacts, TagsDiffer DEF QueueStays
    <3>2. QueueStays(Results, w)
      BY <2>3, <3>1, Touched DEF QueueStays
    <3> QED BY <1>1, <3>2 DEF QueueStays
  <2> QED BY <2>1, <2>2, <2>3
<1> QED BY <1>3, <1>4

-----------------------------------------------------------------------------
\* The messages that a pass takes of each tag are enough: the argument is that
\* Out never outgrows the workers that are still served and the debt of the
\* pass.

\* Only the answer that there are no more tasks takes a worker from those served.
LEMMA ServedStep ==
  ASSUME Types, Types', WorkHasTask, MasterControl, NobodyFails, [Next]_vars,
         ~MayFail, ~interrupt_requested,
         NEW v \in Served, ~(TreatRequest(v) /\ ~(NewTask >= 0))
  PROVE  v \in Served'
<1> DEFINE q == channel[Deliveries][v]
           r == channel'[Deliveries][v]
<1>0. ChannelsOK /\ v \in Workers
  BY DEF Types, Served
<1>1. /\ pc[v] \notin {"leave", "farewell", "done"}
      /\ \A i \in DOMAIN q : q[i] # -1
      /\ pc[v] \notin {"failed", "failed_report"}
      /\ ~Waiting(InterruptOrders, v)
  BY DEF Served, NobodyFails, MasterControl
<1>q. q \in Seq(MessagesOf(Deliveries))
  BY <1>0, TagFacts DEF ChannelsOK
<1>2. pc'[v] \notin {"leave", "farewell", "done"}
  <2>1. CASE ~WorkerAction(v)
    BY <1>0, <1>1, <2>1, OthersStay
  <2>2. CASE WorkerReceiveTask(v)
    <3>1. Waiting(Deliveries, v)
      BY <1>0, <2>2, WorkerReceiveTaskAt
    <3>2. Head(q) = q[1] /\ 1 \in DOMAIN q
      BY <1>0, <3>1, QueueFacts, TagFacts
    <3>3. Head(q) # -1
      BY <1>1, <3>2
    <3> QED BY <1>0, <2>2, <3>3, WorkerFlow
  <2>3. CASE WorkerProbeInterrupt(v)
    BY <1>0, <1>1, <2>3, WorkerProbeInterruptAt DEF Callers, ReportProbe
  <2>4. CASE \/ WorkerRequest(v) \/ WorkerProbeReport(v) \/ WorkerFinishTask(v)
             \/ WorkerLeave(v) \/ WorkerFarewell(v)
    BY <1>0, <1>1, <2>4, WorkerFlow
  <2> QED BY <2>1, <2>2, <2>3, <2>4 DEF WorkerAction
<1>3. ASSUME NEW i \in DOMAIN r PROVE r[i] # -1
  <2>1. CASE WorkerReceiveTask(v)
    <3>1. r = Tail(q) /\ q # <<>>
      BY <1>0, <2>1, WorkerReceiveTaskAt DEF Waiting
    <3>2. DOMAIN Tail(q) = 1 .. Len(Tail(q))
      BY <1>q, <3>1, TailFacts, EmptyFacts
    <3>3. i \in Nat /\ i + 1 \in DOMAIN q /\ r[i] = q[i + 1]
      <4>1. i \in DOMAIN Tail(q)
        BY <3>1
      <4> HIDE DEF q, r
      <4>2. i \in Nat
        BY <3>2, <4>1
      <4> QED BY <1>q, <3>1, <4>1, <4>2, TailEntries
    <3> QED BY <1>1, <3>3
  <2>2. CASE TreatRequest(v)
    <3>1. r = Append(q, NewTask)
      BY <1>0, <2>2, TreatRequestAt
    <3>2. NewTask \in MessagesOf(Deliveries) /\ NewTask # -1
      <4>1. num_tasks_launched \in 0 .. NumTotalRuns
        BY DEF Types, BookTypes
      <4>2. NewTask >= 0
        BY <2>2
      <4> QED BY <4>1, <4>2, NewTaskFacts, TagFacts DEF Tasks
    <3>3. i \in Nat
      <4>1. DOMAIN Append(q, NewTask) = 1 .. Len(Append(q, NewTask))
        BY <1>q, <3>2, AppendFacts, EmptyFacts
      <4> QED BY <3>1, <4>1
    <3>4. (i \in DOMAIN q /\ r[i] = q[i]) \/ r[i] = NewTask
      <4>1. i \in DOMAIN Append(q, NewTask)
        BY <3>1
      <4> HIDE DEF q, r
      <4> QED BY <1>q, <3>1, <3>2, <3>3, <4>1, AppendEntries
    <3> QED BY <1>1, <3>2, <3>4
  <2>3. CASE ~WorkerReceiveTask(v) /\ ~TreatRequest(v)
    <3>1. r = q
      BY <1>0, <2>3, Touched
    <3> QED BY <1>1, <3>1
  <2> QED BY <2>1, <2>2, <2>3
<1> QED BY <1>0, <1>2, <1>3 DEF Served

LEMMA ServedFinite ==
  /\ IsFiniteSet(Served) /\ Cardinality(Served) \in Nat
  /\ IsFiniteSet(Served') /\ Cardinality(Served') \in Nat
<1>1. Served \subseteq Procs /\ Served' \subseteq Procs
  BY ProcFacts DEF Served
<1> QED BY <1>1, ProcsFinite

LEMMA OutFinite ==
  /\ IsFiniteSet(Out) /\ Cardinality(Out) \in Nat
  /\ IsFiniteSet(Out') /\ Cardinality(Out') \in Nat
<1>1. Out \subseteq Tasks /\ Out' \subseteq Tasks
  BY DEF Out
<1> QED BY <1>1, TasksFinite

LEMMA EntryWaits ==
  ASSUME NEW t, NEW w, NEW i \in DOMAIN channel[t][w]
  PROVE  Waiting(t, w)
BY DEF Waiting

\* A task that is out and of which no result is waiting is with a worker that
\* is still served, and each has one task at most.
LEMMA OutIsServed ==
  ASSUME Types, WorkHasTask, RequestReply, TasksInPlace, ~interrupt_requested,
         \A w \in Workers : ~Waiting(Results, w)
  PROVE  Cardinality(Out) <= Cardinality(Served)
<1> DEFINE HasTask(w, k) == Holds("work", w, 1, k) \/ Holds(Deliveries, w, 1, k)
<1>0. ChannelsOK
  BY DEF Types
<1>d. /\ "work" \in Kinds /\ Deliveries \in Kinds /\ "work" # Deliveries
      /\ 1 \in Nat
  BY TagsDiffer, TagFacts DEF Kinds
<1>q. ASSUME NEW w \in Workers, NEW k \in Tasks, NEW i \in Nat, Holds(Deliveries, w, i, k)
      PROVE  i = 1 /\ k = Head(channel[Deliveries][w]) /\ Waiting(Deliveries, w)
  <2>1. Waiting(Deliveries, w)
    <3>1. i \in DOMAIN channel[Deliveries][w]
      BY <1>q, HoldsAt, ProcFacts
    <3> QED BY <3>1, EntryWaits
  <2> QED BY <1>q, <2>1, OneDelivery
<1>1. ASSUME NEW k \in Out PROVE \E w \in Workers : HasTask(w, k)
  <2>1. /\ k \in Tasks /\ k \in 0 .. (num_tasks_launched - 1)
        /\ full_task_results[k] = "none"
        /\ ~(AtWork(Master) /\ task_id[Master] = k)
    BY NumTotalRunsAssumption DEF Out, Tasks, Types, BookTypes
  <2>2. PICK kind \in Kinds, p \in Procs : \E i \in Nat : Holds(kind, p, i, k)
    BY <2>1 DEF TasksInPlace, PendingIsHeld
  <2>3. PICK i \in Nat : Holds(kind, p, i, k)
    BY <2>2
  <2>4. CASE kind = "work"
    <3>1. i = 1 /\ p # Master
      BY <2>1, <2>3, <2>4, HoldsAt
    <3> QED BY <2>3, <2>4, <3>1 DEF Procs
  <2>5. CASE kind = Deliveries
    <3>1. p \in Workers
      BY <2>1, <2>3, <2>5, HoldsAt
    <3>2. i = 1
      BY <1>q, <2>1, <2>3, <2>5, <3>1
    <3> QED BY <2>3, <2>5, <3>1, <3>2
  <2>6. CASE kind = Results
    <3>1. p \in Workers /\ i \in DOMAIN channel[Results][p]
      BY <2>1, <2>3, <2>6, HoldsAt
    <3>2. Waiting(Results, p)
      BY <3>1, EntryWaits
    <3> QED BY <3>1, <3>2
  <2> QED BY <2>4, <2>5, <2>6 DEF Kinds
<1>2. ASSUME NEW w \in Workers, NEW k \in Tasks, HasTask(w, k)
      PROVE  /\ w \in Served
             /\ \A j \in Tasks : HasTask(w, j) => j = k
  <2>r. ASSUME Waiting(Deliveries, w) PROVE pc[w] = "await"
    <3> DEFINE n == Len(channel[Requests][w])
               m == Len(channel[Deliveries][w])
    <3>1. n \in Nat /\ m \in Nat /\ m > 0
      BY <1>0, <2>r, QueueLength, TagFacts
    <3>2. n + m = IF pc[w] = "await" THEN 1 ELSE 0
      BY DEF RequestReply
    <3> HIDE DEF n, m
    <3> QED BY <3>1, <3>2
  <2>1. CASE Holds("work", w, 1, k)
    <3>1. AtWork(w) /\ task_id[w] = k
      BY <2>1, HoldsAt, ProcFacts
    <3>2. pc[w] \in {"task", "before", "before_report", "task_report"}
      BY <3>1, WorkerPlaces
    <3>3. ~Waiting(Deliveries, w)
      BY <2>r, <3>2
    <3>4. DOMAIN channel[Deliveries][w] = {}
      <4>1. channel[Deliveries][w] = <<>>
        BY <3>3 DEF Waiting
      <4> QED BY <4>1
    <3>5. w \in Served
      BY <3>2, <3>4 DEF Served
    <3>6. ASSUME NEW j \in Tasks, HasTask(w, j) PROVE j = k
      <4>1. ~Holds(Deliveries, w, 1, j)
        BY <1>d, <1>q, <3>3
      <4>2. Holds("work", w, 1, j)
        BY <3>6, <4>1
      <4> QED BY <1>d, <3>1, <4>2, HoldsAt, ProcFacts
    <3> QED BY <3>5, <3>6
  <2>2. CASE Holds(Deliveries, w, 1, k)
    <3>1. Waiting(Deliveries, w) /\ k = Head(channel[Deliveries][w])
      BY <1>d, <1>q, <2>2
    <3>2. pc[w] = "await"
      BY <2>r, <3>1
    <3>3. ~AtWork(w)
      BY <3>2, WorkerPlaces
    <3>4. ASSUME NEW i \in DOMAIN channel[Deliveries][w]
          PROVE  channel[Deliveries][w][i] # -1
      <4>1. i \in Nat /\ channel[Deliveries][w][i] \in Tasks \cup {-1}
        <5>1. channel[Deliveries][w] \in Seq(MessagesOf(Deliveries))
          BY <1>0, TagFacts DEF ChannelsOK
        <5> QED BY <5>1, EmptyFacts, TagFacts
      <4>2. i = 1
        <5> DEFINE n == Len(channel[Requests][w])
                   m == Len(channel[Deliveries][w])
        <5>1. n \in Nat /\ m \in Nat /\ DOMAIN channel[Deliveries][w] = 1 .. m
          <6>1. channel[Deliveries][w] \in Seq(MessagesOf(Deliveries))
            BY <1>0, TagFacts DEF ChannelsOK
          <6> QED BY <1>0, <6>1, EmptyFacts, QueueLength, TagFacts
        <5>2. n + m = 1
          BY <3>2 DEF RequestReply
        <5>3. i \in 1 .. m
          BY <5>1
        <5> HIDE DEF n, m
        <5> QED BY <5>1, <5>2, <5>3
      <4>3. channel[Deliveries][w][1] = k
        BY <2>2, HoldsAt, ProcFacts
      <4> QED BY <4>2, <4>3 DEF Tasks
    <3>5. w \in Served
      BY <3>2, <3>4 DEF Served
    <3>6. ASSUME NEW j \in Tasks, HasTask(w, j) PROVE j = k
      <4>1. ~Holds("work", w, 1, j)
        BY <1>d, <3>3, HoldsAt, ProcFacts
      <4>2. Holds(Deliveries, w, 1, j)
        BY <3>6, <4>1
      <4> QED BY <1>d, <1>q, <3>1, <4>2
    <3> QED BY <3>5, <3>6
  <2> QED BY <1>2, <2>1, <2>2
<1> DEFINE holder == [k \in Out |-> CHOOSE w \in Workers : HasTask(w, k)]
<1>3. \A k \in Out : holder[k] \in Workers /\ HasTask(holder[k], k) /\ k \in Tasks
  <2> HIDE DEF HasTask
  <2> QED BY <1>1 DEF Out
<1>4. holder \in Injection(Out, Served)
  <2> HIDE DEF HasTask
  <2>1. holder \in [Out -> Served]
    <3>1. \A k \in Out : holder[k] \in Served
      BY <1>2, <1>3
    <3> QED BY <3>1
  <2>2. \A j, k \in Out : holder[j] = holder[k] => j = k
    <3> HIDE DEF holder
    <3> QED BY <1>2, <1>3
  <2>3. IsInjective(holder)
    BY <2>2 DEF IsInjective
  <2> QED BY <2>1, <2>3 DEF Injection
<1> QED BY <1>4, ServedFinite, FS_Injection

LEMMA DebtFacts ==
  ASSUME Types, Types'
  PROVE  /\ CommSize \in Nat /\ budget \in 0 .. CommSize /\ budget' \in 0 .. CommSize
         /\ PassDebt \in Nat /\ PassDebt' \in Nat
         /\ pc[Master] = Requests => PassDebt = CommSize - budget
         /\ pc[Master] = Results => PassDebt = budget
         /\ pc[Master] \notin {Requests, Results} => PassDebt = 0
         /\ pc'[Master] = Requests => PassDebt' = CommSize - budget'
         /\ pc'[Master] = Results => PassDebt' = budget'
         /\ pc'[Master] \notin {Requests, Results} => PassDebt' = 0
<1>1. CommSize \in Nat /\ budget \in 0 .. CommSize /\ budget' \in 0 .. CommSize
  BY ProcsFinite DEF Types, CheckTypes
<1>2. /\ pc[Master] = Requests => PassDebt = CommSize - budget
      /\ pc[Master] = Results => PassDebt = budget
      /\ pc[Master] \notin {Requests, Results} => PassDebt = 0
  BY TagsDiffer DEF PassDebt
<1>3. /\ pc'[Master] = Requests => PassDebt' = CommSize - budget'
      /\ pc'[Master] = Results => PassDebt' = budget'
      /\ pc'[Master] \notin {Requests, Results} => PassDebt' = 0
  BY TagsDiffer DEF PassDebt
<1>4. PassDebt \in Nat
  BY <1>1, <1>2
<1>5. PassDebt' \in Nat
  BY <1>1, <1>3
<1> QED BY <1>1, <1>2, <1>3, <1>4, <1>5

LEMMA OutStays ==
  ASSUME UNCHANGED <<num_tasks_launched, full_task_results>>, WorkStays(Master)
  PROVE  Out' = Out
BY DEF Out, WorkStays

LEMMA OneRequestTreated ==
  ASSUME Types, NEW v \in Workers, NEW w \in Workers, v # w, TreatRequest(w)
  PROVE  ~TreatRequest(v)
<1> SUFFICES ASSUME TreatRequest(v) PROVE FALSE
  OBVIOUS
<1>0. ChannelsOK
  BY DEF Types
<1>1. channel'[Requests][v] = channel[Requests][v]
  BY TreatRequestAt, TagFacts
<1>2. channel'[Requests][v] = Tail(channel[Requests][v]) /\ Waiting(Requests, v)
  BY TreatRequestAt
<1>3. /\ Len(Tail(channel[Requests][v])) = Len(channel[Requests][v]) - 1
      /\ Len(channel[Requests][v]) \in Nat
  BY <1>0, <1>2, TailLength, QueueLength, TagFacts
<1> DEFINE n == Len(channel[Requests][v])
           m == Len(channel'[Requests][v])
<1>4. n \in Nat /\ m = n /\ m = n - 1
  BY <1>1, <1>2, <1>3
<1> HIDE DEF n, m
<1> QED BY <1>4

LEMMA AtMostOneMore ==
  ASSUME NEW S, IsFiniteSet(S), NEW x
  PROVE  /\ IsFiniteSet(S \cup {x}) /\ Cardinality(S \cup {x}) \in Nat
         /\ Cardinality(S \cup {x}) <= Cardinality(S) + 1
<1>1. Cardinality(S) \in Nat
  BY FS_CardinalityType
<1>2. CASE x \in S
  <2>1. S \cup {x} = S
    BY <1>2
  <2>2. IsFiniteSet(S \cup {x}) /\ Cardinality(S \cup {x}) = Cardinality(S)
    BY <2>1, Zenon
  <2> QED BY <1>1, <2>2
<1>3. CASE x \notin S
  BY <1>1, <1>3, OneMore
<1> QED BY <1>2, <1>3

LEMMA OutBoundedStep ==
  ASSUME Types, Types', WorkHasTask, RequestReply, MasterControl, NobodyFails,
         TasksInPlace, OutBounded, [Next]_vars
  PROVE  OutBounded'
<1> SUFFICES ASSUME ~MayFail, ~interrupt_requested'
             PROVE  Cardinality(Out') <= Cardinality(Served') + PassDebt'
  BY DEF OutBounded
<1> DEFINE out == Cardinality(Out)
           outN == Cardinality(Out')
           served == Cardinality(Served)
           servedN == Cardinality(Served')
           debt == PassDebt
           debtN == PassDebt'
<1>0. /\ LocationsOK /\ LocationsOK' /\ BookTypes /\ ChannelsOK
      /\ num_tasks_launched \in 0 .. NumTotalRuns /\ num_tasks_launched \in Nat
      /\ full_task_results \in [Tasks -> {"none", "ok", "error", "null"}]
  BY DEF Types, ProcessTypes, BookTypes
<1>i. ~interrupt_requested
  BY InterruptStays
<1>b. out <= served + debt
  BY <1>i DEF OutBounded
<1>f. out \in Nat /\ served \in Nat /\ outN \in Nat /\ servedN \in Nat
  BY OutFinite, ServedFinite
<1>g. CommSize \in Nat /\ budget \in 0 .. CommSize /\ debt \in Nat /\ debtN \in Nat
  BY DebtFacts
<1>s. ASSUME \A v \in Workers : ~(TreatRequest(v) /\ ~(NewTask >= 0))
      PROVE  served <= servedN
  <2>1. Served \subseteq Served'
    BY <1>i, <1>s, ServedStep DEF Served
  <2>2. Cardinality(Served) <= Cardinality(Served')
    BY <2>1, ServedFinite, FS_Subset
  <2> QED BY <2>2
<1>m. ASSUME \A v \in Workers : ~(TreatRequest(v) /\ ~(NewTask >= 0)),
             outN <= out, debt <= debtN
      PROVE  Cardinality(Out') <= Cardinality(Served') + PassDebt'
  <2>1. served <= servedN
    BY <1>m, <1>s
  <2>2. outN <= servedN + debtN
    <3> HIDE DEF out, outN, served, servedN, debt, debtN
    <3> QED BY <1>b, <1>f, <1>g, <1>m, <2>1
  <2> QED BY <2>2
<1>r. (\E w \in Workers : TreatRequest(w)) => pc[Master] = Requests
  BY DEF TreatRequest, Receive
<1>1. ASSUME NEW w \in Workers, TreatRequest(w)
      PROVE  Cardinality(Out') <= Cardinality(Served') + PassDebt'
  <2>1. /\ pc[Master] = Requests /\ UNCHANGED <<pc, check_from, task_id>>
        /\ budget > 0 /\ budget' = budget - 1
        /\ GetNewTaskId(w) /\ UNCHANGED full_task_results
    BY <1>1 DEF TreatRequest, Receive
  <2>2. debtN = debt + 1
    <3>1. debt = CommSize - budget /\ debtN = CommSize - budget'
      BY <2>1, DebtFacts
    <3> QED BY <1>g, <2>1, <3>1
  <2>3. WorkStays(Master)
    BY <1>1, MasterWork
  <2>4. CASE NewTask >= 0
    <3>1. num_tasks_launched' = num_tasks_launched + 1
      BY <2>1, <2>4 DEF GetNewTaskId
    <3>2. Out' \subseteq Out \cup {num_tasks_launched}
      BY <1>0, <2>1, <2>3, <3>1 DEF Out, WorkStays, Tasks
    <3>3. IsFiniteSet(Out \cup {num_tasks_launched})
          /\ Cardinality(Out \cup {num_tasks_launched}) <= out + 1
      BY OutFinite, AtMostOneMore
    <3>4. outN <= Cardinality(Out \cup {num_tasks_launched})
      BY <3>2, <3>3, FS_Subset
    <3>5. served <= servedN
      <4>1. \A v \in Workers : ~(TreatRequest(v) /\ ~(NewTask >= 0))
        BY <2>4
      <4> QED BY <1>s, <4>1
    <3> DEFINE more == Cardinality(Out \cup {num_tasks_launched})
    <3>6. more \in Nat /\ more <= out + 1 /\ outN <= more
      BY <3>3, <3>4, FS_CardinalityType
    <3>7. outN <= servedN + debtN
      <4> HIDE DEF out, outN, served, servedN, debt, debtN, more
      <4> QED BY <1>b, <1>f, <1>g, <2>2, <3>5, <3>6
    <3> QED BY <3>7
  <2>5. CASE ~(NewTask >= 0)
    <3>1. UNCHANGED num_tasks_launched
      BY <2>1, <2>5 DEF GetNewTaskId
    <3>2. Out' = Out
      BY <2>1, <2>3, <3>1, OutStays
    <3>3. Served \ {w} \subseteq Served'
      <4>1. \A v \in Workers \ {w} : ~TreatRequest(v)
        BY <1>1, OneRequestTreated
      <4> QED BY <1>i, <4>1, ServedStep DEF Served
    <3>4. served <= servedN + 1
      <4>1. IsFiniteSet(Served' \cup {w}) /\ Cardinality(Served' \cup {w}) <= servedN + 1
        BY ServedFinite, AtMostOneMore
      <4>2. Served \subseteq Served' \cup {w}
        BY <3>3
      <4>3. served <= Cardinality(Served' \cup {w})
        BY <4>1, <4>2, FS_Subset
      <4> DEFINE more == Cardinality(Served' \cup {w})
      <4>4. more \in Nat /\ more <= servedN + 1 /\ served <= more
        BY <4>1, <4>3, FS_CardinalityType
      <4> HIDE DEF served, servedN, more
      <4> QED BY <1>f, <4>4
    <3>5. outN = out
      BY <3>2
    <3>6. outN <= servedN + debtN
      <4> HIDE DEF out, outN, served, servedN, debt, debtN
      <4> QED BY <1>b, <1>f, <1>g, <2>2, <3>4, <3>5
    <3> QED BY <3>6
  <2> QED BY <2>4, <2>5

<1>2. ASSUME NEW w \in Workers, TreatResult(w)
      PROVE  Cardinality(Out') <= Cardinality(Served') + PassDebt'
  <2> DEFINE k0 == Head(channel[Results][w]).task
  <2>1. /\ pc[Master] = Results /\ UNCHANGED <<pc, check_from, task_id>>
        /\ budget > 0 /\ budget' = budget - 1
        /\ UNCHANGED num_tasks_launched /\ Waiting(Results, w)
    BY <1>2 DEF TreatResult, Receive
  <2>2. debtN = debt - 1
    <3>1. debt = budget /\ debtN = budget'
      BY <2>1, DebtFacts
    <3> QED BY <2>1, <3>1
  <2>3. WorkStays(Master)
    BY <1>2, MasterWork
  <2>4. /\ 1 \in DOMAIN channel[Results][w]
        /\ Head(channel[Results][w]) = channel[Results][w][1]
        /\ k0 \in Tasks
        /\ Head(channel[Results][w]).how \in {"ok", "error", "null"}
    <3>1. /\ 1 \in DOMAIN channel[Results][w]
          /\ Head(channel[Results][w]) = channel[Results][w][1]
          /\ Head(channel[Results][w]) \in MessagesOf(Results)
      BY <1>0, <2>1, QueueFacts, TagFacts
    <3>2. Head(channel[Results][w]) \in [task : Tasks, how : {"ok", "error", "null"}]
      BY <3>1, TagFacts
    <3> QED BY <3>1, <3>2
  <2>5. Holds(Results, w, 1, k0)
    BY <2>4, HoldsAt, ProcFacts
  <2>k. "work" \in Kinds /\ Results \in Kinds /\ "work" # Results /\ 1 \in Nat
    BY TagsDiffer, TagFacts DEF Kinds
  <2>6. k0 \in Out
    <3>1. k0 < num_tasks_launched /\ full_task_results[k0] = "none"
      BY <2>4, <2>5, <2>k, ProcFacts DEF TasksInPlace, HeldIsPending
    <3>2. ~Holds("work", Master, 1, k0)
      BY <2>4, <2>5, <2>k, ProcFacts DEF TasksInPlace, HeldOnce
    <3>3. ~(AtWork(Master) /\ task_id[Master] = k0)
      BY <2>4, <3>2, <2>k, HoldsAt, ProcFacts
    <3> QED BY <2>4, <3>1, <3>3 DEF Out
  <2>7. \E how \in {"ok", "error", "null"} :
          full_task_results' = [full_task_results EXCEPT ![k0] = how]
    BY <1>2, <2>4 DEF TreatResult, StoreTaskResult
  <2>8. Out' \subseteq Out \ {k0}
    <3>1. full_task_results'[k0] # "none"
      BY <1>0, <2>4, <2>7
    <3>2. \A k \in Tasks : k # k0 => full_task_results'[k] = full_task_results[k]
      BY <1>0, <2>7
    <3> QED BY <2>1, <2>3, <3>1, <3>2 DEF Out, WorkStays
  <2>9. Cardinality(Out \ {k0}) = out - 1 /\ IsFiniteSet(Out \ {k0})
    BY <2>6, OutFinite, OneLess
  <2>10. outN <= Cardinality(Out \ {k0})
    BY <2>8, <2>9, FS_Subset
  <2>11. \A v \in Workers : ~TreatRequest(v)
    BY <1>r, <2>1, TagsDiffer
  <2>12. served <= servedN
    BY <1>s, <2>11
  <2>13. outN <= out - 1
    BY <2>9, <2>10
  <2>14. outN <= servedN + debtN
    <3> HIDE DEF out, outN, served, servedN, debt, debtN
    <3> QED BY <1>b, <1>f, <1>g, <2>2, <2>12, <2>13
  <2> QED BY <2>14
<1>3. CASE NextPhase
  <2>1. PICK tag \in DOMAIN PhaseAfter : NothingToReceive(tag) /\ pc[Master] = tag
    BY <1>3 DEF NextPhase, Transition
  <2>2. /\ pc'[Master] = PhaseAfter[tag] /\ budget' = CommSize
        /\ UNCHANGED <<num_tasks_launched, full_task_results>>
    BY <1>3, <2>1, MasterFlow DEF NextPhase, controller
  <2>3. Out' = Out
    BY <1>3, <2>2, OutStays, MasterWork
  <2>4. \A v \in Workers : ~TreatRequest(v)
    <3>1. \A v \in Workers : TreatRequest(v) => budget' = budget - 1
      BY DEF TreatRequest, Receive
    <3> QED BY <1>g, <2>2, <3>1
  <2>5. served <= servedN
    BY <1>s, <2>4
  <2>6. CASE tag = Results
    <3>1. debt = budget
      BY <2>1, <2>6, DebtFacts
    <3>2. out <= served
      <4>1. CASE budget = 0
        <5> HIDE DEF out, outN, served, servedN, debt, debtN
        <5> QED BY <1>b, <1>f, <3>1, <4>1
      <4>2. CASE budget # 0
        <5>1. \A w \in Workers : ~Waiting(Results, w)
          BY <2>1, <2>6, <4>2 DEF NothingToReceive
        <5> QED BY <1>i, <5>1, OutIsServed
      <4> QED BY <4>1, <4>2
    <3>3. outN <= servedN + debtN
      <4>1. outN = out
        BY <2>3
      <4> HIDE DEF out, outN, served, servedN, debt, debtN
      <4> QED BY <1>f, <1>g, <2>5, <3>2, <4>1
    <3> QED BY <3>3
  <2>7. CASE tag # Results
    <3>1. debt <= debtN
      <4>1. CASE tag = Requests
        <5>1. debt = CommSize - budget /\ debtN = CommSize
          BY <2>1, <2>2, <4>1, DebtFacts, PhaseFacts
        <5> QED BY <1>g, <5>1
      <4>2. CASE tag # Requests
        <5>1. debt = 0
          BY <2>1, <2>7, <4>2, DebtFacts
        <5> QED BY <1>g, <5>1
      <4> QED BY <4>1, <4>2
    <3>2. outN <= out
      BY <1>f, <2>3
    <3> QED BY <1>m, <2>4, <3>1, <3>2
  <2> QED BY <2>6, <2>7
<1>t. ASSUME \A v \in Workers : ~TreatRequest(v),
             UNCHANGED <<num_tasks_launched, full_task_results>>, WorkStays(Master),
             \/ pc[Master] \notin {Requests, Results}
             \/ pc'[Master] = pc[Master] /\ budget' = budget
      PROVE  Cardinality(Out') <= Cardinality(Served') + PassDebt'
  <2>1. debt <= debtN
    <3>1. CASE pc[Master] \notin {Requests, Results}
      <4>1. debt = 0
        BY <3>1, DebtFacts
      <4> QED BY <1>g, <4>1
    <3>2. CASE pc'[Master] = pc[Master] /\ budget' = budget
      <4>1. debtN = debt
        BY <3>2 DEF PassDebt
      <4> QED BY <1>g, <4>1
    <3> QED BY <1>t, <3>1, <3>2
  <2>2. outN <= out
    BY <1>f, <1>t, OutStays
  <2> QED BY <1>m, <1>t, <2>1, <2>2
<1>n. ASSUME pc[Master] # Requests PROVE \A v \in Workers : ~TreatRequest(v)
  BY <1>n, <1>r
<1>4. CASE MasterPoll \/ MasterWait \/ MasterCheckQuiet \/ EndCheck
  <2>1. pc[Master] \notin {Requests, Results}
    BY <1>4, MasterFlow, TagsDiffer, TagFacts
  <2>2. UNCHANGED <<num_tasks_launched, full_task_results>>
    BY <1>4 DEF MasterPoll, MasterWait, MasterCheckQuiet, EndCheck, controller
  <2> QED BY <1>4, <1>n, <1>t, <2>1, <2>2, MasterWork
<1>5. ASSUME NEW w \in Workers, TreatReport(w) \/ TreatFarewell(w)
      PROVE  Cardinality(Out') <= Cardinality(Served') + PassDebt'
  <2>1. pc[Master] \notin {Requests, Results}
    BY <1>5, TagsDiffer DEF TreatReport, TreatFarewell, Receive
  <2>2. UNCHANGED <<num_tasks_launched, full_task_results>>
    BY <1>5 DEF TreatReport, TreatFarewell, controller
  <2> QED BY <1>5, <1>n, <1>t, <2>1, <2>2, MasterWork
<1>6. CASE MasterNext
  <2>1. pc[Master] \notin {Requests, Results}
    BY <1>6, MasterFlow, TagsDiffer, TagFacts
  <2>2. debt = 0
    BY <2>1, DebtFacts
  <2>3. GetNewTaskId(Master) /\ UNCHANGED full_task_results
    BY <1>6 DEF MasterNext
  <2>4. Out' \subseteq Out
    <3>1. CASE NewTask >= 0
      <4>1. /\ NewTask = num_tasks_launched
            /\ num_tasks_launched' = num_tasks_launched + 1
        BY <1>0, <2>3, <3>1, NewTaskFacts DEF GetNewTaskId
      <4>2. ~AtWork(Master) /\ AtWork(Master)' /\ task_id'[Master] = num_tasks_launched
        BY <1>6, <3>1, <4>1, MasterWork
      <4>3. ASSUME NEW k \in Out' PROVE k \in Out
        <5>1. /\ k \in Tasks /\ k < num_tasks_launched + 1
              /\ full_task_results[k] = "none" /\ k # num_tasks_launched
          BY <2>3, <4>1, <4>2, <4>3 DEF Out
        <5>2. k < num_tasks_launched
          BY <1>0, <5>1 DEF Tasks
        <5> QED BY <4>2, <5>1, <5>2 DEF Out
      <4> QED BY <4>3
    <3>2. CASE ~(NewTask >= 0)
      <4>1. UNCHANGED num_tasks_launched /\ ~AtWork(Master)
        BY <1>6, <2>3, <3>2, MasterWork DEF GetNewTaskId
      <4> QED BY <2>3, <4>1 DEF Out
    <3> QED BY <3>1, <3>2
  <2>5. outN <= out
    BY <2>4, OutFinite, FS_Subset
  <2>6. debt <= debtN
    BY <1>g, <2>2
  <2> QED BY <1>m, <1>n, <2>1, <2>5, <2>6
<1>7. CASE MasterFinishTask
  <2>1. pc[Master] \notin {Requests, Results}
    BY <1>7, MasterFlow, TagsDiffer, TagFacts
  <2>2. debt = 0
    BY <2>1, DebtFacts
  <2>3. /\ UNCHANGED num_tasks_launched
        /\ full_task_results' = [full_task_results EXCEPT ![task_id[Master]] = "ok"]
    BY <1>7 DEF MasterFinishTask, StoreTaskResult
  <2>4. AtWork(Master) /\ task_id[Master] \in Tasks
    BY <1>7, MasterWork, ProcFacts DEF WorkHasTask
  <2>5. Out' \subseteq Out
    BY <1>0, <2>3, <2>4 DEF Out
  <2>6. outN <= out
    BY <2>5, OutFinite, FS_Subset
  <2>7. debt <= debtN
    BY <1>g, <2>2
  <2> QED BY <1>m, <1>n, <2>1, <2>6, <2>7
<1>8. CASE MasterCheckInterrupted
  BY <1>8, <1>i DEF MasterCheckInterrupted
<1>9. ASSUME NEW w \in Workers, WorkerAction(w)
      PROVE  Cardinality(Out') <= Cardinality(Served') + PassDebt'
  <2>1. WorkerKeeps /\ pc'[Master] = pc[Master]
    BY <1>9, WorkerMove DEF WorkerAction
  <2>2. /\ UNCHANGED <<num_tasks_launched, full_task_results>> /\ budget' = budget
    BY <2>1 DEF WorkerKeeps, controller, check
  <2>3. \A v \in Workers : ~TreatRequest(v)
    <3>1. \A v \in Workers : TreatRequest(v) => budget' = budget - 1
      BY DEF TreatRequest, Receive
    <3> QED BY <1>g, <2>2, <3>1
  <2> QED BY <1>9, <1>t, <2>1, <2>2, <2>3, MasterWorksOn
<1>10. CASE CallerAction
  <2>1. /\ UNCHANGED <<num_tasks_launched, full_task_results, pc>> /\ budget' = budget
    BY <1>10 DEF CallerAction, RequestStatusReport, RequestInterrupt, vars, controller,
       check
  <2>2. \A v \in Workers : ~TreatRequest(v)
    <3>1. \A v \in Workers : TreatRequest(v) => budget' = budget - 1
      BY DEF TreatRequest, Receive
    <3> QED BY <1>g, <2>1, <3>1
  <2> QED BY <1>10, <1>t, <2>1, <2>2, MasterWork
<1> QED BY <1>1, <1>2, <1>3, <1>4, <1>5, <1>6, <1>7, <1>8, <1>9, <1>10, ActionCases
        DEF MasterAction

-----------------------------------------------------------------------------
\* Without failures and interrupts the master reads a result of every task.

LEMMA AllAreStored ==
  ASSUME Types, WorkHasTask, MasterControl, PresentCounted, OutBounded,
         ~MayFail, ~interrupt_requested, MasterWait, ~OthersRunning
  PROVE  /\ \A k \in Tasks : full_task_results[k] # "none"
         /\ num_tasks_launched = NumTotalRuns
         /\ outcome' = "ok"
<1>0. /\ LocationsOK /\ pc[Master] = "wait"
      /\ full_task_results \in [Tasks -> {"none", "ok", "error", "null"}]
      /\ interrupted[Master] \in BOOLEAN
  BY MasterFlow, ProcFacts DEF Types, ProcessTypes, BookTypes
<1>1. Present = {}
  <2>1. Cardinality(Present) = 0
    BY DEF OthersRunning, PresentCounted
  <2> QED BY <2>1, PresentFacts, FS_EmptySet
<1>2. Cardinality(Served) = 0
  <2>1. Served = {}
    BY <1>1 DEF Present, Served
  <2> QED BY <2>1, FS_EmptySet
<1>3. PassDebt = 0
  BY <1>0, TagsDiffer, TagFacts, PhaseFacts DEF PassDebt
<1>4. Out = {}
  <2>1. Cardinality(Out) <= 0
    BY <1>2, <1>3 DEF OutBounded
  <2>2. Cardinality(Out) = 0
    BY <2>1, OutFinite
  <2> QED BY <2>2, OutFinite, FS_EmptySet
<1>5. num_tasks_launched = NumTotalRuns
  BY <1>0 DEF MasterControl, AfterWork
<1>6. ~AtWork(Master)
  <2>1. "wait" \notin Phases
    BY PhaseFacts, TagFacts, TagsDiffer
  <2> QED BY <1>0, <2>1 DEF AtWork, InCheck
<1>7. ASSUME NEW k \in Tasks PROVE full_task_results[k] # "none"
  <2>1. k < num_tasks_launched
    BY <1>5, NumTotalRunsAssumption DEF Tasks
  <2> QED BY <1>4, <1>6, <2>1 DEF Out
<1>8. outcome' = "ok"
  <2>1. ~interrupted[Master]
    BY DEF MasterControl
  <2> QED BY <1>7, <2>1 DEF MasterWait
<1> QED BY <1>5, <1>7, <1>8

LEMMA CrashIsInterruptedStep ==
  ASSUME Types, WorkHasTask, MasterControl, PresentCounted, OutBounded,
         CrashIsInterrupted, [Next]_vars
  PROVE  CrashIsInterrupted'
<1> SUFFICES ASSUME ~MayFail, ~interrupt_requested'
             PROVE  outcome' # "crash"
  BY DEF CrashIsInterrupted
<1>1. ~interrupt_requested
  BY InterruptStays
<1>2. CASE outcome' = outcome
  BY <1>1, <1>2 DEF CrashIsInterrupted
<1>3. CASE MasterWait /\ ~OthersRunning
  BY <1>1, <1>3, AllAreStored
<1> QED BY <1>2, <1>3, OutcomeStep

-----------------------------------------------------------------------------
\* The inductive invariant: IInv, with TypeOK in the part that is inductive on
\* its own and the bounds that follow from the counts.
Inductive ==
  /\ Types
  /\ MasterControl
  /\ FarewellOnce /\ PresentCounted /\ MasterLeavesLast
  /\ RequestReply
  /\ WorkHasTask /\ TasksInPlace
  /\ OneReport /\ ReportsCounted
  /\ NobodyFails /\ OutBounded /\ CrashIsInterrupted
  /\ OnlyResults

LEMMA InitTypes ==
  ASSUME Init
  PROVE  /\ Types
         /\ \A t \in Tags, w \in Workers : channel[t][w] = <<>> /\ ~Waiting(t, w)
         /\ \A p \in Procs : ~AtWork(p)
         /\ ~AfterWork /\ pc[Master] = "next"
<1>1. /\ pc[Master] = "next" /\ \A w \in Workers : pc[w] = "request"
      /\ DOMAIN pc = Procs
  BY ProcFacts DEF Init
<1>2. LocationsOK
  BY <1>1 DEF LocationsOK, MasterLocations, WorkerLocations
<1>3. \A t \in Tags, w \in Workers : channel[t][w] = <<>> /\ ~Waiting(t, w)
  BY DEF Init, Waiting
<1>4. ChannelsOK
  <2>1. DOMAIN channel = Tags
    BY DEF Init
  <2>2. \A t \in Tags : channel[t] \in [Workers -> Seq(MessagesOf(t))]
    <3>1. \A t \in Tags : <<>> \in Seq(MessagesOf(t))
      OBVIOUS
    <3>2. \A t \in Tags : channel[t] = [w \in Workers |-> <<>>]
      BY DEF Init
    <3> QED BY <3>1, <3>2
  <2>3. \A w \in Workers : Len(channel[InterruptOrders][w]) <= MaxOrders
    <3>1. \A w \in Workers : channel[InterruptOrders][w] = <<>>
      BY <1>3, TagFacts
    <3> QED BY <3>1, BoundsAssumption
  <2> QED BY <2>1, <2>2, <2>3 DEF ChannelsOK
<1>5. BookTypes
  <2>1. CommSize \in Int
    BY ProcsFinite
  <2>2. 0 \in 0 .. NumTotalRuns
    BY NumTotalRunsAssumption
  <2> QED BY <2>1, <2>2 DEF Init, BookTypes
<1>6. ReportTypes /\ CheckTypes
  <2>1. 0 \in 0 .. CommSize
    BY ProcsFinite
  <2>2. 0 \in 0 .. MaxUserRequests /\ 0 \in 0 .. 0
    BY BoundsAssumption
  <2>3. CheckTypes
    BY <2>1 DEF Init, CheckTypes
  <2>4. ReportTypes
    BY <2>2 DEF Init, ReportTypes
  <2> QED BY <2>3, <2>4
<1>7. ProcessTypes
  BY <1>2 DEF Init, ProcessTypes
<1>8. /\ \A p \in Procs : ~AtWork(p)
      /\ ~AfterWork
  <2>1. ~InCheck
    <3>1. "next" \notin Phases
      BY PhaseFacts, TagFacts, TagsDiffer
    <3> QED BY <1>1, <3>1 DEF InCheck
  <2> QED BY <1>1, <2>1, ProcFacts DEF AtWork, AfterWork, Procs
<1> QED BY <1>1, <1>3, <1>4, <1>5, <1>6, <1>7, <1>8 DEF Types

LEMMA TypesSuffice ==
  ASSUME Types, StoredCounted, PresentCounted, ReportsCounted
  PROVE  TypeOK
<1>1. num_tasks_completed \in 0 .. NumTotalRuns
  <2>1. Stored \subseteq Tasks
    BY DEF Stored
  <2>2. /\ Cardinality(Stored) \in Nat /\ Cardinality(Stored) <= NumTotalRuns
    BY <2>1, TasksFinite, FS_Subset
  <2> QED BY <2>2, NumTotalRunsAssumption DEF StoredCounted
<1>2. num_workers_running \in 0 .. CommSize
  BY PresentFacts, ProcsFinite DEF PresentCounted
<1>3. num_reports_waiting \in 0 .. CommSize
  <2>1. Reporting \subseteq Procs
    BY ProcFacts DEF Reporting
  <2>2. Cardinality(Reporting) \in 0 .. CommSize /\ 0 \in 0 .. CommSize
    BY <2>1, ProcsFinite
  <2> QED BY <2>2 DEF ReportsCounted
<1> QED BY <1>1, <1>2, <1>3
        DEF Types, BookTypes, ReportTypes, CheckTypes, ProcessTypes, TypeOK

LEMMA InductiveInit ==
  ASSUME Init
  PROVE  Inductive
<1> USE InitTypes
<1>1. MasterControl /\ MasterLeavesLast
  BY TagFacts, ProcFacts DEF Init, MasterControl, MasterLeavesLast
<1>2. FarewellOnce /\ RequestReply
  <2>1. \A w \in Workers : /\ channel[Farewells][w] = <<>>
                           /\ channel[Requests][w] = <<>>
                           /\ channel[Deliveries][w] = <<>>
                           /\ ~Waiting(Farewells, w)
    BY TagFacts
  <2>2. \A w \in Workers : pc[w] = "request"
    BY ProcFacts DEF Init
  <2>3. Len(<<>>) = 0
    OBVIOUS
  <2>4. RequestReply
    <3>1. \A w \in Workers : /\ Len(channel[Requests][w]) = 0
                             /\ Len(channel[Deliveries][w]) = 0
      BY <2>1, <2>3, Zenon
    <3>2. ASSUME NEW w \in Workers
          PROVE  Len(channel[Requests][w]) + Len(channel[Deliveries][w])
                   = IF pc[w] = "await" THEN 1 ELSE 0
      <4> DEFINE m == Len(channel[Requests][w])
                 n == Len(channel[Deliveries][w])
      <4>1. m = 0 /\ n = 0 /\ pc[w] # "await"
        BY <2>2, <3>1
      <4> HIDE DEF m, n
      <4>2. m + n = IF pc[w] = "await" THEN 1 ELSE 0
        BY <4>1
      <4> USE DEF m, n
      <4> QED BY <4>2, Zenon
    <3> QED BY <3>2, Zenon DEF RequestReply
  <2>5. FarewellOnce
    BY <2>1, <2>3 DEF FarewellOnce
  <2> QED BY <2>4, <2>5
<1>3. PresentCounted
  <2>1. Present = Procs
    BY ProcFacts DEF Init, Present, Procs
  <2> QED BY <2>1 DEF Init, PresentCounted, CommSize
<1>4. WorkHasTask
  BY DEF WorkHasTask
<1>5. Stored = {}
  BY DEF Init, Stored
<1>6. HeldOnce /\ HeldIsPending /\ StoredWereLaunched
  <2>1. ASSUME NEW kind \in Kinds, NEW p \in Procs, NEW k \in Tasks, NEW i \in Nat
        PROVE  ~Holds(kind, p, i, k)
    <3>1. \A w \in Workers : /\ channel[Deliveries][w] = <<>>
                             /\ channel[Results][w] = <<>>
      BY TagFacts
    <3>2. i \notin DOMAIN <<>>
      OBVIOUS
    <3>3. ~AtWork(p)
      OBVIOUS
    <3>4. ~Holds("work", p, i, k)
      BY <3>3, HoldsAt
    <3>5. ~Holds(Deliveries, p, i, k)
      BY <3>1, <3>2, HoldsAt, Zenon
    <3>6. ~Holds(Results, p, i, k)
      BY <3>1, <3>2, HoldsAt, Zenon
    <3> QED BY <3>4, <3>5, <3>6 DEF Kinds
  <2> QED BY <1>5, <2>1 DEF HeldOnce, HeldIsPending, StoredWereLaunched
<1>7. PendingIsHeld
  <2>1. 0 .. (num_tasks_launched - 1) = {}
    BY DEF Init
  <2> QED BY <2>1 DEF PendingIsHeld
<1>8. StoredCounted
  BY <1>5, FS_EmptySet DEF Init, StoredCounted
<1>9. OneReport /\ ReportsCounted
  <2>1. \A w \in Workers : ReportsOf(w) = 0
    <3>1. \A w \in Workers : /\ channel[ReportOrders][w] = <<>>
                             /\ channel[Reports][w] = <<>>
                             /\ channel[IdleReports][w] = <<>>
      BY TagFacts
    <3>2. Len(<<>>) = 0
      OBVIOUS
    <3>3. \A w \in Workers : /\ Len(channel[ReportOrders][w]) = 0
                             /\ Len(channel[Reports][w]) = 0
                             /\ Len(channel[IdleReports][w]) = 0
      BY <3>1, <3>2, Zenon
    <3>4. ASSUME NEW w \in Workers PROVE ReportsOf(w) = 0
      <4> DEFINE k == Len(channel[ReportOrders][w])
                 m == Len(channel[Reports][w])
                 n == Len(channel[IdleReports][w])
      <4>1. k = 0 /\ m = 0 /\ n = 0
        BY <3>3
      <4> HIDE DEF k, m, n
      <4>2. k + m + n = 0
        BY <4>1
      <4> USE DEF k, m, n
      <4> QED BY <4>2, Zenon DEF ReportsOf
    <3> QED BY <3>4, Zenon
  <2>2. Reporting = {}
    BY <2>1 DEF Init, Reporting
  <2> QED BY <2>1, <2>2 DEF Init, OneReport, ReportsCounted
<1>10. NobodyFails /\ CrashIsInterrupted
  BY ProcFacts DEF Init, NobodyFails, CrashIsInterrupted
<1>11. OutBounded
  <2>1. Out = {}
    BY DEF Init, Out, Tasks
  <2>2. Cardinality(Out) = 0
    BY <2>1, FS_EmptySet
  <2>3. PassDebt = 0
    BY TagsDiffer, TagFacts, PhaseFacts DEF PassDebt
  <2> QED BY <2>2, <2>3, ServedFinite DEF OutBounded
<1>12. OnlyResults
  <2>1. \A w \in Workers : channel[Results][w] = <<>>
    BY TagFacts
  <2> QED BY <1>5, <2>1 DEF Init, OnlyResults
<1>13. Types
  OBVIOUS
<1> QED BY <1>1, <1>2, <1>3, <1>4, <1>6, <1>7, <1>8, <1>9, <1>10, <1>11, <1>12, <1>13
        DEF Inductive, TasksInPlace

LEMMA InductiveStep ==
  ASSUME Inductive, [Next]_vars
  PROVE  Inductive'
<1> USE DEF Inductive
<1>1. Types'
  BY TypesStep
<1>2. WorkHasTask' /\ MasterControl' /\ RequestReply' /\ FarewellOnce'
  BY <1>1, WorkHasTaskStep, MasterControlStep, RequestReplyStep, FarewellOnceStep
<1>3. PresentCounted' /\ MasterLeavesLast'
  BY <1>1, PresentCountedStep, MasterLeavesLastStep
<1>4. OneReport' /\ ReportsCounted'
  BY <1>1, OneReportStep, ReportsCountedStep
<1>5. TasksInPlace'
  BY <1>1, TasksInPlaceStep
<1>6. NobodyFails' /\ OnlyResults' /\ CrashIsInterrupted'
  BY NobodyFailsStep, OnlyResultsStep, CrashIsInterruptedStep
<1>7. OutBounded'
  BY <1>1, OutBoundedStep
<1> QED BY <1>1, <1>2, <1>3, <1>4, <1>5, <1>6, <1>7

LEMMA InductiveSuffices ==
  ASSUME Inductive
  PROVE  IInv
<1>1. TypeOK
  BY TypesSuffice DEF Inductive, TasksInPlace
<1> QED BY <1>1 DEF Inductive, TasksInPlace, IInv

LEMMA AlwaysInductive == Spec => []Inductive
<1>1. Init => Inductive
  BY InductiveInit
<1>2. Inductive /\ [Next]_vars => Inductive'
  BY InductiveStep
<1> QED BY <1>1, <1>2, PTL DEF Spec

\* IInv is an invariant of the dispatcher.
THEOREM Invariance == Spec => []IInv
<1>1. Inductive => IInv
  BY InductiveSuffices
<1> QED BY <1>1, AlwaysInductive, PTL

\* Every variable of the dispatcher has its type in every state of run().
THEOREM TypeCorrect == Spec => []TypeOK
<1>1. IInv => TypeOK
  BY DEF IInv
<1> QED BY <1>1, Invariance, PTL

\* A task number is in one place at a time, and is lost only to an interrupt:
\* no task runs twice, and none is forgotten.
THEOREM TasksInOnePlace == Spec => []EachTaskInOnePlace
<1>1. Inductive => EachTaskInOnePlace
  BY InPlaceIsOnePlace DEF Inductive
<1> QED BY <1>1, AlwaysInductive, PTL

\* A worker has one request or answer under way while it waits for a task, and
\* none at any other time.
THEOREM RequestsMatchReplies == Spec => []RequestReply
<1>1. IInv => RequestReply
  BY DEF IInv
<1> QED BY <1>1, Invariance, PTL

\* The master counts down exactly the reports that are outstanding.
THEOREM ReportsAccounted == Spec => []ReportAccounting
<1>1. Inductive => ReportAccounting
  BY ReportsAreOutstanding DEF Inductive
<1> QED BY <1>1, AlwaysInductive, PTL

\* run() ends on the master after all workers have gone.
THEOREM MasterIsLast == Spec => []MasterLeavesLast
<1>1. IInv => MasterLeavesLast
  BY DEF IInv
<1> QED BY <1>1, Invariance, PTL

\* As long as no task fails and nobody has interrupted the run, the bound on
\* the messages that a pass takes of each tag leaves no result behind, and the
\* master never reads the result of a task that is not there.
THEOREM CrashNeedsInterrupt == Spec => []CrashIsInterrupted
<1>1. IInv => CrashIsInterrupted
  BY DEF IInv
<1> QED BY <1>1, Invariance, PTL

-----------------------------------------------------------------------------
\* The refinement: without failures and interrupts the dispatcher keeps the
\* promises of the interface.

LEMMA ContractInit ==
  ASSUME Init
  PROVE  Contract!Init
<1>1. 0 .. (num_tasks_launched - 1) = {}
  BY DEF Init
<1>2. {k \in Tasks : full_task_results[k] = "ok"} = {}
  BY DEF Init
<1> QED BY <1>1, <1>2 DEF Init, Contract!Init

LEMMA ContractStutter ==
  ASSUME UNCHANGED <<num_tasks_launched, full_task_results, interrupt_requested, outcome>>
  PROVE  UNCHANGED Contract!vars
BY DEF Contract!vars

LEMMA ContractStart ==
  ASSUME Inductive, GetNewTaskId(Master) \/ \E w \in Workers : GetNewTaskId(w),
         pc[Master] # "done", UNCHANGED <<full_task_results, interrupt_requested, outcome>>
  PROVE  [Contract!Next]_(Contract!vars)
<1>1. num_tasks_launched \in 0 .. NumTotalRuns /\ outcome = "none"
  BY DEF Inductive, Types, BookTypes, MasterControl
<1>2. CASE NewTask >= 0
  <2>1. num_tasks_launched \in Tasks /\ num_tasks_launched' = num_tasks_launched + 1
    BY <1>1, <1>2, NewTaskFacts DEF GetNewTaskId
  <2>2. 0 .. (num_tasks_launched' - 1)
          = (0 .. (num_tasks_launched - 1)) \cup {num_tasks_launched}
    BY <1>1, <2>1
  <2>3. num_tasks_launched \notin 0 .. (num_tasks_launched - 1)
    BY <1>1
  <2>4. Contract!Start(num_tasks_launched)
    BY <1>1, <2>2, <2>3 DEF Contract!Start
  <2> QED BY <2>1, <2>4 DEF Contract!Next
<1>3. CASE ~(NewTask >= 0)
  <2>1. UNCHANGED num_tasks_launched
    BY <1>3 DEF GetNewTaskId
  <2> QED BY <2>1, ContractStutter
<1> QED BY <1>2, <1>3

LEMMA ContractDeliver ==
  ASSUME Inductive, NEW k \in Tasks, NEW kind \in Kinds, NEW p \in Procs,
         Holds(kind, p, 1, k), pc[Master] # "done",
         full_task_results' = [full_task_results EXCEPT ![k] = "ok"],
         UNCHANGED <<num_tasks_launched, interrupt_requested, outcome>>
  PROVE  [Contract!Next]_(Contract!vars)
<1>1. /\ outcome = "none"
      /\ full_task_results \in [Tasks -> {"none", "ok", "error", "null"}]
      /\ num_tasks_launched \in 0 .. NumTotalRuns
  BY DEF Inductive, Types, BookTypes, MasterControl
<1>2. k < num_tasks_launched /\ full_task_results[k] = "none"
  BY DEF Inductive, TasksInPlace, HeldIsPending
<1>3. k \in 0 .. (num_tasks_launched - 1)
  BY <1>1, <1>2, NumTotalRunsAssumption DEF Tasks
<1>4. {j \in Tasks : full_task_results'[j] = "ok"}
        = {j \in Tasks : full_task_results[j] = "ok"} \cup {k}
  BY <1>1
<1>5. Contract!Deliver(k)
  BY <1>1, <1>2, <1>3, <1>4 DEF Contract!Deliver
<1> QED BY <1>5 DEF Contract!Next

LEMMA ContractStep ==
  ASSUME ~MayFail, ~MayInterrupt, Inductive, [Next]_vars
  PROVE  [Contract!Next]_(Contract!vars)
<1>0. /\ ~interrupt_requested /\ ~interrupt_requested'
      /\ interrupt_requested' = interrupt_requested
  <2>1. OnlyResults'
    BY OnlyResultsStep DEF Inductive
  <2>2. interrupt_requested \in BOOLEAN /\ interrupt_requested' \in BOOLEAN
    BY TypesStep DEF Inductive, Types, BookTypes
  <2> QED BY <2>1, <2>2 DEF Inductive, OnlyResults
<1>s. ASSUME UNCHANGED <<num_tasks_launched, full_task_results>>,
             outcome' = outcome
      PROVE  UNCHANGED Contract!vars
  BY <1>0, <1>s, ContractStutter
<1>t. Types /\ LocationsOK /\ ChannelsOK
  BY DEF Inductive, Types, ProcessTypes
<1>k. "work" \in Kinds /\ Results \in Kinds
  BY DEF Kinds
<1>1. CASE MasterNext
  <2>1. pc[Master] = "next"
    BY <1>1, <1>t, MasterFlow
  <2>2. /\ GetNewTaskId(Master) /\ UNCHANGED <<full_task_results, outcome>>
    BY <1>1 DEF MasterNext
  <2> QED BY <1>0, <2>1, <2>2, ContractStart
<1>2. ASSUME NEW w \in Workers, TreatRequest(w) PROVE [Contract!Next]_(Contract!vars)
  <2>1. pc[Master] = Requests
    BY <1>2 DEF TreatRequest, Receive
  <2>2. GetNewTaskId(w) /\ UNCHANGED <<full_task_results, outcome>>
    BY <1>2 DEF TreatRequest, Receive
  <2>3. pc[Master] # "done"
    BY <2>1, TagFacts, TagsDiffer
  <2> QED BY <1>0, <2>2, <2>3, ContractStart
<1>3. ASSUME NEW w \in Workers, TreatResult(w) PROVE [Contract!Next]_(Contract!vars)
  <2> DEFINE m == Head(channel[Results][w])
  <2>1. /\ pc[Master] = Results /\ Waiting(Results, w)
        /\ StoreTaskResult(w, m.task, m.how)
        /\ UNCHANGED <<num_tasks_launched, outcome>>
    BY <1>3 DEF TreatResult, Receive
  <2>2. pc[Master] # "done"
    BY <2>1, TagFacts, TagsDiffer
  <2>3. /\ 1 \in DOMAIN channel[Results][w] /\ m = channel[Results][w][1]
        /\ m \in MessagesOf(Results)
    BY <1>t, <2>1, QueueFacts, TagFacts
  <2>4. m.task \in Tasks
    BY <2>3, TagFacts
  <2>5. m.how = "ok"
    BY <2>3 DEF Inductive, OnlyResults
  <2>6. Holds(Results, w, 1, m.task)
    BY <2>3, <2>4, HoldsAt, ProcFacts
  <2>7. full_task_results' = [full_task_results EXCEPT ![m.task] = "ok"]
    BY <2>1, <2>5 DEF StoreTaskResult
  <2> HIDE DEF m
  <2> QED BY <1>0, <1>k, <2>1, <2>2, <2>4, <2>6, <2>7, ProcFacts, ContractDeliver
<1>4. CASE MasterFinishTask
  <2>1. /\ pc[Master] = "task"
        /\ StoreTaskResult(Master, task_id[Master], "ok")
        /\ UNCHANGED <<num_tasks_launched, outcome>>
    BY <1>4 DEF MasterFinishTask, Transition
  <2>2. AtWork(Master)
    BY <2>1 DEF AtWork
  <2>3. task_id[Master] \in Tasks
    BY <2>2, ProcFacts DEF Inductive, WorkHasTask
  <2>4. Holds("work", Master, 1, task_id[Master])
    BY <2>2, <2>3, HoldsAt, ProcFacts
  <2>5. full_task_results' = [full_task_results EXCEPT ![task_id[Master]] = "ok"]
    BY <2>1 DEF StoreTaskResult
  <2> QED BY <1>0, <1>k, <2>1, <2>3, <2>4, <2>5, ProcFacts, ContractDeliver
<1>5. CASE MasterWait /\ ~OthersRunning
  <2>1. /\ \A k \in Tasks : full_task_results[k] # "none"
        /\ outcome' = "ok"
    BY <1>0, <1>5, AllAreStored DEF Inductive
  <2>2. {k \in Tasks : full_task_results[k] = "ok"} = Tasks
    BY <2>1 DEF Inductive, OnlyResults, Stored
  <2>3. outcome = "none"
    BY <1>5, <1>t, MasterFlow DEF Inductive, MasterControl
  <2>4. UNCHANGED <<num_tasks_launched, full_task_results>>
    BY <1>5 DEF MasterWait, controller
  <2>5. Contract!End("ok")
    BY <1>0, <2>1, <2>2, <2>3, <2>4 DEF Contract!End
  <2> QED BY <2>5 DEF Contract!Next, Contract!Outcomes
<1>6. CASE \/ MasterPoll \/ MasterCheckQuiet \/ NextPhase \/ EndCheck
           \/ MasterWait /\ OthersRunning
  BY <1>6, <1>s DEF MasterPoll, MasterCheckQuiet, NextPhase, EndCheck, MasterWait,
     controller
<1>7. ASSUME NEW w \in Workers, TreatReport(w) \/ TreatFarewell(w)
      PROVE  UNCHANGED Contract!vars
  BY <1>7, <1>s DEF TreatReport, TreatFarewell, Receive, controller
<1>8. CASE MasterCheckInterrupted
  BY <1>0, <1>8 DEF MasterCheckInterrupted
<1>9. ASSUME NEW w \in Workers, WorkerAction(w) PROVE UNCHANGED Contract!vars
  <2>1. WorkerKeeps
    BY <1>9, <1>t, WorkerMove DEF WorkerAction
  <2> QED BY <1>s, <2>1 DEF WorkerKeeps, controller
<1>10. CASE CallerAction
  BY <1>10, <1>s DEF CallerAction, RequestStatusReport, RequestInterrupt, vars, controller
<1> QED BY <1>1, <1>2, <1>3, <1>4, <1>5, <1>6, <1>7, <1>8, <1>9, <1>10, ActionCases
        DEF MasterAction

\* The dispatcher on MPI processes implements the contract of the interface, if
\* no task fails and nobody interrupts.
THEOREM Refinement ==
  ASSUME ~MayFail, ~MayInterrupt
  PROVE  Spec => ImplementsContract
<1>1. Init => Contract!Init
  BY ContractInit
<1>2. Inductive /\ [Next]_vars => [Contract!Next]_(Contract!vars)
  BY ContractStep
<1> QED BY <1>1, <1>2, AlwaysInductive, PTL DEF Spec, ImplementsContract, Contract!Spec

=============================================================================
