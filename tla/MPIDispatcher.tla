---------------------------- MODULE MPIDispatcher ----------------------------
(***************************************************************************)
(* The task dispatcher on MPI processes, mpi/multiprocmpi.h.  Process 0,   *)
(* the master, works on tasks like every other process; whenever its task  *)
(* polls, and after its own work is done, it answers the messages of the   *)
(* workers.  Workers ask for tasks, send in results and status reports and *)
(* say goodbye; the master delivers task numbers and orders reports and    *)
(* interrupts.                                                             *)
(*                                                                         *)
(* Messages of one sender arrive in the order they were sent; a probe for  *)
(* a tag sees any message of that tag which has arrived.  A late arrival is *)
(* a late send, as a sender shows itself in no other way, so a message     *)
(* arrives with its send.  Sends do not block.                             *)
(*                                                                         *)
(* One step of a process goes from one probe, send or look at a flag of a  *)
(* signal handler to the next; everything in between is local to the       *)
(* process.                                                                *)
(*                                                                         *)
(* run() is modelled up to the end of the first run, from the broadcasts   *)
(* on; the status report callback does not throw.  As in ThreadCommon, a   *)
(* faulty twin of an operator stands just before it.                       *)
(***************************************************************************)
EXTENDS Integers, Sequences, FiniteSets

CONSTANTS
  Workers,           \* the processes other than the master
  Master,
  NumTotalRuns,      \* ctrl.num_total_runs
  MaxUserRequests,   \* bound on calls of requestStatusReport()
  MaxOrders,         \* interrupt orders that one worker can have waiting
  Periodic,          \* whether status reports are due periodically
  MayInterrupt,      \* whether requestInterrupt() may be called
  MayFail            \* whether a task may throw

ASSUME ProcsAssumption == IsFiniteSet(Workers) /\ Master \notin Workers
ASSUME NumTotalRunsAssumption == NumTotalRuns \in Nat
ASSUME BoundsAssumption == MaxUserRequests \in Nat /\ MaxOrders \in Nat \ {0}
ASSUME TogglesAssumption == {Periodic, MayInterrupt, MayFail} \subseteq BOOLEAN

Procs == Workers \cup {Master}
CommSize == Cardinality(Procs)
Tasks == 0 .. (NumTotalRuns - 1)

\* message tags
Requests == "WORKER_REQUEST_NEW_TASK_ID"
Deliveries == "MASTER_DELIVER_NEW_TASK_ID"
InterruptOrders == "MASTER_ORDER_INTERRUPT"
ReportOrders == "MASTER_ORDER_STATUS_REPORT"
Reports == "WORKER_SUBMIT_STATUS_REPORT"
IdleReports == "WORKER_SUBMIT_IDLE_STATUS_REPORT"
Results == "WORKER_SUBMIT_RESULT"
Farewells == "WORKER_HELL_YEAH_IM_OUTTA_HERE"

Tags == {Requests, Deliveries, InterruptOrders, ReportOrders, Reports,
         IdleReports, Results, Farewells}

VARIABLES
  \* MasterWorkersController
  num_tasks_completed,
  num_tasks_launched,
  num_workers_running,
  workers_running,         \* processes flagged in the vector of that name
  interrupt_requested,
  full_task_results,       \* "none", or how the task ended: with a result
                           \* ("ok"), an error message ("error"), or neither
                           \* ("null")
  \* MasterStatusReportController
  event_counter,
  reacted_event_counter,
  in_preparation,
  num_reports_waiting,
  \* the network: messages to or from each worker, by tag
  channel,
  \* where each process is
  pc,
  task_id,
  interrupted,             \* run() of the process has caught interrupt_tasks
  check_from,              \* where the master's check was called from
  requested,               \* status_report_requested of that check
  budget,                  \* n: messages of a tag it may still receive
  outcome                  \* how run() ended on the master

controller == <<num_tasks_completed, num_tasks_launched, num_workers_running,
                workers_running, full_task_results>>
report == <<event_counter, reacted_event_counter, in_preparation,
            num_reports_waiting>>
check == <<check_from, requested, budget>>

vars == <<controller, interrupt_requested, report, channel, pc, task_id,
          interrupted, check, outcome>>

Init ==
  /\ num_tasks_completed = 0
  /\ num_tasks_launched = 0
  /\ num_workers_running = CommSize
  /\ workers_running = {}
  /\ interrupt_requested = FALSE
  /\ full_task_results = [k \in Tasks |-> "none"]
  /\ event_counter = 0
  /\ reacted_event_counter = 0
  /\ in_preparation = FALSE
  /\ num_reports_waiting = 0
  /\ channel = [tag \in Tags |-> [w \in Workers |-> <<>>]]
  /\ pc = [p \in Procs |-> IF p = Master THEN "next" ELSE "request"]
  /\ task_id = [p \in Procs |-> -1]
  /\ interrupted = [p \in Procs |-> FALSE]
  /\ check_from = "before"
  /\ requested = FALSE
  /\ budget = 0
  /\ outcome = "none"

Transition(p, from, to) ==
  /\ pc[p] = from
  /\ pc' = [pc EXCEPT ![p] = to]

Waiting(tag, w) == channel[tag][w] # <<>>

Signal == "signal"

\* the channels after w has received from one tag and sent by another
Received(tag, w) == [channel EXCEPT ![tag][w] = Tail(@)]
Sent(tag, w, m) == [channel EXCEPT ![tag][w] = Append(@, m)]
Answered(tag, answer, w, m) ==
  [channel EXCEPT ![tag][w] = Tail(@), ![answer][w] = Append(@, m)]

-----------------------------------------------------------------------------
\* The master's books

\* pop_task()
NewTask == IF num_tasks_launched >= NumTotalRuns THEN -1 ELSE num_tasks_launched

GetNewTaskIdUncounted(p) ==
  /\ workers_running' = IF NewTask >= 0 THEN workers_running \cup {p}
                        ELSE workers_running
  /\ num_tasks_launched' \in {num_tasks_launched,
                              IF NewTask >= 0 THEN NewTask + 1 ELSE num_tasks_launched}

\* master_get_new_task_id(p)
GetNewTaskId(p) ==
  IF NewTask >= 0
  THEN /\ num_tasks_launched' = num_tasks_launched + 1
       /\ workers_running' = workers_running \cup {p}
  ELSE UNCHANGED <<num_tasks_launched, workers_running>>

\* master_store_task_result(): p ended task k in the given way
StoreTaskResult(p, k, how) ==
  /\ full_task_results' = [full_task_results EXCEPT ![k] = how]
  /\ num_tasks_completed' = num_tasks_completed + 1
  /\ workers_running' = workers_running \ {p}
  /\ interrupt_requested' = (interrupt_requested \/ how = "error")

OneReportLess == num_reports_waiting - 1

\* master_handle_incoming_worker_status_report(): the last report expected
\* sends off the full report and resets the controller
HandleReport ==
  /\ num_reports_waiting' = IF OneReportLess <= 0 THEN 0 ELSE OneReportLess
  /\ in_preparation' = (OneReportLess > 0)
  /\ UNCHANGED <<event_counter, reacted_event_counter>>

ReportsExpectedOfAll == CommSize

\* one report of every process flagged as running, the master included
ReportsExpected == Cardinality(workers_running)

\* master_initiate_status_report(), no report being in preparation
InitiateReport ==
  /\ in_preparation' = TRUE
  /\ num_reports_waiting' = ReportsExpected
  /\ channel' = [channel EXCEPT ![ReportOrders] =
       [w \in Workers |-> IF w \in workers_running THEN Append(@[w], Signal)
                          ELSE @[w]]]

\* master_order_interrupt(); orders beyond those a worker can react to are
\* not kept
OrderInterrupt ==
  channel' = [channel EXCEPT ![InterruptOrders] =
    [w \in Workers |-> IF w \in workers_running /\ Len(@[w]) < MaxOrders
                       THEN Append(@[w], Signal)
                       ELSE @[w]]]

-----------------------------------------------------------------------------
\* The master's own work

MasterNext ==
  /\ GetNewTaskId(Master)
  /\ IF NewTask >= 0
     THEN /\ Transition(Master, "next", "check")
          /\ task_id' = [task_id EXCEPT ![Master] = NewTask]
          /\ check_from' = "before"
          /\ UNCHANGED num_workers_running
     ELSE /\ Transition(Master, "next", "wait")
          /\ num_workers_running' = num_workers_running - 1
          /\ UNCHANGED <<task_id, check_from>>
  /\ UNCHANGED <<num_tasks_completed, full_task_results, interrupt_requested,
                 report, channel, interrupted, requested, budget, outcome>>

\* the task calls statusReportRequested(), and enough time has passed since
\* the last probe
MasterPoll ==
  /\ Transition(Master, "task", "check")
  /\ check_from' = "task"
  /\ UNCHANGED <<controller, interrupt_requested, report, channel, task_id,
                 interrupted, requested, budget, outcome>>

\* run_worker() ends by an exception
MasterLeaves ==
  /\ interrupted' = [interrupted EXCEPT ![Master] = TRUE]
  /\ num_workers_running' = num_workers_running - 1

MasterFinishTask ==
  /\ \/ /\ Transition(Master, "task", "next")
        /\ StoreTaskResult(Master, task_id[Master], "ok")
        /\ UNCHANGED <<interrupted, num_workers_running>>
     \/ /\ MayFail
        /\ Transition(Master, "task", "wait")
        /\ StoreTaskResult(Master, task_id[Master], "error")
        /\ MasterLeaves
  /\ UNCHANGED <<num_tasks_launched, report, channel, task_id, check, outcome>>

OthersRunningOffByOne == num_workers_running > 1

OthersRunning == num_workers_running # 0

\* the loop that waits for the other processes, and the loop over the results,
\* which reads through the pointer of every task
MasterWait ==
  /\ IF OthersRunning
     THEN /\ Transition(Master, "wait", "check")
          /\ check_from' = "wait"
          /\ UNCHANGED outcome
     ELSE /\ Transition(Master, "wait", "done")
          /\ outcome' = IF \E k \in Tasks : full_task_results[k] = "none"
                        THEN "crash"
                        ELSE IF interrupted[Master] THEN "interrupted" ELSE "ok"
          /\ UNCHANGED check_from
  /\ UNCHANGED <<controller, interrupt_requested, report, channel, task_id,
                 interrupted, requested, budget>>

-----------------------------------------------------------------------------
\* check_mpi_messages_and_get_statusrequested() on the master

\* an interrupt is ordered and thrown; the task stores it as an error
MasterCheckInterrupted ==
  /\ interrupt_requested
  /\ OrderInterrupt
  /\ Transition(Master, "check", "wait")
  /\ \/ /\ check_from = "before"
        /\ MasterLeaves
        /\ UNCHANGED <<num_tasks_completed, workers_running, full_task_results,
                       interrupt_requested>>
     \/ /\ check_from = "task"
        /\ MasterLeaves
        /\ StoreTaskResult(Master, task_id[Master], "error")
     \/ /\ check_from = "wait"
        /\ UNCHANGED <<controller, interrupt_requested, interrupted>>
  /\ UNCHANGED <<num_tasks_launched, report, task_id, check, outcome>>

\* a new report is due: on the user's request, or else by the clock
UserRequestPending == ~in_preparation /\ event_counter # reacted_event_counter

MasterCheckQuiet ==
  /\ ~interrupt_requested
  /\ Transition(Master, "check", Requests)
  /\ budget' = CommSize
  /\ \/ /\ UserRequestPending \/ (Periodic /\ ~in_preparation)
        /\ InitiateReport
        /\ requested' = TRUE
        /\ reacted_event_counter' = IF UserRequestPending THEN event_counter
                                    ELSE reacted_event_counter
        /\ UNCHANGED <<interrupt_requested, event_counter>>
     \/ /\ ~UserRequestPending
        /\ requested' = FALSE
        /\ UNCHANGED <<interrupt_requested, report, channel>>
     \/ /\ MayInterrupt   \* raised between the two looks at the flag
        /\ interrupt_requested' = TRUE
        /\ requested' = FALSE
        /\ UNCHANGED <<report, channel>>
  /\ UNCHANGED <<controller, task_id, interrupted, check_from, outcome>>

\* master_regular_worker_monitoring(): the tags in turn, and of each tag at
\* most as many messages as there are processes
PhaseAfter ==
  [tag \in {Requests, Results, Reports, IdleReports} |->
     CASE tag = Requests -> Results
       [] tag = Results -> Reports
       [] tag = Reports -> IdleReports
       [] tag = IdleReports -> Farewells]

Phases == DOMAIN PhaseAfter \cup {Farewells}

Receive(tag, w) ==
  /\ pc[Master] = tag
  /\ budget > 0
  /\ Waiting(tag, w)
  /\ budget' = budget - 1
  /\ UNCHANGED <<pc, task_id, interrupted, check_from, requested, outcome>>

DeliveryOfTasksOnly(w) ==
  IF NewTask >= 0 THEN Answered(Requests, Deliveries, w, NewTask)
  ELSE Received(Requests, w)

\* a new task number, or -1 if there is none left
Delivery(w) == Answered(Requests, Deliveries, w, NewTask)

TreatRequest(w) ==
  /\ Receive(Requests, w)
  /\ channel' = Delivery(w)
  /\ GetNewTaskId(w)
  /\ UNCHANGED <<num_tasks_completed, num_workers_running, full_task_results,
                 interrupt_requested, report>>

TreatResult(w) ==
  /\ Receive(Results, w)
  /\ channel' = Received(Results, w)
  /\ LET m == Head(channel[Results][w]) IN StoreTaskResult(w, m.task, m.how)
  /\ UNCHANGED <<num_tasks_launched, num_workers_running, report>>

TreatReport(w) ==
  /\ \E tag \in {Reports, IdleReports} :
       /\ Receive(tag, w)
       /\ channel' = Received(tag, w)
  /\ HandleReport
  /\ UNCHANGED <<controller, interrupt_requested>>

TreatFarewell(w) ==
  /\ Receive(Farewells, w)
  /\ channel' = Received(Farewells, w)
  /\ num_workers_running' = num_workers_running - 1
  /\ UNCHANGED <<num_tasks_completed, num_tasks_launched, workers_running,
                 full_task_results, interrupt_requested, report>>

NothingToReceive(tag) == budget = 0 \/ \A w \in Workers : ~Waiting(tag, w)

NextPhase ==
  /\ \E tag \in DOMAIN PhaseAfter :
       /\ NothingToReceive(tag)
       /\ Transition(Master, tag, PhaseAfter[tag])
  /\ budget' = CommSize
  /\ UNCHANGED <<controller, interrupt_requested, report, channel, task_id,
                 interrupted, check_from, requested, outcome>>

\* back to the caller: run_worker() answers with an idle report, a task with
\* its own report, and the waiting loop not at all
EndCheck ==
  /\ NothingToReceive(Farewells)
  /\ Transition(Master, Farewells, IF check_from = "wait" THEN "wait" ELSE "task")
  /\ IF requested /\ check_from # "wait" THEN HandleReport ELSE UNCHANGED report
  /\ UNCHANGED <<controller, interrupt_requested, channel, task_id, interrupted,
                 check, outcome>>

-----------------------------------------------------------------------------
\* The workers

WorkerKeeps == UNCHANGED <<controller, interrupt_requested, report, check, outcome>>

WorkerRequest(w) ==
  /\ Transition(w, "request", "await")
  /\ channel' = Sent(Requests, w, Signal)
  /\ UNCHANGED <<task_id, interrupted>>
  /\ WorkerKeeps

WorkerReceiveTask(w) ==
  /\ Waiting(Deliveries, w)
  /\ LET k == Head(channel[Deliveries][w]) IN
       /\ Transition(w, "await", IF k < 0 THEN "leave" ELSE "before")
       /\ task_id' = [task_id EXCEPT ![w] = k]
  /\ channel' = Received(Deliveries, w)
  /\ UNCHANGED interrupted
  /\ WorkerKeeps

\* the check of a worker probes for an interrupt order, then for a report
\* order; its callers, and where they go on
Callers == {"before", "task", "sent", "failed"}

ReportProbe(from) ==
  CASE from = "before" -> "before_report"
    [] from = "task" -> "task_report"
    [] from = "sent" -> "sent_report"
    [] from = "failed" -> "failed_report"

AfterCheck(from) ==
  CASE from = "before" -> "task"
    [] from = "task" -> "task"
    [] from = "sent" -> "request"
    [] from = "failed" -> "farewell"

Result(w, how) == [task |-> task_id[w], how |-> how]

\* an order makes a task send in no result and no error message, and any other
\* caller leave
WorkerProbeInterrupt(w) ==
  /\ \E from \in Callers :
       \/ /\ ~Waiting(InterruptOrders, w)
          /\ Transition(w, from, ReportProbe(from))
          /\ UNCHANGED <<channel, interrupted>>
       \/ /\ Waiting(InterruptOrders, w)
          /\ from = "task"
          /\ Transition(w, from, "sent")
          /\ channel' = Answered(InterruptOrders, Results, w, Result(w, "null"))
          /\ UNCHANGED interrupted
       \/ /\ Waiting(InterruptOrders, w)
          /\ from # "task"
          /\ Transition(w, from, "farewell")
          /\ channel' = Received(InterruptOrders, w)
          /\ interrupted' = [interrupted EXCEPT ![w] = TRUE]
  /\ UNCHANGED task_id
  /\ WorkerKeeps

WorkerProbeReport(w) ==
  /\ \E from \in Callers :
       /\ Transition(w, ReportProbe(from), AfterCheck(from))
       /\ IF Waiting(ReportOrders, w)
          THEN channel' = Answered(ReportOrders,
                                   IF from = "task" THEN Reports ELSE IdleReports,
                                   w, Signal)
          ELSE UNCHANGED channel
       /\ interrupted' = [interrupted EXCEPT ![w] = @ \/ from = "failed"]
  /\ UNCHANGED task_id
  /\ WorkerKeeps

WorkerFinishTask(w) ==
  /\ \/ /\ Transition(w, "task", "sent")
        /\ channel' = Sent(Results, w, Result(w, "ok"))
     \/ /\ MayFail
        /\ Transition(w, "task", "failed")
        /\ channel' = Sent(Results, w, Result(w, "error"))
  /\ UNCHANGED <<task_id, interrupted>>
  /\ WorkerKeeps

\* without any more tasks, a last look for an interrupt order
WorkerLeave(w) ==
  /\ Transition(w, "leave", "farewell")
  /\ IF Waiting(InterruptOrders, w)
     THEN /\ channel' = Received(InterruptOrders, w)
          /\ interrupted' = [interrupted EXCEPT ![w] = TRUE]
     ELSE UNCHANGED <<channel, interrupted>>
  /\ UNCHANGED task_id
  /\ WorkerKeeps

WorkerFarewell(w) ==
  /\ Transition(w, "farewell", "done")
  /\ channel' = Sent(Farewells, w, Signal)
  /\ UNCHANGED <<task_id, interrupted>>
  /\ WorkerKeeps

-----------------------------------------------------------------------------
\* A signal handler or the callback on the master

RequestStatusReport ==
  /\ outcome = "none"
  /\ event_counter < MaxUserRequests
  /\ event_counter' = event_counter + 1
  /\ UNCHANGED <<controller, interrupt_requested, reacted_event_counter,
                 in_preparation, num_reports_waiting, channel, pc, task_id,
                 interrupted, check, outcome>>

RequestInterrupt ==
  /\ outcome = "none"
  /\ MayInterrupt
  /\ interrupt_requested' = TRUE
  /\ UNCHANGED <<controller, report, channel, pc, task_id, interrupted, check,
                 outcome>>

-----------------------------------------------------------------------------
MasterStep ==
  \/ MasterNext \/ MasterPoll \/ MasterWait
  \/ MasterCheckInterrupted \/ MasterCheckQuiet
  \/ \E w \in Workers :
       TreatRequest(w) \/ TreatResult(w) \/ TreatReport(w) \/ TreatFarewell(w)
  \/ NextPhase \/ EndCheck

WorkerStep(w) ==
  \/ WorkerRequest(w) \/ WorkerReceiveTask(w)
  \/ WorkerProbeInterrupt(w) \/ WorkerProbeReport(w)
  \/ WorkerLeave(w) \/ WorkerFarewell(w)

FinishTask(p) == IF p = Master THEN MasterFinishTask ELSE WorkerFinishTask(p)

Terminated == outcome # "none" /\ UNCHANGED vars

Next ==
  \/ MasterStep
  \/ \E w \in Workers : WorkerStep(w)
  \/ \E p \in Procs : FinishTask(p)
  \/ RequestStatusReport \/ RequestInterrupt
  \/ Terminated

Spec == Init /\ [][Next]_vars

\* every process runs, and every task keeps polling and ends some day
RunSpec ==
  /\ Spec
  /\ WF_vars(MasterStep)
  /\ \A w \in Workers : WF_vars(WorkerStep(w))
  /\ \A p \in Procs : SF_vars(FinishTask(p))

-----------------------------------------------------------------------------
\* Safety

\* from the time a process has got a task number to the end of that task
InCheck == pc[Master] \in Phases \cup {"check"}
AtWork(p) ==
  \/ pc[p] \in {"task", "before", "before_report", "task_report"}
  \/ p = Master /\ InCheck /\ check_from # "wait"

MasterLocations == {"next", "check", "task", "wait", "done"} \cup Phases

WorkerLocations ==
  {"request", "await", "leave", "before", "before_report", "task", "task_report",
   "sent", "sent_report", "failed", "failed_report", "farewell", "done"}

\* what a message says
MessagesOf(tag) ==
  IF tag = Deliveries THEN Tasks \cup {-1}
  ELSE IF tag = Results THEN [task : Tasks, how : {"ok", "error", "null"}]
  ELSE {Signal}

ChannelsOK ==
  /\ DOMAIN channel = Tags
  /\ \A tag \in Tags : channel[tag] \in [Workers -> Seq(MessagesOf(tag))]
  /\ \A w \in Workers : Len(channel[InterruptOrders][w]) <= MaxOrders

LocationsOK ==
  /\ DOMAIN pc = Procs
  /\ pc[Master] \in MasterLocations
  /\ \A w \in Workers : pc[w] \in WorkerLocations

TypeOK ==
  /\ num_tasks_completed \in 0 .. NumTotalRuns
  /\ num_tasks_launched \in 0 .. NumTotalRuns
  /\ num_workers_running \in 0 .. CommSize
  /\ workers_running \subseteq Procs
  /\ interrupt_requested \in BOOLEAN
  /\ full_task_results \in [Tasks -> {"none", "ok", "error", "null"}]
  /\ event_counter \in 0 .. MaxUserRequests
  /\ reacted_event_counter \in 0 .. event_counter
  /\ in_preparation \in BOOLEAN
  /\ num_reports_waiting \in 0 .. CommSize
  /\ ChannelsOK
  /\ LocationsOK
  /\ task_id \in [Procs -> Tasks \cup {-1}]
  /\ interrupted \in [Procs -> BOOLEAN]
  /\ check_from \in {"before", "task", "wait"}
  /\ requested \in BOOLEAN
  /\ budget \in 0 .. CommSize
  /\ outcome \in {"none", "ok", "interrupted", "crash"}

\* the messages of a tag under way: <<tag, worker, position>>
Messages(tag) ==
  UNION {{<<tag, w, i>> : i \in DOMAIN channel[tag][w]} : w \in Workers}

Content(m) == channel[m[1]][m[2]][m[3]]

\* A task number that was handed out is on its way to a worker, at work in one
\* process, on its way back as a result, or stored, and in one of these places
\* only; it is lost only if the run is interrupted.
Places(k) ==
  Cardinality({p \in Procs : AtWork(p) /\ task_id[p] = k})
  + Cardinality({m \in Messages(Deliveries) : Content(m) = k})
  + Cardinality({m \in Messages(Results) : Content(m).task = k})
  + (IF full_task_results[k] # "none" THEN 1 ELSE 0)

EachTaskInOnePlace ==
  \A k \in Tasks :
    /\ Places(k) <= 1
    /\ Places(k) = 0 => k >= num_tasks_launched \/ interrupt_requested

\* A worker that waits for a task number has just one request or one answer
\* under way, and no other worker has any: the master never answers a worker
\* that has gone, and no answer is left over for a later run.
RequestReply ==
  \A w \in Workers :
    Len(channel[Requests][w]) + Len(channel[Deliveries][w])
      = IF pc[w] = "await" THEN 1 ELSE 0

\* The reports that the master waits for are exactly the orders not answered,
\* the answers not received, and the one it owes itself: no answer is counted
\* twice, or for the wrong report.
Outstanding ==
  {tw \in {ReportOrders, Reports, IdleReports} \X Workers : Waiting(tw[1], tw[2])}
  \cup {own \in {<<"own", Master>>} :
          requested /\ pc[Master] \in Phases /\ check_from # "wait"}

ReportAccounting ==
  IF in_preparation THEN num_reports_waiting = Cardinality(Outstanding)
  ELSE Outstanding = {}

\* run() ends on the master after every worker has said goodbye.
MasterLeavesLast ==
  outcome # "none" =>
    \A w \in Workers : pc[w] = "done" /\ ~Waiting(Farewells, w)

\* The promises of the dispatcher interface, a failure of a task being one
\* more reason to stop
Contract == INSTANCE DispatcherContract WITH
  started <- 0 .. (num_tasks_launched - 1),
  delivered <- {k \in Tasks : full_task_results[k] = "ok"},
  stopping <- interrupt_requested,
  failed <- FALSE

ImplementsContract == Contract!Spec

-----------------------------------------------------------------------------
\* The inductive invariant, in parts

\* the master is through with its own work
AfterWork == pc[Master] \in {"wait", "done"} \/ (InCheck /\ check_from = "wait")

\* What the place of the master says about its books
MasterControl ==
  /\ outcome = "none" <=> pc[Master] # "done"
  /\ AtWork(Master) => Master \in workers_running
  /\ pc[Master] = "next" => Master \notin workers_running
  /\ AfterWork /\ ~interrupt_requested =>
       Master \notin workers_running /\ num_tasks_launched = NumTotalRuns
  /\ interrupted[Master] => interrupt_requested
  /\ \A w \in Workers : Waiting(InterruptOrders, w) => interrupt_requested

\* a worker says goodbye once, and does nothing after that
FarewellOnce ==
  \A w \in Workers :
    /\ Len(channel[Farewells][w]) <= 1
    /\ Waiting(Farewells, w) => pc[w] = "done"

\* the processes that the master counts as running
Present == {w \in Workers : pc[w] # "done" \/ Waiting(Farewells, w)}
             \cup {p \in {Master} : ~AfterWork}

PresentCounted == num_workers_running = Cardinality(Present)

Stored == {k \in Tasks : full_task_results[k] # "none"}

StoredCounted == num_tasks_completed = Cardinality(Stored)

\* Task k is at position i of its place in the given kind of places: at work in
\* p, or in a message to or from p.
Holds(kind, p, i, k) ==
  \/ kind = "work" /\ i = 1 /\ AtWork(p) /\ task_id[p] = k
  \/ /\ kind = Deliveries /\ p \in Workers
     /\ i \in DOMAIN channel[Deliveries][p] /\ channel[Deliveries][p][i] = k
  \/ /\ kind = Results /\ p \in Workers
     /\ i \in DOMAIN channel[Results][p] /\ channel[Results][p][i].task = k

Kinds == {"work", Deliveries, Results}

WorkHasTask == \A p \in Procs : AtWork(p) => task_id[p] \in Tasks

HeldOnce ==
  \A k \in Tasks, kind1, kind2 \in Kinds, p, q \in Procs : \A i, j \in Nat :
    Holds(kind1, p, i, k) /\ Holds(kind2, q, j, k)
      => kind1 = kind2 /\ p = q /\ i = j

HeldIsPending ==
  \A k \in Tasks, kind \in Kinds, p \in Procs : \A i \in Nat :
    Holds(kind, p, i, k) => k < num_tasks_launched /\ full_task_results[k] = "none"

StoredWereLaunched == \A k \in Stored : k < num_tasks_launched

PendingIsHeld ==
  ~interrupt_requested =>
    \A k \in 0 .. (num_tasks_launched - 1) : full_task_results[k] = "none" =>
      \E kind \in Kinds, p \in Procs : \E i \in Nat : Holds(kind, p, i, k)

\* orders to report that a worker has not answered, and its answers under way
ReportsOf(w) ==
  Len(channel[ReportOrders][w]) + Len(channel[Reports][w]) + Len(channel[IdleReports][w])

OneReport == \A w \in Workers : ReportsOf(w) <= 1

\* the processes whose reports the master waits for, by ReportAccounting
Reporting ==
  {w \in Workers : ReportsOf(w) # 0}
  \cup {p \in {Master} : requested /\ pc[Master] \in Phases /\ check_from # "wait"}

ReportsCounted ==
  IF in_preparation THEN num_reports_waiting = Cardinality(Reporting)
  ELSE Reporting = {} /\ num_reports_waiting = 0

-----------------------------------------------------------------------------
\* Without failures, the CommSize messages that a pass takes of each tag are
\* enough: no result is left behind when its worker says goodbye.

\* tasks handed out to a worker whose results the master has not seen
Out == {k \in Tasks : /\ k < num_tasks_launched
                      /\ full_task_results[k] = "none"
                      /\ ~(AtWork(Master) /\ task_id[Master] = k)}

\* workers that have not been told that there are no more tasks
Served == {w \in Workers :
             /\ pc[w] \notin {"leave", "farewell", "done"}
             /\ \A i \in DOMAIN channel[Deliveries][w] :
                  channel[Deliveries][w][i] # -1}

\* what a pass has handed out and may not have taken in yet
PassDebt ==
  IF pc[Master] = Requests THEN CommSize - budget
  ELSE IF pc[Master] = Results THEN budget
  ELSE 0

NobodyFails ==
  ~MayFail =>
    \A w \in Workers : pc[w] \notin {"failed", "failed_report"}

OutBounded ==
  ~MayFail /\ ~interrupt_requested =>
    Cardinality(Out) <= Cardinality(Served) + PassDebt

\* "crash" comes of failures and interrupts only
CrashIsInterrupted ==
  ~MayFail /\ ~interrupt_requested => outcome # "crash"

\* Without interrupts, too, all results are there.
OnlyResults ==
  ~MayFail /\ ~MayInterrupt =>
    /\ ~interrupt_requested
    /\ \A k \in Stored : full_task_results[k] = "ok"
    /\ \A w \in Workers : \A i \in DOMAIN channel[Results][w] :
         channel[Results][w][i].how = "ok"

IInv ==
  /\ TypeOK
  /\ MasterControl
  /\ FarewellOnce /\ PresentCounted /\ MasterLeavesLast
  /\ RequestReply
  /\ WorkHasTask /\ HeldOnce /\ HeldIsPending /\ StoredWereLaunched /\ PendingIsHeld
  /\ StoredCounted
  /\ OneReport /\ ReportsCounted
  /\ NobodyFails /\ OutBounded /\ CrashIsInterrupted
  /\ OnlyResults

-----------------------------------------------------------------------------
\* Liveness

\* run() returns on the master and on every worker.
RunEnds == <>(outcome # "none" /\ \A w \in Workers : pc[w] = "done")

-----------------------------------------------------------------------------
\* What the code says of itself, and does not keep

\* "As soon as the tasks notice this request, they will quit [...], and the
\* run() function throws a TasksInterruptedException": run() ends at least.
InterruptEndsRun == interrupt_requested ~> outcome # "none"

\* ... and it ends by that exception, never by reading the result of a task
\* that was not run.
NeverReadsMissingResult == outcome # "crash"

\* "task ran into an error, we should interrupt everything": run() does not
\* return as if all tasks had given their results.
FailureIsReported ==
  outcome = "ok" => \A k \in Tasks : full_task_results[k] = "ok"

\* "if this worker is running, send it a status report order": a worker in the
\* middle of a task is flagged as running.
RunningIsFlagged == \A w \in Workers : pc[w] = "task" => w \in workers_running

\* A report in preparation waits for somebody who can still answer.
ReportIsAnswerable ==
  in_preparation => \E tw \in Outstanding :
    tw[1] = ReportOrders => pc[tw[2]] \notin {"leave", "farewell", "done"}

=============================================================================
