---------------------------- MODULE TomorunProofs ----------------------------
(***************************************************************************)
(* Proofs about Tomorun, for any invocations and any number of tasks: the  *)
(* dispatcher without threads does what dispatchers promise, whether       *)
(* tomorun or another program uses it; messages reach the log they should, *)
(* and come through the chains of loggers that any program builds; a hit   *)
(* of Ctrl+C ends the program only if it is repeated; and the variant that *)
(* runs is the one that was asked for.                                     *)
(* And about MatVariables, for any files, objects and variables: what      *)
(* matio gave is released with the last object that holds it, and vectors  *)
(* are read in order, by rows and by columns, whatever the dimensions.     *)
(* And the data that tomorun works on are those of its data file.          *)
(***************************************************************************)
EXTENDS Tomorun, LoggerChains, MatVariables, CommonLemmas, SequenceTheorems

-----------------------------------------------------------------------------
\* The dispatcher

LEMMA DispatcherInit ==
  ASSUME Init
  PROVE  InOrder /\ Contract!Init
BY NumTotalRunsAssumption DEF Init, InOrder, Contract!Init, Tasks

\* whatever else a program does
LEMMA DispatcherIdle ==
  ASSUME InOrder, UNCHANGED <<task_k, results, pc, outcome>>
  PROVE  InOrder' /\ UNCHANGED Contract!vars
BY DEF InOrder, Contract!vars

LEMMA DispatcherStep ==
  ASSUME InOrder, Advance \/ FinishTask \/ UNCHANGED <<task_k, results, pc, outcome>>
  PROVE  InOrder' /\ [Contract!Next]_(Contract!vars)
<1> DEFINE Stopping == pc \in {"stopped", "failed"} \/ outcome \in {"interrupted", "exception"}
           Failed == pc = "failed" \/ outcome = "exception"
           Begun == {k \in Tasks : k < task_k \/ (k = task_k /\ pc # "next")}
<1> USE NumTotalRunsAssumption
<1>1. CASE StartTask
  <2>1. InOrder'
    BY <1>1 DEF InOrder, StartTask, Step
  <2>2. CASE pc = "next"
    <3>1. PICK k \in Tasks : k = task_k
      BY <1>1, <2>2 DEF InOrder, StartTask, Step, Tasks
    <3>2. Begun' = Begun \cup {k} /\ k \notin Begun
      BY <1>1, <2>2, <3>1 DEF InOrder, StartTask, Step, Tasks
    <3>3. Contract!Start(k)
      BY <1>1, <2>2, <3>2 DEF InOrder, StartTask, Step, Contract!Start
    <3>4. Contract!Next
      BY <3>3 DEF Contract!Next
    <3> QED BY <2>1, <3>4
  <2>3. CASE pc # "next" /\ pc' = "failed"
    <3>1. Contract!Fail
      BY <1>1, <2>3 DEF InOrder, StartTask, Step, Contract!Fail
    <3> QED BY <2>1, <3>1 DEF Contract!Next
  <2>4. CASE pc # "next" /\ pc' # "failed"
    BY <1>1, <2>1, <2>4 DEF InOrder, StartTask, Step, Contract!vars
  <2> QED BY <2>2, <2>3, <2>4
<1>2. CASE EndRun
  <2>1. InOrder'
    BY <1>2 DEF InOrder, EndRun, Step, AllRun
  <2>2. Contract!End(outcome')
    <3>1. Begun' = Begun /\ results' = results /\ outcome = "none"
      BY <1>2 DEF InOrder, EndRun, Step, AllRun, Tasks
    <3>2. Stopping' = Stopping /\ Failed' = Failed
      BY <1>2 DEF InOrder, EndRun, Step
    <3>3. \/ outcome' = "ok" /\ results = Tasks /\ ~Stopping /\ ~Failed
          \/ outcome' = "interrupted" /\ Stopping /\ ~Failed
          \/ outcome' = "exception" /\ Failed
      BY <1>2 DEF InOrder, EndRun, Step, AllRun, Tasks
    <3> QED BY <3>1, <3>2, <3>3 DEF Contract!End
  <2>3. outcome' \in Contract!Outcomes
    BY <2>1 DEF InOrder, Contract!Outcomes
  <2> QED BY <2>1, <2>2, <2>3 DEF Contract!Next
<1>3. CASE Poll
  <2>1. InOrder'
    BY <1>3 DEF InOrder, Poll, Step
  <2>2. CASE pc' = "stopped"
    <3>1. Contract!AskToStop
      BY <1>3, <2>2 DEF InOrder, Poll, Step, Contract!AskToStop
    <3> QED BY <2>1, <3>1 DEF Contract!Next
  <2>3. CASE pc' # "stopped"
    BY <1>3, <2>1, <2>3 DEF InOrder, Poll, Step, Contract!vars
  <2> QED BY <2>2, <2>3
<1>4. CASE SubmitStatusReport \/ CallbackReturns
  <2>1. InOrder'
    BY <1>4 DEF InOrder, SubmitStatusReport, CallbackReturns, Step
  <2>2. CASE pc' = "failed"
    <3>1. Contract!Fail
      BY <1>4, <2>2 DEF InOrder, SubmitStatusReport, CallbackReturns, Step, Contract!Fail
    <3> QED BY <2>1, <3>1 DEF Contract!Next
  <2>3. CASE pc' # "failed"
    BY <1>4, <2>1, <2>3
      DEF InOrder, SubmitStatusReport, CallbackReturns, Step, Contract!vars
  <2> QED BY <2>2, <2>3
<1>5. CASE FinishTask
  <2>1. InOrder'
    <3>1. task_k \in Nat /\ task_k < NumTotalRuns /\ results = 0 .. task_k - 1
      BY <1>5 DEF InOrder, FinishTask, Step
    <3>2. results \cup {task_k} = 0 .. (task_k + 1) - 1
      BY <3>1
    <3>3. CASE pc' = "failed"
      BY <1>5, <3>1, <3>3 DEF InOrder, FinishTask, Step
    <3>4. CASE pc' # "failed"
      <4>1. pc' = "next" /\ task_k' = task_k + 1 /\ results' = results \cup {task_k}
            /\ UNCHANGED outcome /\ pc = "task"
        BY <1>5, <3>4 DEF FinishTask, Step
      <4> QED BY <3>1, <3>2, <4>1 DEF InOrder
    <3> QED BY <3>3, <3>4
  <2>2. CASE pc' = "failed"
    <3>1. Contract!Fail
      BY <1>5, <2>2 DEF InOrder, FinishTask, Step, Contract!Fail
    <3> QED BY <2>1, <3>1 DEF Contract!Next
  <2>3. CASE pc' # "failed"
    <3>1. Begun' = Begun
      BY <1>5, <2>3 DEF InOrder, FinishTask, Step, Tasks
    <3>2. task_k \in Begun \ results /\ task_k \in Tasks
      BY <1>5, <2>3 DEF InOrder, FinishTask, Step, Tasks
    <3>3. Contract!Deliver(task_k)
      BY <1>5, <2>3, <3>1, <3>2 DEF InOrder, FinishTask, Step, Contract!Deliver
    <3> QED BY <2>1, <3>2, <3>3 DEF Contract!Next
  <2> QED BY <2>2, <2>3
<1>6. CASE UNCHANGED <<task_k, results, pc, outcome>>
  BY <1>6, DispatcherIdle
<1> QED BY <1>1, <1>2, <1>3, <1>4, <1>5, <1>6 DEF Advance

\* requests and settings change nothing else
LEMMA EnvironmentIdle ==
  ASSUME Environment
  PROVE  UNCHANGED <<task_k, results, pc, outcome>>
BY DEF Environment, RequestStatusReport, RequestInterrupt, Configure, IntervalElapses, flags

\* For any number of tasks the dispatcher without threads keeps the contract, with
\* requests, settings, failures and reports at any time.
THEOREM DispatcherRefinement == Spec => ImplementsContract
<1>1. Init => InOrder /\ Contract!Init
  BY DispatcherInit
<1>2. InOrder /\ [Next]_vars => InOrder' /\ [Contract!Next]_(Contract!vars)
  <2> SUFFICES ASSUME InOrder, [Next]_vars
               PROVE  InOrder' /\ [Contract!Next]_(Contract!vars)
    OBVIOUS
  <2>1. Advance \/ FinishTask \/ UNCHANGED <<task_k, results, pc, outcome>>
    BY EnvironmentIdle DEF Next, Terminated, vars
  <2> QED BY <2>1, DispatcherStep
<1> QED BY <1>1, <1>2, PTL DEF Spec, ImplementsContract, Contract!Spec

-----------------------------------------------------------------------------
\* The steps of tomorun

\* what main() does up to the run, and after it
LEMMA MainSteps ==
  ASSUME Main
  PROVE  /\ UNCHANGED <<inv, clock, vars>>
         /\ exit_status' = exit_status
              \/ exit_status' \in {"exit 127", "exit 0", "exit 1", "exit 2", "exit 3", "abort"}
<1> USE DEF Exit, Goto, BadOptions
<1>1. CASE StoreOptions
  BY <1>1 DEF StoreOptions, Main
<1>2. CASE SetUpLogging
  BY <1>2 DEF SetUpLogging, Main
<1>3. CASE SetSwitches
  BY <1>3 DEF SetSwitches, Main
<1>4. CASE CheckOptions
  BY <1>4 DEF CheckOptions, Main
<1>5. CASE ShowParameters
  BY <1>5 DEF ShowParameters, Main
<1>6. CASE OpenDataFile
  BY <1>6 DEF OpenDataFile, Main
<1>7. CASE Dispatch
  BY <1>7 DEF Dispatch, Abort, Main
<1>8. CASE Return
  BY <1>8 DEF Return, Main
<1> QED BY <1>1, <1>2, <1>3, <1>4, <1>5, <1>6, <1>7, <1>8 DEF Main

\* Only Ctrl+C looks at the clock.
LEMMA OtherSteps ==
  ASSUME TomorunNext
  PROVE  \/ Hit \/ Tick
         \/ /\ UNCHANGED <<inv, clock>>
            /\ exit_status' = exit_status
                 \/ exit_status' \in {"exit 127", "exit 0", "exit 1", "exit 2", "exit 3", "abort"}
<1>1. CASE Main
  BY <1>1, MainSteps
<1>2. CASE SetUpRun \/ RunTasks
  BY <1>2 DEF SetUpRun, RunTasks, Goto, progress
<1>3. CASE FinishRun
  BY <1>3 DEF FinishRun, Abort, Exit, Goto
<1>4. CASE UsedDirectly \/ ReportIntervalElapses \/ Over
  BY <1>4 DEF UsedDirectly, ReportIntervalElapses, Over, program, progress, tomorun_vars
<1> QED BY <1>1, <1>2, <1>3, <1>4 DEF TomorunNext

-----------------------------------------------------------------------------
\* The dispatcher in tomorun

LEMMA RunSteps ==
  ASSUME TomorunNext
  PROVE  Advance \/ FinishTask \/ UNCHANGED <<task_k, results, pc, outcome>>
<1>1. CASE Main \/ SetUpRun \/ FinishRun \/ Tick \/ Over
  BY <1>1, MainSteps DEF SetUpRun, FinishRun, Tick, Over, tomorun_vars, vars
<1>2. CASE RunTasks
  BY <1>2 DEF RunTasks
<1>3. CASE UsedDirectly
  BY <1>3, EnvironmentIdle DEF UsedDirectly
<1>4. CASE ReportIntervalElapses
  BY <1>4 DEF ReportIntervalElapses, IntervalElapses
<1>5. CASE Hit
  BY <1>5 DEF Hit, HandleSignal, RequestStatusReport, vars
<1> QED BY <1>1, <1>2, <1>3, <1>4, <1>5 DEF TomorunNext

\* The dispatcher keeps its contract in tomorun too, and in a program that uses it
\* directly, whenever signals come.
THEOREM Refinement == TomorunSpec => ImplementsContract
<1>1. TomorunInit => InOrder /\ Contract!Init
  BY DispatcherInit DEF TomorunInit
<1>2. InOrder /\ [TomorunNext]_tomorun_vars => InOrder' /\ [Contract!Next]_(Contract!vars)
  <2> SUFFICES ASSUME InOrder, [TomorunNext]_tomorun_vars
               PROVE  InOrder' /\ [Contract!Next]_(Contract!vars)
    OBVIOUS
  <2>1. Advance \/ FinishTask \/ UNCHANGED <<task_k, results, pc, outcome>>
    BY RunSteps DEF tomorun_vars, vars
  <2> QED BY <2>1, DispatcherStep
<1> QED BY <1>1, <1>2, PTL DEF TomorunSpec, ImplementsContract, Contract!Spec

-----------------------------------------------------------------------------
\* Ctrl+C

\* hits that are close in whole seconds are close
LEMMA CloseSeconds ==
  ASSUME NEW s \in Nat, NEW t \in Nat,
         Seconds(t) - Seconds(s) < RepeatExitDelay
  PROVE  t - s < 2 * RepeatExitDelay
BY DEF Seconds, RepeatExitDelay

LEMMA HitStep ==
  ASSUME HitsInOrder, Hit
  PROVE  HitsInOrder'
<1> DEFINE n == Len(hit_times) + 1
<1>1. /\ exit_status = "none" /\ hit_times' = Append(hit_times, now)
      /\ UNCHANGED <<inv, now>>
  BY DEF Hit
<1>2. /\ hit_times \in Seq(Nat) /\ now \in Nat /\ Len(hit_times) \in Nat
      /\ hit_times' \in Seq(Nat) /\ Len(hit_times') = n /\ hit_times'[n] = now
      /\ hit_times' # <<>>
      /\ \A i \in 1 .. Len(hit_times) : hit_times'[i] = hit_times[i]
  BY <1>1 DEF HitsInOrder
<1>3. exit_status' = "none" => last_sig_hit_time' = now
  BY <1>1 DEF Hit, Exit
<1>4. ASSUME exit_status' = "repeated signal"
      PROVE  n >= 2 /\ hit_times'[n] - hit_times'[n - 1] < 2 * RepeatExitDelay
  <2>1. Repeated
    BY <1>1, <1>4 DEF Hit, Exit, progress
  <2>2. hit_times # <<>>
    BY <2>1 DEF Repeated, Seconds, RepeatExitDelay, HitsInOrder
  <2>3. Len(hit_times) >= 1
    BY <1>2, <2>2
  <2>4. last_sig_hit_time = hit_times'[n - 1] /\ last_sig_hit_time \in Nat
    BY <1>1, <1>2, <2>2, <2>3 DEF HitsInOrder
  <2> QED BY <1>2, <2>1, <2>3, <2>4, CloseSeconds DEF Repeated
<1>5. LoneSignalHarmless'
  BY <1>2, <1>4 DEF LoneSignalHarmless
<1> QED BY <1>1, <1>2, <1>3, <1>5 DEF HitsInOrder

LEMMA ClockStep ==
  ASSUME HitsInOrder, [TomorunNext]_tomorun_vars
  PROVE  HitsInOrder'
<1>1. CASE Hit
  BY <1>1, HitStep
<1>2. CASE Tick
  BY <1>2 DEF Tick, HitsInOrder, LoneSignalHarmless, progress
<1>3. CASE /\ UNCHANGED <<inv, clock>>
           /\ exit_status' = exit_status
                \/ exit_status' \in {"exit 127", "exit 0", "exit 1", "exit 2", "exit 3", "abort"}
  <2>1. UNCHANGED <<inv, now, hit_times, last_sig_hit_time>>
    <3>1. inv' = inv /\ clock' = clock
      BY <1>3
    <3> QED BY <3>1 DEF clock
  <2>2. /\ exit_status' = "none" => exit_status = "none"
        /\ exit_status' = "repeated signal" => exit_status = "repeated signal"
    BY <1>3
  <2>3. LoneSignalHarmless'
    BY <2>1, <2>2 DEF HitsInOrder, LoneSignalHarmless
  <2> QED BY <2>1, <2>2, <2>3 DEF HitsInOrder
<1> QED BY <1>1, <1>2, <1>3, OtherSteps DEF tomorun_vars, program, progress

\* A single hit of Ctrl+C never ends a program that handles it, however often it is
\* hit and whenever.
THEOREM OnlyRepeatedSignalsEnd == TomorunSpec => []LoneSignalHarmless
<1>1. TomorunInit => HitsInOrder
  BY DEF TomorunInit, HitsInOrder, LoneSignalHarmless
<1>2. HitsInOrder /\ [TomorunNext]_tomorun_vars => HitsInOrder'
  BY ClockStep
<1>3. HitsInOrder => LoneSignalHarmless
  BY DEF HitsInOrder
<1> QED BY <1>1, <1>2, <1>3, PTL DEF TomorunSpec

-----------------------------------------------------------------------------
\* Messages

\* A chain that ends in the logger set up as asked, below the minimum severity
\* compiled in, and local loggers only.
GoodChain(c) ==
  \E n \in DOMAIN c :
    /\ Len(c) = n /\ n \in Nat /\ DOMAIN c = 1 .. n
    /\ c[n].kind = "file"
    /\ c[n].fp = Destination /\ c[n].level = Asked("verbose", INFO)
    /\ \/ /\ inv.max_log_level = LOWEST_SEVERITY_LEVEL
          /\ \A i \in DOMAIN c : i # n => c[i].kind = "local"
       \/ \E k \in DOMAIN c :
            /\ k # n
            /\ c[k].kind = "minimum severity" /\ c[k].level = inv.max_log_level
            /\ \A i \in DOMAIN c : i \notin {k, n} => c[i].kind = "local"

LEMMA MinOfOne ==
  ASSUME NEW n \in Int
  PROVE  Min({n}) = n
BY DEF Min

\* the layers of a kind that occurs once start with that one
LEMMA FromOnly ==
  ASSUME NEW c, NEW kinds, NEW i \in Nat, Len(c) \in Nat, i \in 1 .. Len(c),
         {j \in DOMAIN c : c[j].kind \in kinds} = {i}
  PROVE  From(c, kinds) # <<>> /\ From(c, kinds)[1] = c[i]
<1>1. From(c, kinds) = SubSeq(c, i, Len(c))
  <2>1. Min({i}) = i
    BY MinOfOne
  <2> QED BY <2>1 DEF From
<1>2. Len(SubSeq(c, i, Len(c))) = Len(c) - i + 1 /\ SubSeq(c, i, Len(c))[1] = c[i]
  OBVIOUS
<1>3. Len(SubSeq(c, i, Len(c))) # 0
  <2>1. i <= Len(c)
    OBVIOUS
  <2> QED BY <1>2, <2>1
<1>4. SubSeq(c, i, Len(c)) # <<>>
  BY <1>3, Len(<<>>) = 0
<1> QED BY <1>1, <1>2, <1>4

LEMMA NoneOfKind ==
  ASSUME NEW c, NEW kinds, \A j \in DOMAIN c : c[j].kind \notin kinds
  PROVE  From(c, kinds) = <<>>
<1>1. {j \in DOMAIN c : c[j].kind \in kinds} = {}
  OBVIOUS
<1> QED BY <1>1 DEF From

\* what is asked for, and what is compiled in, is a number
LEMMA AskedNumbers ==
  ASSUME inv \in Invocations
  PROVE  Asked("verbose", INFO) \in Int /\ inv.max_log_level \in Int
<1>1. \/ Asked("verbose", INFO) = INFO
      \/ IsOption("verbose", Asked("verbose", INFO))
  BY InvocationsAssumption DEF Asked
<1>2. inv.max_log_level \in Int /\ INFO \in Int
  BY InvocationsAssumption DEF INFO
<1> QED BY <1>1, <1>2 DEF IsOption

\* A good chain emits what is due and nothing else.
LEMMA WhenEmitted ==
  ASSUME inv \in Invocations, NEW c, GoodChain(c), NEW m, IsMessage(m)
  PROVE  ShouldEmit(c, m) <=> m.level <= Asked("verbose", INFO) /\ m.level <= inv.max_log_level
<1> DEFINE Own == {"file", "buffer", "vacuum", "python", "frozen", "filtered"}
           Limits == {"minimum severity", "vacuum"}
           Lowest(n) == /\ inv.max_log_level = LOWEST_SEVERITY_LEVEL
                        /\ \A i \in DOMAIN c : i # n => c[i].kind = "local"
           Limited(n, k) == /\ k # n
                            /\ c[k].kind = "minimum severity" /\ c[k].level = inv.max_log_level
                            /\ \A i \in DOMAIN c : i \notin {k, n} => c[i].kind = "local"
<1>1. PICK n \in DOMAIN c :
        /\ Len(c) = n /\ n \in Nat /\ DOMAIN c = 1 .. n
        /\ c[n].kind = "file" /\ c[n].level = Asked("verbose", INFO)
        /\ Lowest(n) \/ \E k \in DOMAIN c : Limited(n, k)
  BY DEF GoodChain
<1>2. Len(c) = n /\ n \in Nat /\ DOMAIN c = 1 .. n
  BY <1>1
<1>3. c[n].kind = "file"
      /\ \A i \in DOMAIN c : i # n => c[i].kind \in {"local", "minimum severity"}
  BY <1>1
<1>4. Level(c) = Asked("verbose", INFO)
  <2>1. c[n].kind \in Own /\ \A i \in DOMAIN c : i # n => c[i].kind \notin Own
    BY <1>3
  <2> HIDE DEF Own
  <2>2. {j \in DOMAIN c : c[j].kind \in Own} = {n}
    BY <2>1
  <2>3. From(c, Own)[1] = c[n]
    BY <1>2, <2>2, FromOnly
  <2>4. c[n].level = Asked("verbose", INFO)
    BY <1>1
  <2> QED BY <1>3, <2>3, <2>4 DEF Level, Own
<1>5. FilterByOrigin(c, m.level, m.origin)
  <2>1. \A j \in DOMAIN c : c[j].kind \notin {"filtered"}
    BY <1>3
  <2>2. From(c, {"filtered"}) = <<>>
    BY <2>1, NoneOfKind
  <2> QED BY <2>2 DEF FilterByOrigin
<1>6. m.level <= StaticMinimumSeverityLevel(c) <=> m.level <= inv.max_log_level
  <2>1. CASE Lowest(n)
    <3>1. \A j \in DOMAIN c : c[j].kind \notin Limits
      BY <1>3, <2>1
    <3>2. From(c, Limits) = <<>>
      BY <3>1, NoneOfKind
    <3> QED BY <2>1, <3>2 DEF StaticMinimumSeverityLevel
  <2>2. ASSUME NEW k \in DOMAIN c, Limited(n, k)
        PROVE  m.level <= StaticMinimumSeverityLevel(c) <=> m.level <= inv.max_log_level
    <3>1. c[k].kind \in Limits /\ \A i \in DOMAIN c : i # k => c[i].kind \notin Limits
      BY <1>3, <2>2
    <3> HIDE DEF Limits
    <3>2. {j \in DOMAIN c : c[j].kind \in Limits} = {k}
      BY <3>1
    <3>3. From(c, Limits) # <<>> /\ From(c, Limits)[1] = c[k]
      <4>1. Len(c) \in Nat /\ k \in Nat /\ k \in 1 .. Len(c)
        BY <1>2
      <4> QED BY <3>2, <4>1, FromOnly
    <3> QED BY <2>2, <3>3 DEF StaticMinimumSeverityLevel, Limits
  <2> QED BY <1>1, <2>1, <2>2
<1> QED BY <1>4, <1>5, <1>6
      DEF ShouldEmit, EnabledFor, StaticallyEnabledFor, IsAtLeastOfSeverity

LEMMA WhereEmitted ==
  ASSUME inv \in Invocations, NEW c, GoodChain(c), NEW m, IsMessage(m)
  PROVE  /\ \A w \in Log(c, m) : Shows(w, m) /\ w.stream \in DueTo(m)
         /\ \A s \in DueTo(m) : \E w \in Log(c, m) : Shows(w, m) /\ w.stream = s
<1> DEFINE sink == Last(c)
           below == OriginAtEnd(c, m.origin)
           passed == [m EXCEPT !.origin = below]
<1>1. m.level \in Int /\ passed.level = m.level /\ passed.what = m.what
  BY DEF IsMessage, Message, LogLevels, ERROR, LONGDEBUG
<1>2. Emitted(c, m) = EmitLog(sink, passed)
  BY DEF Emitted
<1>3. sink.kind = "file" /\ sink.fp = Destination
  BY DEF GoodChain, Last
<1> HIDE DEF sink, passed, below
<1> DEFINE Streams == {Destination} \cup IF Redirection /\ m.level <= WARNING THEN {"stderr"} ELSE {}
<1>4. DueTo(m) = IF ShouldEmit(c, m) THEN Streams ELSE {}
  BY <1>1, WhenEmitted, AskedNumbers DEF DueTo
<1>5. PICK line : /\ line.level = m.level /\ line.what = m.what
                  /\ EmitLog(sink, passed) = {[stream |-> s, line |-> line] : s \in Streams}
  <2> DEFINE line == [level |-> passed.level, what |-> passed.what,
                      origin |-> IF sink.kind = "file" /\ ~sink.display_origin THEN <<>>
                                 ELSE passed.origin]
  <2>1. line.level = m.level /\ line.what = m.what
    BY <1>1
  <2>2. Destination \notin {"stdout", "stderr"} <=> Redirection
    BY DEF Destination
  <2>3. EmitLog(sink, passed) =
          IF Redirection /\ m.level <= WARNING
          THEN {[stream |-> s, line |-> line] : s \in {Destination, "stderr"}}
          ELSE {[stream |-> Destination, line |-> line]}
    BY <1>1, <1>3, <2>2 DEF EmitLog, IsAtLeastOfSeverity
  <2> HIDE DEF line
  <2>4. EmitLog(sink, passed) = {[stream |-> s, line |-> line] : s \in Streams}
    BY <2>3
  <2> QED BY <2>1, <2>4
<1> HIDE DEF Streams
<1>6. CASE ShouldEmit(c, m)
  <2>1. Log(c, m) = {[stream |-> s, line |-> line] : s \in Streams} /\ DueTo(m) = Streams
    BY <1>2, <1>4, <1>5, <1>6 DEF Log
  <2>2. \A s \in Streams : Shows([stream |-> s, line |-> line], m)
    BY <1>5 DEF Shows
  <2>3. \A w \in Log(c, m) : \E s \in Streams : w = [stream |-> s, line |-> line]
    BY <2>1
  <2>4. \A w \in Log(c, m) : Shows(w, m) /\ w.stream \in Streams
    BY <2>2, <2>3
  <2>5. \A s \in Streams : \E w \in Log(c, m) : Shows(w, m) /\ w.stream = s
    <3> SUFFICES ASSUME NEW s \in Streams PROVE \E w \in Log(c, m) : Shows(w, m) /\ w.stream = s
      OBVIOUS
    <3> DEFINE w == [stream |-> s, line |-> line]
    <3>1. w \in Log(c, m) /\ Shows(w, m) /\ w.stream = s
      BY <2>1, <2>2
    <3> QED BY <3>1
  <2> QED BY <2>1, <2>4, <2>5
<1>7. CASE ~ShouldEmit(c, m)
  BY <1>4, <1>7 DEF Log
<1> QED BY <1>6, <1>7

\* the logger that is set up as asked
GoodSink(sink) ==
  sink = FileLogger(Destination, Asked("verbose", INFO), sink.display_origin)

\* the chain of main() with a last layer
Above(sink) ==
  IF inv.max_log_level = LOWEST_SEVERITY_LEVEL THEN <<sink>>
  ELSE <<MinimumSeverityLogger(inv.max_log_level), sink>>

\* The chains that occur: a local logger on top or not, a maximum or none.
Shape(c, layers) ==
  \* layer by layer
  Len(c) = Len(layers) /\ DOMAIN c = 1 .. Len(layers) /\ \A i \in DOMAIN c : c[i] = layers[i]

LEMMA GoodShapes ==
  ASSUME NEW c, NEW sink, GoodSink(sink), NEW local, local.kind = "local",
         NEW max, max = MinimumSeverityLogger(inv.max_log_level),
         \/ /\ inv.max_log_level = LOWEST_SEVERITY_LEVEL
            /\ Shape(c, <<sink>>) \/ Shape(c, <<local, sink>>)
         \/ Shape(c, <<max, sink>>) \/ Shape(c, <<local, max, sink>>)
  PROVE  GoodChain(c)
<1>1. sink.kind = "file" /\ sink.fp = Destination /\ sink.level = Asked("verbose", INFO)
  BY DEF GoodSink, FileLogger
<1>2. max.kind = "minimum severity" /\ max.level = inv.max_log_level
  BY DEF MinimumSeverityLogger
<1>3. 1 .. 1 = {1} /\ 1 .. 2 = {1, 2} /\ 1 .. 3 = {1, 2, 3}
  OBVIOUS
<1>4. CASE inv.max_log_level = LOWEST_SEVERITY_LEVEL /\ Shape(c, <<sink>>)
  <2>1. Len(c) = 1 /\ DOMAIN c = 1 .. 1 /\ c[1] = sink
    BY <1>4 DEF Shape
  <2> QED BY <1>1, <1>3, <1>4, <2>1 DEF GoodChain
<1>5. CASE inv.max_log_level = LOWEST_SEVERITY_LEVEL /\ Shape(c, <<local, sink>>)
  <2>1. Len(c) = 2 /\ DOMAIN c = 1 .. 2 /\ c[1] = local /\ c[2] = sink
    BY <1>5 DEF Shape
  <2> QED BY <1>1, <1>3, <1>5, <2>1 DEF GoodChain
<1>6. CASE Shape(c, <<max, sink>>)
  <2>1. Len(c) = 2 /\ DOMAIN c = 1 .. 2 /\ c[1] = max /\ c[2] = sink
    BY <1>6 DEF Shape
  <2> QED BY <1>1, <1>2, <1>3, <2>1 DEF GoodChain
<1>7. CASE Shape(c, <<local, max, sink>>)
  <2>1. Len(c) = 3 /\ DOMAIN c = 1 .. 3 /\ c[1] = local /\ c[2] = max /\ c[3] = sink
    BY <1>7 DEF Shape
  <2>2. 2 \in DOMAIN c /\ 3 \in DOMAIN c
    BY <1>3, <2>1
  <2>3. \A i \in DOMAIN c : i \notin {2, 3} => c[i].kind = "local"
    BY <1>3, <2>1
  <2>4. c[2].kind = "minimum severity" /\ c[2].level = inv.max_log_level
    <3>1. c[2] = max
      BY <2>1
    <3>2. c[2].kind = max.kind /\ c[2].level = max.level
      BY <3>1
    <3> QED BY <1>2, <3>2
  <2> DEFINE Limits(k) == /\ k # 3
                          /\ c[k].kind = "minimum severity" /\ c[k].level = inv.max_log_level
                          /\ \A i \in DOMAIN c : i \notin {k, 3} => c[i].kind = "local"
  <2>5. Limits(2)
    <3>1. 2 # 3
      OBVIOUS
    <3>2. c[2].kind = "minimum severity" /\ c[2].level = inv.max_log_level
      BY <2>4
    <3>3. \A i \in DOMAIN c : i \notin {2, 3} => c[i].kind = "local"
      BY <2>3
    <3> QED BY <3>1, <3>2, <3>3
  <2>6. \E k \in DOMAIN c : Limits(k)
    <3> HIDE DEF Limits
    <3> QED BY <2>2, <2>5
  <2> QED BY <1>1, <2>1, <2>2, <2>6 DEF GoodChain
<1> QED BY <1>4, <1>5, <1>6, <1>7

\* joined and cut
LEMMA Joins ==
  ASSUME NEW l, NEW max, NEW sink
  PROVE  /\ Shape(<<sink>>, <<sink>>) /\ Shape(<<max, sink>>, <<max, sink>>)
         /\ Shape(<<l>> \o <<sink>>, <<l, sink>>)
         /\ Shape(<<l>> \o <<max, sink>>, <<l, max, sink>>)
         /\ Shape((<<l>> \o <<>>) \o <<sink>>, <<l, sink>>)
         /\ Shape((<<l>> \o <<max>>) \o <<sink>>, <<l, max, sink>>)
<1>1. Shape(<<sink>>, <<sink>>) /\ Shape(<<max, sink>>, <<max, sink>>)
  BY DEF Shape
<1>2. Shape(<<l>> \o <<sink>>, <<l, sink>>)
  BY DEF Shape
<1>3. Shape(<<l>> \o <<max, sink>>, <<l, max, sink>>)
  BY DEF Shape
<1>4. Shape((<<l>> \o <<>>) \o <<sink>>, <<l, sink>>)
  BY DEF Shape
<1>5. Shape((<<l>> \o <<max>>) \o <<sink>>, <<l, max, sink>>)
  BY DEF Shape
<1> QED BY <1>1, <1>2, <1>3, <1>4, <1>5

LEMMA Cuts ==
  ASSUME NEW l, NEW max, NEW sink, NEW c
  PROVE  /\ Shape(c, <<l, sink>>) => Shape(SubSeq(c, 2, Len(c)), <<sink>>)
         /\ Shape(c, <<l, max, sink>>) => Shape(SubSeq(c, 2, Len(c)), <<max, sink>>)
         /\ Front(<<sink>>) = <<>> /\ Front(<<max, sink>>) = <<max>>
<1>1. ASSUME Shape(c, <<l, sink>>) PROVE Shape(SubSeq(c, 2, Len(c)), <<sink>>)
  BY <1>1 DEF Shape
<1>2. ASSUME Shape(c, <<l, max, sink>>) PROVE Shape(SubSeq(c, 2, Len(c)), <<max, sink>>)
  BY <1>2 DEF Shape
<1>3. Front(<<sink>>) = <<>>
  BY DEF Front
<1>4. Front(<<max, sink>>) = <<max>>
  <2>1. Front(<<max, sink>>) = SubSeq(<<max, sink>>, 1, 1)
    BY DEF Front
  <2> QED BY <2>1
<1> QED BY <1>1, <1>2, <1>3, <1>4

LEMMA LocalKind == \A spec : LocalLogger(spec).kind = "local"
BY DEF LocalLogger

\* The chains that main() and the functions it calls log through.
LEMMA GoodChains ==
  ASSUME GoodSink(filelogger)
  PROVE  /\ GoodChain(BaseLogger)
         /\ \A function : GoodChain(In(function)) /\ GoodChain(ParentLogger(In(function)))
<1> DEFINE max == MinimumSeverityLogger(inv.max_log_level)
<1>1. GoodChain(BaseLogger)
  <2>1. BaseLogger = IF inv.max_log_level = LOWEST_SEVERITY_LEVEL THEN <<filelogger>>
                     ELSE <<max, filelogger>>
    BY DEF BaseLogger
  <2>2. PICK l : l.kind = "local"
    BY LocalKind
  <2> QED BY <2>1, <2>2, Joins, GoodShapes
<1>2. ASSUME NEW function
      PROVE  GoodChain(In(function)) /\ GoodChain(ParentLogger(In(function)))
  <2>1. PICK l : l = LocalLogger(Named(function)) /\ l.kind = "local"
    BY LocalKind
  <2>2. PICK c : c = In(function)
    OBVIOUS
  <2>3. \/ inv.max_log_level = LOWEST_SEVERITY_LEVEL /\ Shape(c, <<l, filelogger>>)
        \/ inv.max_log_level # LOWEST_SEVERITY_LEVEL /\ Shape(c, <<l, max, filelogger>>)
    <3>1. c = <<l>> \o BaseLogger
      BY <2>1, <2>2 DEF In
    <3> QED BY <3>1, Joins DEF BaseLogger
  <2>4. ParentLogger(c) = SubSeq(c, 2, Len(c))
    <3>1. {i \in DOMAIN c : c[i].kind # "local"} = DOMAIN c \ {1}
      <4>1. CASE Shape(c, <<l, filelogger>>)
        <5>1. DOMAIN c = {1, 2} /\ c[1] = l /\ c[2] = filelogger
          BY <4>1 DEF Shape
        <5>2. l.kind = "local" /\ filelogger.kind = "file"
          BY <2>1 DEF GoodSink, FileLogger
        <5> QED BY <5>1, <5>2
      <4>2. CASE Shape(c, <<l, max, filelogger>>)
        <5>1. DOMAIN c = {1, 2, 3} /\ c[1] = l /\ c[2] = max /\ c[3] = filelogger
          BY <4>2 DEF Shape
        <5>2. l.kind = "local" /\ filelogger.kind = "file" /\ max.kind = "minimum severity"
          BY <2>1 DEF GoodSink, FileLogger, MinimumSeverityLogger
        <5> HIDE DEF max
        <5> QED BY <5>1, <5>2
      <4> QED BY <2>3, <4>1, <4>2
    <3>2. Min(DOMAIN c \ {1}) = 2
      <4>1. 2 \in DOMAIN c \ {1} /\ \A i \in DOMAIN c \ {1} : i \in Int /\ 2 <= i
        BY <2>3 DEF Shape
      <4> QED BY <4>1 DEF Min
    <3> QED BY <3>1, <3>2 DEF ParentLogger
  <2>5. GoodChain(c)
    BY <2>1, <2>3, GoodShapes
  <2>6. GoodChain(SubSeq(c, 2, Len(c)))
    <3>1. \/ /\ inv.max_log_level = LOWEST_SEVERITY_LEVEL
             /\ Shape(SubSeq(c, 2, Len(c)), <<filelogger>>)
          \/ Shape(SubSeq(c, 2, Len(c)), <<max, filelogger>>)
      BY <2>3, Cuts
    <3> QED BY <2>1, <3>1, GoodShapes
  <2> QED BY <2>2, <2>4, <2>5, <2>6
<1> QED BY <1>1, <1>2

\* The chain of parse_options() while the logger is being set up.
LEMMA GoodNewChain ==
  ASSUME NEW sink, GoodSink(sink), NEW spec
  PROVE  GoodChain(<<LocalLogger(spec)>> \o Front(BaseLogger) \o <<sink>>)
<1> DEFINE max == MinimumSeverityLogger(inv.max_log_level)
<1>1. PICK l : l = LocalLogger(spec) /\ l.kind = "local"
  BY LocalKind
<1>2. CASE inv.max_log_level = LOWEST_SEVERITY_LEVEL
  <2>1. Front(BaseLogger) = <<>>
    BY <1>2, Cuts DEF BaseLogger
  <2> QED BY <1>1, <1>2, <2>1, Joins, GoodShapes
<1>3. CASE inv.max_log_level # LOWEST_SEVERITY_LEVEL
  <2>1. Front(BaseLogger) = <<max>>
    BY <1>3, Cuts DEF BaseLogger
  <2> QED BY <1>1, <1>3, <2>1, Joins, GoodShapes
<1> QED BY <1>2, <1>3

\* What a good chain writes of some messages is what is due.
Due(lines, messages) ==
  /\ \A m \in messages : IsMessage(m)
  /\ \A w \in lines : \E m \in messages : Shows(w, m) /\ w.stream \in DueTo(m)
  /\ \A m \in messages : \A s \in DueTo(m) : \E w \in lines : Shows(w, m) /\ w.stream = s

LEMMA LinesDue ==
  ASSUME inv \in Invocations, NEW c, GoodChain(c), NEW messages,
         \A m \in messages : IsMessage(m)
  PROVE  Due(Lines(c, messages), messages)
<1>1. \A w \in Lines(c, messages) : \E m \in messages : Shows(w, m) /\ w.stream \in DueTo(m)
  <2> SUFFICES ASSUME NEW w \in Lines(c, messages)
               PROVE  \E m \in messages : Shows(w, m) /\ w.stream \in DueTo(m)
    OBVIOUS
  <2>1. PICK m \in messages : w \in Log(c, m)
    BY DEF Lines
  <2> QED BY <2>1, WhereEmitted
<1>2. ASSUME NEW m \in messages, NEW s \in DueTo(m)
      PROVE  \E w \in Lines(c, messages) : Shows(w, m) /\ w.stream = s
  <2>1. PICK w \in Log(c, m) : Shows(w, m) /\ w.stream = s
    BY <1>2, WhereEmitted
  <2>2. w \in Lines(c, messages)
    BY DEF Lines
  <2> QED BY <2>1, <2>2
<1> QED BY <1>1, <1>2 DEF Due

LEMMA DueTogether ==
  ASSUME NEW lines, NEW messages, NEW others, NEW more,
         Due(lines, messages), Due(others, more)
  PROVE  Due(lines \cup others, messages \cup more)
BY DEF Due

LEMMA OneLine ==
  ASSUME inv \in Invocations, NEW c, GoodChain(c), NEW m, IsMessage(m)
  PROVE  Due(Log(c, m), {m})
BY WhereEmitted DEF Due

LEMMA WritesDue ==
  ASSUME LogSound, inv' = inv, NEW lines, NEW messages, Due(lines, messages),
         written' = written \cup lines, issued' = issued \cup messages
  PROVE  LogSound'
<1>1. Due(written, issued)
  BY DEF LogSound, Due
<1>2. Due(written', issued')
  BY <1>1, DueTogether
<1>3. \A m : DueTo(m)' = DueTo(m)
  BY DEF DueTo, Asked, Destination, Redirection
<1>4. \A w, m : Shows(w, m)' = Shows(w, m)
  BY DEF Shows
<1>5. \A m : IsMessage(m)' = IsMessage(m)
  BY DEF IsMessage
<1> QED BY <1>2, <1>3, <1>4, <1>5 DEF LogSound, Due

\* the calls for each level make messages
LEMMA CallsMakeMessages ==
  /\ \A level \in LogLevels : \A what : IsMessage(Says(level, what))
  /\ \A origin, what : /\ IsMessage(Info(origin, what)) /\ IsMessage(Debug(origin, what))
                       /\ IsMessage(Longdebug(origin, what))
  /\ {ERROR, WARNING, INFO, DEBUG, LONGDEBUG} \subseteq LogLevels
<1>1. {ERROR, WARNING, INFO, DEBUG, LONGDEBUG} \subseteq LogLevels
  BY DEF ERROR, WARNING, INFO, DEBUG, LONGDEBUG, LogLevels
<1>2. \A level \in LogLevels : \A origin, what : IsMessage(Message(level, origin, what))
  BY DEF IsMessage, Message
<1> QED BY <1>1, <1>2 DEF Says, Info, Debug, Longdebug

\* The settings that logging depends on stay once it is set up.
LEMMA SettingsStay ==
  ASSUME LogInv, UNCHANGED <<inv, filelogger>>,
         phase \notin {"start", "logging", "library"} \/ phase' = "over",
         phase' \notin {"start", "logging", "library"}, phase = "over" => phase' = "over"
  PROVE  LogSetUp'
BY DEF LogInv, LogSetUp, Destination, Redirection, Asked

\* Steps that change no setting.
LEMMA PhaseStays ==
  ASSUME LogInv, UNCHANGED <<inv, filelogger, options>>, phase' = phase \/ phase' = "over"
  PROVE  LogSetUp'
BY DEF LogInv, LogSetUp, Destination, Redirection, Asked, options, Value, IsSet, IsGiven

LEMMA NothingLogged ==
  ASSUME LogInv, UNCHANGED <<inv, written, issued>>
  PROVE  LogSound'
<1>1. Due({}, {})
  BY DEF Due
<1> QED BY <1>1, WritesDue DEF LogInv

LEMMA SetUpAsAsked ==
  ASSUME LogInv, phase \notin {"start", "logging", "library", "over"}
  PROVE  GoodSink(filelogger)
BY DEF LogInv, LogSetUp, GoodSink

\* A step that logs through a chain of the set-up logger.
LEMMA LogsDue ==
  ASSUME LogInv, inv' = inv, NEW c, GoodChain(c), NEW messages, \A m \in messages : IsMessage(m),
         written' = written \cup Lines(c, messages), issued' = issued \cup messages
  PROVE  LogSound'
<1>1. Due(Lines(c, messages), messages)
  BY LinesDue DEF LogInv
<1> QED BY <1>1, WritesDue DEF LogInv

LEMMA DefaultLevel == "loglevel" \in DOMAIN Defaults /\ Defaults.loglevel = INFO
<1>1. Defaults.loglevel = INFO
  BY DEF Defaults
<1>2. "loglevel" \in DOMAIN Defaults
  BY DEF Defaults
<1> QED BY <1>1, <1>2

LEMMA NotifiedLevel ==
  ASSUME NEW given, "loglevel" \in DOMAIN opt
  PROVE  Notified(given).loglevel = IF "verbose" \in DOMAIN given THEN given["verbose"]
                                    ELSE opt.loglevel
BY DEF Notified

LEMMA StoreOptionsStep ==
  ASSUME LogInv, StoreOptions
  PROVE  LogInv'
<1>1. phase = "start" /\ UNCHANGED <<inv, log>> /\ phase' \in {"over", "logging"}
  BY DEF StoreOptions, Exit, Goto
<1>2. LogSound'
  BY <1>1, NothingLogged DEF log
<1>3. CASE phase' = "over"
  BY <1>1, <1>2, <1>3 DEF LogInv, LogSetUp
<1>4. CASE phase' = "logging"
  <2> DEFINE with_config == "config" \in DOMAIN inv.cmd
  <2>1. /\ vm' = IF with_config THEN Stored ELSE inv.cmd
        /\ opt' = Notified(vm') /\ opt = Defaults
    BY <1>1, <1>4 DEF StoreOptions, Exit, Goto, LogInv, LogSetUp
  <2>2. \A name, default : (Value(name, default))' = Asked(name, default)
    BY <2>1 DEF Value, IsGiven, Asked, Stored
  <2>3. opt'.loglevel = IF "verbose" \in DOMAIN vm' THEN vm'["verbose"] ELSE INFO
    <3>1. PICK given : given = vm'
      OBVIOUS
    <3>2. "loglevel" \in DOMAIN opt /\ opt.loglevel = INFO
      BY <2>1, DefaultLevel
    <3> QED BY <2>1, <3>1, <3>2, NotifiedLevel
  <2> QED BY <1>1, <1>2, <1>4, <2>1, <2>2, <2>3
          DEF LogInv, LogSetUp, Value, IsGiven, IsSet, Asked, Stored
<1> QED BY <1>1, <1>3, <1>4

LEMMA SetUpLoggingStep ==
  ASSUME LogInv, SetUpLogging
  PROVE  LogInv'
<1>1. phase = "logging" /\ UNCHANGED <<inv, options>>
  BY DEF SetUpLogging
<1>2. CASE UNCHANGED log /\ phase' = "over"
  BY <1>1, <1>2, NothingLogged, PhaseStays DEF log, LogInv
<1>3. CASE phase' = "switches"
  <2>1. PICK set_up : set_up = FileLogger(IF Redirected THEN "logfile" ELSE "stdout",
                                          opt.loglevel, opt.verbose_log_info)
    OBVIOUS
  <2>2. PICK messages : messages = When(Redirected, {Says(INFO, "output is redirected")})
                                   \cup When(IsGiven("config"), {Says(DEBUG, "options loaded")})
    OBVIOUS
  <2>3. PICK c : c = <<LocalLogger(Named("parse_options()"))>> \o Front(BaseLogger) \o <<set_up>>
    OBVIOUS
  <2>4. filelogger' = set_up /\ written' = written \cup Lines(c, messages)
        /\ issued' = issued \cup messages
    BY <1>3, <2>1, <2>2, <2>3 DEF SetUpLogging, Exit, Goto, Writes
  <2>5. GoodSink(set_up)
    <3>1. Redirected <=> Redirection
      BY <1>1 DEF LogInv, LogSetUp, Redirected, Redirection
    <3>2. opt.loglevel = Asked("verbose", INFO)
      BY <1>1 DEF LogInv, LogSetUp
    <3> QED BY <2>1, <3>1, <3>2 DEF GoodSink, FileLogger, Destination
  <2>6. \A m \in messages : IsMessage(m)
    BY <2>2, CallsMakeMessages DEF When
  <2>7. LogSound'
    BY <1>1, <2>3, <2>4, <2>5, <2>6, GoodNewChain, LogsDue
  <2>8. LogSetUp'
    BY <1>1, <1>3, <2>4, <2>5 DEF LogSetUp, GoodSink, Destination, Redirection, Asked
  <2> QED BY <1>1, <2>7, <2>8 DEF LogInv
<1> QED BY <1>2, <1>3 DEF SetUpLogging, Exit, Goto

LEMMA SetSwitchesStep ==
  ASSUME LogInv, SetSwitches
  PROVE  LogInv'
<1>1. phase = "switches" /\ phase' \in {"over", "checks"} /\ UNCHANGED <<inv, log>>
  BY DEF SetSwitches, Exit, Goto
<1> QED BY <1>1, NothingLogged, SettingsStay DEF LogInv, log

LEMMA CheckOptionsStep ==
  ASSUME LogInv, CheckOptions
  PROVE  LogInv'
<1>1. phase = "checks" /\ phase' \in {"over", "main"} /\ UNCHANGED <<inv, filelogger>>
  BY DEF CheckOptions, Exit, Goto, LogsTo, log
<1>2. \/ UNCHANGED log
      \/ \E messages \in {{Says(ERROR, "no data file specified")},
                          When(IsGiven("value-hist"),
                               {Says(DEBUG, "histogram parameters parsed")})} :
           LogsTo(In("parse_options()"), messages)
  BY DEF CheckOptions
<1>3. ASSUME NEW messages \in {{Says(ERROR, "no data file specified")},
                               When(IsGiven("value-hist"),
                                    {Says(DEBUG, "histogram parameters parsed")})},
             LogsTo(In("parse_options()"), messages)
      PROVE  LogSound'
  <2>1. \A m \in messages : IsMessage(m)
    <3>1. IsMessage(Says(ERROR, "no data file specified"))
          /\ IsMessage(Says(DEBUG, "histogram parameters parsed"))
      BY CallsMakeMessages
    <3>2. \A m \in messages : m \in {Says(ERROR, "no data file specified"),
                                     Says(DEBUG, "histogram parameters parsed")}
      BY <1>3 DEF When
    <3> QED BY <3>1, <3>2
  <2> QED BY <1>1, <1>3, <2>1, SetUpAsAsked, GoodChains, LogsDue DEF LogsTo, Writes
<1>4. LogSound'
  BY <1>1, <1>2, <1>3, NothingLogged DEF log
<1> QED BY <1>1, <1>4, SettingsStay DEF LogInv

LEMMA ShowParametersStep ==
  ASSUME LogInv, ShowParameters
  PROVE  LogInv'
<1>1. phase = "main" /\ phase' = "open" /\ UNCHANGED <<inv, filelogger>>
  BY DEF ShowParameters, Goto
<1>2. PICK messages :
        /\ messages = {Says(INFO, "welcome"), Says(DEBUG, "features")}
                        \cup NiceMessage \cup PreliminaryChecks
        /\ Writes(Lines(In("main()"), messages)
                    \cup Log(ParentLogger(In("main()")), Parameters),
                  messages \cup {Parameters})
  BY DEF ShowParameters
<1>3. \A m \in messages : IsMessage(m)
  <2>1. \A what : IsMessage(Says(INFO, what)) /\ IsMessage(Says(DEBUG, what))
                  /\ IsMessage(Says(WARNING, what))
    BY CallsMakeMessages
  <2>2. \A m \in NiceMessage : IsMessage(m)
    BY <2>1 DEF NiceMessage, When
  <2>3. \A m \in PreliminaryChecks : IsMessage(m)
    BY <2>1 DEF PreliminaryChecks, When
  <2> QED BY <1>2, <2>1, <2>2, <2>3
<1>4. IsMessage(Parameters)
  BY CallsMakeMessages DEF Parameters
<1>5. GoodChain(In("main()")) /\ GoodChain(ParentLogger(In("main()")))
  BY <1>1, SetUpAsAsked, GoodChains
<1>6. Due(Lines(In("main()"), messages), messages)
  BY <1>3, <1>5, LinesDue DEF LogInv
<1>7. Due(Log(ParentLogger(In("main()")), Parameters), {Parameters})
  BY <1>4, <1>5, OneLine DEF LogInv
<1>8. LogSound'
  BY <1>1, <1>2, <1>6, <1>7, DueTogether, WritesDue DEF Writes, LogInv
<1> QED BY <1>1, <1>8, SettingsStay DEF LogInv

LEMMA OpenDataFileStep ==
  ASSUME LogInv, OpenDataFile
  PROVE  LogInv'
<1>1. phase = "open" /\ phase' \in {"over", "dispatch"} /\ UNCHANGED <<inv, filelogger>>
  BY DEF OpenDataFile, Exit, Goto, LogsTo
<1>2. \E m \in {Says(DEBUG, "data file opened"), Says(ERROR, "failed to read data")} :
        LogsTo(In("main()"), {m})
  BY DEF OpenDataFile
<1>3. ASSUME NEW m \in {Says(DEBUG, "data file opened"), Says(ERROR, "failed to read data")},
             LogsTo(In("main()"), {m})
      PROVE  LogSound'
  <2>1. IsMessage(m)
    BY CallsMakeMessages
  <2> QED BY <1>1, <1>3, <2>1, SetUpAsAsked, GoodChains, LogsDue DEF LogsTo, Writes
<1> QED BY <1>1, <1>2, <1>3, SettingsStay DEF LogInv

\* An exception is logged on the way out of main().
LEMMA AbortLogs ==
  ASSUME LogInv, inv' = inv, phase \notin {"start", "logging", "library", "over"},
         NEW messages, NEW what, Abort(messages, what), \A m \in messages : IsMessage(m)
  PROVE  LogSound'
<1>1. PICK m : m = Says(ERROR, what) /\ IsMessage(m)
  BY CallsMakeMessages
<1>2. GoodChain(In("tomorun_dispatch()")) /\ GoodChain(In("main()"))
  BY SetUpAsAsked, GoodChains
<1>3. Due(Lines(In("tomorun_dispatch()"), messages), messages)
  BY <1>2, LinesDue DEF LogInv
<1>4. Due(Log(In("main()"), m), {m})
  BY <1>1, <1>2, OneLine DEF LogInv
<1> QED BY <1>1, <1>3, <1>4, DueTogether, WritesDue DEF Abort, Writes, LogInv

LEMMA DispatchStep ==
  ASSUME LogInv, Dispatch
  PROVE  LogInv'
<1>1. PICK preparing, reading :
        /\ preparing = {Says(DEBUG, "preparing to dispatch")}
        /\ reading = preparing \cup When(DataRead, {Says(DEBUG, "data read"),
                                                    Says(DEBUG, "value calculator")})
        /\ \/ LogsTo(In("tomorun_dispatch()"), reading) /\ phase' = "tomorun"
           \/ Abort(reading, "exception")
           \/ LogsTo(In("tomorun_dispatch()"), preparing) /\ phase' = "over"
  BY DEF Dispatch, Exit, Goto
<1>2. phase = "dispatch" /\ phase' \in {"over", "tomorun"} /\ UNCHANGED <<inv, filelogger>>
  BY DEF Dispatch, Exit, Goto, LogsTo, Abort
<1>3. (\A m \in preparing : IsMessage(m)) /\ (\A m \in reading : IsMessage(m))
  <2>1. \A what : IsMessage(Says(DEBUG, what))
    BY CallsMakeMessages
  <2> QED BY <1>1, <2>1 DEF When
<1>4. LogSound'
  <2>1. GoodChain(In("tomorun_dispatch()"))
    BY <1>2, SetUpAsAsked, GoodChains
  <2>2. CASE Abort(reading, "exception")
    BY <1>2, <1>3, <2>2, AbortLogs
  <2>3. ASSUME NEW messages \in {preparing, reading}, LogsTo(In("tomorun_dispatch()"), messages)
        PROVE  LogSound'
    BY <1>2, <1>3, <2>1, <2>3, LogsDue DEF LogsTo, Writes
  <2> QED BY <1>1, <2>2, <2>3
<1> QED BY <1>2, <1>4, SettingsStay DEF LogInv

LEMMA SetUpRunStep ==
  ASSUME LogInv, SetUpRun
  PROVE  LogInv'
<1>1. phase = "tomorun" /\ phase' = "run" /\ UNCHANGED <<inv, filelogger>>
  BY DEF SetUpRun, Goto, LogsTo
<1>2. PICK messages :
        /\ messages = {Debug(<<"tomorun()">>, <<"base seed">>),
                       Debug(<<"status reporter">>, <<"setting up signal handler">>),
                       Debug(<<"run()">>, <<"preparing for sequential runs">>)}
        /\ LogsTo(ParentLogger(In("tomorun()")), messages)
  BY DEF SetUpRun
<1>3. \A m \in messages : IsMessage(m)
  BY <1>2, CallsMakeMessages
<1>4. GoodChain(ParentLogger(In("tomorun()")))
  BY <1>1, SetUpAsAsked, GoodChains
<1>5. LogSound'
  BY <1>1, <1>2, <1>3, <1>4, LogsDue DEF LogsTo, Writes
<1> QED BY <1>1, <1>5, SettingsStay DEF LogInv

LEMMA RunTasksStep ==
  ASSUME LogInv, RunTasks
  PROVE  LogInv'
<1>1. phase = "run" /\ phase' = phase /\ UNCHANGED <<inv, filelogger>>
  BY DEF RunTasks, LogsTo, progress
<1>2. PICK messages :
        /\ messages = When(pc = "next" /\ pc' = "setup",
                           {Debug(<<"run()">>, <<"running task", task_k>>)})
                      \cup When(results' # results, {Longdebug(<<"run()">>, <<"collecting result">>)})
                      \cup When(outcome' = "ok", {Debug(<<"run()">>, <<"all done">>)})
        /\ LogsTo(BaseLogger, messages)
  BY DEF RunTasks
<1>3. \A m \in messages : IsMessage(m)
  <2>1. \A origin, what : IsMessage(Debug(origin, what)) /\ IsMessage(Longdebug(origin, what))
    BY CallsMakeMessages
  <2> QED BY <1>2, <2>1 DEF When
<1>4. GoodChain(BaseLogger)
  BY <1>1, SetUpAsAsked, GoodChains
<1>5. LogSound'
  BY <1>1, <1>2, <1>3, <1>4, LogsDue DEF LogsTo, Writes
<1> QED BY <1>1, <1>5, SettingsStay DEF LogInv

LEMMA FinishRunStep ==
  ASSUME LogInv, FinishRun
  PROVE  LogInv'
<1>1. phase = "run" /\ phase' \in {"over", "return"} /\ UNCHANGED <<inv, filelogger>>
  BY DEF FinishRun, Goto, Exit, LogsTo, Abort
<1>2. PICK messages :
        /\ messages = {Says(DEBUG, "random walks done"), Says(INFO, "final report"),
                       Says(INFO, "computation time")}
                      \cup When(opt.write_histogram # "", {Says(INFO, "wrote histogram")})
        /\ LogsTo(In("tomorun()"), messages) \/ Abort({}, "exception")
  BY DEF FinishRun
<1>3. \A m \in messages : IsMessage(m)
  <2>1. \A what : IsMessage(Says(DEBUG, what)) /\ IsMessage(Says(INFO, what))
    BY CallsMakeMessages
  <2> QED BY <1>2, <2>1 DEF When
<1>4. GoodChain(In("tomorun()"))
  BY <1>1, SetUpAsAsked, GoodChains
<1>5. CASE LogsTo(In("tomorun()"), messages)
  <2>1. LogSound'
    BY <1>1, <1>3, <1>4, <1>5, LogsDue DEF LogsTo, Writes
  <2> QED BY <1>1, <2>1, SettingsStay DEF LogInv
<1>6. CASE Abort({}, "exception")
  <2>1. LogSound'
    BY <1>1, <1>6, AbortLogs
  <2> QED BY <1>1, <2>1, SettingsStay DEF LogInv
<1> QED BY <1>2, <1>5, <1>6

LEMMA ReturnStep ==
  ASSUME LogInv, Return
  PROVE  LogInv'
<1>1. phase = "return" /\ phase' = "over" /\ UNCHANGED <<inv, filelogger>>
  BY DEF Return, Exit, LogsTo
<1>2. PICK m : m = Says(DEBUG, "freeing input file resource") /\ LogsTo(In("main()"), {m})
  BY DEF Return
<1>3. IsMessage(m)
  BY <1>2, CallsMakeMessages
<1>4. LogSound'
  BY <1>1, <1>2, <1>3, SetUpAsAsked, GoodChains, LogsDue DEF LogsTo, Writes
<1> QED BY <1>1, <1>4, SettingsStay DEF LogInv

\* The steps that log nothing: signals, time, and a program that uses the dispatcher directly.
LEMMA QuietSteps ==
  ASSUME LogInv,
         UsedDirectly \/ ReportIntervalElapses \/ Hit \/ Tick \/ Over \/ UNCHANGED tomorun_vars
  PROVE  LogInv'
<1>1. UNCHANGED <<inv, options, log>> /\ (phase' = phase \/ phase' = "over")
  <2>1. CASE UsedDirectly \/ ReportIntervalElapses \/ Over \/ UNCHANGED tomorun_vars
    BY <2>1 DEF UsedDirectly, ReportIntervalElapses, Over, tomorun_vars, program, progress
  <2>2. CASE Tick
    BY <2>2 DEF Tick, progress
  <2>3. CASE Hit
    BY <2>3 DEF Hit, Exit, progress
  <2> QED BY <2>1, <2>2, <2>3
<1> QED BY <1>1, NothingLogged, PhaseStays DEF LogInv, log

LEMMA LogStep ==
  ASSUME LogInv, [TomorunNext]_tomorun_vars
  PROVE  LogInv'
<1>1. CASE Main
  BY <1>1, StoreOptionsStep, SetUpLoggingStep, SetSwitchesStep, CheckOptionsStep,
     ShowParametersStep, OpenDataFileStep, DispatchStep, ReturnStep DEF Main
<1> QED BY <1>1, SetUpRunStep, RunTasksStep, FinishRunStep, QuietSteps DEF TomorunNext

\* Whatever the invocation, and whatever the signals and the tasks do, what is in the log is
\* what is due there.
THEOREM LogAsDue == TomorunSpec => []LogInv
<1>1. TomorunInit => LogInv
  <2> SUFFICES ASSUME TomorunInit PROVE LogInv
    OBVIOUS
  <2>1. phase \in {"start", "library"} /\ inv \in Invocations /\ opt = Defaults
        /\ written = {} /\ issued = {}
    BY DEF TomorunInit
  <2> HIDE DEF Defaults
  <2> QED BY <2>1 DEF LogInv, LogSetUp, LogSound
<1>2. LogInv /\ [TomorunNext]_tomorun_vars => LogInv'
  BY LogStep
<1> QED BY <1>1, <1>2, PTL DEF TomorunSpec

\* Every message up to the verbosity asked for, and to the maximum compiled in, is in the log, and
\* no other message is; errors and warnings that go into a file are shown on the terminal too.
THEOREM MessagesAsAsked == TomorunSpec => []MessagesReachTheLog
<1>1. LogInv => MessagesReachTheLog
  <2> SUFFICES ASSUME LogInv, NEW m \in issued
               PROVE  {w.stream : w \in {w \in written : Shows(w, m)}} = DueTo(m)
    BY DEF MessagesReachTheLog
  <2>1. ASSUME NEW w \in written, Shows(w, m)
        PROVE  w.stream \in DueTo(m)
    <3>1. PICK other \in issued : Shows(w, other) /\ w.stream \in DueTo(other)
      BY <2>1 DEF LogInv, LogSound
    <3>2. other.level = m.level
      BY <2>1, <3>1 DEF Shows
    <3> QED BY <3>1, <3>2 DEF DueTo
  <2>2. ASSUME NEW s \in DueTo(m)
        PROVE  \E w \in {w \in written : Shows(w, m)} : w.stream = s
    <3>1. PICK w \in written : Shows(w, m) /\ w.stream = s
      BY <2>2 DEF LogInv, LogSound
    <3> QED BY <3>1
  <2>3. \A s : s \in {w.stream : w \in {w \in written : Shows(w, m)}} <=> s \in DueTo(m)
    BY <2>1, <2>2
  <2> QED BY <2>3
<1> QED BY <1>1, LogAsDue, PTL

-----------------------------------------------------------------------------
\* The variant that runs

LEMMA SaysApart ==
  /\ \A l, k, v, w : Says(l, v) = Says(k, w) => l = k /\ v = w
  /\ \A l, v : Says(l, v).level = l
  /\ \A o, v : /\ Info(o, v).level = INFO /\ Debug(o, v).level = DEBUG
               /\ Longdebug(o, v).level = LONGDEBUG
<1>1. \A l, o, w : Message(l, o, w).level = l /\ Message(l, o, w).what = w
  BY DEF Message
<1>2. \A v, w : <<v>> = <<w>> => v = w
  OBVIOUS
<1> QED BY <1>1, <1>2 DEF Says, Info, Debug, Longdebug

LEMMA LevelsApart ==
  /\ ERROR # WARNING /\ INFO # WARNING /\ DEBUG # WARNING /\ LONGDEBUG # WARNING
BY DEF ERROR, WARNING, INFO, DEBUG, LONGDEBUG

\* no messages that are warnings
Harmless(messages) == \A m \in messages : m.level # WARNING

LEMMA HarmlessCalls ==
  /\ \A v : /\ Says(ERROR, v).level # WARNING /\ Says(INFO, v).level # WARNING
            /\ Says(DEBUG, v).level # WARNING
  /\ \A o, v : /\ Info(o, v).level # WARNING /\ Debug(o, v).level # WARNING
               /\ Longdebug(o, v).level # WARNING
BY SaysApart, LevelsApart

LEMMA NoSwitchIs ==
  /\ DOMAIN NoSwitch \subseteq Switches
  /\ NoSwitch["light-jumps"] = "no-light-jumps"
  /\ NoSwitch["binning-analysis-error-bars"] = "no-binning-analysis-error-bars"
  /\ NoSwitch["control-step-size"] = "no-control-step-size"
  /\ NoSwitch["control-binning-converged"] = "no-control-binning-converged"
  /\ DOMAIN NoSwitch = {"light-jumps", "binning-analysis-error-bars", "control-step-size",
                        "control-binning-converged"}
BY DEF NoSwitch, Switches

\* Only what is displayed on the way to the run is warned about.
LEMMA WarnsOnly ==
  ASSUME [TomorunNext]_tomorun_vars, ~ShowParameters
  PROVE  \E messages : issued' = issued \cup messages /\ Harmless(messages)
<1>1. ASSUME issued' = issued
      PROVE  \E messages : issued' = issued \cup messages /\ Harmless(messages)
  <2>1. issued' = issued \cup {} /\ Harmless({})
    BY <1>1 DEF Harmless
  <2> QED BY <2>1
<1>2. \A what : Harmless({Says(DEBUG, what)})
  BY HarmlessCalls DEF Harmless
<1>3. CASE StoreOptions \/ SetSwitches
  BY <1>1, <1>3 DEF StoreOptions, SetSwitches, log
<1>4. CASE SetUpLogging
  <2>1. CASE UNCHANGED log
    BY <1>1, <2>1 DEF log
  <2>2. CASE ~UNCHANGED log
    <3>1. PICK messages :
            /\ issued' = issued \cup messages
            /\ messages = When(Redirected, {Says(INFO, "output is redirected")})
                                   \cup When(IsGiven("config"), {Says(DEBUG, "options loaded")})
      BY <1>4, <2>2 DEF SetUpLogging, Writes
    <3>2. \A m \in messages : m \in {Says(INFO, "output is redirected"),
                                     Says(DEBUG, "options loaded")}
      BY <3>1 DEF When
    <3>3. Harmless(messages)
      BY <3>2, HarmlessCalls DEF Harmless
    <3> QED BY <3>1, <3>3
  <2> QED BY <2>1, <2>2
<1>5. CASE CheckOptions
  <2>1. CASE UNCHANGED log
    BY <1>1, <2>1 DEF log
  <2>2. CASE ~UNCHANGED log
    <3>1. PICK messages :
            /\ issued' = issued \cup messages
            /\ messages \in {{Says(ERROR, "no data file specified")},
                          When(IsGiven("value-hist"),
                               {Says(DEBUG, "histogram parameters parsed")})}
      BY <1>5, <2>2 DEF CheckOptions, LogsTo, Writes
    <3>2. \A m \in messages : m \in {Says(ERROR, "no data file specified"),
                                     Says(DEBUG, "histogram parameters parsed")}
      BY <3>1 DEF When
    <3>3. Harmless(messages)
      BY <3>2, HarmlessCalls DEF Harmless
    <3> QED BY <3>1, <3>3
  <2> QED BY <2>1, <2>2
<1>6. CASE OpenDataFile
  <2>1. PICK messages :
            /\ issued' = issued \cup messages
            /\ messages \in {{Says(DEBUG, "data file opened")}, {Says(ERROR, "failed to read data")}}
    BY <1>6 DEF OpenDataFile, LogsTo, Writes
  <2> QED BY <2>1, HarmlessCalls DEF Harmless
<1>7. CASE Dispatch
  <2>1. PICK preparing, reading :
        /\ preparing = {Says(DEBUG, "preparing to dispatch")}
        /\ reading = preparing \cup When(DataRead, {Says(DEBUG, "data read"),
                                                    Says(DEBUG, "value calculator")})
        /\ \/ issued' = issued \cup reading
           \/ issued' = issued \cup (reading \cup {Says(ERROR, "exception")})
           \/ issued' = issued \cup preparing
    BY <1>7 DEF Dispatch, LogsTo, Writes, Abort
  <2>2. /\ Harmless(preparing) /\ Harmless(reading)
        /\ Harmless(reading \cup {Says(ERROR, "exception")})
    BY <2>1, HarmlessCalls DEF Harmless, When
  <2> QED BY <2>1, <2>2
<1>8. CASE Return
  BY <1>2, <1>8 DEF Return, LogsTo, Writes
<1>9. CASE SetUpRun
  <2>1. PICK messages :
        /\ messages = {Debug(<<"tomorun()">>, <<"base seed">>),
                       Debug(<<"status reporter">>, <<"setting up signal handler">>),
                       Debug(<<"run()">>, <<"preparing for sequential runs">>)}
        /\ issued' = issued \cup messages
    BY <1>9 DEF SetUpRun, LogsTo, Writes
  <2>2. Harmless(messages)
    BY <2>1, HarmlessCalls DEF Harmless
  <2> QED BY <2>1, <2>2
<1>10. CASE RunTasks
  <2>1. PICK messages :
        /\ messages = When(pc = "next" /\ pc' = "setup",
                           {Debug(<<"run()">>, <<"running task", task_k>>)})
                      \cup When(results' # results, {Longdebug(<<"run()">>, <<"collecting result">>)})
                      \cup When(outcome' = "ok", {Debug(<<"run()">>, <<"all done">>)})
        /\ issued' = issued \cup messages
    BY <1>10 DEF RunTasks, LogsTo, Writes
  <2>2. Harmless(messages)
    BY <2>1, HarmlessCalls DEF Harmless, When
  <2> QED BY <2>1, <2>2
<1>11. CASE FinishRun
  <2>1. PICK messages :
        /\ messages = {Says(DEBUG, "random walks done"), Says(INFO, "final report"),
                       Says(INFO, "computation time")}
                      \cup When(opt.write_histogram # "", {Says(INFO, "wrote histogram")})
        /\ \/ issued' = issued \cup messages
           \/ issued' = issued \cup ({} \cup {Says(ERROR, "exception")})
    BY <1>11 DEF FinishRun, LogsTo, Writes, Abort
  <2>2. Harmless(messages) /\ Harmless({} \cup {Says(ERROR, "exception")})
    BY <2>1, HarmlessCalls DEF Harmless, When
  <2> QED BY <2>1, <2>2
<1>12. CASE UsedDirectly \/ ReportIntervalElapses \/ Hit \/ Tick \/ Over \/ UNCHANGED tomorun_vars
  BY <1>1, <1>12 DEF UsedDirectly, ReportIntervalElapses, Hit, Tick, Over, tomorun_vars, program, log
<1> QED BY <1>3, <1>4, <1>5, <1>6, <1>7, <1>8, <1>9, <1>10, <1>11, <1>12 DEF TomorunNext, Main

-----------------------------------------------------------------------------
\* What is asked for does not change.
LEMMA AskedStays ==
  ASSUME inv' = inv
  PROVE  /\ \A name, default : (Asked(name, default))' = Asked(name, default)
         /\ \A s : (AskedOn(s))' = AskedOn(s) /\ (AskedOff(s))' = AskedOff(s)
         /\ ErrorBarsAsked' = ErrorBarsAsked /\ ControlConvergedAsked' = ControlConvergedAsked
         /\ FigureAsked' = FigureAsked /\ LevelsAsked' = LevelsAsked
         /\ \A levels, val_hist : (DisplayAsked(levels, val_hist))' = DisplayAsked(levels, val_hist)
<1>1. \A name, default : (Asked(name, default))' = Asked(name, default)
  BY DEF Asked
<1>2. \A s : (AskedOn(s))' = AskedOn(s) /\ (AskedOff(s))' = AskedOff(s)
  BY <1>1 DEF AskedOn, AskedOff
<1>3. ErrorBarsAsked' = ErrorBarsAsked /\ ControlConvergedAsked' = ControlConvergedAsked
  BY <1>2 DEF ErrorBarsAsked, ControlConvergedAsked
<1>4. FigureAsked' = FigureAsked /\ LevelsAsked' = LevelsAsked
  BY <1>1 DEF FigureAsked, LevelsAsked
<1>5. \A levels, val_hist : (DisplayAsked(levels, val_hist))' = DisplayAsked(levels, val_hist)
  BY <1>2, <1>3, <1>4 DEF DisplayAsked
<1> QED BY <1>1, <1>2, <1>3, <1>4, <1>5

\* What there was to be warned about stays warned about, or not.
LEMMA WarningsStay ==
  ASSUME inv' = inv, NEW messages, issued' = issued \cup messages, Harmless(messages)
  PROVE  /\ \A m : m \in issued => m \in issued'
         /\ \A what : Says(WARNING, what) \in issued' <=> Says(WARNING, what) \in issued
         /\ WarnedAsDue => WarnedAsDue'
         /\ used' = used /\ RunsAsAsked => RunsAsAsked'
<1>1. \A m : m \in issued => m \in issued'
  OBVIOUS
<1>2. \A what : Says(WARNING, what) \in issued' <=> Says(WARNING, what) \in issued
  BY SaysApart DEF Harmless
<1>3. WarnedAsDue => WarnedAsDue'
  BY <1>2, AskedStays DEF WarnedAsDue
<1>4. \A parameters : IsDisplayed(parameters) => (IsDisplayed(parameters))'
  BY <1>1 DEF IsDisplayed
<1>5. ASSUME used' = used, RunsAsAsked
      PROVE  RunsAsAsked'
  BY <1>2, <1>4, <1>5, AskedStays DEF RunsAsAsked
<1> QED BY <1>1, <1>2, <1>3, <1>5

\* Steps that choose nothing.
LEMMA ChoicesStay ==
  ASSUME ChoiceInv, UNCHANGED <<inv, opt, vm, used>>,
         \/ phase' = phase \/ phase' = "over"
         \/ phase \in AfterDisplay /\ phase' \in AfterDisplay
         \/ phase \in BeforeSwitches /\ phase' \in BeforeSwitches
         \/ phase \in {"checks", "main"} /\ phase' \in {"checks", "main"},
         NEW messages, issued' = issued \cup messages, Harmless(messages)
  PROVE  ChoiceInv'
<1> USE DEF BeforeSwitches, BeforeDisplay, AfterDisplay
<1>1. SwitchesAtDefault => SwitchesAtDefault'
  BY DEF SwitchesAtDefault
<1>2. /\ SwitchesAsAsked => SwitchesAsAsked'
      /\ ValuesAsAsked => ValuesAsAsked'
  BY AskedStays DEF SwitchesAsAsked, ValuesAsAsked
<1>3. (\A s \in Switches : IsSet(s) = Asked(s, FALSE))
        => (\A s \in Switches : IsSet(s) = Asked(s, FALSE))'
  BY AskedStays DEF IsSet, Value, IsGiven
<1>4. /\ opt.binning_analysis_num_levels = Asked("binning-analysis-num-levels", -1)
           => (opt.binning_analysis_num_levels = Asked("binning-analysis-num-levels", -1))'
      /\ opt.binning_analysis_num_levels = LevelsAsked
           => (opt.binning_analysis_num_levels = LevelsAsked)'
  BY AskedStays
<1>5. (\A m \in issued : m.level # WARNING) => (\A m \in issued : m.level # WARNING)'
  BY DEF Harmless
<1>6. IsDisplayed(DisplayAsked(IF ErrorBarsAsked THEN LevelsAsked ELSE 0, opt.val_hist))
        => (IsDisplayed(DisplayAsked(IF ErrorBarsAsked THEN LevelsAsked ELSE 0, opt.val_hist)))'
  BY AskedStays DEF IsDisplayed
<1>7. WarnedAsDue => WarnedAsDue'
  BY WarningsStay
<1>8. RunsAsAsked'
  BY WarningsStay DEF ChoiceInv
<1>9. inv' \in Invocations /\ ChosenOptions \subseteq DOMAIN opt'
  BY DEF ChoiceInv
<1> HIDE DEF SwitchesAtDefault, SwitchesAsAsked, ValuesAsAsked, IsSet, Asked, IsDisplayed,
             DisplayAsked, ErrorBarsAsked, LevelsAsked, WarnedAsDue, RunsAsAsked
<1>10. CASE phase' = phase
  BY <1>1, <1>2, <1>3, <1>4, <1>5, <1>6, <1>7, <1>8, <1>9, <1>10 DEF ChoiceInv
<1>11. CASE phase' = "over"
  BY <1>8, <1>9, <1>11 DEF ChoiceInv
<1>12. CASE phase \in AfterDisplay /\ phase' \in AfterDisplay
  BY <1>2, <1>4, <1>6, <1>7, <1>8, <1>9, <1>12 DEF ChoiceInv
<1>13. CASE phase \in BeforeSwitches /\ phase' \in BeforeSwitches
  BY <1>1, <1>2, <1>3, <1>4, <1>5, <1>8, <1>9, <1>13 DEF ChoiceInv
<1>14. CASE phase \in {"checks", "main"} /\ phase' \in {"checks", "main"}
  BY <1>2, <1>4, <1>5, <1>8, <1>9, <1>14 DEF ChoiceInv
<1> QED BY <1>10, <1>11, <1>12, <1>13, <1>14

-----------------------------------------------------------------------------
\* What is asked for is of its type.
LEMMA AskedTypes ==
  ASSUME inv \in Invocations
  PROVE  /\ \A s \in Switches : Asked(s, FALSE) \in BOOLEAN
         /\ Asked("n-run", Defaults.n_run) \in Int /\ Asked("n-run", Defaults.n_run) <= MaxInt
         /\ Asked("binning-analysis-num-levels", -1) \in Int
         /\ \E S : Asked("value-type", <<"fidelity">>) \in Seq(S) \ {<<>>}
<1>1. \A name, default : \/ Asked(name, default) = default
                         \/ IsOption(name, Asked(name, default))
  BY InvocationsAssumption DEF Asked
<1>2. Defaults.n_run = 32768
  BY DEF Defaults
<1>3. 32768 \in Int /\ 32768 <= MaxInt
  BY SMT DEF MaxInt
<1>4. <<"fidelity">> \in Seq({"fidelity"}) \ {<<>>}
  OBVIOUS
<1> HIDE DEF Defaults
<1>5. \A s \in Switches : Asked(s, FALSE) \in BOOLEAN
  BY <1>1 DEF IsOption
<1>6. Asked("n-run", Defaults.n_run) \in Int /\ Asked("n-run", Defaults.n_run) <= MaxInt
  BY <1>1, <1>2, <1>3 DEF IsOption
<1>7. Asked("binning-analysis-num-levels", -1) \in Int
  BY <1>1 DEF IsOption
<1>8. \E S : Asked("value-type", <<"fidelity">>) \in Seq(S) \ {<<>>}
  BY <1>1, <1>4 DEF IsOption
<1> QED BY <1>5, <1>6, <1>7, <1>8

\* What is displayed of the figure of merit is the text that was given.
LEMMA FigureDisplayed ==
  ASSUME NEW S, NEW text \in Seq(S) \ {<<>>}, Head(text) \in Range(Figures)
  PROVE  FigureText(FigureOfMeritSpec(text))
           = IF text = <<text[1], Blank>> THEN <<text[1]>> ELSE text
<1> DEFINE spec == FigureOfMeritSpec(text)
<1>1. Figures[spec.valtype] = Head(text)
  <2>1. \E j \in DOMAIN Figures : Figures[j] = Head(text)
    BY DEF Range
  <2>2. spec.valtype = CHOOSE j \in DOMAIN Figures : Figures[j] = Head(text)
    BY DEF FigureOfMeritSpec
  <2> HIDE DEF spec
  <2> QED BY <2>1, <2>2
<1>2. Len(text) \in Nat /\ Len(text) # 0 /\ Head(text) = text[1] /\ text[1] \in S
  OBVIOUS
<1>3. spec.ref_obj_name = IF Len(text) = 1 THEN NoName ELSE Tail(text)
  BY DEF FigureOfMeritSpec
<1>4. FigureText(spec) = <<text[1]>> \o IF spec.ref_obj_name = NoName THEN <<>>
                                        ELSE spec.ref_obj_name
  BY <1>1, <1>2 DEF FigureText
<1> HIDE DEF spec
<1>5. <<text[1]>> \o <<>> = <<text[1]>>
  BY <1>2
<1> DEFINE T == S \cup {Blank}
<1>t. text \in Seq(T)
  <2>1. \A i \in 1 .. Len(text) : text[i] \in T
    OBVIOUS
  <2> QED BY <2>1
<1>6. text = <<text[1], Blank>> <=> Len(text) = 2 /\ text[2] = Blank
  <2>0. PICK a \in T : a = text[1]
    BY <1>2
  <2>1. PICK pair : pair = <<a, Blank>>
    OBVIOUS
  <2>e. Blank \in T
    OBVIOUS
  <2> HIDE DEF T
  <2>2. pair \in Seq(T) /\ Len(pair) = 2 /\ pair[1] = a /\ pair[2] = Blank
    BY <2>1, <2>e
  <2>3. ASSUME Len(text) = 2, text[2] = Blank
        PROVE  text = pair
    <3>1. \A i \in 1 .. Len(text) : text[i] = pair[i]
      BY <2>0, <2>2, <2>3
    <3> QED BY <1>t, <2>2, <2>3, <3>1, SeqEqual
  <2> QED BY <2>0, <2>1, <2>2, <2>3
<1>7. CASE Len(text) = 1
  <2>1. text = <<text[1]>>
    BY <1>2, <1>7
  <2> QED BY <1>3, <1>4, <1>5, <1>6, <1>7, <2>1 DEF spec
<1>8. CASE Len(text) # 1
  <2>1. text = <<text[1]>> \o Tail(text)
    BY <1>2, <1>8
  <2>2. Tail(text) = NoName <=> text = <<text[1], Blank>>
    <3>e. Blank \in T
      OBVIOUS
    <3> HIDE DEF T
    <3>1. Tail(text) \in Seq(T) /\ Len(Tail(text)) = Len(text) - 1
          /\ \A i \in 1 .. Len(text) - 1 : Tail(text)[i] = text[i + 1]
      BY <1>2, <1>t
    <3>2. PICK one : one = NoName
      OBVIOUS
    <3>3. one \in Seq(T) /\ Len(one) = 1 /\ one[1] = Blank
      BY <3>2, <3>e DEF NoName
    <3>4. ASSUME Len(text) = 2, text[2] = Blank
          PROVE  Tail(text) = one
      <4>1. Len(Tail(text)) = 1 /\ Tail(text)[1] = Blank
        BY <3>1, <3>4
      <4>2. ASSUME NEW i \in 1 .. 1
            PROVE  Tail(text)[i] = one[i]
        <5>1. i = 1
          OBVIOUS
        <5> QED BY <3>3, <4>1, <5>1, Zenon
      <4> QED BY <3>1, <3>3, <4>1, <4>2, SeqEqual
    <3>5. Tail(text) = one => Len(text) = 2 /\ text[2] = Blank
      BY <1>2, <3>1, <3>3
    <3> QED BY <1>6, <3>2, <3>4, <3>5
  <2>3. FigureText(spec) = IF Tail(text) = NoName THEN <<text[1]>> ELSE <<text[1]>> \o Tail(text)
    BY <1>3, <1>4, <1>5, <1>8
  <2> QED BY <2>1, <2>2, <2>3 DEF spec
<1> QED BY <1>7, <1>8

LEMMA DefaultValues ==
  /\ ChosenOptions \subseteq DOMAIN Defaults
  /\ Defaults.light_jumps = FALSE /\ Defaults.binning_analysis_error_bars = TRUE
  /\ Defaults.control_step_size = TRUE /\ Defaults.control_binning_converged = TRUE
  /\ Defaults.binning_analysis_num_levels = -1
  /\ Defaults.valtype = FigureOfMeritSpec(<<"fidelity">>)
<1>1. /\ Defaults.light_jumps = FALSE /\ Defaults.binning_analysis_error_bars = TRUE
      /\ Defaults.control_step_size = TRUE /\ Defaults.control_binning_converged = TRUE
      /\ Defaults.binning_analysis_num_levels = -1
      /\ Defaults.valtype = FigureOfMeritSpec(<<"fidelity">>)
  BY DEF Defaults
<1>2. ChosenOptions \subseteq DOMAIN Defaults
  BY DEF Defaults, ChosenOptions
<1> QED BY <1>1, <1>2

LEMMA NotifiedValues ==
  ASSUME NEW given, ChosenOptions \subseteq DOMAIN opt
  PROVE  LET new == Notified(given)
         IN  /\ DOMAIN new = DOMAIN opt
             /\ new.light_jumps = opt.light_jumps
             /\ new.binning_analysis_error_bars = opt.binning_analysis_error_bars
             /\ new.control_step_size = opt.control_step_size
             /\ new.control_binning_converged = opt.control_binning_converged
             /\ new.n_run = IF "n-run" \in DOMAIN given THEN given["n-run"] ELSE opt.n_run
             /\ new.binning_analysis_num_levels =
                  IF "binning-analysis-num-levels" \in DOMAIN given
                  THEN given["binning-analysis-num-levels"] ELSE opt.binning_analysis_num_levels
             /\ new.valtype = IF "value-type" \in DOMAIN given
                              THEN FigureOfMeritSpec(given["value-type"]) ELSE opt.valtype
BY DEF Notified, ChosenOptions

LEMMA OptionsChosen ==
  ASSUME ChoiceInv, StoreOptions
  PROVE  ChoiceInv'
<1> USE DEF BeforeSwitches, BeforeDisplay, AfterDisplay
<1>1. phase = "start" /\ UNCHANGED <<inv, log, used>> /\ phase' \in {"over", "logging"}
  BY DEF StoreOptions, Exit, Goto, data
<1>2. Harmless({}) /\ issued' = issued \cup {}
  BY <1>1 DEF Harmless, log
<1>3. inv' \in Invocations /\ RunsAsAsked' /\ used' = None
  BY <1>1, <1>2, WarningsStay DEF ChoiceInv
<1>4. CASE phase' = "over"
  <2>1. opt' = opt
    BY <1>4 DEF StoreOptions, Goto, options
  <2> QED BY <1>3, <1>4, <2>1 DEF ChoiceInv
<1>5. CASE phase' = "logging"
  <2> DEFINE with_config == "config" \in DOMAIN inv.cmd
  <2>1. /\ vm' = IF with_config THEN Stored ELSE inv.cmd
        /\ opt' = Notified(vm') /\ opt = Defaults /\ Validates(vm')
    BY <1>1, <1>5 DEF StoreOptions, Exit, Goto, ChoiceInv
  <2>2. \A name, default : (Value(name, default))' = Asked(name, default)
    BY <2>1 DEF Value, IsGiven, Asked, Stored
  <2>3. \A name, default : Asked(name, default) = IF name \in DOMAIN vm' THEN vm'[name] ELSE default
    BY <2>2 DEF Value, IsGiven
  <2>4. PICK given : given = vm'
    OBVIOUS
  <2> DEFINE new == opt'
  <2>5. /\ ChosenOptions \subseteq DOMAIN new
        /\ new.light_jumps = FALSE /\ new.binning_analysis_error_bars = TRUE
        /\ new.control_step_size = TRUE /\ new.control_binning_converged = TRUE
        /\ new.n_run = Asked("n-run", Defaults.n_run)
        /\ new.binning_analysis_num_levels = Asked("binning-analysis-num-levels", -1)
        /\ new.valtype = FigureOfMeritSpec(Asked("value-type", <<"fidelity">>))
    BY <2>1, <2>3, <2>4, DefaultValues, NotifiedValues
  <2>6. Head(Asked("value-type", <<"fidelity">>)) \in Range(Figures)
    <3>1. "fidelity" \in Range(Figures)
      <4>1. 3 \in DOMAIN Figures /\ Figures[3] = "fidelity"
        BY DEF Figures
      <4> QED BY <4>1 DEF Range
    <3>2. Head(<<"fidelity">>) = "fidelity"
      OBVIOUS
    <3> QED BY <2>1, <2>3, <2>4, <3>1, <3>2 DEF Validates
  <2>7. SwitchesAtDefault' /\ ValuesAsAsked'
    BY <1>1, <2>5, <2>6, AskedStays DEF SwitchesAtDefault, ValuesAsAsked
  <2>8. (\A s \in Switches : IsSet(s) = Asked(s, FALSE))'
    BY <1>1, <2>2, AskedStays DEF IsSet
  <2>9. (opt.binning_analysis_num_levels = Asked("binning-analysis-num-levels", -1))'
    BY <1>1, <2>5, AskedStays
  <2>10. (\A m \in issued : m.level # WARNING)'
    BY <1>1, <1>2 DEF ChoiceInv
  <2> QED BY <1>3, <1>5, <2>5, <2>7, <2>8, <2>9, <2>10 DEF ChoiceInv
<1> QED BY <1>1, <1>4, <1>5

LEMMA SwitchesChosen ==
  ASSUME ChoiceInv, SetSwitches
  PROVE  ChoiceInv'
<1> USE DEF BeforeSwitches, BeforeDisplay, AfterDisplay
<1>1. phase = "switches" /\ UNCHANGED <<inv, vm, log, used>> /\ phase' \in {"over", "checks"}
  BY DEF SetSwitches, Exit, Goto, data
<1>2. Harmless({}) /\ issued' = issued \cup {}
  BY <1>1 DEF Harmless, log
<1>3. inv' \in Invocations /\ RunsAsAsked' /\ used' = None
  BY <1>1, <1>2, WarningsStay DEF ChoiceInv
<1>4. CASE phase' = "over"
  <2>1. opt' = opt
    BY <1>4 DEF SetSwitches, Goto
  <2> QED BY <1>3, <1>4, <2>1 DEF ChoiceInv
<1>5. CASE phase' = "checks"
  <2>1. /\ \A s \in DOMAIN NoSwitch : ~(IsSet(s) /\ IsSet(NoSwitch[s]))
        /\ opt' = [opt EXCEPT
             !.light_jumps = Switched("light-jumps", @),
             !.binning_analysis_error_bars = Switched("binning-analysis-error-bars", @),
             !.control_step_size = Switched("control-step-size", @),
             !.control_binning_converged = ControlConverged]
    BY <1>5 DEF SetSwitches, Exit
  <2>2. /\ SwitchesAtDefault /\ ValuesAsAsked
        /\ \A s \in Switches : IsSet(s) = AskedOn(s) /\ AskedOn(s) \in BOOLEAN
        /\ opt.binning_analysis_num_levels = Asked("binning-analysis-num-levels", -1)
        /\ ChosenOptions \subseteq DOMAIN opt
    BY <1>1, AskedTypes DEF ChoiceInv, AskedOn
  <2>3. /\ DOMAIN opt' = DOMAIN opt
        /\ opt'.light_jumps = Switched("light-jumps", opt.light_jumps)
        /\ opt'.binning_analysis_error_bars
             = Switched("binning-analysis-error-bars", opt.binning_analysis_error_bars)
        /\ opt'.control_step_size = Switched("control-step-size", opt.control_step_size)
        /\ opt'.control_binning_converged = ControlConverged
        /\ opt'.n_run = opt.n_run /\ opt'.valtype = opt.valtype
        /\ opt'.binning_analysis_num_levels = opt.binning_analysis_num_levels
    BY <2>1, <2>2 DEF ChosenOptions
  <2>4. /\ AskedOff("light-jumps") = IsSet("no-light-jumps")
        /\ AskedOff("binning-analysis-error-bars") = IsSet("no-binning-analysis-error-bars")
        /\ AskedOff("control-step-size") = IsSet("no-control-step-size")
        /\ AskedOff("control-binning-converged") = IsSet("no-control-binning-converged")
    BY <2>2, NoSwitchIs DEF AskedOff, AskedOn, Switches
  <2>5. opt'.light_jumps = AskedOn("light-jumps")
    <3>1. AskedOn("light-jumps") => ~IsSet("no-light-jumps")
      BY <2>1, <2>2, NoSwitchIs DEF Switches
    <3> QED BY <2>2, <2>3, <3>1, NoSwitchIs DEF Switched, SwitchesAtDefault, Switches
  <2>6. opt'.binning_analysis_error_bars = ErrorBarsAsked
    BY <2>2, <2>3, <2>4, NoSwitchIs DEF Switched, SwitchesAtDefault, ErrorBarsAsked
  <2>7. opt'.control_step_size = ~AskedOff("control-step-size")
    BY <2>2, <2>3, <2>4, NoSwitchIs DEF Switched, SwitchesAtDefault
  <2>8. opt'.control_binning_converged = ControlConvergedAsked
    BY <2>2, <2>3, <2>4, NoSwitchIs DEF Switched, SwitchesAtDefault, ControlConverged,
         ControlConvergedAsked, ErrorBarsAsked, Switches
  <2>9. SwitchesAsAsked'
    BY <1>1, <2>5, <2>6, <2>7, <2>8, AskedStays DEF SwitchesAsAsked
  <2>10. ValuesAsAsked'
    BY <1>1, <2>2, <2>3, AskedStays DEF ValuesAsAsked
  <2>11. (opt.binning_analysis_num_levels = Asked("binning-analysis-num-levels", -1))'
    BY <1>1, <2>2, <2>3, AskedStays
  <2>12. (\A m \in issued : m.level # WARNING)'
    BY <1>1, <1>2 DEF ChoiceInv
  <2> QED BY <1>3, <1>5, <2>2, <2>3, <2>9, <2>10, <2>11, <2>12 DEF ChoiceInv
<1> QED BY <1>1, <1>4, <1>5

LEMMA OptionsChecked ==
  ASSUME ChoiceInv, CheckOptions, UNCHANGED vars
  PROVE  ChoiceInv'
<1> USE DEF BeforeSwitches, BeforeDisplay, AfterDisplay
<1>1. phase = "checks" /\ UNCHANGED <<inv, vm, used>> /\ phase' \in {"over", "main"}
  BY DEF CheckOptions, Exit, Goto, data
<1>2. PICK messages : issued' = issued \cup messages /\ Harmless(messages)
  <2>1. TomorunNext
    BY DEF TomorunNext, Main
  <2>2. ~ShowParameters
    BY <1>1 DEF ShowParameters
  <2> QED BY <2>1, <2>2, WarnsOnly
<1>3. /\ ChosenOptions \subseteq DOMAIN opt'
      /\ \A x \in ChosenOptions : opt'[x] = opt[x]
  <2>1. ChosenOptions \subseteq DOMAIN opt
    BY DEF ChoiceInv
  <2>2. CASE opt' = opt
    BY <2>1, <2>2
  <2>3. CASE opt' # opt
    <3>1. \E w, v : opt' = [opt EXCEPT !.write_histogram = w, !.val_hist = v]
      BY <2>3 DEF CheckOptions
    <3> QED BY <2>1, <3>1 DEF ChosenOptions
  <2> QED BY <2>2, <2>3
<1>4. /\ SwitchesAsAsked /\ ValuesAsAsked
      /\ opt.binning_analysis_num_levels = Asked("binning-analysis-num-levels", -1)
      /\ inv' \in Invocations /\ (\A m \in issued' : m.level # WARNING)
      /\ used' = None
  BY <1>1, <1>2 DEF ChoiceInv, Harmless
<1>5. SwitchesAsAsked' /\ ValuesAsAsked'
      /\ (opt.binning_analysis_num_levels = Asked("binning-analysis-num-levels", -1))'
  BY <1>1, <1>3, <1>4, AskedStays DEF SwitchesAsAsked, ValuesAsAsked, ChosenOptions
<1> QED BY <1>1, <1>3, <1>4, <1>5 DEF ChoiceInv, RunsAsAsked

-----------------------------------------------------------------------------
\* Below the levels asked for there is the number that is used.
LEMMA LevelsUsed ==
  ASSUME inv \in Invocations
  PROVE  LET given == Asked("binning-analysis-num-levels", -1)
             n_run == Asked("n-run", Defaults.n_run)
         IN  /\ LevelsAsked \in Int /\ LevelsAsked > 0
             /\ given > 0 => LevelsAsked = given
             /\ ~(given > 0) => \/ LevelsAsked = 1 /\ n_run < 512
                                \/ n_run \div 2 ^ LevelsAsked \in 128 .. 255
<1> DEFINE given == Asked("binning-analysis-num-levels", -1)
           n_run == Asked("n-run", Defaults.n_run)
<1>1. given \in Int /\ n_run \in Int /\ n_run <= MaxInt
  BY AskedTypes
<1>2. LevelsAsked = SanitizeBinningLevels(given, n_run, 128)
  BY DEF LevelsAsked, SamplesLastLevel
<1> HIDE DEF given, n_run
<1>3. /\ LevelsAsked \in Int /\ LevelsAsked > 0
      /\ given > 0 => LevelsAsked = given
      /\ ~(given > 0) => \/ LevelsAsked = 1 /\ n_run < 512
                         \/ n_run \div 2 ^ LevelsAsked \in 128 .. 255
  BY <1>1, <1>2, LevelsLeaveEnough
<1> QED BY <1>3 DEF given, n_run

LEMMA ParametersShown ==
  ASSUME ChoiceInv, ShowParameters
  PROVE  ChoiceInv'
<1> USE DEF BeforeSwitches, BeforeDisplay, AfterDisplay
<1>1. /\ phase = "main" /\ phase' = "open" /\ UNCHANGED <<inv, vm, used>>
      /\ opt' = [opt EXCEPT !.binning_analysis_num_levels = NumLevels]
  BY DEF ShowParameters, Goto, data
<1>2. /\ SwitchesAsAsked /\ ValuesAsAsked /\ inv \in Invocations
      /\ opt.binning_analysis_num_levels = Asked("binning-analysis-num-levels", -1)
      /\ \A m \in issued : m.level # WARNING
      /\ ChosenOptions \subseteq DOMAIN opt /\ used = None
  BY <1>1 DEF ChoiceInv
<1>3. NumLevels = LevelsAsked
  BY <1>2 DEF NumLevels, LevelsAsked, ValuesAsAsked
<1>4. /\ ChosenOptions \subseteq DOMAIN opt' /\ opt'.binning_analysis_num_levels = LevelsAsked
      /\ \A x \in DOMAIN opt \ {"binning_analysis_num_levels"} : opt'[x] = opt[x]
      /\ opt'.val_hist = opt.val_hist
  <2>1. opt'.val_hist = opt.val_hist
    BY <1>1
  <2> QED BY <1>1, <1>2, <1>3, <2>1 DEF ChosenOptions
<1>5. SwitchesAsAsked' /\ ValuesAsAsked'
  BY <1>1, <1>2, <1>4, AskedStays DEF SwitchesAsAsked, ValuesAsAsked, ChosenOptions
<1>6. Displayed = DisplayAsked(IF ErrorBarsAsked THEN LevelsAsked ELSE 0, opt.val_hist)
  <2>1. FigureText(opt.valtype) = FigureAsked
    BY <1>2, AskedTypes, FigureDisplayed DEF FigureAsked, ValuesAsAsked
  <2> QED BY <1>2, <1>3, <2>1 DEF Displayed, DisplayAsked, SwitchesAsAsked
<1>7. PICK messages :
        /\ messages = {Says(INFO, "welcome"), Says(DEBUG, "features")}
                        \cup NiceMessage \cup PreliminaryChecks
        /\ issued' = issued \cup (messages \cup {Parameters})
  BY DEF ShowParameters, Writes
<1>8. IsDisplayed(DisplayAsked(IF ErrorBarsAsked THEN LevelsAsked ELSE 0, opt.val_hist))'
  BY <1>1, <1>4, <1>6, <1>7, AskedStays DEF IsDisplayed, Parameters
<1>9. Says(WARNING, "control of convergence ignored") \in issued' <=> ConvergenceIgnored
  <2> DEFINE m == Says(WARNING, "control of convergence ignored")
  <2>1. m.level = WARNING
    BY SaysApart
  <2>2. m \notin issued /\ m # Parameters
    BY <1>2, <2>1, HarmlessCalls DEF Parameters
  <2>3. m \notin {Says(INFO, "welcome"), Says(DEBUG, "features"), Says(DEBUG, "binning levels")}
    BY <2>1, HarmlessCalls
  <2>4. \A what : Says(WARNING, what) = m => what = "control of convergence ignored"
    BY SaysApart
  <2>5. m \notin NiceMessage
    BY <2>1, <2>4, HarmlessCalls DEF NiceMessage, When
  <2>6. m \in PreliminaryChecks <=> ConvergenceIgnored
    <3>1. /\ m # Says(WARNING, "log level not compiled in") /\ m # Says(WARNING, "few binning levels")
          /\ m # Says(WARNING, "few samples") /\ m # Says(WARNING, "obsolete option")
      BY <2>4
    <3> QED BY <2>3, <3>1 DEF PreliminaryChecks, When
  <2> QED BY <1>7, <2>2, <2>3, <2>5, <2>6
<1>10. FewSamples(LevelsAsked, Asked("n-run", Defaults.n_run), SamplesLastLevel)
         => Says(WARNING, "few samples") \in issued'
  BY <1>2, <1>3, <1>7 DEF PreliminaryChecks, When, ValuesAsAsked
<1>11. WarnedAsDue'
  <2>1. ConvergenceIgnored <=> ControlConvergedAsked /\ ~ErrorBarsAsked
    BY <1>2 DEF ConvergenceIgnored, SwitchesAsAsked
  <2>2. /\ ControlConvergedAsked' = ControlConvergedAsked /\ ErrorBarsAsked' = ErrorBarsAsked
        /\ LevelsAsked' = LevelsAsked
        /\ (Asked("n-run", Defaults.n_run))' = Asked("n-run", Defaults.n_run)
    BY <1>1, AskedStays
  <2>3. Says(WARNING, "control of convergence ignored") \in issued'
          <=> ControlConvergedAsked' /\ ~ErrorBarsAsked'
    BY <1>9, <2>1, <2>2, Zenon
  <2> QED BY <1>10, <2>2, <2>3, Zenon DEF WarnedAsDue
<1> QED BY <1>1, <1>2, <1>4, <1>5, <1>8, <1>11, AskedStays DEF ChoiceInv, RunsAsAsked

\* The variant that is dispatched to is the one displayed.
LEMMA VariantDispatched ==
  ASSUME ChoiceInv, Dispatch, UNCHANGED vars
  PROVE  ChoiceInv'
<1> USE DEF BeforeSwitches, BeforeDisplay, AfterDisplay
<1>1. phase = "dispatch" /\ UNCHANGED <<inv, vm, opt>> /\ phase' \in {"tomorun", "over"}
  BY DEF Dispatch, Exit, Goto, Abort, options
<1>2. PICK messages : issued' = issued \cup messages /\ Harmless(messages)
  <2>1. TomorunNext
    BY DEF TomorunNext, Main
  <2>2. ~ShowParameters
    BY <1>1 DEF ShowParameters
  <2> QED BY <2>1, <2>2, WarnsOnly
<1>3. CASE UNCHANGED used
  BY <1>1, <1>2, <1>3, ChoicesStay
<1>4. CASE phase' = "tomorun" /\ used' = Variant
  <2>1. /\ SwitchesAsAsked /\ ValuesAsAsked /\ WarnedAsDue /\ inv \in Invocations
        /\ opt.binning_analysis_num_levels = LevelsAsked /\ ChosenOptions \subseteq DOMAIN opt
        /\ IsDisplayed(DisplayAsked(IF ErrorBarsAsked THEN LevelsAsked ELSE 0, opt.val_hist))
    BY <1>1 DEF ChoiceInv
  <2> DEFINE levels == IF ErrorBarsAsked THEN LevelsAsked ELSE 0
             displayed == DisplayAsked(levels, opt.val_hist)
  <2>2. used' = [displayed EXCEPT !.control_converged = ControlConvergedAsked /\ ErrorBarsAsked]
    <3>1. FigureText(opt.valtype) = FigureAsked
      BY <2>1, AskedTypes, FigureDisplayed DEF FigureAsked, ValuesAsAsked
    <3> QED BY <1>4, <2>1, <3>1 DEF Variant, DisplayAsked, SwitchesAsAsked
  <2>3. used'.levels = levels /\ used'.val_hist = opt.val_hist
    BY <1>4, <2>1 DEF Variant, SwitchesAsAsked
  <2>4. WarnedAsDue' /\ IsDisplayed(displayed)'
    <3>1. (IsDisplayed(displayed))' = (Info(<<"display_parameters()">>, <<"parameters", displayed>>) \in issued')
      BY <1>1, AskedStays DEF IsDisplayed
    <3> QED BY <1>1, <1>2, <2>1, <3>1, WarningsStay DEF IsDisplayed
  <2>5. RunsAsAsked'
    <3>1. PICK variant, display : variant = used' /\ display = displayed
      OBVIOUS
    <3>2. /\ variant.levels = levels
          /\ DisplayAsked(variant.levels, variant.val_hist)' = display
          /\ IsDisplayed(display)'
          /\ variant = [display EXCEPT !.control_converged = ControlConvergedAsked /\ ErrorBarsAsked]
      BY <1>1, <2>2, <2>3, <2>4, <3>1, AskedStays
    <3>3. Says(WARNING, "control of convergence ignored") \in issued'
            <=> ControlConvergedAsked /\ ~ErrorBarsAsked
      <4>1. ControlConvergedAsked' = ControlConvergedAsked /\ ErrorBarsAsked' = ErrorBarsAsked
        BY <1>1, AskedStays
      <4>2. Says(WARNING, "control of convergence ignored") \in issued'
              <=> ControlConvergedAsked' /\ ~ErrorBarsAsked'
        BY <2>4 DEF WarnedAsDue
      <4> QED BY <4>1, <4>2, Zenon
    <3> DEFINE given == Asked("binning-analysis-num-levels", -1)
               n_run == Asked("n-run", Defaults.n_run)
    <3>4. /\ ErrorBarsAsked /\ given > 0 => levels = given
          /\ ErrorBarsAsked /\ ~(given > 0) =>
               \/ levels = 1 /\ n_run < 4 * SamplesLastLevel
               \/ n_run \div 2 ^ levels \in SamplesLastLevel .. 2 * SamplesLastLevel - 1
      BY <2>1, LevelsUsed DEF SamplesLastLevel
    <3>5. ErrorBarsAsked /\ (n_run \div 2 ^ levels < SamplesLastLevel) =>
            Says(WARNING, "few samples") \in issued'
      BY <1>1, <2>4, AskedStays DEF WarnedAsDue, FewSamples, LastLevelNumSamples
    <3>6. /\ given = (Asked("binning-analysis-num-levels", -1))'
          /\ n_run = (Asked("n-run", Defaults.n_run))'
      BY <1>1, AskedStays
    <3> HIDE DEF levels, displayed, given, n_run
    <3> QED BY <1>1, <3>1, <3>2, <3>3, <3>4, <3>5, <3>6, AskedStays DEF RunsAsAsked, levels
  <2>6. SwitchesAsAsked' /\ ValuesAsAsked'
    BY <1>1, <2>1, AskedStays DEF SwitchesAsAsked, ValuesAsAsked
  <2>7. /\ (opt.binning_analysis_num_levels = LevelsAsked)'
        /\ IsDisplayed(DisplayAsked(IF ErrorBarsAsked THEN LevelsAsked ELSE 0, opt.val_hist))'
    BY <1>1, <2>1, <2>4, AskedStays
  <2>8. inv' \in Invocations /\ ChosenOptions \subseteq DOMAIN opt'
    BY <1>1, <2>1
  <2> QED BY <1>4, <2>4, <2>5, <2>6, <2>7, <2>8 DEF ChoiceInv
<1> QED BY <1>1, <1>3, <1>4 DEF Dispatch, data, Goto

-----------------------------------------------------------------------------
LEMMA StepChoices ==
  ASSUME ChoiceInv, [TomorunNext]_tomorun_vars
  PROVE  ChoiceInv'
<1> USE DEF BeforeSwitches, BeforeDisplay, AfterDisplay
<1>1. CASE StoreOptions
  BY <1>1, OptionsChosen
<1>2. CASE SetSwitches
  BY <1>2, SwitchesChosen
<1>3. CASE CheckOptions /\ UNCHANGED vars
  BY <1>3, OptionsChecked
<1>4. CASE ShowParameters
  BY <1>4, ParametersShown
<1>5. CASE Dispatch /\ UNCHANGED vars
  BY <1>5, VariantDispatched
<1>6. CASE ~ShowParameters /\ ( SetUpLogging \/ OpenDataFile \/ Return \/ SetUpRun
            \/ RunTasks \/ FinishRun \/ UsedDirectly \/ ReportIntervalElapses \/ Hit
            \/ Tick \/ Over \/ UNCHANGED tomorun_vars)
  <2>1. PICK messages : issued' = issued \cup messages /\ Harmless(messages)
    BY <1>6, WarnsOnly
  <2>2. CASE SetUpLogging
    <3>1. phase = "logging" /\ phase' \in {"over", "switches"} /\ UNCHANGED <<inv, opt, vm, used>>
      BY <2>2 DEF SetUpLogging, Exit, Goto, options, data
    <3> QED BY <2>1, <3>1, ChoicesStay
  <2>3. CASE OpenDataFile
    <3>1. phase = "open" /\ phase' \in {"over", "dispatch"} /\ UNCHANGED <<inv, opt, vm, used>>
      BY <2>3 DEF OpenDataFile, Exit, Goto, options, data
    <3> QED BY <2>1, <3>1, ChoicesStay
  <2>4. CASE Return
    <3>1. phase' = "over" /\ UNCHANGED <<inv, opt, vm, used>>
      BY <2>4 DEF Return, Exit, options, data
    <3> QED BY <2>1, <3>1, ChoicesStay
  <2>5. CASE SetUpRun
    <3>1. phase = "tomorun" /\ phase' = "run" /\ UNCHANGED <<inv, opt, vm, used>>
      BY <2>5 DEF SetUpRun, Goto, options, data
    <3> QED BY <2>1, <3>1, ChoicesStay
  <2>6. CASE FinishRun
    <3>1. phase = "run" /\ phase' \in {"over", "return"} /\ UNCHANGED <<inv, opt, vm, used>>
      BY <2>6 DEF FinishRun, Abort, Exit, Goto, options
    <3> QED BY <2>1, <3>1, ChoicesStay
  <2>7. CASE RunTasks \/ UsedDirectly \/ ReportIntervalElapses \/ Tick \/ Over
             \/ UNCHANGED tomorun_vars
    <3>1. UNCHANGED <<phase, inv, opt, vm, used>>
      BY <2>7 DEF RunTasks, UsedDirectly, ReportIntervalElapses, Tick, Over, tomorun_vars,
           program, progress, options, data
    <3> QED BY <2>1, <3>1, ChoicesStay
  <2>8. CASE Hit
    <3>1. UNCHANGED <<inv, opt, vm, used>> /\ (phase' = phase \/ phase' = "over")
      BY <2>8 DEF Hit, Exit, progress, options, data
    <3> QED BY <2>1, <3>1, ChoicesStay
  <2> QED BY <1>6, <2>2, <2>3, <2>4, <2>5, <2>6, <2>7, <2>8
<1> QED BY <1>1, <1>2, <1>3, <1>4, <1>5, <1>6 DEF TomorunNext, Main

LEMMA InitChoices ==
  ASSUME TomorunInit
  PROVE  ChoiceInv
<1>1. /\ inv \in Invocations /\ opt = Defaults /\ issued = {} /\ used = None
      /\ phase \in {"start", "library"}
  BY DEF TomorunInit
<1> QED BY <1>1, DefaultValues DEF ChoiceInv, BeforeSwitches, BeforeDisplay, AfterDisplay, RunsAsAsked

\* What is chosen on the way to the run is what was asked for, and was shown to the
\* user with the warnings due.
THEOREM ChoicesInvariance == TomorunSpec => []ChoiceInv
<1>1. TomorunInit => ChoiceInv
  BY InitChoices
<1>2. ChoiceInv /\ [TomorunNext]_tomorun_vars => ChoiceInv'
  BY StepChoices
<1> QED BY <1>1, <1>2, PTL DEF TomorunSpec

\* The variant of tomorun() that runs is the one that was asked for and displayed,
\* and has levels of binning that leave enough samples, whatever the invocation.
THEOREM RunsAsAskedAlways == TomorunSpec => []RunsAsAsked
<1>1. ChoiceInv => RunsAsAsked
  BY DEF ChoiceInv
<1> QED BY <1>1, ChoicesInvariance, PTL

-----------------------------------------------------------------------------
\* Chains of loggers

SinkKinds == {"file", "buffer", "vacuum", "python"}

LEMMA KindsApart ==
  ASSUME NEW layer
  PROVE  /\ IsSink(layer) => layer.kind \in SinkKinds
         /\ IsLayer(layer) => layer.kind \notin SinkKinds
BY DEF IsSink, IsLayer, SinkKinds

\* A chain, and what is below its first layer.
LEMMA ChainParts ==
  ASSUME NEW c, IsChain(c)
  PROVE  /\ c \in Seq(Range(c)) /\ Len(c) \in Nat \ {0} /\ DOMAIN c = 1 .. Len(c)
         /\ Len(c) # 1 =>
              /\ IsLayer(c[1]) /\ IsChain(Tail(c)) /\ Len(Tail(c)) = Len(c) - 1
              /\ \A i \in 1 .. Len(c) - 1 : Tail(c)[i] = c[i + 1]
         /\ \A k \in 1 .. Len(c) :
              /\ IsChain(SubSeq(c, k, Len(c))) /\ Len(SubSeq(c, k, Len(c))) = Len(c) - k + 1
              /\ \A i \in 1 .. Len(c) - k + 1 : SubSeq(c, k, Len(c))[i] = c[i + k - 1]
<1> DEFINE n == Len(c)
<1>1. c \in Seq(Range(c)) /\ n \in Nat \ {0} /\ DOMAIN c = 1 .. n
  BY DEF IsChain
<1>2. /\ IsSink(c[n]) /\ \A i \in 1 .. n - 1 : IsLayer(c[i])
  BY DEF IsChain
<1>3. ASSUME NEW k \in 1 .. n
      PROVE  /\ IsChain(SubSeq(c, k, n)) /\ Len(SubSeq(c, k, n)) = n - k + 1
             /\ \A i \in 1 .. n - k + 1 : SubSeq(c, k, n)[i] = c[i + k - 1]
  <2>1. PICK d : d = SubSeq(c, k, n)
    OBVIOUS
  <2>2. d \in Seq(Range(c)) /\ Len(d) = n - k + 1 /\ \A i \in 1 .. n - k + 1 : d[i] = c[i + k - 1]
    <3>1. /\ SubSeq(c, k, n) \in Seq(Range(c)) /\ Len(SubSeq(c, k, n)) = n - k + 1
          /\ \A i \in 1 .. n - k + 1 : SubSeq(c, k, n)[i] = c[i + k - 1]
      BY <1>1
    <3> QED BY <2>1, <3>1
  <2>3. Len(d) \in Nat \ {0} /\ d # <<>>
    BY <2>2
  <2>4. d \in Seq(Range(d))
    <3>1. DOMAIN d = 1 .. Len(d)
      BY <2>2
    <3>2. \A i \in 1 .. Len(d) : d[i] \in Range(d)
      BY <3>1 DEF Range
    <3> QED BY <2>2, <3>2
  <2>5. d[Len(d)] = c[n]
    <3>1. n - k + 1 \in 1 .. n - k + 1 /\ (n - k + 1) + k - 1 = n
      BY <1>1
    <3> QED BY <2>2, <3>1
  <2>6. \A i \in 1 .. Len(d) - 1 : IsLayer(d[i])
    <3> SUFFICES ASSUME NEW i \in 1 .. Len(d) - 1 PROVE IsLayer(d[i])
      OBVIOUS
    <3>1. i \in 1 .. n - k + 1 /\ i + k - 1 \in 1 .. n - 1
      BY <1>1, <2>2
    <3> QED BY <1>2, <2>2, <3>1
  <2> QED BY <1>2, <2>1, <2>2, <2>3, <2>4, <2>5, <2>6 DEF IsChain
<1>4. ASSUME n # 1
      PROVE  Tail(c) = SubSeq(c, 2, n)
  <2>1. 2 \in 1 .. n /\ n - 2 + 1 = n - 1
    BY <1>1, <1>4
  <2>2. /\ SubSeq(c, 2, n) \in Seq(Range(c)) /\ Len(SubSeq(c, 2, n)) = n - 1
        /\ \A i \in 1 .. n - 1 : SubSeq(c, 2, n)[i] = c[i + 1]
    BY <1>1, <2>1
  <2>3. /\ Tail(c) \in Seq(Range(c)) /\ Len(Tail(c)) = n - 1
        /\ \A i \in 1 .. n - 1 : Tail(c)[i] = c[i + 1]
    BY <1>1
  <2> QED BY <2>2, <2>3, SeqEqual
<1>5. ASSUME n # 1
      PROVE  /\ IsLayer(c[1]) /\ IsChain(Tail(c)) /\ Len(Tail(c)) = n - 1
             /\ \A i \in 1 .. n - 1 : Tail(c)[i] = c[i + 1]
  <2>1. 2 \in 1 .. n /\ n - 2 + 1 = n - 1 /\ 1 \in 1 .. n - 1
    BY <1>1, <1>5
  <2>2. \A i \in 1 .. n - 1 : Tail(c)[i] = c[i + 1]
    BY <1>1
  <2> QED BY <1>2, <1>3, <1>4, <1>5, <2>1, <2>2
<1> QED BY <1>1, <1>3, <1>5

\* What is below the first layer of a chain that is found there is found in the chain.
LEMMA FoundBelow ==
  ASSUME NEW c, IsChain(c), Len(c) # 1, NEW kinds, c[1].kind \notin kinds
  PROVE  From(c, kinds) = From(Tail(c), kinds)
<1> DEFINE n == Len(c)
           d == Tail(c)
           F == {i \in 1 .. n : c[i].kind \in kinds}
           G == {i \in 1 .. n - 1 : d[i].kind \in kinds}
<1>1. /\ c \in Seq(Range(c)) /\ n \in Nat \ {0} /\ n # 1 /\ DOMAIN c = 1 .. n
      /\ IsChain(d) /\ Len(d) = n - 1 /\ \A i \in 1 .. n - 1 : d[i] = c[i + 1]
  BY ChainParts
<1>2. d \in Seq(Range(d)) /\ DOMAIN d = 1 .. n - 1
  BY <1>1, ChainParts
<1> HIDE DEF n, d
<1>3. /\ \A i \in F : i - 1 \in G
      /\ \A i \in G : i + 1 \in F
  <2>1. ASSUME NEW i \in F PROVE i - 1 \in G
    <3>1. i \in 1 .. n /\ i # 1
      BY DEF n
    <3>2. i - 1 \in 1 .. n - 1 /\ d[i - 1] = c[i]
      BY <1>1, <3>1
    <3> QED BY <3>2
  <2>2. ASSUME NEW i \in G PROVE i + 1 \in F
    <3>1. i + 1 \in 1 .. n /\ d[i] = c[i + 1]
      BY <1>1
    <3> QED BY <3>1
  <2> QED BY <2>1, <2>2
<1>4. F \subseteq Nat /\ G \subseteq Nat /\ F \subseteq 1 .. n /\ G \subseteq 1 .. n - 1
  BY <1>1
<1>5. From(c, kinds) = IF F = {} THEN <<>> ELSE SubSeq(c, Min(F), n)
  BY <1>1 DEF From, n
<1>6. From(d, kinds) = IF G = {} THEN <<>> ELSE SubSeq(d, Min(G), n - 1)
  BY <1>1, <1>2 DEF From
<1> HIDE DEF F, G
<1>7. ASSUME F # {}
      PROVE  SubSeq(c, Min(F), n) = SubSeq(d, Min(G), n - 1) /\ G # {}
  <2>1. G # {}
    BY <1>3, <1>7
  <2>2. PICK m \in G : m = Min(G) /\ \A x \in G : m <= x
    BY <1>4, <2>1, Smallest
  <2>3. PICK k \in F : k = Min(F) /\ \A x \in F : k <= x
    BY <1>4, <1>7, Smallest
  <2>4. k = m + 1 /\ m \in 1 .. n - 1
    <3>1. m <= k - 1 /\ k <= m + 1
      BY <1>3, <2>2, <2>3
    <3> QED BY <1>4, <3>1
  <2>5. PICK e, f : e = SubSeq(c, k, n) /\ f = SubSeq(d, m, n - 1)
    OBVIOUS
  <2>6. /\ e \in Seq(Range(c)) /\ Len(e) = n - k + 1
        /\ \A i \in 1 .. n - k + 1 : e[i] = c[i + k - 1]
    <3>1. k \in 1 .. n
      BY <2>4, <1>1
    <3>2. /\ SubSeq(c, k, n) \in Seq(Range(c)) /\ Len(SubSeq(c, k, n)) = n - k + 1
          /\ \A i \in 1 .. n - k + 1 : SubSeq(c, k, n)[i] = c[i + k - 1]
      BY <1>1, <3>1 DEF n
    <3> QED BY <2>5, <3>2
  <2>7. /\ f \in Seq(Range(d)) /\ Len(f) = n - 1 - m + 1
        /\ \A i \in 1 .. n - 1 - m + 1 : f[i] = d[i + m - 1]
    <3>1. /\ SubSeq(d, m, n - 1) \in Seq(Range(d)) /\ Len(SubSeq(d, m, n - 1)) = n - 1 - m + 1
          /\ \A i \in 1 .. n - 1 - m + 1 : SubSeq(d, m, n - 1)[i] = d[i + m - 1]
      BY <1>1, <1>2, <2>4
    <3> QED BY <2>5, <3>1
  <2>8. Len(e) = Len(f)
    BY <1>1, <2>4, <2>6, <2>7
  <2>9. \A i \in 1 .. Len(e) : e[i] = f[i]
    <3> SUFFICES ASSUME NEW i \in 1 .. Len(e) PROVE e[i] = f[i]
      OBVIOUS
    <3>1. i \in 1 .. n - k + 1 /\ i \in 1 .. n - 1 - m + 1
      BY <1>1, <2>4, <2>6
    <3>2. i + m - 1 \in 1 .. n - 1 /\ (i + m - 1) + 1 = i + k - 1
      BY <1>1, <2>4, <3>1
    <3>3. d[i + m - 1] = c[(i + m - 1) + 1]
      BY <1>1, <3>2
    <3> QED BY <2>6, <2>7, <3>1, <3>2, <3>3
  <2>10. e = f
    BY <2>6, <2>7, <2>8, <2>9, SeqEqual
  <2> QED BY <2>1, <2>2, <2>3, <2>5, <2>10
<1>8. F = {} => G = {}
  BY <1>3
<1>9. From(c, kinds) = From(d, kinds)
  <2>1. CASE F = {}
    BY <1>5, <1>6, <1>8, <2>1
  <2>2. CASE F # {}
    BY <1>5, <1>6, <1>7, <2>2
  <2> QED BY <2>1, <2>2
<1> QED BY <1>9 DEF d

\* A local logger is enabled for what the logger below is.
LEMMA EnabledBelow ==
  ASSUME NEW c, IsChain(c), Len(c) # 1, c[1].kind = "local", NEW level
  PROVE  EnabledFor(c, level) = EnabledFor(Tail(c), level)
<1>1. /\ c[1].kind \notin {"file", "buffer", "vacuum", "python", "frozen", "filtered"}
      /\ c[1].kind \notin {"minimum severity", "vacuum"}
  OBVIOUS
<1>2. Level(c) = Level(Tail(c))
  BY <1>1, FoundBelow DEF Level
<1>3. StaticMinimumSeverityLevel(c) = StaticMinimumSeverityLevel(Tail(c))
  BY <1>1, FoundBelow DEF StaticMinimumSeverityLevel
<1> QED BY <1>2, <1>3 DEF EnabledFor, StaticallyEnabledFor

-----------------------------------------------------------------------------
\* The origin on its way down

AllOrigins == Seq(Range(Pieces))

IsPart(part) ==
  /\ part \in Seq(Range(part))
  /\ \A i \in 1 .. Len(part) : IsLayer(part[i]) \/ IsSink(part[i])

EndSteps(p, part, origin) ==
  /\ p[0] = origin /\ OriginAtEnd(part, origin) = p[Len(part)]
  /\ \A i \in 1 .. Len(part) : p[i] = OriginBelow(part[i], p[i - 1])

FilterSteps(p, part, origin) ==
  /\ p[0] = origin /\ OriginAtFilter(part, origin) = p[Len(part)]
  /\ \A i \in 1 .. Len(part) : p[i] = OriginTested(part[i], p[i - 1])

LEMMA OriginsStayOrigins ==
  ASSUME NEW layer, IsLayer(layer) \/ IsSink(layer), NEW o \in AllOrigins
  PROVE  OriginBelow(layer, o) \in AllOrigins /\ OriginTested(layer, o) \in AllOrigins
<1>1. ASSUME layer.kind = "local" PROVE GetSubOrigin(layer, o) \in AllOrigins
  <2>1. layer.origin_prefix \in Seq(Range(Pieces)) /\ layer.glue \in Range(Pieces)
    BY <1>1 DEF IsLayer, IsSink
  <2> QED BY <2>1 DEF GetSubOrigin, AllOrigins
<1>2. ASSUME layer.kind = "prefixed" PROVE layer.prefix \o o \in AllOrigins
  <2>1. layer.prefix \in Seq(Range(Pieces))
    BY <1>2 DEF IsLayer, IsSink
  <2> QED BY <2>1 DEF AllOrigins
<1>3. OriginBelow(layer, o) \in AllOrigins
  BY <1>1, <1>2 DEF OriginBelow
<1>4. OriginTested(layer, o) \in AllOrigins
  BY <1>1 DEF OriginTested
<1> QED BY <1>3, <1>4

LEMMA EndStepsExist ==
  ASSUME NEW part, IsPart(part), NEW o \in AllOrigins
  PROVE  \E p : EndSteps(p, part, o)
<1> DEFINE n == Len(part)
           D == DOMAIN part
           g == [jy \in (1 .. n) \X AllOrigins |-> OriginBelow(part[jy[1]], jy[2])]
           Folds(iter) == iter = [s \in SUBSET D |->
                                    IF s = {} THEN o
                                    ELSE OriginBelow(part[Max(s)], iter[s \ {Max(s)}])]
<1>1. D = 1 .. n /\ n \in Nat
  BY DEF IsPart
<1>2. \E iter : Folds(iter)
  <2>1. g \in [(1 .. n) \X AllOrigins -> AllOrigins]
    BY OriginsStayOrigins DEF IsPart
  <2>2. \A j \in 1 .. n, y \in AllOrigins : g[<<j, y>>] = OriginBelow(part[j], y)
    OBVIOUS
  <2> HIDE DEF g, n
  <2>3. PICK iter \in [SUBSET (1 .. n) -> AllOrigins] : FoldsLeft(iter, n, o, g)
    BY <1>1, <2>1, LeftFold
  <2>4. \A s \in SUBSET (1 .. n) :
             iter[s] = IF s = {} THEN o ELSE OriginBelow(part[Max(s)], iter[s \ {Max(s)}])
    BY <1>1, <2>2, <2>3, Largest DEF FoldsLeft
  <2> HIDE DEF D
  <2> QED BY <1>1, <2>4
<1>3. PICK iter : Folds(iter) /\ OriginAtEnd(part, o) = iter[D]
  BY <1>2 DEF OriginAtEnd, FoldLeft, MapThenFoldSet
<1> DEFINE p == [i \in 0 .. n |-> iter[1 .. i]]
<1>4. p[0] = o /\ OriginAtEnd(part, o) = p[n]
  <2>1. 1 .. 0 = {}
    OBVIOUS
  <2> QED BY <1>1, <1>3, <2>1
<1>5. \A i \in 1 .. n : p[i] = OriginBelow(part[i], p[i - 1])
  <2> SUFFICES ASSUME NEW i \in 1 .. n PROVE p[i] = OriginBelow(part[i], p[i - 1])
    OBVIOUS
  <2>1. (1 .. i) \in SUBSET D /\ i \in Nat \ {0} /\ i - 1 \in 0 .. n
    BY <1>1
  <2>2. iter[1 .. i] = OriginBelow(part[Max(1 .. i)], iter[(1 .. i) \ {Max(1 .. i)}])
    BY <1>3, <2>1, MaxUpTo
  <2>3. iter[1 .. i] = OriginBelow(part[i], iter[1 .. i - 1])
    BY <2>1, <2>2, MaxUpTo
  <2>4. p[i] = iter[1 .. i] /\ p[i - 1] = iter[1 .. i - 1]
    BY <2>1
  <2> HIDE DEF p
  <2> QED BY <2>3, <2>4
<1> HIDE DEF p
<1> QED BY <1>4, <1>5 DEF EndSteps

LEMMA FilterStepsExist ==
  ASSUME NEW part, IsPart(part), NEW o \in AllOrigins
  PROVE  \E p : FilterSteps(p, part, o)
<1> DEFINE n == Len(part)
           D == DOMAIN part
           g == [jy \in (1 .. n) \X AllOrigins |-> OriginTested(part[jy[1]], jy[2])]
           Folds(iter) == iter = [s \in SUBSET D |->
                                    IF s = {} THEN o
                                    ELSE OriginTested(part[Max(s)], iter[s \ {Max(s)}])]
<1>1. D = 1 .. n /\ n \in Nat
  BY DEF IsPart
<1>2. \E iter : Folds(iter)
  <2>1. g \in [(1 .. n) \X AllOrigins -> AllOrigins]
    BY OriginsStayOrigins DEF IsPart
  <2>2. \A j \in 1 .. n, y \in AllOrigins : g[<<j, y>>] = OriginTested(part[j], y)
    OBVIOUS
  <2> HIDE DEF g, n
  <2>3. PICK iter \in [SUBSET (1 .. n) -> AllOrigins] : FoldsLeft(iter, n, o, g)
    BY <1>1, <2>1, LeftFold
  <2>4. \A s \in SUBSET (1 .. n) :
             iter[s] = IF s = {} THEN o ELSE OriginTested(part[Max(s)], iter[s \ {Max(s)}])
    BY <1>1, <2>2, <2>3, Largest DEF FoldsLeft
  <2> HIDE DEF D
  <2> QED BY <1>1, <2>4
<1>3. PICK iter : Folds(iter) /\ OriginAtFilter(part, o) = iter[D]
  BY <1>2 DEF OriginAtFilter, FoldLeft, MapThenFoldSet
<1> DEFINE p == [i \in 0 .. n |-> iter[1 .. i]]
<1>4. p[0] = o /\ OriginAtFilter(part, o) = p[n]
  <2>1. 1 .. 0 = {}
    OBVIOUS
  <2> QED BY <1>1, <1>3, <2>1
<1>5. \A i \in 1 .. n : p[i] = OriginTested(part[i], p[i - 1])
  <2> SUFFICES ASSUME NEW i \in 1 .. n PROVE p[i] = OriginTested(part[i], p[i - 1])
    OBVIOUS
  <2>1. (1 .. i) \in SUBSET D /\ i \in Nat \ {0} /\ i - 1 \in 0 .. n
    BY <1>1
  <2>2. iter[1 .. i] = OriginTested(part[Max(1 .. i)], iter[(1 .. i) \ {Max(1 .. i)}])
    BY <1>3, <2>1, MaxUpTo
  <2>3. iter[1 .. i] = OriginTested(part[i], iter[1 .. i - 1])
    BY <2>1, <2>2, MaxUpTo
  <2>4. p[i] = iter[1 .. i] /\ p[i - 1] = iter[1 .. i - 1]
    BY <2>1
  <2> HIDE DEF p
  <2> QED BY <2>3, <2>4
<1> HIDE DEF p
<1> QED BY <1>4, <1>5 DEF FilterSteps

\* The first layer is the first step.
LEMMA EndBelow ==
  ASSUME NEW part, IsPart(part), part # <<>>, IsPart(Tail(part)), NEW o \in AllOrigins
  PROVE  OriginAtEnd(part, o) = OriginAtEnd(Tail(part), OriginBelow(part[1], o))
<1> DEFINE n == Len(part)
           d == Tail(part)
<1>1. /\ n \in Nat \ {0} /\ Len(d) = n - 1 /\ 1 \in 1 .. n
      /\ \A i \in 1 .. n - 1 : d[i] = part[i + 1]
  BY DEF IsPart
<1>2. OriginBelow(part[1], o) \in AllOrigins
  BY <1>1, OriginsStayOrigins DEF IsPart
<1>3. PICK p : EndSteps(p, part, o)
  BY EndStepsExist
<1>4. PICK q : EndSteps(q, d, OriginBelow(part[1], o))
  BY <1>2, EndStepsExist
<1> DEFINE r == [i \in 0 .. n - 1 |-> p[i + 1]]
<1>5. r[0] = q[0]
  <2>1. p[1] = OriginBelow(part[1], p[1 - 1]) /\ p[0] = o /\ 1 - 1 = 0
    BY <1>1, <1>3 DEF EndSteps
  <2>2. r[0] = p[1]
    BY <1>1
  <2> QED BY <1>4, <2>1, <2>2 DEF EndSteps
<1>6. ASSUME NEW i \in 1 .. n - 1, r[i - 1] = q[i - 1] PROVE r[i] = q[i]
  <2>1. r[i] = p[i + 1] /\ r[i - 1] = p[i]
    BY <1>1
  <2>2. i + 1 \in 1 .. n /\ (i + 1) - 1 = i
    BY <1>1
  <2>3. p[i + 1] = OriginBelow(part[i + 1], p[i])
    BY <1>3, <2>2 DEF EndSteps
  <2>4. q[i] = OriginBelow(d[i], q[i - 1])
    BY <1>1, <1>4 DEF EndSteps
  <2> HIDE DEF r, d, n
  <2> QED BY <1>1, <1>6, <2>1, <2>3, <2>4
<1>7. r[n - 1] = q[n - 1]
  <2> HIDE DEF r
  <2>1. n - 1 \in Nat /\ n - 1 \in 0 .. n - 1
    BY <1>1
  <2>2. \A i \in 0 .. n - 1 : r[i] = q[i]
    BY <1>5, <1>6, <2>1, SameSteps
  <2> QED BY <2>1, <2>2
<1>8. r[n - 1] = p[n]
  BY <1>1
<1> QED BY <1>1, <1>3, <1>4, <1>7, <1>8 DEF EndSteps

LEMMA FilterBelow ==
  ASSUME NEW part, IsPart(part), part # <<>>, IsPart(Tail(part)), NEW o \in AllOrigins
  PROVE  OriginAtFilter(part, o) = OriginAtFilter(Tail(part), OriginTested(part[1], o))
<1> DEFINE n == Len(part)
           d == Tail(part)
<1>1. /\ n \in Nat \ {0} /\ Len(d) = n - 1 /\ 1 \in 1 .. n
      /\ \A i \in 1 .. n - 1 : d[i] = part[i + 1]
  BY DEF IsPart
<1>2. OriginTested(part[1], o) \in AllOrigins
  BY <1>1, OriginsStayOrigins DEF IsPart
<1>3. PICK p : FilterSteps(p, part, o)
  BY FilterStepsExist
<1>4. PICK q : FilterSteps(q, d, OriginTested(part[1], o))
  BY <1>2, FilterStepsExist
<1> DEFINE r == [i \in 0 .. n - 1 |-> p[i + 1]]
<1>5. r[0] = q[0]
  <2>1. p[1] = OriginTested(part[1], p[1 - 1]) /\ p[0] = o /\ 1 - 1 = 0
    BY <1>1, <1>3 DEF FilterSteps
  <2>2. r[0] = p[1]
    BY <1>1
  <2> QED BY <1>4, <2>1, <2>2 DEF FilterSteps
<1>6. ASSUME NEW i \in 1 .. n - 1, r[i - 1] = q[i - 1] PROVE r[i] = q[i]
  <2>1. r[i] = p[i + 1] /\ r[i - 1] = p[i]
    BY <1>1
  <2>2. i + 1 \in 1 .. n /\ (i + 1) - 1 = i
    BY <1>1
  <2>3. p[i + 1] = OriginTested(part[i + 1], p[i])
    BY <1>3, <2>2 DEF FilterSteps
  <2>4. q[i] = OriginTested(d[i], q[i - 1])
    BY <1>1, <1>4 DEF FilterSteps
  <2> HIDE DEF r, d, n
  <2> QED BY <1>1, <1>6, <2>1, <2>3, <2>4
<1>7. r[n - 1] = q[n - 1]
  <2> HIDE DEF r
  <2>1. n - 1 \in Nat /\ n - 1 \in 0 .. n - 1
    BY <1>1
  <2>2. \A i \in 0 .. n - 1 : r[i] = q[i]
    BY <1>5, <1>6, <2>1, SameSteps
  <2> QED BY <2>1, <2>2
<1>8. r[n - 1] = p[n]
  BY <1>1
<1> QED BY <1>1, <1>3, <1>4, <1>7, <1>8 DEF FilterSteps

LEMMA ChainsAreParts ==
  ASSUME NEW c, IsChain(c), NEW k \in 0 .. Len(c)
  PROVE  /\ IsPart(SubSeq(c, 1, k)) /\ Len(SubSeq(c, 1, k)) = k
         /\ \A i \in 1 .. k : SubSeq(c, 1, k)[i] = c[i]
<1>1. c \in Seq(Range(c)) /\ Len(c) \in Nat \ {0}
  BY DEF IsChain
<1>2. \A i \in 1 .. Len(c) : IsLayer(c[i]) \/ IsSink(c[i])
  BY <1>1 DEF IsChain
<1>3. PICK d : d = SubSeq(c, 1, k)
  OBVIOUS
<1>4. d \in Seq(Range(c)) /\ Len(d) = k /\ \A i \in 1 .. k : d[i] = c[i]
  <2>1. /\ SubSeq(c, 1, k) \in Seq(Range(c)) /\ Len(SubSeq(c, 1, k)) = k
        /\ \A i \in 1 .. k : SubSeq(c, 1, k)[i] = c[i]
    BY <1>1
  <2> QED BY <1>3, <2>1
<1>5. d \in Seq(Range(d))
  <2>1. DOMAIN d = 1 .. Len(d)
    BY <1>4
  <2>2. \A i \in 1 .. Len(d) : d[i] \in Range(d)
    BY <2>1 DEF Range
  <2> QED BY <1>4, <2>2
<1>6. IsPart(d)
  <2>1. \A i \in 1 .. Len(d) : i \in 1 .. Len(c)
    BY <1>1, <1>4
  <2> QED BY <1>2, <1>4, <1>5, <2>1 DEF IsPart
<1> QED BY <1>3, <1>4, <1>6

LEMMA WholeIsPart ==
  ASSUME NEW c, IsChain(c)
  PROVE  IsPart(c)
<1>1. c \in Seq(Range(c)) /\ Len(c) \in Nat \ {0}
  BY DEF IsChain
<1> QED BY <1>1 DEF IsChain, IsPart

\* What is found in a chain is one of its layers, and what is below.
LEMMA FoundIsPart ==
  ASSUME NEW c, IsChain(c), NEW kinds, From(c, kinds) # <<>>
  PROVE  \E k \in 1 .. Len(c) :
           /\ From(c, kinds) = SubSeq(c, k, Len(c)) /\ c[k].kind \in kinds
           /\ \A i \in 1 .. k - 1 : c[i].kind \notin kinds
<1> DEFINE F == {i \in 1 .. Len(c) : c[i].kind \in kinds}
<1>1. DOMAIN c = 1 .. Len(c) /\ Len(c) \in Nat
  BY ChainParts
<1>2. From(c, kinds) = IF F = {} THEN <<>> ELSE SubSeq(c, Min(F), Len(c))
  BY <1>1 DEF From
<1>3. F # {} /\ F \subseteq Nat
  BY <1>2
<1>4. Min(F) \in F /\ \A x \in F : Min(F) <= x
  <2> HIDE DEF F
  <2> QED BY <1>3, Smallest
<1>5. PICK k : k = Min(F)
  OBVIOUS
<1>6. k \in 1 .. Len(c) /\ c[k].kind \in kinds
  BY <1>4, <1>5
<1>7. \A i \in 1 .. k - 1 : c[i].kind \notin kinds
  <2> SUFFICES ASSUME NEW i \in 1 .. k - 1, c[i].kind \in kinds PROVE FALSE
    OBVIOUS
  <2>1. i \in F
    BY <1>1, <1>6
  <2>2. k <= i
    BY <1>4, <1>5, <2>1
  <2> QED BY <1>6, <2>2
<1>8. From(c, kinds) = SubSeq(c, k, Len(c))
  <2> HIDE DEF F
  <2> QED BY <1>2, <1>3, <1>5
<1> QED BY <1>6, <1>7, <1>8

\* A filter looks at the origin that a local logger passes down.
LEMMA FilteredBelow ==
  ASSUME NEW c, IsChain(c), Len(c) # 1, c[1].kind = "local", NEW level, NEW o \in AllOrigins
  PROVE  FilterByOrigin(c, level, o) = FilterByOrigin(Tail(c), level, OriginTested(c[1], o))
<1> DEFINE n == Len(c)
           d == Tail(c)
           f == From(c, {"filtered"})
           above == SubSeq(c, 1, n - Len(f))
           below == SubSeq(d, 1, n - 1 - Len(f))
<1>1. /\ n \in Nat \ {0} /\ n # 1 /\ IsChain(d) /\ Len(d) = n - 1
      /\ \A i \in 1 .. n - 1 : d[i] = c[i + 1]
  BY ChainParts
<1>2. f = From(d, {"filtered"})
  BY FoundBelow
<1>3. ASSUME f # <<>>
      PROVE  OriginAtFilter(above, o) = OriginAtFilter(below, OriginTested(c[1], o))
  <2>1. Len(f) \in 1 .. n - 1
    <3>1. PICK k \in 1 .. Len(d) : f = SubSeq(d, k, Len(d))
      <4> HIDE DEF d, f
      <4>1. From(d, {"filtered"}) # <<>>
        BY <1>2, <1>3
      <4> QED BY <1>1, <1>2, <4>1, FoundIsPart
    <3>2. Len(f) = Len(d) - k + 1
      BY <1>1, <3>1, ChainParts
    <3> QED BY <1>1, <3>1, <3>2
  <2>2. PICK k \in 1 .. n - 1 : k = n - Len(f)
    <3> HIDE DEF n, f
    <3> QED BY <1>1, <2>1
  <2>3. above = SubSeq(c, 1, k) /\ below = SubSeq(d, 1, k - 1)
    BY <1>1, <2>1, <2>2
  <2> HIDE DEF above, below, f, n, d
  <2>4. IsPart(above) /\ Len(above) = k /\ \A i \in 1 .. k : above[i] = c[i]
    <3>1. k \in 0 .. Len(c)
      BY <1>1 DEF n
    <3> QED BY <2>3, <3>1, ChainsAreParts
  <2>5. IsPart(below) /\ Len(below) = k - 1 /\ \A i \in 1 .. k - 1 : below[i] = d[i]
    <3>1. k - 1 \in 0 .. Len(d)
      BY <1>1
    <3> QED BY <1>1, <2>3, <3>1, ChainsAreParts
  <2>6. above \in Seq(Range(above)) /\ below \in Seq(Range(below))
    BY <2>4, <2>5 DEF IsPart
  <2>7. Tail(above) = below
    <3>1. /\ Tail(above) \in Seq(Range(above)) /\ Len(Tail(above)) = k - 1
          /\ \A i \in 1 .. k - 1 : Tail(above)[i] = above[i + 1]
      BY <2>4, <2>6
    <3>2. PICK e : e = Tail(above)
      OBVIOUS
    <3>3. \A i \in 1 .. k - 1 : e[i] = below[i]
      <4> SUFFICES ASSUME NEW i \in 1 .. k - 1 PROVE e[i] = below[i]
        OBVIOUS
      <4>1. i + 1 \in 1 .. k /\ i \in 1 .. n - 1
        BY <1>1
      <4>2. d[i] = c[i + 1]
        BY <1>1, <4>1
      <4> QED BY <2>4, <2>5, <3>1, <3>2, <4>1, <4>2
    <3>4. e \in Seq(Range(above)) /\ Len(e) = Len(below) /\ \A i \in 1 .. Len(e) : e[i] = below[i]
      BY <2>5, <3>1, <3>2, <3>3
    <3>5. e = below
      BY <2>6, <3>4, SeqEqual
    <3> QED BY <3>2, <3>5
  <2>8. above # <<>> /\ above[1] = c[1]
    BY <2>4, <2>6
  <2> QED BY <2>4, <2>5, <2>7, <2>8, FilterBelow
<1>4. FilterByOrigin(c, level, o) =
        (f # <<>> => IsAtLeastOfSeverity(level,
                       LevelByRules(f[1].levels_set, OriginAtFilter(above, o), Level(Tail(f)))))
  BY DEF FilterByOrigin
<1>5. FilterByOrigin(d, level, OriginTested(c[1], o)) =
        (f # <<>> => IsAtLeastOfSeverity(level,
                       LevelByRules(f[1].levels_set, OriginAtFilter(below, OriginTested(c[1], o)),
                                    Level(Tail(f)))))
  BY <1>1, <1>2 DEF FilterByOrigin
<1> HIDE DEF f, above, below
<1> QED BY <1>3, <1>4, <1>5

\* What is written has the origin that a local logger passes down.
LEMMA EmittedBelow ==
  ASSUME NEW c, IsChain(c), Len(c) # 1, NEW m, m.origin \in AllOrigins
  PROVE  Emitted(c, m) = Emitted(Tail(c), [m EXCEPT !.origin = OriginBelow(c[1], @)])
<1>1. /\ c \in Seq(Range(c)) /\ Len(c) \in Nat \ {0} /\ IsChain(Tail(c)) /\ Len(Tail(c)) = Len(c) - 1
      /\ \A i \in 1 .. Len(c) - 1 : Tail(c)[i] = c[i + 1]
  BY ChainParts
<1>2. Last(c) = Last(Tail(c))
  <2>1. Len(c) - 1 \in 1 .. Len(c) - 1 /\ (Len(c) - 1) + 1 = Len(c)
    BY <1>1
  <2> QED BY <1>1, <2>1 DEF Last
<1>3. OriginAtEnd(c, m.origin) = OriginAtEnd(Tail(c), OriginBelow(c[1], m.origin))
  <2>1. IsPart(c) /\ IsPart(Tail(c)) /\ c # <<>>
    BY <1>1, WholeIsPart DEF IsChain
  <2> QED BY <2>1, EndBelow
<1> QED BY <1>2, <1>3 DEF Emitted

IsLogged(m) ==
  m.origin \in AllOrigins /\ m = [level |-> m.level, origin |-> m.origin, what |-> m.what]

WithOrigin(m, origin) == [m EXCEPT !.origin = origin]

LEMMA LogBelow ==
  ASSUME NEW c, IsChain(c), Len(c) # 1, c[1].kind = "local",
         NEW m, IsLogged(m)
  PROVE  Log(c, m) = Log(Tail(c), WithOrigin(m, GetSubOrigin(c[1], m.origin)))
<1> DEFINE u == WithOrigin(m, GetSubOrigin(c[1], m.origin))
<1>1. /\ OriginBelow(c[1], m.origin) = GetSubOrigin(c[1], m.origin)
      /\ OriginTested(c[1], m.origin) = GetSubOrigin(c[1], m.origin)
  BY DEF OriginBelow, OriginTested
<1>2. u.level = m.level /\ u.origin = GetSubOrigin(c[1], m.origin)
  BY DEF IsLogged, WithOrigin
<1>3. m.origin \in AllOrigins
  BY DEF IsLogged
<1>4. Emitted(c, m) = Emitted(Tail(c), u)
  BY <1>1, <1>3, EmittedBelow DEF WithOrigin
<1>5. EnabledFor(c, m.level) = EnabledFor(Tail(c), u.level)
  BY <1>2, EnabledBelow
<1>6. FilterByOrigin(c, m.level, m.origin) = FilterByOrigin(Tail(c), u.level, u.origin)
  BY <1>1, <1>2, <1>3, FilteredBelow
<1>7. ShouldEmit(c, m) = ShouldEmit(Tail(c), u)
  BY <1>5, <1>6 DEF ShouldEmit
<1> QED BY <1>4, <1>7 DEF Log

\* Wherever a local logger is in a chain, it only spares the origin.
LEMMA LocalsSpareTheOrigin ==
  ASSUME IsChain(logger)
  PROVE  LocalLoggersTransparent
<1> SUFFICES ASSUME NEW i \in DOMAIN logger, NEW m \in Messages, logger[i].kind = "local"
             PROVE  LET chain == SubSeq(logger, i, Len(logger))
                        full == logger[i].origin_prefix
                                \o IF m.origin = <<>> THEN <<>> ELSE <<logger[i].glue>> \o m.origin
                    IN  Log(chain, m) = Log(Tail(chain), [m EXCEPT !.origin = full])
  BY DEF LocalLoggersTransparent
<1>1. i \in 1 .. Len(logger) /\ Len(logger) \in Nat \ {0}
  BY ChainParts
<1>2. PICK c : c = SubSeq(logger, i, Len(logger))
  OBVIOUS
<1>3. /\ IsChain(c) /\ Len(c) = Len(logger) - i + 1
      /\ \A j \in 1 .. Len(logger) - i + 1 : c[j] = logger[j + i - 1]
  BY <1>1, <1>2, ChainParts
<1>4. c[1] = logger[i] /\ c[1].kind = "local"
  <2>1. 1 \in 1 .. Len(logger) - i + 1 /\ 1 + i - 1 = i
    BY <1>1
  <2> QED BY <1>3, <2>1
<1>5. Len(c) # 1
  <2>1. SUFFICES ASSUME Len(c) = 1 PROVE FALSE
    OBVIOUS
  <2>2. IsSink(c[1])
    BY <1>3, <2>1 DEF IsChain
  <2> QED BY <1>4, <2>2, KindsApart DEF SinkKinds
<1>6. IsLogged(m) /\ m.origin \in AllOrigins
  <2>1. <<>> \in AllOrigins /\ Origins \subseteq AllOrigins
    BY ChainsAssumption DEF AllOrigins
  <2> QED BY <2>1 DEF Messages, IsLogged
<1>8. GetSubOrigin(c[1], m.origin)
        = c[1].origin_prefix \o IF m.origin = <<>> THEN <<>> ELSE <<c[1].glue>> \o m.origin
  <2>1. IsLayer(c[1])
    BY <1>3, <1>5, ChainParts
  <2>2. c[1].origin_prefix \in AllOrigins /\ c[1].glue \in Range(Pieces)
    BY <1>4, <2>1 DEF IsLayer, AllOrigins
  <2>3. PICK a, g, o : a = c[1].origin_prefix /\ g = <<c[1].glue>> /\ o = m.origin
    OBVIOUS
  <2>4. a \in Seq(Range(Pieces)) /\ g \in Seq(Range(Pieces)) /\ o \in Seq(Range(Pieces))
    BY <1>6, <2>2, <2>3 DEF AllOrigins
  <2>5. (a \o g) \o o = a \o (g \o o) /\ a \o <<>> = a
    BY <2>4, ConcatAssociative, ConcatEmptySeq
  <2> QED BY <2>3, <2>5 DEF GetSubOrigin
<1>9. Log(c, m) = Log(Tail(c), WithOrigin(m, GetSubOrigin(c[1], m.origin)))
  BY <1>3, <1>4, <1>5, <1>6, LogBelow
<1> QED BY <1>2, <1>4, <1>8, <1>9 DEF WithOrigin

-----------------------------------------------------------------------------
\* Python's levels

LEMMA LevelsInStep ==
  ASSUME NEW level \in LogLevels, NEW pylvl \in Int, ToPythonLevel(level) >= pylvl
  PROVE  level <= FromPythonLevel(pylvl)
<1> DEFINE l == FromPythonLevel(pylvl)
<1>1. CASE pylvl < 10
  BY <1>1 DEF FromPythonLevel, LogLevels, ERROR, LONGDEBUG
<1>2. CASE pylvl \in 10 .. 19
  <2>1. l = 3
    BY <1>2 DEF FromPythonLevel, DEBUG
  <2>2. level # 4
    BY <1>2 DEF ToPythonLevel, ERROR, WARNING, INFO, DEBUG
  <2> QED BY <2>1, <2>2 DEF LogLevels, ERROR, LONGDEBUG
<1>3. CASE pylvl \in 20 .. 29
  <2>1. l = 2
    BY <1>3 DEF FromPythonLevel, INFO
  <2>2. level # 4 /\ level # 3
    BY <1>3 DEF ToPythonLevel, ERROR, WARNING, INFO, DEBUG
  <2> QED BY <2>1, <2>2 DEF LogLevels, ERROR, LONGDEBUG
<1>4. CASE pylvl \in 30 .. 39
  <2>1. l = 1
    BY <1>4 DEF FromPythonLevel, WARNING
  <2>2. level # 4 /\ level # 3 /\ level # 2
    BY <1>4 DEF ToPythonLevel, ERROR, WARNING, INFO, DEBUG
  <2> QED BY <2>1, <2>2 DEF LogLevels, ERROR, LONGDEBUG
<1>5. CASE pylvl >= 40
  <2>1. l = 0
    BY <1>5 DEF FromPythonLevel, ERROR
  <2>2. level # 4 /\ level # 3 /\ level # 2 /\ level # 1
    BY <1>5 DEF ToPythonLevel, ERROR, WARNING, INFO, DEBUG
  <2> QED BY <2>1, <2>2 DEF LogLevels, ERROR, LONGDEBUG
<1> QED BY <1>1, <1>2, <1>3, <1>4, <1>5

\* Through local and prefixing loggers, what Python shows gets to it.
LEMMA PythonHears ==
  ASSUME ChainInv
  PROVE  PythonShowsAll
<1> SUFFICES ASSUME in_step,
                    \A layer \in Range(Front(logger)) : layer.kind \in {"local", "prefixed"},
                    NEW m \in Messages, ToPythonLevel(m.level) >= python_level
             PROVE  Log(logger, m) # {}
  BY DEF PythonShowsAll
<1> DEFINE n == Len(logger)
<1>1. /\ IsChain(logger) /\ logger \in Seq(Range(logger)) /\ n \in Nat \ {0}
      /\ python_level \in Int
  BY ChainsAssumption, ChainParts DEF ChainInv
<1>2. PICK sink : sink = logger[n]
  OBVIOUS
<1>3. sink.kind = "python" /\ sink.level = FromPythonLevel(python_level)
  BY <1>2 DEF ChainInv, PyLogger
<1>4. \A i \in 1 .. n - 1 : logger[i].kind \in {"local", "prefixed"}
  <2> SUFFICES ASSUME NEW i \in 1 .. n - 1 PROVE logger[i] \in Range(Front(logger))
    OBVIOUS
  <2>1. n - 1 \in 0 .. Len(logger)
    BY <1>1
  <2>2. /\ Len(SubSeq(logger, 1, n - 1)) = n - 1
        /\ \A j \in 1 .. n - 1 : SubSeq(logger, 1, n - 1)[j] = logger[j]
        /\ IsPart(SubSeq(logger, 1, n - 1))
    BY <1>1, <2>1, ChainsAreParts
  <2>3. PICK f : f = SubSeq(logger, 1, n - 1)
    OBVIOUS
  <2>4. f \in Seq(Range(f)) /\ Len(f) = n - 1 /\ f[i] = logger[i]
    BY <2>2, <2>3 DEF IsPart
  <2>5. f[i] \in Range(f)
    BY <2>4 DEF Range
  <2>6. Front(logger) = f
    BY <2>3 DEF Front
  <2> QED BY <2>4, <2>5, <2>6
<1>5. ASSUME NEW kinds, kinds \cap {"local", "prefixed"} = {}, From(logger, kinds) # <<>>
      PROVE  From(logger, kinds) = SubSeq(logger, n, n) /\ sink.kind \in kinds
  <2>1. PICK k \in 1 .. n : From(logger, kinds) = SubSeq(logger, k, n) /\ logger[k].kind \in kinds
    BY <1>1, <1>5, FoundIsPart
  <2>2. k = n
    <3>1. k \notin 1 .. n - 1
      BY <1>4, <1>5, <2>1
    <3> QED BY <1>1, <2>1, <3>1
  <2> QED BY <1>2, <2>1, <2>2
<1>6. From(logger, {"filtered"}) = <<>> /\ From(logger, {"minimum severity", "vacuum"}) = <<>>
  <2>1. PICK A, B : A = {"filtered"} /\ B = {"minimum severity", "vacuum"}
    OBVIOUS
  <2>2. /\ A \cap {"local", "prefixed"} = {} /\ sink.kind \notin A
        /\ B \cap {"local", "prefixed"} = {} /\ sink.kind \notin B
    BY <1>3, <2>1
  <2>3. From(logger, A) = <<>> /\ From(logger, B) = <<>>
    BY <1>5, <2>2
  <2> QED BY <2>1, <2>3
<1>7. Level(logger) = sink.level
  <2> DEFINE K == {"file", "buffer", "vacuum", "python", "frozen", "filtered"}
  <2>1. From(logger, K) # <<>>
    <3>1. DOMAIN logger = 1 .. n /\ n \in 1 .. n
      BY <1>1
    <3> DEFINE F == {i \in 1 .. n : logger[i].kind \in K}
    <3>2. n \in F
      BY <1>1, <1>2, <1>3
    <3>3. F \subseteq Nat /\ F # {}
      BY <1>1, <3>2
    <3>4. Min(F) \in F
      <4> HIDE DEF F
      <4> QED BY <3>3, Smallest
    <3>5. From(logger, K) = SubSeq(logger, Min(F), n)
      BY <3>1, <3>3 DEF From
    <3>6. PICK k \in 1 .. n : k = Min(F)
      BY <3>4
    <3>7. Len(SubSeq(logger, k, n)) = n - k + 1 /\ SubSeq(logger, k, n) # <<>>
      BY <1>1, <3>6, ChainParts DEF IsChain
    <3> QED BY <3>5, <3>6, <3>7
  <2>2. K \cap {"local", "prefixed"} = {}
    OBVIOUS
  <2>3. From(logger, K) = SubSeq(logger, n, n)
    <3> HIDE DEF K
    <3> QED BY <1>5, <2>1, <2>2
  <2>4. SubSeq(logger, n, n)[1] = sink
    <3>1. n \in 1 .. n /\ 1 \in 1 .. n - n + 1 /\ 1 + n - 1 = n
      BY <1>1
    <3>2. SubSeq(logger, n, n)[1] = logger[1 + n - 1]
      BY <1>1, <3>1, ChainParts
    <3> QED BY <1>2, <3>1, <3>2
  <2> QED BY <1>3, <2>3, <2>4 DEF Level
<1>8. m.level \in LogLevels
  BY ChainsAssumption DEF Messages
<1>9. IsAtLeastOfSeverity(m.level, Level(logger))
  BY <1>1, <1>3, <1>7, <1>8, LevelsInStep DEF IsAtLeastOfSeverity
<1>10. StaticallyEnabledFor(logger, m.level)
  <2>1. StaticMinimumSeverityLevel(logger) = LOWEST_SEVERITY_LEVEL
    BY <1>6 DEF StaticMinimumSeverityLevel
  <2>2. m.level <= LOWEST_SEVERITY_LEVEL
    BY <1>8, SMT DEF LogLevels, ERROR, LONGDEBUG, LOWEST_SEVERITY_LEVEL
  <2> QED BY <2>1, <2>2 DEF StaticallyEnabledFor, IsAtLeastOfSeverity
<1>11. FilterByOrigin(logger, m.level, m.origin)
  BY <1>6 DEF FilterByOrigin
<1>12. Emitted(logger, m) # {}
  <2>1. PICK u : u = [m EXCEPT !.origin = OriginAtEnd(logger, @)]
    OBVIOUS
  <2>2. EmitLog(sink, u) # {}
    BY <1>3 DEF EmitLog
  <2>3. Emitted(logger, m) = EmitLog(sink, u)
    BY <1>2, <2>1 DEF Emitted, Last
  <2> QED BY <2>2, <2>3
<1> QED BY <1>9, <1>10, <1>11, <1>12 DEF Log, ShouldEmit, EnabledFor

LEMMA ChainsLetThrough ==
  ASSUME ChainInv
  PROVE  MessagesComeThrough
BY LocalsSpareTheOrigin, PythonHears DEF ChainInv, MessagesComeThrough

-----------------------------------------------------------------------------
\* The invariant is inductive

LEMMA MakesChain ==
  ASSUME NEW S, NEW d \in Seq(S), d # <<>>, IsSink(d[Len(d)]),
         \A i \in 1 .. Len(d) - 1 : IsLayer(d[i])
  PROVE  IsChain(d)
<1>1. DOMAIN d = 1 .. Len(d)
  OBVIOUS
<1>2. \A i \in 1 .. Len(d) : d[i] \in Range(d)
  BY <1>1 DEF Range
<1>3. d \in Seq(Range(d))
  BY <1>2
<1> QED BY <1>3 DEF IsChain

LEMMA ChainOnTop ==
  ASSUME NEW c, IsChain(c), NEW layer, IsLayer(layer), NEW d, d = <<layer>> \o c
  PROVE  IsChain(d) /\ d[Len(d)] = c[Len(c)]
<1> DEFINE n == Len(c)
<1>1. c \in Seq(Range(c)) /\ n \in Nat \ {0} /\ IsSink(c[n]) /\ \A i \in 1 .. n - 1 : IsLayer(c[i])
  BY DEF IsChain
<1>2. PICK S : S = Range(c) \cup {layer}
  OBVIOUS
<1>3. c \in Seq(S) /\ <<layer>> \in Seq(S) /\ Len(<<layer>>) = 1
  BY <1>1, <1>2
<1>4. PICK s \in Seq(S) : s = <<layer>> /\ Len(s) = 1 /\ s[1] = layer
  BY <1>3
<1>5. /\ d \in Seq(S) /\ Len(d) = n + 1 /\ d[1] = layer
      /\ \A i \in 2 .. n + 1 : d[i] = c[i - 1]
  <2>1. d = s \o c
    BY <1>4
  <2>2. d \in Seq(S) /\ Len(d) = 1 + n /\ \A i \in 1 .. 1 + n : d[i] = IF i <= 1 THEN s[i] ELSE c[i - 1]
    BY <1>3, <1>4, <2>1
  <2> QED BY <1>1, <1>4, <2>2
<1>6. d # <<>> /\ d[Len(d)] = c[n]
  BY <1>1, <1>5
<1>7. ASSUME NEW i \in 1 .. Len(d) - 1 PROVE IsLayer(d[i])
  <2>1. CASE i = 1
    BY <1>5, <2>1
  <2>2. CASE i # 1
    <3>1. i \in 2 .. n + 1 /\ i - 1 \in 1 .. n - 1
      BY <1>1, <1>5, <2>2
    <3> QED BY <1>1, <1>5, <3>1
  <2> QED BY <2>1, <2>2
<1> QED BY <1>1, <1>5, <1>6, <1>7, MakesChain

Settled(c, i, layer) == [c EXCEPT ![i] = layer]

LEMMA ChainSettled ==
  ASSUME NEW c, IsChain(c), NEW i \in 1 .. Len(c), NEW layer, NEW d, d = Settled(c, i, layer),
         i # Len(c) => IsLayer(layer), i = Len(c) => IsSink(layer)
  PROVE  IsChain(d) /\ d[Len(d)] = IF i = Len(c) THEN layer ELSE c[Len(c)]
<1> DEFINE n == Len(c)
<1>1. c \in Seq(Range(c)) /\ n \in Nat \ {0} /\ IsSink(c[n]) /\ \A j \in 1 .. n - 1 : IsLayer(c[j])
  BY DEF IsChain
<1>2. PICK S : S = Range(c) \cup {layer}
  OBVIOUS
<1>3. c \in Seq(S)
  BY <1>1, <1>2
<1>4. d \in Seq(S) /\ Len(d) = n /\ \A j \in 1 .. n : d[j] = IF j = i THEN layer ELSE c[j]
  BY <1>2, <1>3 DEF Settled
<1>5. d # <<>> /\ d[Len(d)] = IF i = n THEN layer ELSE c[n]
  BY <1>1, <1>4
<1>6. IsSink(d[Len(d)])
  BY <1>1, <1>5
<1>7. ASSUME NEW j \in 1 .. Len(d) - 1 PROVE IsLayer(d[j])
  <2>1. j \in 1 .. n - 1 /\ j \in 1 .. n /\ j # n
    BY <1>1, <1>4
  <2> QED BY <1>1, <1>4, <2>1
<1> QED BY <1>4, <1>5, <1>6, <1>7, MakesChain

LEMMA ChainResunk ==
  ASSUME NEW c, IsChain(c), NEW sink, IsSink(sink), NEW d, d = Front(c) \o <<sink>>
  PROVE  IsChain(d) /\ d[Len(d)] = sink
<1> DEFINE n == Len(c)
<1>1. c \in Seq(Range(c)) /\ n \in Nat \ {0} /\ \A j \in 1 .. n - 1 : IsLayer(c[j])
  BY DEF IsChain
<1>2. PICK S : S = Range(c) \cup {sink}
  OBVIOUS
<1>3. PICK f : f = Front(c)
  OBVIOUS
<1>4. f \in Seq(S) /\ Len(f) = n - 1 /\ \A j \in 1 .. n - 1 : f[j] = c[j]
  <2>1. c \in Seq(S)
    BY <1>1, <1>2
  <2>2. /\ SubSeq(c, 1, n - 1) \in Seq(S) /\ Len(SubSeq(c, 1, n - 1)) = n - 1
        /\ \A j \in 1 .. n - 1 : SubSeq(c, 1, n - 1)[j] = c[j]
    BY <1>1, <2>1
  <2> QED BY <1>3, <2>2 DEF Front
<1>5. PICK s \in Seq(S) : s = <<sink>> /\ Len(s) = 1 /\ s[1] = sink
  <2>1. sink \in S
    BY <1>2
  <2>2. <<sink>> \in Seq(S) /\ Len(<<sink>>) = 1 /\ <<sink>>[1] = sink
    BY <2>1
  <2> QED BY <2>2
<1>6. d \in Seq(S) /\ Len(d) = n /\ \A j \in 1 .. n : d[j] = IF j = n THEN sink ELSE c[j]
  <2>1. d = f \o s
    BY <1>3, <1>5
  <2>2. /\ d \in Seq(S) /\ Len(d) = n - 1 + 1
        /\ \A j \in 1 .. n - 1 + 1 : d[j] = IF j <= n - 1 THEN f[j] ELSE s[j - (n - 1)]
    <3>1. f \in Seq(S) /\ s \in Seq(S) /\ Len(f) = n - 1 /\ Len(s) = 1
      BY <1>4, <1>5
    <3>2. /\ f \o s \in Seq(S) /\ Len(f \o s) = Len(f) + Len(s)
          /\ \A j \in 1 .. Len(f) + Len(s) : (f \o s)[j] = IF j <= Len(f) THEN f[j] ELSE s[j - Len(f)]
      BY <3>1, ConcatProperties, Zenon
    <3>3. /\ d \in Seq(S) /\ Len(d) = Len(f) + Len(s)
          /\ \A j \in 1 .. Len(f) + Len(s) : d[j] = IF j <= Len(f) THEN f[j] ELSE s[j - Len(f)]
      BY <2>1, <3>2, Zenon
    <3> HIDE DEF n
    <3> QED BY <3>1, <3>3
  <2> QED BY <1>1, <1>4, <1>5, <2>2
<1>7. d # <<>> /\ d[Len(d)] = sink
  BY <1>1, <1>6
<1>8. ASSUME NEW j \in 1 .. Len(d) - 1 PROVE IsLayer(d[j])
  <2>1. j \in 1 .. n - 1 /\ j \in 1 .. n /\ j # n
    BY <1>1, <1>6
  <2> QED BY <1>1, <1>6, <2>1
<1> QED BY <1>6, <1>7, <1>8, MakesChain

LEMMA LoggersInitInv ==
  ASSUME LoggersInit
  PROVE  ChainInv
<1>1. ASSUME NEW sink, IsSink(sink), logger = <<sink>>
      PROVE  IsChain(logger) /\ logger[Len(logger)] = sink /\ Last(logger) = sink
  <2>1. logger \in Seq({sink}) /\ Len(logger) = 1 /\ logger[1] = sink /\ logger # <<>>
    BY <1>1
  <2>2. logger[Len(logger)] = sink /\ Last(logger) = sink
    BY <2>1 DEF Last
  <2>3. PICK S : S = {sink}
    OBVIOUS
  <2>4. \A i \in 1 .. Len(logger) - 1 : FALSE
    BY <2>1
  <2>5. IsChain(logger)
    BY <1>1, <2>1, <2>2, <2>3, <2>4, MakesChain
  <2> QED BY <2>2, <2>5
<1>2. CASE \E sink \in Sinks : logger = <<sink>>
  <2>1. PICK sink \in Sinks : logger = <<sink>>
    BY <1>2
  <2>2. IsSink(sink) /\ sink.kind # "python"
    BY ChainsAssumption
  <2>3. IsChain(logger) /\ Last(logger) = sink
    BY <1>1, <2>1, <2>2
  <2>4. ~in_step
    BY <2>2, <2>3 DEF LoggersInit, HasSink
  <2> QED BY <2>3, <2>4, ChainsAssumption DEF ChainInv, LoggersInit
<1>3. CASE logger = <<PyLogger(FromPythonLevel(python_level))>>
  <2>1. IsSink(PyLogger(FromPythonLevel(python_level)))
    BY DEF IsSink, PyLogger
  <2>2. IsChain(logger) /\ logger[Len(logger)] = PyLogger(FromPythonLevel(python_level))
    BY <1>1, <1>3, <2>1
  <2> QED BY <2>2, ChainsAssumption DEF ChainInv, LoggersInit
<1> QED BY <1>2, <1>3 DEF LoggersInit

LEMMA LoggersNextInv ==
  ASSUME ChainInv, [LoggersNext]_logger_vars
  PROVE  ChainInv'
<1> DEFINE n == Len(logger)
           sink == logger[n]
           ByPython(pylvl) == PyLogger(FromPythonLevel(pylvl))
<1>1. /\ IsChain(logger) /\ n \in Nat \ {0} /\ python_level \in Int
      /\ IsSink(sink) /\ (in_step => sink = ByPython(python_level)) /\ DOMAIN logger = 1 .. n
  BY ChainParts DEF ChainInv, IsChain
<1> HIDE DEF n, sink
<1>2. sink = Last(logger) /\ sink = logger[n] /\ n \in 1 .. n
  BY <1>1 DEF sink, n, Last
<1>3. ASSUME NEW layer, IsLayer(layer), Put(layer) PROVE ChainInv'
  <2>1. IsChain(logger') /\ logger'[Len(logger')] = sink
    <3>1. PICK d : d = logger'
      OBVIOUS
    <3>2. d = <<layer>> \o logger
      BY <1>3, <3>1 DEF Put
    <3>3. IsChain(d) /\ d[Len(d)] = sink
      BY <1>1, <1>3, <3>2, ChainOnTop DEF sink, n
    <3> QED BY <3>1, <3>3
  <2>2. python_level' = python_level /\ in_step' = in_step
    BY <1>3 DEF Put
  <2> QED BY <1>1, <2>1, <2>2 DEF ChainInv
<1>4. CASE AddLayer
  <2>1. CASE \E spec \in OriginSpecs : Put(LocalLogger(spec))
    BY <1>3, <2>1, ChainsAssumption
  <2>2. CASE \E prefix \in Origins : Put(OriginPrefixedLogger(prefix))
    <3>1. \A prefix \in Origins : IsLayer(OriginPrefixedLogger(prefix))
      BY ChainsAssumption DEF IsLayer, OriginPrefixedLogger
    <3> QED BY <1>3, <2>2, <3>1
  <2>3. CASE \E level \in Levels : Put(MinimumSeverityLogger(level))
    <3>1. \A level : IsLayer(MinimumSeverityLogger(level))
      BY DEF IsLayer, MinimumSeverityLogger
    <3> QED BY <1>3, <2>3, <3>1
  <2>4. CASE Put(OriginFilteredLogger(Nothing))
    <3>1. IsLayer(OriginFilteredLogger(Nothing))
      BY DEF IsLayer, OriginFilteredLogger
    <3> QED BY <1>3, <2>4, <3>1
  <2>5. CASE Put(FrozenLogger(logger))
    <3>1. IsLayer(FrozenLogger(logger))
      BY DEF IsLayer, FrozenLogger
    <3> QED BY <1>3, <2>5, <3>1
  <2> QED BY <1>4, <2>1, <2>2, <2>3, <2>4, <2>5 DEF AddLayer
<1>5. CASE DropLayer
  <2>1. n # 1 /\ logger' = Tail(logger)
    BY <1>1, <1>5 DEF DropLayer, n
  <2>2. PICK d : d = logger'
    OBVIOUS
  <2>3. IsChain(d) /\ Len(d) = n - 1 /\ \A i \in 1 .. n - 1 : d[i] = logger[i + 1]
    BY <1>1, <2>1, <2>2, ChainParts DEF n
  <2>4. d[Len(d)] = sink
    <3>1. n - 1 \in 1 .. n - 1 /\ (n - 1) + 1 = n
      BY <1>1, <2>1
    <3> QED BY <1>2, <2>3, <3>1
  <2>5. python_level' = python_level /\ in_step' = in_step
    BY <1>5 DEF DropLayer
  <2> QED BY <1>1, <2>2, <2>3, <2>4, <2>5 DEF ChainInv
\* a setting of the last logger, which is not Python's, or of one above
<1>6. ASSUME NEW i \in 1 .. n, NEW layer, Settle(i, layer),
             i = n => IsSink(layer) /\ ~HasSink({"python"}), i # n => IsLayer(layer)
      PROVE  ChainInv'
  <2>1. PICK d : d = logger'
    OBVIOUS
  <2>2. d = Settled(logger, i, layer)
    BY <1>6, <2>1 DEF Settle, Settled
  <2>3. IsChain(d) /\ d[Len(d)] = IF i = n THEN layer ELSE sink
    <3>1. i \in 1 .. Len(logger) /\ (i # Len(logger) => IsLayer(layer)) /\ (i = Len(logger) => IsSink(layer))
      BY <1>6 DEF n
    <3>2. IsChain(d) /\ d[Len(d)] = IF i = Len(logger) THEN layer ELSE logger[Len(logger)]
      BY <1>1, <2>2, <3>1, ChainSettled
    <3> QED BY <3>2 DEF sink, n
  <2>4. python_level' = python_level /\ in_step' = in_step
    BY <1>6 DEF Settle
  <2>5. i = n => ~in_step
    <3>1. sink = ByPython(python_level) => sink.kind \in {"python"}
      BY DEF PyLogger
    <3> QED BY <1>1, <1>2, <1>6, <3>1 DEF HasSink
  <2>6. in_step' => d[Len(d)] = ByPython(python_level')
    BY <1>1, <2>3, <2>4, <2>5
  <2> QED BY <1>1, <2>1, <2>3, <2>4, <2>6 DEF ChainInv
<1>7. CASE SetLevel
  <2>1. PICK level \in Levels : Settle(n, [sink EXCEPT !.level = level])
    BY <1>2, <1>7 DEF SetLevel, n
  <2>2. sink.kind \in {"file", "buffer"}
    BY <1>2, <1>7 DEF SetLevel, HasSink
  <2>3. IsSink([sink EXCEPT !.level = level])
    BY <1>1, <2>2 DEF IsSink, FileLogger, BufferLogger
  <2>4. ~HasSink({"python"})
    BY <1>2, <2>2 DEF HasSink
  <2> QED BY <1>2, <1>6, <2>1, <2>3, <2>4
<1>8. CASE SetOutput
  <2>1. PICK fp \in {"stdout", "logfile"}, display_origin \in BOOLEAN :
          Settle(n, FileLogger(fp, sink.level, display_origin))
    BY <1>2, <1>8 DEF SetOutput, n
  <2>2. sink.kind \in {"file"}
    BY <1>2, <1>8 DEF SetOutput, HasSink
  <2>3. IsSink(FileLogger(fp, sink.level, display_origin))
    BY DEF IsSink, FileLogger
  <2>4. ~HasSink({"python"})
    BY <1>2, <2>2 DEF HasSink
  <2> QED BY <1>2, <1>6, <2>1, <2>3, <2>4
<1>9. CASE SetLevelFromPython
  <2>1. PICK newlevel \in PythonLevels : SetPyLoggerLevel(sink, FromPythonLevel(newlevel))
    BY <1>2, <1>9 DEF SetLevelFromPython
  <2>2. sink.kind = "python"
    BY <1>2, <1>9 DEF SetLevelFromPython, HasSink
  <2>3. PICK set : set = [sink EXCEPT !.level = FromPythonLevel(newlevel)]
    OBVIOUS
  <2>4. set = ByPython(newlevel) /\ IsSink(set)
    BY <1>1, <2>2, <2>3 DEF IsSink, PyLogger
  <2>5. PICK d : d = logger'
    OBVIOUS
  <2>6. d = Front(logger) \o <<set>>
    BY <2>1, <2>3, <2>5 DEF SetPyLoggerLevel
  <2>7. IsChain(d) /\ d[Len(d)] = set
    BY <1>1, <2>4, <2>6, ChainResunk
  <2>8. python_level' = python_level /\ in_step' = (FromPythonLevel(newlevel) = FromPythonLevel(python_level))
    BY <1>9, <2>1 DEF SetLevelFromPython, SetPyLoggerLevel
  <2>9. in_step' => set = ByPython(python_level)
    <3>1. in_step' => FromPythonLevel(newlevel) = FromPythonLevel(python_level)
      BY <2>8
    <3> QED BY <2>4, <3>1
  <2>10. in_step' => d[Len(d)] = ByPython(python_level')
    BY <2>7, <2>8, <2>9, Zenon
  <2> QED BY <1>1, <2>5, <2>7, <2>8, <2>10 DEF ChainInv
<1>10. CASE SetPythonLevel
  BY <1>1, <1>10, ChainsAssumption DEF SetPythonLevel, ChainInv
<1>11. ASSUME NEW i \in 1 .. n, NEW layer, Settle(i, layer),
              logger[i].kind \in {"prefixed", "filtered"}, IsLayer(layer)
       PROVE  ChainInv'
  <2>1. i # n
    <3>1. IsSink(logger[n])
      BY <1>1, <1>2
    <3> QED BY <1>11, <3>1, KindsApart DEF SinkKinds
  <2> QED BY <1>6, <1>11, <2>1
<1>12. ASSUME NEW i \in DOMAIN logger, SetPrefix(i) PROVE ChainInv'
  <2>1. PICK prefix \in Origins : Settle(i, OriginPrefixedLogger(prefix))
    BY <1>12 DEF SetPrefix
  <2>2. IsLayer(OriginPrefixedLogger(prefix)) /\ logger[i].kind \in {"prefixed", "filtered"}
    BY <1>12, ChainsAssumption DEF SetPrefix, IsLayer, OriginPrefixedLogger
  <2> QED BY <1>1, <1>11, <2>1, <2>2
<1>13. \A levels_set : IsLayer(OriginFilteredLogger(levels_set))
  BY DEF IsLayer, OriginFilteredLogger
<1>14. ASSUME NEW i \in DOMAIN logger, SetDomainLevel(i) PROVE ChainInv'
  <2>1. PICK rules : Settle(i, OriginFilteredLogger(rules))
    BY <1>14 DEF SetDomainLevel
  <2>2. logger[i].kind \in {"prefixed", "filtered"}
    BY <1>14 DEF SetDomainLevel
  <2> QED BY <1>1, <1>11, <1>13, <2>1, <2>2
<1>15. ASSUME NEW i \in DOMAIN logger, RemoveDomainSetting(i) PROVE ChainInv'
  <2>1. PICK rules : Settle(i, OriginFilteredLogger(rules))
    BY <1>15 DEF RemoveDomainSetting
  <2>2. logger[i].kind \in {"prefixed", "filtered"}
    BY <1>15 DEF RemoveDomainSetting
  <2> QED BY <1>1, <1>11, <1>13, <2>1, <2>2
<1>16. CASE UNCHANGED logger_vars
  BY <1>16 DEF logger_vars, ChainInv
<1> QED BY <1>4, <1>5, <1>7, <1>8, <1>9, <1>10, <1>12, <1>14, <1>15, <1>16 DEF LoggersNext

-----------------------------------------------------------------------------
\* Loggers are above one that writes, and the level of PyLogger is what Python's was
\* as long as it follows.
THEOREM ChainsInvariance == LoggersSpec => []ChainInv
<1>1. LoggersInit => ChainInv
  BY LoggersInitInv
<1>2. ChainInv /\ [LoggersNext]_logger_vars => ChainInv'
  BY LoggersNextInv
<1> QED BY <1>1, <1>2, PTL DEF LoggersSpec

\* Local loggers only spare the origin, at any place in any chain and with any rules
\* of filters below them; and what Python would show gets to Python while the level of
\* PyLogger follows Python's.
THEOREM MessagesComeThroughAlways == LoggersSpec => []MessagesComeThrough
<1>1. ChainInv => MessagesComeThrough
  BY ChainsLetThrough
<1> QED BY <1>1, ChainsInvariance, PTL

-----------------------------------------------------------------------------
\* Files

LEMMA FilesInvInit ==
  ASSUME MatVariablesInit
  PROVE  FilesInv
<1>1. p_matfp = [f \in Files |-> -1] /\ opened = <<>>
  BY DEF MatVariablesInit, Absent
<1>2. /\ opened \in Seq({"open", "closed"}) /\ Len(opened) = 0 /\ DOMAIN opened = {}
  BY <1>1
<1>3. p_matfp \in [Files -> -1 .. 0]
  BY <1>1
<1> QED BY <1>1, <1>2, <1>3 DEF FilesInv, Absent, Holds

\* A file goes from one object to another; what this one held is forgotten.
LEMMA FileGoes ==
  ASSUME FilesInv, NEW f \in Files, NEW g \in Files,
         p_matfp' = [[p_matfp EXCEPT ![f] = p_matfp[g]] EXCEPT ![g] = NULL],
         p_matfp[g] # Absent, opened' = opened, forgotten \subseteq forgotten',
         p_matfp[f] \notin {Absent, NULL} => <<"file", p_matfp[f]>> \in forgotten'
  PROVE  FilesInv'
<1>1. /\ opened \in Seq({"open", "closed"}) /\ Len(opened) \in Nat /\ DOMAIN opened = 1 .. Len(opened)
      /\ p_matfp \in [Files -> Absent .. Len(opened)]
  BY DEF FilesInv
<1> DEFINE p == p_matfp
           q == p_matfp'
<1>2. /\ DOMAIN q = Files /\ DOMAIN p = Files
      /\ \A h \in Files : q[h] = IF h = g THEN NULL ELSE IF h = f THEN p[g] ELSE p[h]
  BY <1>1
<1> HIDE DEF q
<1>3. q \in [Files -> Absent .. Len(opened')]
  <2>1. NULL \in Absent .. Len(opened)
    BY <1>1 DEF NULL, Absent
  <2>2. q = [h \in Files |-> q[h]]
    BY <1>1 DEF q
  <2> QED BY <1>1, <1>2, <2>1, <2>2
<1>4. \A h, k \in Files : Holds(q[h]) /\ q[h] = q[k] => h = k
  <2> SUFFICES ASSUME NEW h \in Files, NEW k \in Files, Holds(q[h]), q[h] = q[k] PROVE h = k
    OBVIOUS
  <2>1. \A a, b \in Files : Holds(p[a]) /\ p[a] = p[b] => a = b
    BY DEF FilesInv
  <2>2. h # g /\ k # g
    BY <1>2 DEF Holds
  <2> QED BY <1>2, <2>1, <2>2
<1>5. ASSUME NEW n \in DOMAIN opened
      PROVE  /\ Holders(q, n) # {} => Holders(p, n) # {}
             /\ Holders(q, n) = {} /\ <<"file", n>> \notin forgotten' => Holders(p, n) = {}
  <2>1. n # NULL /\ n # Absent
    BY <1>1 DEF NULL, Absent
  <2>2. ASSUME NEW h \in Holders(q, n) PROVE Holders(p, n) # {}
    <3>1. h \in Files /\ q[h] = n
      BY <1>2 DEF Holders
    <3>2. \E k \in Files : p[k] = n
      BY <1>2, <2>1, <3>1
    <3> QED BY <1>2, <3>2 DEF Holders
  <2>3. ASSUME NEW h \in Holders(p, n), <<"file", n>> \notin forgotten' PROVE Holders(q, n) # {}
    <3>1. h \in Files /\ p[h] = n
      BY <1>2 DEF Holders
    <3>2. h # f
      BY <2>1, <2>3, <3>1
    <3>3. CASE h = g
      BY <1>2, <2>1, <3>1, <3>2, <3>3 DEF Holders
    <3>4. CASE h # g
      BY <1>2, <2>1, <3>1, <3>2, <3>4 DEF Holders
    <3> QED BY <3>3, <3>4
  <2> QED BY <2>2, <2>3
<1>6. \A n \in DOMAIN opened :
        /\ Holders(p, n) # {} => opened[n] = "open"
        /\ Holders(p, n) = {} /\ <<"file", n>> \notin forgotten => opened[n] = "closed"
  BY DEF FilesInv
<1>7. \A n \in DOMAIN opened' :
        /\ Holders(q, n) # {} => opened'[n] = "open"
        /\ Holders(q, n) = {} /\ <<"file", n>> \notin forgotten' => opened'[n] = "closed"
  BY <1>5, <1>6
<1>8. opened' \in Seq({"open", "closed"})
  BY <1>1
<1> QED BY <1>3, <1>4, <1>7, <1>8 DEF FilesInv, q

LEMMA FilesInvNext ==
  ASSUME FilesInv, [MatVariablesNext]_matio_vars
  PROVE  FilesInv'
<1>1. /\ opened \in Seq({"open", "closed"}) /\ Len(opened) \in Nat /\ DOMAIN opened = 1 .. Len(opened)
      /\ p_matfp \in [Files -> Absent .. Len(opened)]
  BY DEF FilesInv
<1>2. /\ \A h, k \in Files : Holds(p_matfp[h]) /\ p_matfp[h] = p_matfp[k] => h = k
      /\ \A n \in DOMAIN opened :
           /\ Holders(p_matfp, n) # {} => opened[n] = "open"
           /\ Holders(p_matfp, n) = {} /\ <<"file", n>> \notin forgotten => opened[n] = "closed"
  BY DEF FilesInv
<1>3. ASSUME UNCHANGED <<file_vars, forgotten>> PROVE FilesInv'
  BY <1>3 DEF FilesInv, file_vars, Holders, Holds
<1>4. ASSUME NEW f \in Files, OpenFile(f) PROVE FilesInv'
  <2>1. CASE /\ opened' = Append(opened, "open") /\ p_matfp' = [p_matfp EXCEPT ![f] = Len(opened')]
             /\ forgotten' = forgotten
    <3> DEFINE m == Len(opened) + 1
    <3>1. PICK o, q : o = opened' /\ q = p_matfp'
      OBVIOUS
    <3>2. /\ o \in Seq({"open", "closed"}) /\ Len(o) = m /\ DOMAIN o = 1 .. m
          /\ o[m] = "open" /\ \A n \in 1 .. Len(opened) : o[n] = opened[n]
      BY <1>1, <2>1, <3>1
    <3>3. q = [p_matfp EXCEPT ![f] = m]
      BY <2>1, <3>1, <3>2
    <3>4. q \in [Files -> Absent .. Len(o)] /\ \A h \in Files : q[h] = IF h = f THEN m ELSE p_matfp[h]
      BY <1>1, <3>2, <3>3 DEF Absent
    <3>5. \A h \in Files : p_matfp[h] # m
      BY <1>1
    <3>6. \A h, k \in Files : Holds(q[h]) /\ q[h] = q[k] => h = k
      BY <1>2, <3>4, <3>5
    <3>7. f \in Holders(q, m)
      BY <3>4 DEF Holders
    <3>8. \A n \in DOMAIN opened : Holders(q, n) = Holders(p_matfp, n)
      <4> SUFFICES ASSUME NEW n \in DOMAIN opened PROVE Holders(q, n) = Holders(p_matfp, n)
        OBVIOUS
      <4>1. n # m /\ p_matfp[f] # n
        BY <1>1, <1>4 DEF OpenFile, Absent
      <4> QED BY <1>1, <3>4, <4>1 DEF Holders
    <3>9. ASSUME NEW n \in DOMAIN o
          PROVE  /\ Holders(q, n) # {} => o[n] = "open"
                 /\ Holders(q, n) = {} /\ <<"file", n>> \notin forgotten => o[n] = "closed"
      <4>1. CASE n = m
        BY <3>2, <3>7, <4>1
      <4>2. CASE n # m
        <5>1. n \in DOMAIN opened /\ n \in 1 .. Len(opened)
          BY <1>1, <3>2, <4>2
        <5> QED BY <1>2, <3>2, <3>8, <5>1
      <4> QED BY <4>1, <4>2
    <3> QED BY <2>1, <3>1, <3>2, <3>4, <3>6, <3>9 DEF FilesInv
  <2>2. CASE UNCHANGED <<file_vars, forgotten>>
    BY <1>3, <2>2
  <2> QED BY <1>4, <2>1, <2>2 DEF OpenFile
<1>5. ASSUME NEW f \in Files, NEW g \in Files, MoveFile(f, g) PROVE FilesInv'
  BY <1>5, FileGoes DEF MoveFile
<1>6. ASSUME NEW f \in Files, NEW g \in Files, AssignFile(f, g) PROVE FilesInv'
  BY <1>6, FileGoes DEF AssignFile, Forgets
<1>7. ASSUME NEW f \in Files, DestroyFile(f) PROVE FilesInv'
  <2>1. PICK o, q : o = opened' /\ q = p_matfp'
    OBVIOUS
  <2> DEFINE m == p_matfp[f]
  <2>2. /\ o = IF m = NULL THEN opened ELSE [opened EXCEPT ![m] = "closed"]
        /\ q = [p_matfp EXCEPT ![f] = Absent] /\ forgotten' = forgotten /\ m # Absent
    BY <1>7, <2>1 DEF DestroyFile
  <2>3. m = NULL \/ m \in 1 .. Len(opened)
    BY <1>1, <2>2 DEF Absent, NULL
  <2>4. /\ o \in Seq({"open", "closed"}) /\ Len(o) = Len(opened) /\ DOMAIN o = DOMAIN opened
        /\ \A n \in DOMAIN opened : o[n] = IF n = m THEN "closed" ELSE opened[n]
    <3>1. NULL \notin DOMAIN opened
      BY <1>1 DEF NULL
    <3>2. CASE m = NULL
      BY <1>1, <2>2, <3>1, <3>2
    <3>3. CASE m # NULL
      <4>1. o = [opened EXCEPT ![m] = "closed"] /\ m \in 1 .. Len(opened)
        BY <2>2, <2>3, <3>3
      <4> HIDE DEF m
      <4> QED BY <1>1, <4>1
    <3> QED BY <3>2, <3>3
  <2>5. q \in [Files -> Absent .. Len(o)] /\ \A h \in Files : q[h] = IF h = f THEN Absent ELSE p_matfp[h]
    BY <1>1, <2>2, <2>4 DEF Absent
  <2>6. \A h, k \in Files : Holds(q[h]) /\ q[h] = q[k] => h = k
    BY <1>2, <2>5 DEF Holds
  <2>7. ASSUME NEW n \in DOMAIN o
        PROVE  /\ Holders(q, n) # {} => o[n] = "open"
               /\ Holders(q, n) = {} /\ <<"file", n>> \notin forgotten => o[n] = "closed"
    <3>1. n # Absent /\ Holds(n)
      BY <1>1, <2>4 DEF Absent, NULL, Holds
    <3>2. CASE n = m
      <4>1. \A h \in Files : q[h] # n
        BY <1>2, <2>5, <3>1, <3>2
      <4>2. Holders(q, n) = {}
        BY <2>5, <4>1 DEF Holders
      <4> QED BY <2>4, <3>2, <4>2
    <3>3. CASE n # m
      <4>1. Holders(q, n) = Holders(p_matfp, n)
        BY <1>1, <2>5, <3>1, <3>3 DEF Holders
      <4> QED BY <1>2, <2>4, <3>3, <4>1
    <3> QED BY <3>2, <3>3
  <2> QED BY <2>1, <2>2, <2>4, <2>5, <2>6, <2>7 DEF FilesInv
<1>8. ASSUME NEW v \in Vars, NEW w \in Vars, AssignCopy(v, w) \/ AssignMove(v, w) PROVE FilesInv'
  <2>1. opened' = opened /\ p_matfp' = p_matfp /\ forgotten \subseteq forgotten'
    BY <1>8 DEF AssignCopy, AssignMove, Forgets, file_vars
  <2> QED BY <2>1 DEF FilesInv, Holders, Holds
<1>9. CASE DecodeNext
  BY <1>3, <1>9 DEF DecodeNext
<1>10. CASE UNCHANGED matio_vars
  BY <1>3, <1>10 DEF matio_vars, file_vars
<1>11. ASSUME NEW f \in Files, GetVarInfoList(f) \/ \E v \in Vars : ReadVar(v, f) PROVE FilesInv'
  BY <1>3, <1>11 DEF GetVarInfoList, ReadVar
<1>12. ASSUME NEW v \in Vars,
              \/ DestroyVar(v)
              \/ \E w \in Vars : CopyVar(v, w) \/ MoveVar(v, w)
              \/ \E complex, row_major \in BOOLEAN : Decode(v, complex, row_major)
       PROVE  FilesInv'
  BY <1>3, <1>12 DEF DestroyVar, CopyVar, MoveVar, Decode
<1> QED BY <1>4, <1>5, <1>6, <1>7, <1>8, <1>9, <1>10, <1>11, <1>12 DEF MatVariablesNext

-----------------------------------------------------------------------------
\* Variables

NowHolds(held, v, x) == [held EXCEPT ![v] = x]

One(b) == IF b THEN 1 ELSE 0

LEMMA HoldersCount ==
  ASSUME NEW p, DOMAIN p = Vars, NEW v \in Vars, NEW x, NEW d, NEW q, q = NowHolds(p, v, x)
  PROVE  /\ DOMAIN q = Vars /\ Cardinality(Holders(p, d)) \in Nat
         /\ Cardinality(Holders(q, d))
              = Cardinality(Holders(p, d)) - (IF p[v] = d THEN 1 ELSE 0) + (IF x = d THEN 1 ELSE 0)
<1>1. IsFiniteSet(Holders(p, d)) /\ Cardinality(Holders(p, d)) \in Nat
  BY ContentsAssumption, FS_Subset, FS_CardinalityType DEF Holders
<1>2. DOMAIN q = Vars /\ \A w \in Vars : q[w] = IF w = v THEN x ELSE p[w]
  BY DEF NowHolds
<1>3. PICK S, T : S = Holders(p, d) /\ T = Holders(q, d)
  OBVIOUS
<1>4. T = (S \ {v}) \cup (IF x = d THEN {v} ELSE {})
  BY <1>2, <1>3 DEF Holders
<1>5. v \in S <=> p[v] = d
  BY <1>3 DEF Holders
<1>6. IsFiniteSet(S \ {v}) /\ Cardinality(S \ {v}) = Cardinality(S) - (IF p[v] = d THEN 1 ELSE 0)
  <2>1. IsFiniteSet(S \ {v}) /\ Cardinality(S \ {v}) = IF v \in S THEN Cardinality(S) - 1 ELSE Cardinality(S)
    BY <1>1, <1>3, FS_RemoveElement
  <2> QED BY <1>1, <1>3, <1>5, <2>1
<1>7. Cardinality(T) = Cardinality(S \ {v}) + (IF x = d THEN 1 ELSE 0)
  <2>1. CASE x = d
    <3>1. Cardinality((S \ {v}) \cup {v}) = Cardinality(S \ {v}) + 1
      <4>1. v \notin S \ {v}
        OBVIOUS
      <4> QED BY <1>6, <4>1, FS_AddElement
    <3> QED BY <1>4, <2>1, <3>1
  <2>2. CASE x # d
    <3>1. T = S \ {v} /\ Cardinality(S \ {v}) \in Int
      BY <1>1, <1>3, <1>4, <1>6, <2>2
    <3> QED BY <2>2, <3>1
  <2> QED BY <2>1, <2>2
<1> QED BY <1>1, <1>2, <1>3, <1>6, <1>7

LEMMA VarsInvInit ==
  ASSUME MatVariablesInit
  PROVE  VarsInv
<1>1. p_vardata = [v \in Vars |-> -1] /\ vardata = <<>>
  BY DEF MatVariablesInit, Absent
<1>2. PICK R : R = [refcount : Int, varname : DOMAIN Contents, loaded : BOOLEAN]
  OBVIOUS
<1>3. vardata \in Seq(R) /\ Len(vardata) = 0 /\ DOMAIN vardata = {}
  BY <1>1
<1>4. p_vardata \in [Vars -> -1 .. 0]
  BY <1>1
<1> QED BY <1>2, <1>3, <1>4 DEF VarsInv, Absent

\* What a step keeps of the counts, if it changes those of one variable at most.
Counted(p, recs, lost, d) ==
  /\ recs[d].refcount >= Cardinality(Holders(p, d))
  /\ <<"data", d>> \notin lost => recs[d].refcount = Cardinality(Holders(p, d))

DataRecords == [refcount : Int, varname : DOMAIN Contents, loaded : BOOLEAN]

AllCounted(p, recs, lost) == \A d \in DOMAIN recs : Counted(p, recs, lost, d)

VarsAre(p, recs, lost) ==
  recs \in Seq(DataRecords) /\ p \in [Vars -> Absent .. Len(recs)] /\ AllCounted(p, recs, lost)

LEMMA VarsParts ==
  /\ VarsInv <=> VarsAre(p_vardata, vardata, forgotten)
  /\ VarsInv' <=> VarsAre(p_vardata', vardata', forgotten')
BY DEF VarsInv, VarsAre, AllCounted, DataRecords, Counted, Holders

\* One reference more or less to d.
Recounted(recs, d, by) == [recs EXCEPT ![d].refcount = @ + by]

LEMMA RecountedData ==
  ASSUME NEW recs \in Seq(DataRecords), NEW d \in 1 .. Len(recs), NEW by \in Int,
         NEW new, new = Recounted(recs, d, by)
  PROVE  /\ new \in Seq(DataRecords) /\ Len(new) = Len(recs)
         /\ \A e \in 1 .. Len(recs) :
              new[e].refcount = IF e = d THEN recs[e].refcount + by ELSE recs[e].refcount
<1>1. recs[d] \in DataRecords /\ recs[d].refcount \in Int
  <2>1. recs[d] \in DataRecords /\ \A r \in DataRecords : r.refcount \in Int
    <3>1. \A r \in DataRecords : r.refcount \in Int
      BY DEF DataRecords
    <3> QED BY <3>1
  <2> QED BY <2>1
<1>2. PICK r : r = [recs[d] EXCEPT !.refcount = @ + by]
  OBVIOUS
<1>3. r \in DataRecords /\ r.refcount = recs[d].refcount + by
  BY <1>1, <1>2 DEF DataRecords
<1>4. new = [recs EXCEPT ![d] = r]
  BY <1>2 DEF Recounted
<1>5. new \in Seq(DataRecords) /\ Len(new) = Len(recs) /\ \A e \in 1 .. Len(recs) : new[e] = IF e = d THEN r ELSE recs[e]
  BY <1>3, <1>4
<1> QED BY <1>3, <1>5

LEMMA HoldersNumber ==
  ASSUME NEW p, DOMAIN p = Vars, NEW d
  PROVE  Cardinality(Holders(p, d)) \in Nat
BY ContentsAssumption, FS_Subset, FS_CardinalityType DEF Holders

LEMMA Balance ==
  ASSUME NEW i \in Int, NEW j \in Int, NEW k \in Int, NEW l \in Int, NEW a \in Nat, NEW b \in Nat,
         NEW c \in Nat, c = a - i + j, b = c - k + l,
         NEW r \in Int, NEW x \in Int, NEW s, s = r + x, NEW m, m = x + i - j + k - l
  PROVE  m \in Int /\ s \in Int /\ s - b = r - a + m
OBVIOUS

\* When v comes to hold x and then w comes to hold y: how many references e has more
\* than it should, if `by' is counted for d.
Surplus(p, v, x, w, y, by, d, e) ==
  (IF by # 0 /\ e = d THEN by ELSE 0)
  + One(p[v] = e) - One(x = e) + One(NowHolds(p, v, x)[w] = e) - One(y = e)

\* They are forgotten.
Balanced(p, v, x, w, y, by, d, n, lost) ==
  \A e \in 1 .. n : /\ Surplus(p, v, x, w, y, by, d, e) >= 0
                    /\ <<"data", e>> \notin lost => Surplus(p, v, x, w, y, by, d, e) = 0

IsRecounted(recs, new, d, by) ==
  \/ by = 0 /\ new = recs
  \/ d \in 1 .. Len(recs) /\ new = Recounted(recs, d, by)

MayBeHeld(recs, x) == x \in Absent .. Len(recs)

LEMMA VarsComeToHold ==
  ASSUME NEW p, NEW recs, NEW lost, VarsAre(p, recs, lost), NEW lost2, lost \subseteq lost2,
         NEW v \in Vars, NEW x, MayBeHeld(recs, x), NEW w \in Vars, NEW y, MayBeHeld(recs, y),
         NEW by \in Int, NEW new, NEW d, IsRecounted(recs, new, d, by),
         Balanced(p, v, x, w, y, by, d, Len(recs), lost2),
         NEW q, q = NowHolds(NowHolds(p, v, x), w, y)
  PROVE  VarsAre(q, new, lost2)
<1>0. /\ recs \in Seq(DataRecords) /\ p \in [Vars -> Absent .. Len(recs)] /\ DOMAIN p = Vars
      /\ x \in Absent .. Len(recs) /\ y \in Absent .. Len(recs) /\ AllCounted(p, recs, lost)
      /\ x \in Int /\ y \in Int /\ Len(recs) \in Nat
  BY DEF VarsAre, MayBeHeld, Absent
<1>4. PICK p1 : p1 = NowHolds(p, v, x) /\ q = NowHolds(p1, w, y)
  OBVIOUS
<1>1. /\ new \in Seq(DataRecords) /\ Len(new) = Len(recs)
      /\ \A e \in 1 .. Len(recs) :
           new[e].refcount = recs[e].refcount + IF by # 0 /\ e = d THEN by ELSE 0
  <2>1. \A e \in 1 .. Len(recs) : recs[e].refcount \in Int
    <3>1. \A r \in DataRecords : r.refcount \in Int
      BY DEF DataRecords
    <3>2. \A e \in 1 .. Len(recs) : recs[e] \in DataRecords
      BY <1>0
    <3> QED BY <3>1, <3>2
  <2>2. CASE by = 0 /\ new = recs
    BY <1>0, <2>1, <2>2
  <2>3. CASE d \in 1 .. Len(recs) /\ new = Recounted(recs, d, by)
    <3>1. /\ new \in Seq(DataRecords) /\ Len(new) = Len(recs)
          /\ \A e \in 1 .. Len(recs) :
               new[e].refcount = IF e = d THEN recs[e].refcount + by ELSE recs[e].refcount
      BY <1>0, <2>3, RecountedData
    <3> QED BY <2>1, <3>1
  <2> QED BY <2>2, <2>3 DEF IsRecounted
<1>2. DOMAIN new = 1 .. Len(recs) /\ DOMAIN recs = 1 .. Len(recs)
  BY <1>0, <1>1
<1>3. ASSUME NEW e \in 1 .. Len(recs) PROVE Counted(q, new, lost2, e)
  <2>1. PICK a, b, r, s, c : /\ a = Cardinality(Holders(p, e)) /\ b = Cardinality(Holders(q, e))
                             /\ r = recs[e].refcount /\ s = new[e].refcount
                             /\ c = Cardinality(Holders(p1, e))
    OBVIOUS
  <2>2. PICK i \in Int, j \in Int, k \in Int, l \in Int :
          i = One(p[v] = e) /\ j = One(x = e) /\ k = One(p1[w] = e) /\ l = One(y = e)
    BY DEF One
  <2>8. a \in Nat /\ b \in Nat /\ c \in Nat /\ c = a - i + j /\ b = c - k + l
    <3>1. a \in Nat /\ DOMAIN p1 = Vars /\ c = a - i + j
      BY <1>0, <1>4, <2>1, <2>2, HoldersCount DEF One
    <3>2. c \in Nat /\ b = c - k + l /\ DOMAIN q = Vars
      <4>1. DOMAIN p1 = Vars /\ q = NowHolds(p1, w, y)
        BY <1>4, <3>1
      <4>2. /\ DOMAIN q = Vars /\ Cardinality(Holders(p1, e)) \in Nat
            /\ Cardinality(Holders(q, e))
                 = Cardinality(Holders(p1, e)) - (IF p1[w] = e THEN 1 ELSE 0) + (IF y = e THEN 1 ELSE 0)
        BY <4>1, HoldersCount
      <4> QED BY <2>1, <2>2, <4>2 DEF One
    <3>3. b \in Nat
      <4>1. DOMAIN q = Vars
        BY <3>2
      <4>2. Cardinality(Holders(q, e)) \in Nat
        BY <4>1, HoldersNumber, Zenon
      <4> QED BY <2>1, <4>2
    <3> QED BY <3>1, <3>2, <3>3
  <2>3. r \in Int /\ s = r + IF by # 0 /\ e = d THEN by ELSE 0
    <3>1. recs[e] \in DataRecords
      BY <1>0
    <3> QED BY <1>1, <2>1, <3>1 DEF DataRecords
  <2>4. r >= a /\ (<<"data", e>> \notin lost => r = a)
    BY <1>0, <1>2, <2>1 DEF AllCounted, Counted
  <2>5. PICK m : /\ m = (IF by # 0 /\ e = d THEN by ELSE 0) + i - j + k - l
                 /\ m >= 0 /\ (<<"data", e>> \notin lost2 => m = 0)
    BY <1>4, <2>2 DEF Balanced, Surplus
  <2>6. m \in Int /\ s - b = r - a + m
    <3>1. PICK z \in Int : z = IF by # 0 /\ e = d THEN by ELSE 0
      OBVIOUS
    <3>2. m = z + i - j + k - l /\ s = r + z
      BY <2>3, <2>5, <3>1
    <3> QED BY <2>3, <2>8, <3>2, Balance
  <2>7. s >= b /\ (<<"data", e>> \notin lost2 => s = b)
    <3>1. <<"data", e>> \notin lost2 => <<"data", e>> \notin lost
      OBVIOUS
    <3>2. s \in Int
      BY <2>3
    <3>3. s >= b
      BY <2>3, <2>4, <2>5, <2>6, <2>8, <3>2
    <3>4. ASSUME <<"data", e>> \notin lost2 PROVE s = b
      <4>1. r = a /\ m = 0
        BY <2>4, <2>5, <3>1, <3>4
      <4> QED BY <2>3, <2>6, <2>8, <3>2, <4>1
    <3> QED BY <3>3, <3>4
  <2> QED BY <2>1, <2>7 DEF Counted
<1>5. q \in [Vars -> Absent .. Len(recs)]
  BY <1>0 DEF NowHolds
<1>6. AllCounted(q, new, lost2)
  BY <1>2, <1>3 DEF AllCounted
<1> QED BY <1>1, <1>5, <1>6 DEF VarsAre

\* A step that changes no variable may forget more.
LEMMA VarsStay ==
  ASSUME VarsInv, UNCHANGED var_vars, forgotten \subseteq forgotten'
  PROVE  VarsInv'
BY VarsParts DEF var_vars, VarsAre, AllCounted, Counted

LEMMA VarIsRead ==
  ASSUME VarsInv, NEW v \in Vars, p_vardata[v] = Absent, forgotten' = forgotten,
         NEW r \in DataRecords, r.refcount = 1, vardata' = Append(vardata, r),
         p_vardata' = [p_vardata EXCEPT ![v] = Len(vardata')]
  PROVE  VarsInv'
<1> DEFINE m == Len(vardata) + 1
<1>1. /\ vardata \in Seq(DataRecords) /\ p_vardata \in [Vars -> Absent .. Len(vardata)]
      /\ AllCounted(p_vardata, vardata, forgotten)
  BY VarsParts DEF VarsAre
<1>2. PICK recs, q : recs = vardata' /\ q = p_vardata'
  OBVIOUS
<1>3. /\ recs \in Seq(DataRecords) /\ Len(recs) = m /\ DOMAIN recs = 1 .. m /\ Len(vardata) \in Nat
      /\ recs[m] = r /\ \A d \in 1 .. Len(vardata) : recs[d] = vardata[d]
  BY <1>1, <1>2
<1>4. q = NowHolds(p_vardata, v, m)
  BY <1>2, <1>3 DEF NowHolds
<1>5. q \in [Vars -> Absent .. Len(recs)]
  BY <1>1, <1>3, <1>4 DEF NowHolds, Absent
<1>6. DOMAIN p_vardata = Vars
  BY <1>1
<1>7. Counted(q, recs, forgotten, m)
  <2>1. Holders(p_vardata, m) = {}
    BY <1>1, <1>3 DEF Holders
  <2>2. Cardinality(Holders(p_vardata, m)) = 0
    BY <2>1, FS_EmptySet
  <2>3. PICK c : c = Cardinality(Holders(q, m))
    OBVIOUS
  <2>4. c = Cardinality(Holders(p_vardata, m)) - (IF p_vardata[v] = m THEN 1 ELSE 0) + 1
    BY <1>4, <1>6, <2>3, HoldersCount
  <2>5. p_vardata[v] # m
    BY <1>3 DEF Absent
  <2>6. c = 1
    BY <2>2, <2>4, <2>5
  <2> QED BY <1>3, <2>3, <2>6 DEF Counted
<1>8. ASSUME NEW d \in 1 .. Len(vardata) PROVE Counted(q, recs, forgotten, d)
  <2>1. d # m /\ p_vardata[v] # d
    BY <1>3 DEF Absent
  <2>2. Holders(q, d) = Holders(p_vardata, d)
    BY <1>4, <1>6, <2>1 DEF Holders, NowHolds
  <2>3. Counted(p_vardata, vardata, forgotten, d)
    BY <1>1 DEF AllCounted
  <2> QED BY <1>3, <2>2, <2>3 DEF Counted
<1>9. \A d \in DOMAIN recs : Counted(q, recs, forgotten, d)
  BY <1>3, <1>7, <1>8
<1> QED BY <1>2, <1>3, <1>5, <1>9, VarsParts DEF VarsAre, AllCounted

LEMMA InfoListIsRead ==
  ASSUME VarsInv, NEW f \in Files, GetVarInfoList(f)
  PROVE  VarsInv'
<1> DEFINE n == Len(vardata)
           names == SetToSeq(DOMAIN Contents)
           k == Len(names)
           infos == [i \in DOMAIN names |-> VarData(names[i], FALSE)]
<1>1. names \in Seq(DOMAIN Contents) /\ k \in Nat /\ DOMAIN names = 1 .. k
  <2> DEFINE c == Cardinality(DOMAIN Contents)
  <2>1. c \in Nat /\ ExistsBijection(1 .. c, DOMAIN Contents)
    BY ContentsAssumption, FS_CardinalityType
  <2>2. \E g \in [1 .. c -> DOMAIN Contents] : IsInjective(g)
    BY <2>1 DEF ExistsBijection, Bijection, Injection
  <2>3. names \in [1 .. c -> DOMAIN Contents]
    BY <2>2 DEF SetToSeq
  <2> HIDE DEF names
  <2>4. names \in Seq(DOMAIN Contents) /\ k \in Nat /\ DOMAIN names = 1 .. k
    BY <2>1, <2>3
  <2> QED BY <2>4
<1>2. /\ vardata \in Seq(DataRecords) /\ p_vardata \in [Vars -> Absent .. n] /\ n \in Nat
      /\ AllCounted(p_vardata, vardata, forgotten) /\ DOMAIN vardata = 1 .. n
  BY VarsParts DEF VarsAre
<1> HIDE DEF names
<1>3. /\ infos \in Seq(DataRecords) /\ Len(infos) = k
      /\ \A i \in 1 .. k : infos[i].refcount = 1
  <2>1. \A i \in 1 .. k : names[i] \in DOMAIN Contents
    BY <1>1
  <2>2. \A i \in 1 .. k : infos[i] \in DataRecords /\ infos[i].refcount = 1
    BY <1>1, <2>1 DEF VarData, DataRecords
  <2>3. DOMAIN infos = 1 .. k /\ infos = [i \in 1 .. k |-> infos[i]]
    BY <1>1
  <2> HIDE DEF infos
  <2> QED BY <1>1, <2>2, <2>3, IsASeq
<1>4. PICK list \in Injection(1 .. k, {v \in Vars : p_vardata[v] = Absent}) :
        p_vardata' = [v \in Vars |-> IF v \in Range(list)
                                     THEN n + AntiFunction(list)[v] ELSE p_vardata[v]]
  BY <1>1 DEF GetVarInfoList, names
<1>5. vardata' = vardata \o infos /\ forgotten' = forgotten
  BY DEF GetVarInfoList, names
<1> HIDE DEF infos
<1>6. PICK recs, q : recs = vardata' /\ q = p_vardata'
  OBVIOUS
<1>7. /\ recs \in Seq(DataRecords) /\ Len(recs) = n + k /\ DOMAIN recs = 1 .. n + k
      /\ \A d \in 1 .. n : recs[d] = vardata[d]
      /\ \A d \in n + 1 .. n + k : recs[d].refcount = 1
  <2>1. /\ vardata \o infos \in Seq(DataRecords) /\ Len(vardata \o infos) = n + k
        /\ \A d \in 1 .. n + k : (vardata \o infos)[d] = IF d <= n THEN vardata[d] ELSE infos[d - n]
    <3>1. /\ vardata \o infos \in Seq(DataRecords)
          /\ Len(vardata \o infos) = Len(vardata) + Len(infos)
          /\ \A d \in 1 .. Len(vardata) + Len(infos) :
               (vardata \o infos)[d] = IF d <= Len(vardata) THEN vardata[d] ELSE infos[d - Len(vardata)]
      <4>1. PICK a, b : a = vardata /\ b = infos
        OBVIOUS
      <4>2. a \in Seq(DataRecords) /\ b \in Seq(DataRecords)
        BY <1>2, <1>3, <4>1
      <4>3. /\ a \o b \in Seq(DataRecords) /\ Len(a \o b) = Len(a) + Len(b)
            /\ \A d \in 1 .. Len(a) + Len(b) : (a \o b)[d] = IF d <= Len(a) THEN a[d] ELSE b[d - Len(a)]
        BY <4>2, ConcatProperties
      <4> QED BY <4>1, <4>3
    <3> QED BY <1>3, <3>1
  <2>2. recs = vardata \o infos
    BY <1>5, <1>6
  <2>3. \A d \in n + 1 .. n + k : d - n \in 1 .. k /\ ~(d <= n) /\ d \in 1 .. n + k
    BY <1>1, <1>2
  <2>4. \A d \in 1 .. n : d <= n /\ d \in 1 .. n + k
    BY <1>1, <1>2
  <2> QED BY <1>1, <1>2, <1>3, <2>1, <2>2, <2>3, <2>4
<1>8. /\ \A i, j \in 1 .. k : list[i] = list[j] => i = j
      /\ \A i \in 1 .. k : list[i] \in Vars /\ p_vardata[list[i]] = Absent
      /\ DOMAIN list = 1 .. k
  BY DEF Injection, IsInjective
<1>9. \A i \in 1 .. k : AntiFunction(list)[list[i]] = i
  <2> SUFFICES ASSUME NEW i \in 1 .. k PROVE AntiFunction(list)[list[i]] = i
    OBVIOUS
  <2>1. list[i] \in Range(list)
    BY <1>8 DEF Range
  <2>2. AntiFunction(list)[list[i]] = CHOOSE s \in 1 .. k : list[i] \in Range(list) => list[s] = list[i]
    BY <1>8, <2>1 DEF AntiFunction, Inverse
  <2>3. \A s \in 1 .. k : (list[i] \in Range(list) => list[s] = list[i]) <=> s = i
    BY <1>8, <2>1
  <2> QED BY <2>2, <2>3
<1>10. /\ DOMAIN q = Vars
       /\ \A i \in 1 .. k : q[list[i]] = n + i
       /\ \A v \in Vars : (\A i \in 1 .. k : v # list[i]) => q[v] = p_vardata[v]
  <2>1. \A v : v \in Range(list) <=> \E i \in 1 .. k : v = list[i]
    BY <1>8 DEF Range
  <2>2. DOMAIN q = Vars /\ \A v \in Vars : q[v] = IF v \in Range(list)
                                                  THEN n + AntiFunction(list)[v] ELSE p_vardata[v]
    BY <1>4, <1>6
  <2> QED BY <1>8, <1>9, <2>1, <2>2
<1>11. q \in [Vars -> Absent .. Len(recs)]
  <2>1. q = [v \in Vars |-> q[v]]
    BY <1>4, <1>6
  <2>2. \A v \in Vars : q[v] \in Absent .. n + k
    <3> SUFFICES ASSUME NEW v \in Vars PROVE q[v] \in Absent .. n + k
      OBVIOUS
    <3>1. CASE \E i \in 1 .. k : v = list[i]
      BY <1>1, <1>2, <1>10, <3>1 DEF Absent
    <3>2. CASE \A i \in 1 .. k : v # list[i]
      <4>1. q[v] = p_vardata[v] /\ p_vardata[v] \in Absent .. n
        BY <1>2, <1>10, <3>2
      <4> QED BY <1>1, <1>2, <4>1 DEF Absent
    <3> QED BY <3>1, <3>2
  <2> QED BY <1>7, <2>1, <2>2
<1>12. ASSUME NEW d \in 1 .. n PROVE Counted(q, recs, forgotten, d)
  <2>1. Holders(q, d) = Holders(p_vardata, d)
    <3>1. \A v \in Vars : q[v] = d <=> p_vardata[v] = d
      <4> SUFFICES ASSUME NEW v \in Vars PROVE q[v] = d <=> p_vardata[v] = d
        OBVIOUS
      <4>1. CASE \E i \in 1 .. k : v = list[i]
        BY <1>1, <1>2, <1>8, <1>10, <4>1 DEF Absent
      <4>2. CASE \A i \in 1 .. k : v # list[i]
        BY <1>10, <4>2
      <4> QED BY <4>1, <4>2
    <3> QED BY <1>2, <1>10, <3>1 DEF Holders
  <2>2. Counted(p_vardata, vardata, forgotten, d)
    BY <1>2 DEF AllCounted
  <2> QED BY <1>7, <2>1, <2>2 DEF Counted
<1>13. ASSUME NEW d \in n + 1 .. n + k PROVE Counted(q, recs, forgotten, d)
  <2>1. PICK i \in 1 .. k : d = n + i
    <3>1. d - n \in 1 .. k /\ d = n + (d - n)
      BY <1>1, <1>2
    <3> QED BY <3>1
  <2>2. \A v \in Vars : q[v] = d <=> v = list[i]
    <3> SUFFICES ASSUME NEW v \in Vars PROVE q[v] = d <=> v = list[i]
      OBVIOUS
    <3>1. CASE \E j \in 1 .. k : v = list[j]
      BY <1>1, <1>2, <1>8, <1>10, <2>1, <3>1
    <3>2. CASE \A j \in 1 .. k : v # list[j]
      <4>1. p_vardata[v] \in Absent .. n
        BY <1>2
      <4>2. p_vardata[v] # d
        BY <1>1, <1>2, <2>1, <4>1 DEF Absent
      <4> QED BY <1>10, <3>2, <4>2
    <3> QED BY <3>1, <3>2
  <2>3. Holders(q, d) = {list[i]}
    BY <1>8, <1>10, <2>2 DEF Holders
  <2>4. Cardinality(Holders(q, d)) = 1
    BY <2>3, FS_Singleton
  <2> QED BY <1>7, <2>4 DEF Counted
<1>14. AllCounted(q, recs, forgotten)
  <2>1. \A d \in 1 .. n + k : d \in 1 .. n \/ d \in n + 1 .. n + k
    BY <1>1, <1>2
  <2> QED BY <1>7, <1>12, <1>13, <2>1 DEF AllCounted
<1> QED BY <1>5, <1>6, <1>7, <1>11, <1>14, VarsParts DEF VarsAre

LEMMA VarsStep ==
  ASSUME VarsInv, NEW v \in Vars, NEW x, MayBeHeld(vardata, x),
         NEW w \in Vars, NEW y, MayBeHeld(vardata, y),
         NEW by \in Int, NEW new, NEW d, IsRecounted(vardata, new, d, by), vardata' = new,
         p_vardata' = NowHolds(NowHolds(p_vardata, v, x), w, y), forgotten \subseteq forgotten',
         Balanced(p_vardata, v, x, w, y, by, d, Len(vardata), forgotten')
  PROVE  VarsInv'
<1>1. VarsAre(p_vardata, vardata, forgotten)
  BY VarsParts
<1>2. PICK p, recs, lost, lost2, q :
        /\ p = p_vardata /\ recs = vardata /\ lost = forgotten /\ lost2 = forgotten'
        /\ q = NowHolds(NowHolds(p, v, x), w, y)
  OBVIOUS
<1>3. VarsAre(p, recs, lost) /\ lost \subseteq lost2
  BY <1>1, <1>2
<1>4. /\ MayBeHeld(recs, x) /\ MayBeHeld(recs, y) /\ IsRecounted(recs, new, d, by)
      /\ Balanced(p, v, x, w, y, by, d, Len(recs), lost2)
  BY <1>2
<1>5. VarsAre(q, new, lost2)
  BY <1>2, <1>3, <1>4, VarsComeToHold
<1>6. VarsAre(p_vardata', vardata', forgotten')
  BY <1>2, <1>5
<1> QED BY <1>6, VarsParts

LEMMA VarsInvNext ==
  ASSUME VarsInv, [MatVariablesNext]_matio_vars
  PROVE  VarsInv'
<1> DEFINE n == Len(vardata)
           p == p_vardata
<1>1. /\ vardata \in Seq(DataRecords) /\ p_vardata \in [Vars -> Absent .. n] /\ n \in Nat
      /\ DOMAIN vardata = 1 .. n
  BY VarsParts DEF VarsAre
<1>2. \A v \in Vars : MayBeHeld(vardata, p[v]) /\ (Holds(p[v]) => p[v] \in 1 .. n)
  BY <1>1 DEF MayBeHeld, Holds, Absent, NULL
<1>3. MayBeHeld(vardata, NULL) /\ MayBeHeld(vardata, Absent) /\ NULL \notin 1 .. n /\ Absent \notin 1 .. n
  BY <1>1 DEF MayBeHeld, Absent, NULL
<1>4. \A d \in 1 .. n : vardata[d] \in DataRecords /\ vardata[d].refcount \in Int
  <2>1. \A r \in DataRecords : r.refcount \in Int
    BY DEF DataRecords
  <2> QED BY <1>1, <2>1
<1>5. DOMAIN p = Vars
  BY <1>1
<1>6. IsRecounted(vardata, vardata, 0, 0)
  BY DEF IsRecounted
<1> HIDE DEF p, n
<1>7. ASSUME NEW d \in 1 .. n
      PROVE  IsRecounted(vardata, RefMore(d), d, 1) /\ IsRecounted(vardata, RefLess(d), d, -1)
  <2>1. RefMore(d) = Recounted(vardata, d, 1)
    BY DEF RefMore, Recounted
  <2>2. PICK r : r = vardata[d].refcount - 1
    OBVIOUS
  <2>3. r = vardata[d].refcount + -1
    BY <1>4, <2>2
  <2>4. RefLess(d) = [vardata EXCEPT ![d].refcount = r] /\ Recounted(vardata, d, -1) = [vardata EXCEPT ![d].refcount = r]
    BY <2>2, <2>3 DEF RefLess, Recounted
  <2> QED BY <2>1, <2>4 DEF IsRecounted, n
<1>8. ASSUME NEW v \in Vars, NEW w \in Vars, CopyVar(v, w) PROVE VarsInv'
  <2>1. PICK d : d = p[w]
    OBVIOUS
  <2>2. /\ p[v] = Absent /\ d \in 1 .. n /\ vardata' = RefMore(d) /\ forgotten' = forgotten
        /\ p_vardata' = [p EXCEPT ![v] = d]
    BY <1>2, <1>8, <2>1 DEF CopyVar, p
  <2>3. p_vardata' = NowHolds(NowHolds(p, v, d), v, d)
    BY <1>5, <2>2 DEF NowHolds
  <2>4. Balanced(p, v, d, v, d, 1, d, n, forgotten')
    <3>1. NowHolds(p, v, d)[v] = d
      BY <1>5 DEF NowHolds
    <3> QED BY <1>3, <2>2, <3>1 DEF Balanced, Surplus, One
  <2>5. PICK new : new = RefMore(d)
    OBVIOUS
  <2>6. MayBeHeld(vardata, d) /\ IsRecounted(vardata, new, d, 1) /\ vardata' = new /\ forgotten \subseteq forgotten'
    BY <1>2, <1>7, <2>1, <2>2, <2>5
  <2> QED BY <2>3, <2>4, <2>6, VarsStep DEF p, n
<1>9. ASSUME NEW v \in Vars, NEW w \in Vars, MoveVar(v, w) PROVE VarsInv'
  <2>1. PICK x : x = p[w]
    OBVIOUS
  <2>2. /\ p[v] = Absent /\ v # w /\ vardata' = vardata /\ forgotten' = forgotten
        /\ p_vardata' = [p EXCEPT ![v] = x, ![w] = NULL]
    BY <1>9, <2>1 DEF MoveVar, p
  <2>3. p_vardata' = NowHolds(NowHolds(p, v, x), w, NULL)
    BY <2>2 DEF NowHolds
  <2>4. Balanced(p, v, x, w, NULL, 0, 0, n, forgotten')
    <3>1. NowHolds(p, v, x)[w] = x
      BY <1>5, <2>1, <2>2 DEF NowHolds
    <3> QED BY <1>3, <2>2, <3>1 DEF Balanced, Surplus, One
  <2>5. MayBeHeld(vardata, x) /\ vardata' = vardata /\ forgotten \subseteq forgotten'
    BY <1>2, <2>1, <2>2
  <2> QED BY <1>3, <1>6, <2>3, <2>4, <2>5, VarsStep DEF p, n
<1>10. ASSUME NEW v \in Vars, NEW w \in Vars, AssignCopy(v, w) PROVE VarsInv'
  <2>1. PICK d, o : d = p[w] /\ o = p[v]
    OBVIOUS
  <2>2. /\ d \in 1 .. n /\ vardata' = RefMore(d) /\ p_vardata' = [p EXCEPT ![v] = d]
        /\ forgotten' = forgotten \cup {<<"data", y>> : y \in {o} \ {NULL}}
    BY <1>2, <1>10, <2>1 DEF AssignCopy, Forgets, p
  <2>3. p_vardata' = NowHolds(NowHolds(p, v, d), v, d)
    BY <1>5, <2>2 DEF NowHolds
  <2>4. Balanced(p, v, d, v, d, 1, d, n, forgotten')
    <3>1. NowHolds(p, v, d)[v] = d
      BY <1>5 DEF NowHolds
    <3>2. \A e \in 1 .. n : Surplus(p, v, d, v, d, 1, d, e) = IF o = e THEN 1 ELSE 0
      BY <2>1, <3>1 DEF Surplus, One
    <3>3. \A e \in 1 .. n : o = e => <<"data", e>> \in forgotten'
      BY <1>3, <2>2
    <3>4. ASSUME NEW e \in 1 .. n
          PROVE  /\ Surplus(p, v, d, v, d, 1, d, e) >= 0
                 /\ <<"data", e>> \notin forgotten' => Surplus(p, v, d, v, d, 1, d, e) = 0
      <4>1. PICK s : s = Surplus(p, v, d, v, d, 1, d, e)
        OBVIOUS
      <4>2. s = IF o = e THEN 1 ELSE 0
        BY <3>2, <4>1
      <4> QED BY <3>3, <4>1, <4>2
    <3> QED BY <3>4 DEF Balanced
  <2>5. PICK new : new = RefMore(d)
    OBVIOUS
  <2>6. MayBeHeld(vardata, d) /\ IsRecounted(vardata, new, d, 1) /\ vardata' = new /\ forgotten \subseteq forgotten'
    BY <1>2, <1>7, <2>1, <2>2, <2>5
  <2> QED BY <2>3, <2>4, <2>6, VarsStep DEF p, n
<1>11. ASSUME NEW v \in Vars, NEW w \in Vars, AssignMove(v, w) PROVE VarsInv'
  <2>1. PICK x, o : x = p[w] /\ o = p[v]
    OBVIOUS
  <2>2. /\ vardata' = vardata /\ p_vardata' = [[p EXCEPT ![v] = x] EXCEPT ![w] = NULL]
        /\ forgotten' = forgotten \cup {<<"data", y>> : y \in {o} \ {NULL}}
    BY <1>11, <2>1 DEF AssignMove, Forgets, p
  <2>3. p_vardata' = NowHolds(NowHolds(p, v, x), w, NULL)
    BY <2>2 DEF NowHolds
  <2>4. Balanced(p, v, x, w, NULL, 0, 0, n, forgotten')
    <3>1. NowHolds(p, v, x)[w] = x
      BY <1>5, <2>1 DEF NowHolds
    <3>2. \A e \in 1 .. n : Surplus(p, v, x, w, NULL, 0, 0, e) = IF o = e THEN 1 ELSE 0
      BY <1>3, <2>1, <3>1 DEF Surplus, One
    <3>3. \A e \in 1 .. n : o = e => <<"data", e>> \in forgotten'
      BY <1>3, <2>2
    <3>4. ASSUME NEW e \in 1 .. n
          PROVE  /\ Surplus(p, v, x, w, NULL, 0, 0, e) >= 0
                 /\ <<"data", e>> \notin forgotten' => Surplus(p, v, x, w, NULL, 0, 0, e) = 0
      <4>1. PICK s : s = Surplus(p, v, x, w, NULL, 0, 0, e)
        OBVIOUS
      <4>2. s = IF o = e THEN 1 ELSE 0
        BY <3>2, <4>1
      <4> QED BY <3>3, <4>1, <4>2
    <3> QED BY <3>4 DEF Balanced
  <2>5. MayBeHeld(vardata, x) /\ vardata' = vardata /\ forgotten \subseteq forgotten'
    BY <1>2, <2>1, <2>2
  <2> QED BY <1>3, <1>6, <2>3, <2>4, <2>5, VarsStep DEF p, n
<1>12. ASSUME NEW v \in Vars, DestroyVar(v) PROVE VarsInv'
  <2>1. PICK d : d = p[v]
    OBVIOUS
  <2>2. /\ d # Absent /\ vardata' = IF d = NULL THEN vardata ELSE RefLess(d)
        /\ p_vardata' = [p EXCEPT ![v] = Absent] /\ forgotten' = forgotten
    BY <1>12, <2>1 DEF DestroyVar, p
  <2>3. p_vardata' = NowHolds(NowHolds(p, v, Absent), v, Absent)
    BY <1>5, <2>2 DEF NowHolds
  <2>4. NowHolds(p, v, Absent)[v] = Absent
    BY <1>5 DEF NowHolds
  <2>5. CASE d = NULL
    <3>1. Balanced(p, v, Absent, v, Absent, 0, 0, n, forgotten')
      BY <1>3, <2>1, <2>4, <2>5 DEF Balanced, Surplus, One
    <3>2. vardata' = vardata /\ forgotten \subseteq forgotten'
      BY <2>2, <2>5
    <3> QED BY <1>3, <1>6, <2>3, <3>1, <3>2, VarsStep DEF p, n
  <2>6. CASE d # NULL
    <3>1. d \in 1 .. n
      BY <1>2, <2>1, <2>2, <2>6 DEF Holds
    <3>2. Balanced(p, v, Absent, v, Absent, -1, d, n, forgotten')
      BY <1>3, <2>1, <2>4, <3>1 DEF Balanced, Surplus, One
    <3>3. PICK new, less : new = RefLess(d) /\ less = -1
      OBVIOUS
    <3>4. /\ IsRecounted(vardata, new, d, less) /\ vardata' = new /\ forgotten \subseteq forgotten' /\ less \in Int
          /\ Balanced(p, v, Absent, v, Absent, less, d, n, forgotten')
      BY <1>7, <2>2, <2>6, <3>1, <3>2, <3>3
    <3> QED BY <1>3, <2>3, <3>4, VarsStep DEF p, n
  <2> QED BY <2>5, <2>6
<1>13. ASSUME NEW v \in Vars, NEW f \in Files, ReadVar(v, f) PROVE VarsInv'
  <2>1. CASE UNCHANGED var_vars /\ forgotten' = forgotten
    BY <2>1, VarsStay
  <2>2. CASE \E varname \in DOMAIN Contents, load_data \in BOOLEAN :
               /\ vardata' = Append(vardata, VarData(varname, load_data))
               /\ p_vardata' = [p_vardata EXCEPT ![v] = Len(vardata')]
    <3>1. PICK varname \in DOMAIN Contents, load_data \in BOOLEAN :
               /\ vardata' = Append(vardata, VarData(varname, load_data))
               /\ p_vardata' = [p_vardata EXCEPT ![v] = Len(vardata')]
      BY <2>2
    <3>2. PICK r : r = VarData(varname, load_data)
      OBVIOUS
    <3>3. r \in DataRecords /\ r.refcount = 1
      BY <3>2 DEF VarData, DataRecords
    <3>4. p_vardata[v] = Absent /\ forgotten' = forgotten /\ vardata' = Append(vardata, r)
      BY <1>13, <3>1, <3>2 DEF ReadVar
    <3> QED BY <3>1, <3>3, <3>4, VarIsRead
  <2> QED BY <1>13, <2>1, <2>2 DEF ReadVar
<1>14. ASSUME NEW f \in Files, NEW g \in Files,
              OpenFile(f) \/ DestroyFile(f) \/ MoveFile(f, g) \/ AssignFile(f, g) PROVE VarsInv'
  <2>1. UNCHANGED var_vars /\ forgotten \subseteq forgotten'
    BY <1>14 DEF OpenFile, DestroyFile, MoveFile, AssignFile, Forgets, var_vars
  <2> QED BY <2>1, VarsStay
<1>15. ASSUME NEW v \in Vars, NEW complex, NEW row_major, Decode(v, complex, row_major) PROVE VarsInv'
  BY <1>15, VarsStay DEF Decode
<1>16. CASE DecodeNext
  BY <1>16, VarsStay DEF DecodeNext
<1>17. CASE UNCHANGED matio_vars
  BY <1>17, VarsStay DEF matio_vars, var_vars
<1>18. ASSUME NEW f \in Files, GetVarInfoList(f) PROVE VarsInv'
  BY <1>18, InfoListIsRead
<1> QED BY <1>8, <1>9, <1>10, <1>11, <1>12, <1>13, <1>14, <1>15, <1>16, <1>17, <1>18 DEF MatVariablesNext

-----------------------------------------------------------------------------
\* The number of elements, and the numbers that the folds over the subscripts go
\* through.

Place(n, row_major, j) == IF row_major THEN n + 1 - j ELSE j

Positive(n, dims) == \A k \in 1 .. n : dims[k] \in Nat /\ dims[k] > 0

InBox(n, dims, index) == \A k \in 1 .. n : index[k] \in 0 .. dims[k] - 1

IsDims(n, dims) == dims \in Seq(Nat) /\ n = Len(dims) /\ Positive(n, dims)

IsIndex(n, dims, index) == index \in [1 .. n -> Int] /\ InBox(n, dims, index)

Whole(n, index) == \A k \in 1 .. n : index[k] \in Int

LEMMA FastestIs ==
  ASSUME NEW dims \in Seq(Nat), NEW row_major \in BOOLEAN, NEW n, n = Len(dims)
  PROVE  /\ n \in Nat /\ DOMAIN Fastest(dims, row_major) = 1 .. n /\ Len(Fastest(dims, row_major)) = n
         /\ \A j \in 1 .. n : /\ Fastest(dims, row_major)[j] = Place(n, row_major, j)
                              /\ Place(n, row_major, j) \in 1 .. n
<1>1. n \in Nat /\ DOMAIN dims = 1 .. n
  OBVIOUS
<1>2. PICK s : s = [k \in DOMAIN dims |-> k]
  OBVIOUS
<1>3. s = [k \in 1 .. n |-> k] /\ DOMAIN s = 1 .. n /\ Len(s) = n /\ \A j \in 1 .. n : s[j] = j
  BY <1>1, <1>2
<1>4. CASE row_major
  <2>1. Fastest(dims, row_major) = [i \in 1 .. n |-> s[(n - i) + 1]]
    BY <1>2, <1>3, <1>4 DEF Fastest, Reverse
  <2>2. \A j \in 1 .. n : n - j + 1 \in 1 .. n /\ n - j + 1 = n + 1 - j
    BY <1>1
  <2>3. PICK o : o = Fastest(dims, row_major)
    OBVIOUS
  <2>4. DOMAIN o = 1 .. n /\ Len(o) = n /\ \A j \in 1 .. n : o[j] = n + 1 - j
    BY <1>1, <1>3, <2>1, <2>2, <2>3
  <2> QED BY <1>1, <1>4, <2>2, <2>3, <2>4 DEF Place
<1>5. CASE ~row_major
  BY <1>1, <1>2, <1>3, <1>5 DEF Fastest, Place
<1> QED BY <1>4, <1>5

LEMMA NumElSteps ==
  ASSUME NEW dims \in Seq(Int)
  PROVE  \E p \in [0 .. Len(dims) -> Int] :
           /\ p[0] = 1 /\ NumEl(dims) = p[Len(dims)]
           /\ \A i \in 1 .. Len(dims) : p[i] = p[i - 1] * dims[i]
<1> DEFINE n == Len(dims)
           D == DOMAIN dims
           g == [jy \in (1 .. n) \X Int |-> jy[2] * dims[jy[1]]]
           Folds(iter) == iter = [s \in SUBSET D |->
                                    IF s = {} THEN 1 ELSE iter[s \ {Max(s)}] * dims[Max(s)]]
<1>1. D = 1 .. n /\ n \in Nat
  OBVIOUS
<1>2. \E iter : Folds(iter)
  <2>1. g \in [(1 .. n) \X Int -> Int]
    OBVIOUS
  <2>2. \A j \in 1 .. n, y \in Int : g[<<j, y>>] = y * dims[j]
    OBVIOUS
  <2> HIDE DEF g, n
  <2>3. PICK iter \in [SUBSET (1 .. n) -> Int] : FoldsLeft(iter, n, 1, g)
    <3>1. PICK one \in Int : one = 1
      OBVIOUS
    <3>2. \E iter \in [SUBSET (1 .. n) -> Int] : FoldsLeft(iter, n, one, g)
      BY <1>1, <2>1, LeftFold
    <3> QED BY <3>1, <3>2
  <2>4. \A s \in SUBSET (1 .. n) :
             iter[s] = IF s = {} THEN 1 ELSE iter[s \ {Max(s)}] * dims[Max(s)]
    BY <1>1, <2>2, <2>3, Largest DEF FoldsLeft
  <2> HIDE DEF D
  <2> QED BY <1>1, <2>4
<1>3. PICK iter : Folds(iter) /\ NumEl(dims) = iter[D]
  BY <1>2 DEF NumEl, FoldLeft, MapThenFoldSet
<1> DEFINE p == [i \in 0 .. n |-> iter[1 .. i]]
<1>4. p[0] = 1 /\ NumEl(dims) = p[n]
  <2>1. 1 .. 0 = {}
    OBVIOUS
  <2> QED BY <1>1, <1>3, <2>1
<1>5. \A i \in 1 .. n : p[i] = p[i - 1] * dims[i]
  <2> SUFFICES ASSUME NEW i \in 1 .. n PROVE p[i] = p[i - 1] * dims[i]
    OBVIOUS
  <2>1. (1 .. i) \in SUBSET D /\ i \in Nat \ {0} /\ i - 1 \in 0 .. n
    BY <1>1
  <2>2. iter[1 .. i] = iter[(1 .. i) \ {Max(1 .. i)}] * dims[Max(1 .. i)]
    BY <1>3, <2>1, MaxUpTo
  <2>3. iter[1 .. i] = iter[1 .. i - 1] * dims[i]
    BY <2>1, <2>2, MaxUpTo
  <2>4. p[i] = iter[1 .. i] /\ p[i - 1] = iter[1 .. i - 1]
    BY <2>1
  <2> HIDE DEF p
  <2> QED BY <2>3, <2>4
<1>6. \A i \in 0 .. n : p[i] \in Int
  <2>1. \A i \in 1 .. n : dims[i] \in Int
    OBVIOUS
  <2> HIDE DEF p, n
  <2>2. \A i \in 1 .. n : p[i - 1] \in Int => p[i] \in Int
    BY <1>5, <2>1
  <2>3. p[0] \in Int
    BY <1>4
  <2> QED BY <1>1, <2>2, <2>3, StepsTyped
<1>7. p \in [0 .. n -> Int]
  BY <1>6
<1> HIDE DEF p
<1> QED BY <1>4, <1>5, <1>7

\* What LinearIndexIn goes through, from the slowest subscript on.
Horner(h, n, dims, index, row_major) ==
  /\ h[n + 1] = 0
  /\ \A j \in 1 .. n :
       h[j] = h[j + 1] * dims[Place(n, row_major, j)] + index[Place(n, row_major, j)]

LEMMA LinearSteps ==
  ASSUME NEW dims \in Seq(Nat), NEW n, n = Len(dims), NEW index, Whole(n, index),
         NEW row_major \in BOOLEAN
  PROVE  \E h \in [1 .. n + 1 -> Int] :
           Horner(h, n, dims, index, row_major) /\ LinearIndexIn(dims, index, row_major) = h[1]
<1> DEFINE o == Fastest(dims, row_major)
<1>2. /\ n \in Nat /\ DOMAIN o = 1 .. n /\ DOMAIN dims = 1 .. n
      /\ \A j \in 1 .. n : o[j] = Place(n, row_major, j) /\ o[j] \in 1 .. n
  BY FastestIs
<1> DEFINE D == DOMAIN o
           g == [jy \in (1 .. n) \X Int |-> jy[2] * dims[o[jy[1]]] + index[o[jy[1]]]]
           Folds(iter) == iter = [s \in SUBSET D |->
                                    IF s = {} THEN 0
                                    ELSE iter[s \ {Min(s)}] * dims[o[Min(s)]] + index[o[Min(s)]]]
<1>3. \E iter : Folds(iter)
  <2> HIDE DEF o
  <2>1. g \in [(1 .. n) \X Int -> Int]
    <3>1. \A k \in 1 .. n : dims[k] \in Int /\ index[k] \in Int
      BY <1>2 DEF Whole
    <3>2. \A jy \in (1 .. n) \X Int : jy[2] * dims[o[jy[1]]] + index[o[jy[1]]] \in Int
      BY <1>2, <3>1
    <3> QED BY <3>2
  <2>2. \A j \in 1 .. n, y \in Int : g[<<j, y>>] = y * dims[o[j]] + index[o[j]]
    OBVIOUS
  <2> HIDE DEF g
  <2>3. PICK iter \in [SUBSET (1 .. n) -> Int] : FoldsRight(iter, n, 0, g)
    <3>1. PICK zero \in Int : zero = 0
      OBVIOUS
    <3>2. \E iter \in [SUBSET (1 .. n) -> Int] : FoldsRight(iter, n, zero, g)
      BY <1>2, <2>1, RightFold
    <3> QED BY <3>1, <3>2
  <2>4. \A s \in SUBSET (1 .. n) :
             iter[s] = IF s = {} THEN 0
                       ELSE iter[s \ {Min(s)}] * dims[o[Min(s)]] + index[o[Min(s)]]
    <3>1. \A s \in SUBSET (1 .. n) : s # {} => Min(s) \in s
      <4>1. \A s \in SUBSET (1 .. n) : s \in SUBSET Nat
        OBVIOUS
      <4> QED BY <4>1, Smallest
    <3> QED BY <2>2, <2>3, <3>1 DEF FoldsRight
  <2> HIDE DEF D
  <2> QED BY <1>2, <2>4 DEF D
<1>4. PICK iter : Folds(iter) /\ LinearIndexIn(dims, index, row_major) = iter[D]
  BY <1>3 DEF LinearIndexIn, FoldRight, MapThenFoldSet
<1> HIDE DEF o
<1> DEFINE h == [j \in 1 .. n + 1 |-> iter[j .. n]]
<1>5. h[n + 1] = 0 /\ LinearIndexIn(dims, index, row_major) = h[1]
  <2>1. n + 1 .. n = {} /\ \A j \in 1 .. n + 1 : j .. n \in SUBSET (1 .. n)
    BY <1>2
  <2> QED BY <1>2, <1>4, <2>1
<1>6. \A j \in 1 .. n : h[j] = h[j + 1] * dims[o[j]] + index[o[j]]
  <2> SUFFICES ASSUME NEW j \in 1 .. n PROVE h[j] = h[j + 1] * dims[o[j]] + index[o[j]]
    OBVIOUS
  <2>1. (j .. n) \in SUBSET D /\ j \in 1 .. n + 1 /\ j + 1 \in 1 .. n + 1
    BY <1>2
  <2>2. iter[j .. n] = iter[(j .. n) \ {Min(j .. n)}] * dims[o[Min(j .. n)]] + index[o[Min(j .. n)]]
    BY <1>2, <1>4, <2>1, MinDownTo
  <2>3. iter[j .. n] = iter[j + 1 .. n] * dims[o[j]] + index[o[j]]
    BY <1>2, <2>2, MinDownTo
  <2>4. h[j] = iter[j .. n] /\ h[j + 1] = iter[j + 1 .. n]
    BY <2>1
  <2> HIDE DEF h
  <2> QED BY <2>3, <2>4
<1>7. \A j \in 1 .. n + 1 : h[j] \in Int
  <2>1. \A j \in 1 .. n : dims[o[j]] \in Int /\ index[o[j]] \in Int
    BY <1>2 DEF Whole
  <2> DEFINE S == {j \in 1 .. n + 1 : h[j] \in Int}
  <2> HIDE DEF h
  <2>2. n + 1 \in S /\ \A j \in 1 .. n : j + 1 \in S => j \in S
    <3>1. \A j \in 1 .. n : h[j + 1] \in Int => h[j] \in Int
      <4> SUFFICES ASSUME NEW j \in 1 .. n, h[j + 1] \in Int PROVE h[j] \in Int
        OBVIOUS
      <4>1. PICK a \in Int, b \in Int, c \in Int : a = h[j + 1] /\ b = dims[o[j]] /\ c = index[o[j]]
        BY <2>1
      <4>2. h[j] = a * b + c
        BY <1>6, <4>1
      <4> QED BY <4>2
    <3>2. h[n + 1] \in Int
      BY <1>5
    <3> QED BY <1>2, <3>1, <3>2
  <2>3. \A j \in 1 .. n + 1 : j \in S
    <3> HIDE DEF S
    <3> QED BY <1>2, <2>2, DownSteps
  <2> QED BY <2>3
<1>8. h \in [1 .. n + 1 -> Int]
  BY <1>7
<1> HIDE DEF h
<1> QED BY <1>2, <1>5, <1>6, <1>8 DEF Horner, o

\* What SetLinearIndex goes through: what is left of the number, and the subscripts.
Unrolled(r, x, n, dims, lin, row_major) ==
  /\ r[0] = lin /\ x[0] = [k \in 1 .. n |-> 0]
  /\ \A j \in 1 .. n :
       /\ r[j] = r[j - 1] \div dims[Place(n, row_major, j)]
       /\ x[j] = [x[j - 1] EXCEPT ![Place(n, row_major, j)]
                                     = r[j - 1] % dims[Place(n, row_major, j)]]

LEMMA SetSteps ==
  ASSUME NEW dims, NEW n, IsDims(n, dims), NEW lin \in Int,
         NEW row_major \in BOOLEAN
  PROVE  \E r, x : /\ Unrolled(r, x, n, dims, lin, row_major)
                   /\ SetLinearIndex(dims, lin, row_major) = x[n]
<1> DEFINE o == Fastest(dims, row_major)
<1>1. dims \in Seq(Nat) /\ n = Len(dims)
  BY DEF IsDims
<1>2. /\ n \in Nat /\ DOMAIN o = 1 .. n /\ DOMAIN dims = 1 .. n
      /\ \A j \in 1 .. n : o[j] = Place(n, row_major, j) /\ o[j] \in 1 .. n
  BY <1>1, FastestIs
<1> DEFINE D == DOMAIN o
           R == [rest : Int, index : [1 .. n -> Int]]
           Start == [rest |-> lin, index |-> [k \in DOMAIN dims |-> 0]]
           Divide(s, k) == [rest |-> s.rest \div dims[k], index |-> [s.index EXCEPT ![k] = s.rest % dims[k]]]
           g == [js \in (1 .. n) \X R |-> Divide(js[2], o[js[1]])]
           Folds(iter) == iter = [s \in SUBSET D |->
                                    IF s = {} THEN Start ELSE Divide(iter[s \ {Max(s)}], o[Max(s)])]
<1>3. \E iter : Folds(iter)
  <2> HIDE DEF o
  <2>1. g \in [(1 .. n) \X R -> R]
    <3>1. \A j \in 1 .. n, s \in R : Divide(s, o[j]) \in R
      <4> SUFFICES ASSUME NEW j \in 1 .. n, NEW s \in R PROVE Divide(s, o[j]) \in R
        OBVIOUS
      <4>1. PICK d \in Nat \ {0}, a \in Int, y \in [1 .. n -> Int], k \in 1 .. n :
              d = dims[o[j]] /\ a = s.rest /\ y = s.index /\ k = o[j]
        <5>1. o[j] \in 1 .. n
          BY <1>2
        <5>2. dims[o[j]] \in Nat /\ dims[o[j]] > 0
          <6>1. \A k \in 1 .. n : dims[k] \in Nat /\ dims[k] > 0
            BY DEF Positive, IsDims
          <6> QED BY <5>1, <6>1
        <5> HIDE DEF Divide, R
        <5>3. dims[o[j]] \in Nat \ {0}
          BY <5>2
        <5> QED BY <5>1, <5>3 DEF R
      <4>2. a \div d \in Int /\ a % d \in Int
        BY <4>1
      <4>3. [y EXCEPT ![k] = a % d] \in [1 .. n -> Int]
        BY <4>1, <4>2
      <4> QED BY <4>1, <4>2, <4>3
    <3> HIDE DEF Divide, R
    <3> QED BY <3>1
  <2>2. \A j \in 1 .. n, y \in R : g[<<j, y>>] = Divide(y, o[j])
    OBVIOUS
  <2>3. Start \in R
    BY <1>2
  <2> HIDE DEF g, R, Start, Divide
  <2>4. PICK iter \in [SUBSET (1 .. n) -> R] : FoldsLeft(iter, n, Start, g)
    BY <1>2, <2>1, <2>3, LeftFold
  <2>5. \A s \in SUBSET (1 .. n) : iter[s] = IF s = {} THEN Start ELSE Divide(iter[s \ {Max(s)}], o[Max(s)])
    BY <1>2, <2>2, <2>4, Largest DEF FoldsLeft
  <2> HIDE DEF D
  <2> QED BY <1>2, <2>5 DEF D
<1>4. PICK iter : Folds(iter) /\ SetLinearIndex(dims, lin, row_major) = iter[D].index
  BY <1>3 DEF SetLinearIndex, FoldLeft, MapThenFoldSet
<1> HIDE DEF o
<1> DEFINE r == [i \in 0 .. n |-> iter[1 .. i].rest]
           x == [i \in 0 .. n |-> iter[1 .. i].index]
<1>5. r[0] = lin /\ x[0] = [k \in 1 .. n |-> 0] /\ SetLinearIndex(dims, lin, row_major) = x[n]
  <2>1. 1 .. 0 = {} /\ 0 \in 0 .. n /\ n \in 0 .. n
    BY <1>2
  <2>2. iter[{}] = Start
    BY <1>4
  <2>3. iter[D].index = iter[1 .. n].index
    BY <1>2
  <2>4. r[0] = iter[{}].rest /\ x[0] = iter[{}].index /\ x[n] = iter[1 .. n].index
    BY <2>1
  <2>5. SetLinearIndex(dims, lin, row_major) = x[n]
    <3> HIDE DEF x, D
    <3> QED BY <1>4, <2>3, <2>4
  <2>6. iter[{}].rest = lin /\ iter[{}].index = [k \in 1 .. n |-> 0]
    BY <1>2, <2>2
  <2> HIDE DEF r, x, D
  <2> QED BY <2>4, <2>5, <2>6
<1>6. ASSUME NEW i \in 1 .. n
      PROVE  r[i] = r[i - 1] \div dims[o[i]] /\ x[i] = [x[i - 1] EXCEPT ![o[i]] = r[i - 1] % dims[o[i]]]
  <2>1. (1 .. i) \in SUBSET D /\ i \in Nat \ {0} /\ i - 1 \in 0 .. n
    BY <1>2
  <2>2. iter[1 .. i] = Divide(iter[(1 .. i) \ {Max(1 .. i)}], o[Max(1 .. i)])
    <3> HIDE DEF Divide, Start, D
    <3> QED BY <1>4, <2>1, MaxUpTo
  <2>3. iter[1 .. i] = Divide(iter[1 .. i - 1], o[i])
    <3> HIDE DEF Divide, Start, D
    <3> QED BY <2>1, <2>2, MaxUpTo
  <2>4. /\ r[i] = iter[1 .. i].rest /\ r[i - 1] = iter[1 .. i - 1].rest
        /\ x[i] = iter[1 .. i].index /\ x[i - 1] = iter[1 .. i - 1].index
    BY <2>1
  <2> HIDE DEF r, x
  <2> QED BY <2>3, <2>4
<1> HIDE DEF r, x
<1>7. ASSUME NEW j \in 1 .. n
      PROVE  /\ r[j] = r[j - 1] \div dims[Place(n, row_major, j)]
             /\ x[j] = [x[j - 1] EXCEPT ![Place(n, row_major, j)]
                                           = r[j - 1] % dims[Place(n, row_major, j)]]
  BY <1>2, <1>6
<1>8. Unrolled(r, x, n, dims, lin, row_major)
  BY <1>5, <1>7 DEF Unrolled
<1> QED BY <1>5, <1>8

-----------------------------------------------------------------------------
\* The numbers are those of elements, and each gives its subscripts back.

DownProducts(P, n, dims, row_major) ==
  P[n + 1] = 1 /\ \A j \in 1 .. n : P[j] = P[j + 1] * dims[Place(n, row_major, j)]

LEMMA NumElDown ==
  ASSUME NEW dims \in Seq(Nat), NEW n, n = Len(dims), NEW row_major \in BOOLEAN
  PROVE  \E P \in [1 .. n + 1 -> Int] : DownProducts(P, n, dims, row_major) /\ P[1] = NumEl(dims)
<1>0. n \in Nat /\ DOMAIN dims = 1 .. n /\ dims \in Seq(Int) /\ \A k \in 1 .. n : dims[k] \in Int
  OBVIOUS
<1>1. PICK p \in [0 .. n -> Int] : /\ p[0] = 1 /\ NumEl(dims) = p[n]
                                   /\ \A i \in 1 .. n : p[i] = p[i - 1] * dims[i]
  BY <1>0, NumElSteps
<1>2. CASE row_major
  <2> DEFINE P == [j \in 1 .. n + 1 |-> p[n + 1 - j]]
  <2>1. P[n + 1] = 1 /\ P[1] = NumEl(dims) /\ P \in [1 .. n + 1 -> Int]
    BY <1>0, <1>1
  <2>2. ASSUME NEW j \in 1 .. n PROVE P[j] = P[j + 1] * dims[Place(n, row_major, j)]
    <3>1. Place(n, row_major, j) = n + 1 - j
      BY <1>2 DEF Place
    <3>2. PICK i \in 1 .. n : i = n + 1 - j
      <4>1. n + 1 - j \in 1 .. n
        BY <1>0
      <4> QED BY <4>1
    <3>3. P[j] = p[i] /\ P[j + 1] = p[i - 1]
      BY <1>0, <3>2
    <3> HIDE DEF P
    <3> QED BY <1>1, <3>1, <3>2, <3>3
  <2> HIDE DEF P
  <2> QED BY <2>1, <2>2 DEF DownProducts
<1>3. CASE ~row_major
  <2> DEFINE g == [jy \in (1 .. n) \X Int |-> jy[2] * dims[jy[1]]]
  <2>1. g \in [(1 .. n) \X Int -> Int]
    OBVIOUS
  <2>2. \A j \in 1 .. n, y \in Int : g[<<j, y>>] = y * dims[j]
    OBVIOUS
  <2> HIDE DEF g
  <2>3. PICK iter \in [SUBSET (1 .. n) -> Int] : FoldsRight(iter, n, 1, g)
    <3>1. PICK one \in Int : one = 1
      OBVIOUS
    <3>2. \E iter \in [SUBSET (1 .. n) -> Int] : FoldsRight(iter, n, one, g)
      BY <1>0, <2>1, RightFold
    <3> QED BY <3>1, <3>2
  <2> DEFINE P == [j \in 1 .. n + 1 |-> iter[j .. n]]
  <2>4. P[n + 1] = 1 /\ P \in [1 .. n + 1 -> Int]
    <3>1. n + 1 .. n = {} /\ \A j \in 1 .. n + 1 : j .. n \in SUBSET (1 .. n)
      BY <1>0
    <3>2. iter[{}] = 1
      BY <2>3 DEF FoldsRight
    <3>3. P[n + 1] = iter[n + 1 .. n]
      BY <1>0
    <3>4. \A j \in 1 .. n + 1 : iter[j .. n] \in Int
      BY <3>1
    <3> QED BY <3>1, <3>2, <3>3, <3>4
  <2>5. ASSUME NEW j \in 1 .. n PROVE P[j] = P[j + 1] * dims[j]
    <3>1. (j .. n) \in SUBSET (1 .. n) /\ j \in 1 .. n + 1 /\ j + 1 \in 1 .. n + 1 /\ j + 1 .. n \in SUBSET (1 .. n)
      BY <1>0
    <3>2. iter[j .. n] = g[<<j, iter[j + 1 .. n]>>]
      <4>1. Min(j .. n) = j /\ (j .. n) \ {j} = j + 1 .. n /\ (j .. n) # {}
        BY <1>0, MinDownTo
      <4>2. PICK s : s = j .. n
        OBVIOUS
      <4>3. iter[s] = g[<<Min(s), iter[s \ {Min(s)}]>>]
        BY <2>3, <3>1, <4>1, <4>2 DEF FoldsRight
      <4> QED BY <4>1, <4>2, <4>3
    <3>3. iter[j + 1 .. n] \in Int
      BY <3>1
    <3>4. P[j] = iter[j .. n] /\ P[j + 1] = iter[j + 1 .. n]
      BY <3>1
    <3> HIDE DEF P
    <3> QED BY <2>2, <3>2, <3>3, <3>4
  <2> HIDE DEF P
  <2> DEFINE S == {j \in 0 .. n : p[j] * P[j + 1] = P[1]}
  <2>6. 0 \in S
    <3>1. 0 \in 0 .. n /\ 0 + 1 = 1 /\ 1 \in 1 .. n + 1 /\ P[1] \in Int
      BY <1>0, <2>4
    <3>2. p[0] * P[0 + 1] = P[1]
      BY <1>1, <3>1
    <3> QED BY <3>1, <3>2
  <2>7. ASSUME NEW j \in 1 .. n, j - 1 \in S PROVE j \in S
    <3>1. PICK a \in Int, b \in Int, c \in Int, d \in Int, e \in Int :
            a = p[j] /\ b = p[j - 1] /\ c = P[j] /\ d = P[j + 1] /\ e = dims[j]
      <4>1. j \in 0 .. n /\ j - 1 \in 0 .. n /\ j \in 1 .. n + 1 /\ j + 1 \in 1 .. n + 1
        BY <1>0
      <4>2. p[j] \in Int /\ p[j - 1] \in Int /\ P[j] \in Int /\ P[j + 1] \in Int /\ dims[j] \in Int
        BY <1>0, <2>4, <4>1
      <4> QED BY <4>2
    <3>2. b * c = P[1] /\ a = b * e /\ c = d * e
      BY <1>0, <1>1, <2>5, <2>7, <3>1
    <3>3. b * (d * e) = (b * e) * d
      OBVIOUS
    <3>4. a * d = P[1]
      BY <3>2, <3>3
    <3> QED BY <1>0, <3>1, <3>4
  <2>8. n \in S
    <3> HIDE DEF S
    <3>1. \A j \in 0 .. n : j \in S
      BY <1>0, <2>6, <2>7, UpSteps
    <3> QED BY <1>0, <3>1
  <2>9. P[1] = NumEl(dims)
    BY <1>0, <1>1, <2>4, <2>8
  <2>10. \A j \in 1 .. n : Place(n, row_major, j) = j
    BY <1>3 DEF Place
  <2> QED BY <2>4, <2>5, <2>9, <2>10 DEF DownProducts
<1> QED BY <1>2, <1>3

LEMMA PlaceInRange ==
  ASSUME NEW n \in Nat, NEW row_major \in BOOLEAN, NEW j \in 1 .. n
  PROVE  /\ Place(n, row_major, j) \in 1 .. n
         /\ Place(n, row_major, Place(n, row_major, j)) = j
BY DEF Place

LEMMA DigitBound ==
  ASSUME NEW a \in Nat, NEW P \in Nat, a < P, NEW d \in Nat, d > 0, NEW i \in 0 .. d - 1
  PROVE  /\ a * d + i \in Nat /\ P * d \in Nat /\ P * d > 0 /\ a * d + i < P * d
         /\ (a * d + i) \div d = a /\ (a * d + i) % d = i
<1>1. PICK m \in Nat : P = a + m + 1
  <2>1. P - a - 1 \in Nat /\ P = a + (P - a - 1) + 1
    OBVIOUS
  <2> QED BY <2>1
<1>2. P * d = a * d + m * d + d
  BY <1>1
<1>3. a * d \in Nat /\ m * d \in Nat
  OBVIOUS
<1>4. PICK q \in Int, r \in 0 .. d - 1 : /\ q = (a * d + i) \div d /\ r = (a * d + i) % d
                                         /\ a * d + i = d * q + r
  <2>1. a * d + i \in Int
    BY <1>3
  <2> QED BY <2>1, Division
<1>5. q = a
  <2>1. PICK e \in Int : q = a + e
    <3>1. q - a \in Int /\ q = a + (q - a)
      OBVIOUS
    <3> QED BY <3>1
  <2>2. d * q = a * d + d * e
    BY <2>1
  <2>3. i = d * e + r
    <3>1. PICK x \in Int, y \in Int : x = a * d /\ y = d * e
      BY <1>3
    <3>2. x + i = x + y + r
      BY <1>4, <2>2, <3>1
    <3> QED BY <3>1, <3>2
  <2>4. e = 0
    <3>1. e >= 1 => d * e >= d
      OBVIOUS
    <3>2. e <= -1 => d * e <= -d
      OBVIOUS
    <3>3. d * e \in Int
      OBVIOUS
    <3> QED BY <2>3, <3>1, <3>2, <3>3
  <2> QED BY <2>1, <2>4
<1>6. r = i
  BY <1>3, <1>4, <1>5
<1> QED BY <1>2, <1>3, <1>4, <1>5, <1>6

Digits(h, P, n, dims, index, row_major) ==
  /\ \A j \in 1 .. n + 1 : h[j] \in Nat /\ P[j] \in Nat /\ h[j] < P[j]
  /\ \A j \in 1 .. n : /\ h[j + 1] = h[j] \div dims[Place(n, row_major, j)]
                       /\ index[Place(n, row_major, j)] = h[j] % dims[Place(n, row_major, j)]

LEMMA HornerBound ==
  ASSUME NEW n \in Nat, NEW dims, Positive(n, dims), NEW index, InBox(n, dims, index),
         NEW row_major \in BOOLEAN, NEW h \in [1 .. n + 1 -> Int], Horner(h, n, dims, index, row_major),
         NEW P \in [1 .. n + 1 -> Int], DownProducts(P, n, dims, row_major)
  PROVE  Digits(h, P, n, dims, index, row_major)
<1> DEFINE S == {j \in 1 .. n + 1 : h[j] \in Nat /\ P[j] \in Nat /\ h[j] < P[j]}
<1>1. n + 1 \in S
  BY DEF Horner, DownProducts
<1>2. ASSUME NEW j \in 1 .. n, j + 1 \in S
      PROVE  /\ j \in S
             /\ h[j + 1] = h[j] \div dims[Place(n, row_major, j)]
             /\ index[Place(n, row_major, j)] = h[j] % dims[Place(n, row_major, j)]
  <2>1. PICK k \in 1 .. n : k = Place(n, row_major, j)
    BY PlaceInRange
  <2>2. PICK d, i, a, p : d = dims[k] /\ i = index[k] /\ a = h[j + 1] /\ p = P[j + 1]
    OBVIOUS
  <2>3. d \in Nat /\ d > 0 /\ i \in 0 .. d - 1
    BY <2>2 DEF Positive, InBox
  <2>4. a \in Nat /\ p \in Nat /\ a < p
    BY <1>2, <2>2
  <2>5. h[j] = a * d + i /\ P[j] = p * d
    BY <2>1, <2>2 DEF Horner, DownProducts
  <2>6. /\ a * d + i \in Nat /\ p * d \in Nat /\ a * d + i < p * d
        /\ (a * d + i) \div d = a /\ (a * d + i) % d = i
    BY <2>3, <2>4, DigitBound
  <2> QED BY <2>1, <2>2, <2>5, <2>6
<1>3. \A j \in 1 .. n + 1 : j \in S
  <2> HIDE DEF S
  <2> QED BY <1>1, <1>2, DownSteps
<1>4. \A j \in 1 .. n : j + 1 \in S
  <2>1. \A j \in 1 .. n : j + 1 \in 1 .. n + 1
    OBVIOUS
  <2> HIDE DEF S
  <2> QED BY <1>3, <2>1
<1>5. \A j \in 1 .. n + 1 : h[j] \in Nat /\ P[j] \in Nat /\ h[j] < P[j]
  BY <1>3
<1> HIDE DEF S
<1> QED BY <1>2, <1>4, <1>5 DEF Digits

\* Subscripts give a number below that of the elements, which gives them back.
LEMMA SubscriptsBack ==
  ASSUME NEW dims, NEW n, IsDims(n, dims), NEW index, IsIndex(n, dims, index),
         NEW row_major \in BOOLEAN, NEW lin, lin = LinearIndexIn(dims, index, row_major)
  PROVE  /\ lin \in Nat /\ NumEl(dims) \in Nat /\ lin < NumEl(dims)
         /\ SetLinearIndex(dims, lin, row_major) = index
<1>1. n \in Nat /\ dims \in Seq(Nat) /\ n = Len(dims) /\ Positive(n, dims)
  BY DEF IsDims
<1>2. Whole(n, index) /\ InBox(n, dims, index)
  BY DEF IsIndex, Whole
<1>3. PICK h \in [1 .. n + 1 -> Int] : Horner(h, n, dims, index, row_major) /\ lin = h[1]
  BY <1>1, <1>2, LinearSteps
<1>4. PICK P \in [1 .. n + 1 -> Int] : DownProducts(P, n, dims, row_major) /\ P[1] = NumEl(dims)
  BY <1>1, NumElDown
<1>5. /\ \A j \in 1 .. n + 1 : h[j] \in Nat /\ P[j] \in Nat /\ h[j] < P[j]
      /\ \A j \in 1 .. n : /\ h[j + 1] = h[j] \div dims[Place(n, row_major, j)]
                           /\ index[Place(n, row_major, j)] = h[j] % dims[Place(n, row_major, j)]
  <2>1. Digits(h, P, n, dims, index, row_major)
    BY <1>1, <1>2, <1>3, <1>4, HornerBound
  <2> QED BY <2>1 DEF Digits
<1>6. lin \in Nat /\ NumEl(dims) \in Nat /\ lin < NumEl(dims)
  <2>1. 1 \in 1 .. n + 1
    BY <1>1
  <2> QED BY <1>3, <1>4, <1>5, <2>1
<1>7. PICK r, x : /\ Unrolled(r, x, n, dims, lin, row_major)
                  /\ SetLinearIndex(dims, lin, row_major) = x[n]
  <2>1. PICK l \in Int : l = lin
    BY <1>6
  <2>2. \E r, x : /\ Unrolled(r, x, n, dims, l, row_major)
                  /\ SetLinearIndex(dims, l, row_major) = x[n]
    BY SetSteps
  <2> QED BY <2>1, <2>2
<1> DEFINE S == {j \in 0 .. n : r[j] = h[j + 1]}
<1>8. \A j \in 0 .. n : j \in S
  <2>1. 0 \in S
    <3>1. r[0] = h[0 + 1]
      BY <1>3, <1>7 DEF Unrolled
    <3> QED BY <1>1, <3>1
  <2>2. ASSUME NEW j \in 1 .. n, j - 1 \in S PROVE j \in S
    <3>1. r[j] = r[j - 1] \div dims[Place(n, row_major, j)] /\ r[j - 1] = h[j]
      <4>1. j - 1 + 1 = j
        BY <1>1
      <4> QED BY <1>7, <2>2, <4>1 DEF Unrolled
    <3>2. r[j] = h[j + 1]
      BY <1>5, <3>1
    <3> QED BY <1>1, <3>2
  <2> HIDE DEF S
  <2> QED BY <1>1, <2>1, <2>2, UpSteps
<1> DEFINE Done(y, j) ==
      /\ DOMAIN y = 1 .. n /\ y = [k \in 1 .. n |-> y[k]]
      /\ \A i \in 1 .. j : y[Place(n, row_major, i)] = index[Place(n, row_major, i)]
           T == {j \in 0 .. n : Done(x[j], j)}
<1>9. \A j \in 0 .. n : j \in T
  <2>1. 0 \in T
    <3>1. x[0] = [k \in 1 .. n |-> 0]
      BY <1>7 DEF Unrolled
    <3>2. Done(x[0], 0)
      BY <3>1
    <3> QED BY <1>1, <3>2
  <2>2. ASSUME NEW j \in 1 .. n, j - 1 \in T PROVE j \in T
    <3>1. PICK k \in 1 .. n : k = Place(n, row_major, j)
      BY <1>1, PlaceInRange
    <3>2. PICK y, z : y = x[j - 1] /\ z = x[j]
      OBVIOUS
    <3>3. z = [y EXCEPT ![k] = r[j - 1] % dims[k]]
      BY <1>7, <3>1, <3>2 DEF Unrolled
    <3>4. r[j - 1] = h[j]
      <4>1. j - 1 \in 0 .. n /\ j - 1 + 1 = j
        BY <1>1
      <4> QED BY <1>8, <4>1
    <3>5. r[j - 1] % dims[k] = index[k]
      BY <1>5, <3>1, <3>4
    <3>6. Done(y, j - 1)
      BY <2>2, <3>2
    <3>7. DOMAIN z = 1 .. n /\ z = [l \in 1 .. n |-> z[l]] /\ z[k] = index[k]
      BY <3>3, <3>5, <3>6
    <3>8. ASSUME NEW i \in 1 .. j - 1 PROVE z[Place(n, row_major, i)] = index[Place(n, row_major, i)]
      <4>1. Place(n, row_major, i) \in 1 .. n
        <5>1. i \in 1 .. n
          BY <1>1
        <5> QED BY <1>1, <5>1, PlaceInRange
      <4>2. y[Place(n, row_major, i)] = index[Place(n, row_major, i)]
        BY <3>6
      <4> QED BY <3>3, <3>5, <3>6, <4>1, <4>2
    <3>9. Done(z, j)
      <4>1. \A i \in 1 .. j : i = j \/ i \in 1 .. j - 1
        BY <1>1
      <4> QED BY <3>1, <3>7, <3>8, <4>1
    <3> HIDE DEF Done
    <3> QED BY <1>1, <3>2, <3>9
  <2> HIDE DEF T
  <2> QED BY <1>1, <2>1, <2>2, UpSteps
<1>10. PICK y : y = x[n]
  OBVIOUS
<1>11. Done(y, n)
  <2>1. n \in T
    <3> HIDE DEF T
    <3> QED BY <1>1, <1>9
  <2> QED BY <1>10, <2>1
<1>12. \A k \in 1 .. n : y[k] = index[k]
  <2> SUFFICES ASSUME NEW k \in 1 .. n PROVE y[k] = index[k]
    OBVIOUS
  <2>1. PICK i \in 1 .. n : i = Place(n, row_major, k) /\ Place(n, row_major, i) = k
    BY <1>1, PlaceInRange
  <2> QED BY <1>11, <2>1
<1>13. y = index
  BY <1>11, <1>12 DEF IsIndex
<1> QED BY <1>6, <1>7, <1>10, <1>13

-----------------------------------------------------------------------------
\* The iterator counts up.

LEMMA FirstOf ==
  ASSUME NEW n \in Nat, NEW I \in SUBSET (1 .. n), NEW f, f = IF I # {} THEN Min(I) ELSE 0
  PROVE  /\ f \in 0 .. n
         /\ f > 0 => f \in I
         /\ f = 0 => \A j \in 1 .. n : j \notin I
         /\ \A j \in 1 .. n : j < f => j \notin I
<1>1. I # {} => Min(I) \in I /\ \A j \in I : Min(I) <= j
  <2>1. I \in SUBSET Nat
    OBVIOUS
  <2> QED BY <2>1, Smallest
<1>2. CASE I = {}
  BY <1>2
<1>3. CASE I # {}
  <2>1. f \in I /\ \A j \in I : f <= j
    BY <1>1, <1>3
  <2>2. f \in 1 .. n
    BY <2>1
  <2>3. ASSUME NEW j \in 1 .. n, j < f PROVE j \notin I
    BY <2>1, <2>2, <2>3
  <2> QED BY <2>1, <2>2, <2>3
<1> QED BY <1>2, <1>3

LEMMA PlaceFound ==
  ASSUME NEW dims \in Seq(Nat), NEW n, n = Len(dims), NEW row_major \in BOOLEAN, NEW k \in 1 .. n
  PROVE  SelectInSeq(Fastest(dims, row_major), LAMBDA o : o = k) = Place(n, row_major, k)
<1> DEFINE o == Fastest(dims, row_major)
           I == {i \in 1 .. Len(o) : o[i] = k}
<1>1. /\ n \in Nat /\ Len(o) = n
      /\ \A j \in 1 .. n : o[j] = Place(n, row_major, j)
  BY FastestIs
<1> HIDE DEF o
<1>2. PICK j \in 1 .. n : j = Place(n, row_major, k)
  BY <1>1, PlaceInRange
<1>3. \A i \in 1 .. n : Place(n, row_major, i) = k <=> i = j
  BY <1>1, <1>2 DEF Place
<1>4. I = {j}
  BY <1>1, <1>2, <1>3
<1>5. Min(I) = j
  <2>1. {j} \in SUBSET Nat /\ {j} # {}
    OBVIOUS
  <2> QED BY <1>4, <2>1, Smallest
<1>6. SelectInSeq(o, LAMBDA x : x = k) = IF I # {} THEN Min(I) ELSE 0
  BY DEF SelectInSeq
<1> QED BY <1>2, <1>4, <1>5, <1>6 DEF o

\* Which subscript is stepped; 0 if none is.
IsFull(f, n, dims, index, row_major) ==
  /\ f \in 0 .. n
  /\ f > 0 => index[Place(n, row_major, f)] + 1 < dims[Place(n, row_major, f)]
  /\ \A j \in 1 .. n : f = 0 \/ j < f => ~(index[Place(n, row_major, j)] + 1 < dims[Place(n, row_major, j)])

SteppedIndex(f, n, index, row_major) ==
  [k \in 1 .. n |->
     IF Place(n, row_major, k) = f THEN index[k] + 1
     ELSE IF f = 0 \/ Place(n, row_major, k) < f THEN 0 ELSE index[k]]

Steps(i, f, n) ==
  /\ IsFull(f, n, i.dims, i.index, i.row_major)
  /\ Increment(i) = [i EXCEPT !.index = SteppedIndex(f, n, i.index, i.row_major), !.linearIndex = @ + 1]

LEMMA IncrementIs ==
  ASSUME NEW i, i.dims \in Seq(Nat), NEW n, n = Len(i.dims), i.row_major \in BOOLEAN,
         DOMAIN i.index = 1 .. n
  PROVE  \E f : Steps(i, f, n)
<1>0. PICK dims, row_major : dims = i.dims /\ row_major = i.row_major
  OBVIOUS
<1> DEFINE order == Fastest(dims, row_major)
           index == i.index
           room(m) == index[order[m]] + 1 < dims[order[m]]
           rooms == [m \in DOMAIN order |-> room(m)]
           I == {m \in 1 .. Len(rooms) : rooms[m]}
           full == IF I # {} THEN Min(I) ELSE 0
           stepped(m) == IF m = full THEN index[order[m]] + 1
                         ELSE IF full = 0 \/ m < full THEN 0 ELSE index[order[m]]
<1>1. /\ n \in Nat /\ DOMAIN order = 1 .. n /\ Len(order) = n
      /\ \A j \in 1 .. n : order[j] = Place(n, row_major, j) /\ Place(n, row_major, j) \in 1 .. n
  BY <1>0, FastestIs
<1>2. Increment(i) = [i EXCEPT !.index = [k \in 1 .. n |-> stepped(SelectInSeq(order, LAMBDA o : o = k))],
                               !.linearIndex = @ + 1]
  BY <1>0 DEF Increment, SelectInSeq
<1>3. \A k \in 1 .. n : SelectInSeq(order, LAMBDA o : o = k) = Place(n, row_major, k)
  BY <1>0, PlaceFound
<1>4. [k \in 1 .. n |-> stepped(SelectInSeq(order, LAMBDA o : o = k))]
        = [k \in 1 .. n |-> stepped(Place(n, row_major, k))]
  <2> HIDE DEF stepped, order
  <2> QED BY <1>3
<1> HIDE DEF order
<1>5. DOMAIN rooms = 1 .. n /\ Len(rooms) = n /\ \A m \in 1 .. n : rooms[m] = room(m)
  BY <1>1
<1> HIDE DEF rooms
<1>6. PICK f : f = full
  OBVIOUS
<1>7. /\ f \in 0 .. n
      /\ f > 0 => f \in I
      /\ f = 0 => \A j \in 1 .. n : j \notin I
      /\ \A j \in 1 .. n : j < f => j \notin I
  <2>1. I \in SUBSET (1 .. n)
    BY <1>5
  <2> HIDE DEF I
  <2> QED BY <1>1, <1>6, <2>1, FirstOf
<1>8. \A j \in 1 .. n : j \in I <=> index[Place(n, row_major, j)] + 1 < dims[Place(n, row_major, j)]
  BY <1>1, <1>5
<1> HIDE DEF I
<1>9. IsFull(f, n, dims, index, row_major)
  <2>1. f > 0 => f \in 1 .. n
    BY <1>7
  <2> QED BY <1>7, <1>8, <2>1 DEF IsFull
<1>10. \A k \in 1 .. n : order[Place(n, row_major, k)] = k
  <2>1. row_major \in BOOLEAN
    BY <1>0
  <2>2. \A k \in 1 .. n : Place(n, row_major, Place(n, row_major, k)) = k
    BY <1>1, <2>1 DEF Place
  <2> QED BY <1>1, <2>2
<1>11. [k \in 1 .. n |-> stepped(Place(n, row_major, k))] = SteppedIndex(f, n, index, row_major)
  <2> HIDE DEF full
  <2> QED BY <1>6, <1>10 DEF SteppedIndex
<1>12. PICK y, z : /\ y = [k \in 1 .. n |-> stepped(SelectInSeq(order, LAMBDA o : o = k))]
                   /\ z = SteppedIndex(f, n, i.index, row_major)
  OBVIOUS
<1>13. y = z
  <2> HIDE DEF full, stepped
  <2> QED BY <1>4, <1>11, <1>12
<1>14. Increment(i) = [i EXCEPT !.index = y, !.linearIndex = @ + 1]
  <2> HIDE DEF full, stepped
  <2> QED BY <1>2, <1>12 DEF order
<1>15. Increment(i) = [i EXCEPT !.index = SteppedIndex(f, n, i.index, row_major), !.linearIndex = @ + 1]
  BY <1>12, <1>13, <1>14
<1> HIDE DEF full, stepped, room
<1> QED BY <1>0, <1>9, <1>15 DEF Steps

LEMMA CountsUp ==
  ASSUME NEW dims, NEW n, IsDims(n, dims), NEW index, IsIndex(n, dims, index), NEW row_major \in BOOLEAN,
         NEW f, IsFull(f, n, dims, index, row_major)
  PROVE  /\ f = 0 => LinearIndexIn(dims, index, row_major) + 1 = NumEl(dims)
         /\ f > 0 => /\ IsIndex(n, dims, SteppedIndex(f, n, index, row_major))
                     /\ LinearIndexIn(dims, SteppedIndex(f, n, index, row_major), row_major)
                          = LinearIndexIn(dims, index, row_major) + 1
<1>1. n \in Nat /\ dims \in Seq(Nat) /\ n = Len(dims) /\ \A k \in 1 .. n : dims[k] \in Nat /\ dims[k] > 0
  BY DEF IsDims, Positive
<1>2. Whole(n, index) /\ InBox(n, dims, index) /\ f \in 0 .. n
  BY DEF IsIndex, Whole, IsFull
<1>3. PICK h \in [1 .. n + 1 -> Int] :
        Horner(h, n, dims, index, row_major) /\ LinearIndexIn(dims, index, row_major) = h[1]
  BY <1>1, <1>2, LinearSteps
<1>4. \A j \in 1 .. n : f = 0 \/ j < f =>
        index[Place(n, row_major, j)] = dims[Place(n, row_major, j)] - 1
  <2> SUFFICES ASSUME NEW j \in 1 .. n, f = 0 \/ j < f
               PROVE  index[Place(n, row_major, j)] = dims[Place(n, row_major, j)] - 1
    OBVIOUS
  <2>1. PICK k \in 1 .. n : k = Place(n, row_major, j)
    BY <1>1, PlaceInRange
  <2>2. ~(index[k] + 1 < dims[k]) /\ index[k] \in 0 .. dims[k] - 1 /\ dims[k] \in Nat
    BY <1>1, <1>2, <2>1 DEF IsFull, InBox
  <2> QED BY <2>1, <2>2
<1>5. ASSUME NEW j \in 1 .. n
      PROVE  \E a, d, i \in Int :
               /\ a = h[j + 1] /\ d = dims[Place(n, row_major, j)] /\ i = index[Place(n, row_major, j)]
               /\ h[j] = a * d + i
  <2>1. PICK k \in 1 .. n : k = Place(n, row_major, j)
    BY <1>1, PlaceInRange
  <2>2. h[j + 1] \in Int /\ dims[k] \in Int /\ index[k] \in Int
    <3>1. j + 1 \in 1 .. n + 1
      BY <1>1
    <3>2. h[j + 1] \in Int
      BY <1>3, <3>1
    <3> QED BY <1>1, <1>2, <3>2 DEF Whole
  <2> QED BY <1>3, <2>1, <2>2 DEF Horner
<1>6. CASE f = 0
  <2>1. PICK P \in [1 .. n + 1 -> Int] : DownProducts(P, n, dims, row_major) /\ P[1] = NumEl(dims)
    BY <1>1, NumElDown
  <2> DEFINE S == {j \in 1 .. n + 1 : h[j] + 1 = P[j]}
  <2>2. n + 1 \in S
    BY <1>1, <1>3, <2>1 DEF Horner, DownProducts
  <2>3. ASSUME NEW j \in 1 .. n, j + 1 \in S PROVE j \in S
    <3>1. PICK a, d, i \in Int :
            /\ a = h[j + 1] /\ d = dims[Place(n, row_major, j)] /\ i = index[Place(n, row_major, j)]
            /\ h[j] = a * d + i
      BY <1>5
    <3>2. i = d - 1 /\ a + 1 = P[j + 1] /\ P[j] = (a + 1) * d
      BY <1>4, <1>6, <2>1, <2>3, <3>1 DEF DownProducts
    <3>3. a * d \in Int /\ (a + 1) * d = a * d + d
      OBVIOUS
    <3>4. h[j] + 1 = P[j]
      <4>1. PICK x \in Int : x = a * d
        BY <3>3
      <4>2. h[j] = x + (d - 1) /\ P[j] = x + d
        BY <3>1, <3>2, <3>3, <4>1
      <4> QED BY <4>2
    <3> QED BY <1>1, <3>4
  <2>4. \A j \in 1 .. n + 1 : j \in S
    <3> HIDE DEF S
    <3> QED BY <1>1, <2>2, <2>3, DownSteps
  <2>5. h[1] + 1 = P[1]
    BY <1>1, <2>4
  <2> QED BY <1>3, <1>6, <2>1, <2>5
<1>7. CASE f > 0
  <2>1. PICK new : new = SteppedIndex(f, n, index, row_major)
    OBVIOUS
  <2>2. /\ new = [k \in 1 .. n |-> new[k]]
        /\ \A k \in 1 .. n : new[k] = IF Place(n, row_major, k) = f THEN index[k] + 1
                                      ELSE IF f = 0 \/ Place(n, row_major, k) < f THEN 0 ELSE index[k]
    BY <2>1 DEF SteppedIndex
  <2>3. IsIndex(n, dims, new)
    <3>1. ASSUME NEW k \in 1 .. n PROVE new[k] \in 0 .. dims[k] - 1
      <4>1. Place(n, row_major, k) = f => index[k] + 1 < dims[k]
        <5>1. Place(n, row_major, k) = f => k = Place(n, row_major, f)
          BY <1>1, PlaceInRange
        <5> QED BY <1>7, <5>1 DEF IsFull
      <4>2. index[k] \in 0 .. dims[k] - 1 /\ dims[k] \in Nat /\ dims[k] > 0
        BY <1>1, <1>2 DEF InBox
      <4> QED BY <2>2, <4>1, <4>2
    <3>2. InBox(n, dims, new) /\ \A k \in 1 .. n : new[k] \in Int
      BY <1>1, <3>1 DEF InBox
    <3> QED BY <2>2, <3>2 DEF IsIndex
  <2>4. PICK g \in [1 .. n + 1 -> Int] :
          Horner(g, n, dims, new, row_major) /\ LinearIndexIn(dims, new, row_major) = g[1]
    <3>1. Whole(n, new)
      BY <2>3 DEF IsIndex, Whole
    <3> QED BY <1>1, <3>1, LinearSteps
  <2> DEFINE S == {j \in 1 .. n + 1 : g[j] = IF j > f THEN h[j] ELSE h[j] + 1}
  <2>5. n + 1 \in S
    BY <1>1, <1>2, <1>3, <2>4 DEF Horner
  <2>6. ASSUME NEW j \in 1 .. n, j + 1 \in S PROVE j \in S
    <3>1. PICK a, d, i \in Int :
            /\ a = h[j + 1] /\ d = dims[Place(n, row_major, j)] /\ i = index[Place(n, row_major, j)]
            /\ h[j] = a * d + i
      BY <1>5
    <3>2. PICK k \in 1 .. n : k = Place(n, row_major, j) /\ Place(n, row_major, k) = j
      BY <1>1, PlaceInRange
    <3>3. g[j] = g[j + 1] * d + new[k] /\ g[j + 1] = IF j + 1 > f THEN a ELSE a + 1
      BY <2>4, <2>6, <3>1, <3>2 DEF Horner
    <3>4. new[k] = IF j = f THEN i + 1 ELSE IF j < f THEN 0 ELSE i
      BY <1>7, <2>2, <3>1, <3>2
    <3>5. j < f => i = d - 1
      BY <1>4, <3>1
    <3>6. a * d \in Int /\ (a + 1) * d = a * d + d
      OBVIOUS
    <3>7. g[j] = IF j > f THEN h[j] ELSE h[j] + 1
      <4>1. CASE j > f
        BY <1>2, <3>1, <3>3, <3>4, <4>1
      <4>2. CASE j = f
        BY <1>2, <3>1, <3>3, <3>4, <3>6, <4>2
      <4>3. CASE j < f
        <5>1. g[j] = (a + 1) * d + 0 /\ h[j] = a * d + (d - 1)
          BY <1>2, <3>1, <3>3, <3>4, <3>5, <4>3
        <5> QED BY <1>2, <3>6, <4>3, <5>1
      <4> QED BY <1>2, <4>1, <4>2, <4>3
    <3> QED BY <1>1, <3>7
  <2>7. \A j \in 1 .. n + 1 : j \in S
    <3> HIDE DEF S
    <3> QED BY <1>1, <2>5, <2>6, DownSteps
  <2>8. g[1] = h[1] + 1
    BY <1>1, <1>2, <1>7, <2>7
  <2> QED BY <1>3, <1>7, <2>1, <2>3, <2>4, <2>8
<1> QED BY <1>2, <1>6, <1>7

LEMMA StartsAtZero ==
  ASSUME NEW dims \in Seq(Nat), NEW n, n = Len(dims), NEW row_major \in BOOLEAN,
         NEW index, index = [k \in 1 .. n |-> 0]
  PROVE  LinearIndexIn(dims, index, row_major) = 0
<1>1. n \in Nat /\ \A k \in 1 .. n : dims[k] \in Nat
  OBVIOUS
<1>2. PICK h \in [1 .. n + 1 -> Int] :
        Horner(h, n, dims, index, row_major) /\ LinearIndexIn(dims, index, row_major) = h[1]
  <2>1. Whole(n, index)
    BY DEF Whole
  <2>2. PICK x : x = index
    OBVIOUS
  <2> QED BY <2>1, LinearSteps
<1> DEFINE S == {j \in 1 .. n + 1 : h[j] = 0}
<1>3. n + 1 \in S
  BY <1>1, <1>2 DEF Horner
<1>4. ASSUME NEW j \in 1 .. n, j + 1 \in S PROVE j \in S
  <2>1. PICK k \in 1 .. n : k = Place(n, row_major, j)
    BY <1>1, PlaceInRange
  <2>2. PICK d \in Nat : d = dims[k]
    BY <1>1
  <2>3. h[j] = 0 * d + 0
    BY <1>2, <1>4, <2>1, <2>2 DEF Horner
  <2>4. 0 * d + 0 = 0
    OBVIOUS
  <2> QED BY <1>1, <2>3, <2>4
<1>5. \A j \in 1 .. n + 1 : j \in S
  <2> HIDE DEF S
  <2> QED BY <1>1, <1>3, <1>4, DownSteps
<1> QED BY <1>1, <1>2, <1>5

\* A variable with elements has no dimension that is empty.
LEMMA NoEmptyDim ==
  ASSUME NEW dims \in Seq(Nat), NEW n, n = Len(dims), NumEl(dims) > 0
  PROVE  IsDims(n, dims)
<1>1. n \in Nat /\ dims \in Seq(Int) /\ \A k \in 1 .. n : dims[k] \in Nat
  OBVIOUS
<1>2. PICK p \in [0 .. n -> Int] : /\ p[0] = 1 /\ NumEl(dims) = p[n]
                                   /\ \A i \in 1 .. n : p[i] = p[i - 1] * dims[i]
  BY <1>1, NumElSteps
<1>3. ASSUME NEW k \in 1 .. n, dims[k] = 0 PROVE FALSE
  <2> DEFINE S == {j \in 0 .. n : j < k \/ p[j] = 0}
  <2>1. 0 \in S
    BY <1>1
  <2>2. ASSUME NEW j \in 1 .. n, j - 1 \in S PROVE j \in S
    <3>1. CASE j < k
      BY <1>1, <3>1
    <3>2. CASE j = k
      <4>1. PICK a \in Int : a = p[j - 1]
        <5>1. j - 1 \in 0 .. n
          BY <1>1
        <5>2. p[j - 1] \in Int
          BY <1>2, <5>1
        <5> QED BY <5>2
      <4>2. p[j] = a * 0
        BY <1>2, <1>3, <3>2, <4>1
      <4> QED BY <1>1, <4>2
    <3>3. CASE j > k
      <4>1. p[j - 1] = 0
        BY <1>1, <2>2, <3>3
      <4>2. PICK d \in Nat : d = dims[j]
        BY <1>1
      <4>3. p[j] = 0 * d
        BY <1>2, <4>1, <4>2
      <4> QED BY <1>1, <4>3
    <3> QED BY <3>1, <3>2, <3>3
  <2>3. \A j \in 0 .. n : j \in S
    <3> HIDE DEF S
    <3> QED BY <1>1, <2>1, <2>2, UpSteps
  <2>4. p[n] = 0
    BY <1>1, <2>3
  <2> QED BY <1>2, <2>4
<1>4. Positive(n, dims)
  BY <1>1, <1>3 DEF Positive
<1> QED BY <1>4 DEF IsDims

-----------------------------------------------------------------------------
\* Reading

LEMMA SubscriptsAre ==
  ASSUME NEW dims \in Seq(Nat), NEW n, n = Len(dims), NEW index \in Subscripts(dims)
  PROVE  IsIndex(n, dims, index)
<1>1. n \in Nat /\ DOMAIN dims = 1 .. n /\ \A k \in 1 .. n : dims[k] \in Nat
  OBVIOUS
<1>2. PICK m : m = Max({0} \cup Range(dims))
  OBVIOUS
<1>3. index \in [1 .. n -> 0 .. m] /\ \A k \in 1 .. n : index[k] < dims[k]
  BY <1>1, <1>2 DEF Subscripts
<1>4. \A x \in 0 .. m : x \in Nat
  OBVIOUS
<1>5. \A k \in 1 .. n : index[k] \in Nat
  BY <1>3, <1>4
<1>6. index \in [1 .. n -> Int] /\ InBox(n, dims, index)
  BY <1>1, <1>3, <1>5 DEF InBox
<1> QED BY <1>6 DEF IsIndex

IsIterator(i) ==
  i \in [var : Vars, row_major : BOOLEAN, dims : Seq(Nat), index : Seq(Nat), linearIndex : Nat]

LEMMA ReadUpToIs ==
  ASSUME NEW i, NEW vector, NEW var, ReadUpTo(i, vector, var), NEW n, n = Len(i.dims)
  PROVE  /\ IsIterator(i) /\ IsDims(n, i.dims) /\ i.dims \in Seq(Nat) /\ i.row_major \in BOOLEAN
         /\ i.linearIndex \in Nat /\ i.index \in Seq(Nat) /\ DOMAIN i.index = 1 .. n /\ n \in Nat
         /\ Valid(i) => /\ IsIndex(n, i.dims, i.index)
                        /\ LinearIndexIn(i.dims, i.index, i.row_major) = i.linearIndex
<1>1. /\ IsIterator(i) /\ i.dims \in Seq(Nat) /\ i.row_major \in BOOLEAN /\ NumEl(i.dims) > 0
      /\ i.linearIndex \in Nat /\ i.index \in Seq(Nat) /\ Len(i.index) = Len(i.dims)
  BY DEF ReadUpTo, IsIterator
<1>2. n \in Nat /\ DOMAIN i.index = 1 .. n /\ DOMAIN i.dims = 1 .. n
  BY <1>1
<1>3. IsDims(n, i.dims)
  BY <1>1, NoEmptyDim
<1>4. ASSUME Valid(i) PROVE IsIndex(n, i.dims, i.index)
  <2>1. PICK index, dims : index = i.index /\ dims = i.dims
    OBVIOUS
  <2>2. /\ \A k \in 1 .. n : index[k] < dims[k] /\ index[k] \in Nat /\ dims[k] \in Nat
        /\ index \in [1 .. n -> Int]
    <3>1. index \in Seq(Nat) /\ dims \in Seq(Nat) /\ n = Len(index) /\ n = Len(dims)
      BY <1>1, <2>1
    <3>2. index \in [1 .. n -> Nat] /\ dims \in [1 .. n -> Nat]
      BY <3>1, LenProperties
    <3>3. \A k \in 1 .. n : index[k] < dims[k]
      BY <1>2, <1>4, <2>1 DEF ReadUpTo
    <3> QED BY <3>2, <3>3
  <2>3. InBox(n, dims, index)
    BY <2>2 DEF InBox
  <2> QED BY <2>1, <2>2, <2>3 DEF IsIndex
<1>5. Valid(i) => LinearIndexIn(i.dims, i.index, i.row_major) = i.linearIndex
  BY DEF ReadUpTo
<1> QED BY <1>1, <1>2, <1>3, <1>4, <1>5

LEMMA ReadsOn ==
  ASSUME NEW i, NEW vector, NEW var, ReadUpTo(i, vector, var), Valid(i),
         NEW w, w = [vector EXCEPT ![i.linearIndex] = Element(var, i.index)], NEW j, j = Increment(i)
  PROVE  ReadUpTo(j, w, var)
<1>1. PICK n, dims, index, row_major, lin :
        n = Len(dims) /\ dims = i.dims /\ index = i.index /\ row_major = i.row_major /\ lin = i.linearIndex
  OBVIOUS
<1>2. /\ IsIterator(i) /\ IsDims(n, dims) /\ dims \in Seq(Nat) /\ row_major \in BOOLEAN
      /\ lin \in Nat /\ index \in Seq(Nat) /\ DOMAIN index = 1 .. n /\ n \in Nat
      /\ IsIndex(n, dims, index) /\ LinearIndexIn(dims, index, row_major) = lin
  BY <1>1, ReadUpToIs
<1>3. PICK f, new : /\ IsFull(f, n, dims, index, row_major) /\ new = SteppedIndex(f, n, index, row_major)
                    /\ j = [i EXCEPT !.index = new, !.linearIndex = @ + 1]
  <2>1. i.dims \in Seq(Nat) /\ n = Len(i.dims) /\ i.row_major \in BOOLEAN /\ DOMAIN i.index = 1 .. n
    BY <1>1, <1>2
  <2>2. PICK f : Steps(i, f, n)
    BY <2>1, IncrementIs
  <2> QED BY <1>1, <2>2 DEF Steps
<1>4. new \in Seq(Nat) /\ Len(new) = n
  <2>1. \A k \in 1 .. n : index[k] \in Nat
    BY <1>2
  <2>2. new \in [1 .. n -> Nat]
    BY <1>3, <2>1 DEF SteppedIndex
  <2>3. new \in Seq(Nat)
    BY <1>2, <2>2, SeqDef
  <2> QED BY <1>2, <2>2, <2>3
<1>5. /\ j.dims = dims /\ j.row_major = row_major /\ j.index = new /\ j.linearIndex = lin + 1
      /\ j \in [var : Vars, row_major : BOOLEAN, dims : Seq(Nat), index : Seq(Nat), linearIndex : Nat]
  <2>1. /\ i = [var |-> i.var, row_major |-> row_major, dims |-> dims, index |-> index, linearIndex |-> lin]
        /\ i.var \in Vars
    BY <1>1, <1>2 DEF IsIterator
  <2>2. j = [var |-> i.var, row_major |-> row_major, dims |-> dims, index |-> new, linearIndex |-> lin + 1]
    BY <1>1, <1>3, <2>1
  <2>3. lin + 1 \in Nat
    BY <1>2
  <2> QED BY <1>2, <1>4, <2>1, <2>2, <2>3
<1>6. /\ f = 0 => lin + 1 = NumEl(dims)
      /\ f > 0 => IsIndex(n, dims, new) /\ LinearIndexIn(dims, new, row_major) = lin + 1
  BY <1>2, <1>3, CountsUp
<1>7. Valid(j) => /\ \A k \in DOMAIN j.dims : j.index[k] < j.dims[k]
                  /\ LinearIndexIn(j.dims, j.index, j.row_major) = j.linearIndex
  <2> SUFFICES ASSUME Valid(j)
               PROVE  (\A k \in 1 .. n : new[k] < dims[k]) /\ LinearIndexIn(dims, new, row_major) = lin + 1
    <3>1. DOMAIN j.dims = 1 .. n
      BY <1>1, <1>2, <1>5
    <3> QED BY <1>5, <3>1
  <2>1. f > 0
    <3>1. lin + 1 < NumEl(dims)
      BY <1>5 DEF Valid
    <3>2. f \in Nat
      BY <1>2, <1>3 DEF IsFull
    <3>3. f # 0
      BY <1>2, <1>6, <3>1
    <3> QED BY <3>2, <3>3
  <2>2. \A k \in 1 .. n : dims[k] \in Nat
    BY <1>2 DEF IsDims, Positive
  <2> QED BY <1>6, <2>1, <2>2 DEF IsIndex, InBox
<1>8. /\ DOMAIN vector = 0 .. NumEl(dims) - 1 /\ lin < NumEl(dims) /\ NumEl(dims) \in Nat
      /\ \A x \in Subscripts(dims) :
           LinearIndexIn(dims, x, row_major) < lin => vector[LinearIndexIn(dims, x, row_major)] = Element(var, x)
  <2>1. lin < NumEl(dims) /\ NumEl(dims) \in Nat
    BY <1>2, SubscriptsBack
  <2> QED BY <1>1, <2>1 DEF ReadUpTo
<1>9. /\ DOMAIN w = 0 .. NumEl(dims) - 1 /\ w[lin] = Element(var, index)
      /\ \A m \in 0 .. lin - 1 : w[m] = vector[m]
  <2>1. w = [vector EXCEPT ![lin] = Element(var, index)]
    BY <1>1
  <2>2. lin \in DOMAIN vector /\ \A m \in 0 .. lin - 1 : m # lin /\ m \in DOMAIN vector
    BY <1>2, <1>8
  <2> QED BY <1>8, <2>1, <2>2
<1>10. ASSUME NEW x \in Subscripts(dims), NEW m, m = LinearIndexIn(dims, x, row_major), m < lin + 1
       PROVE  w[m] = Element(var, x)
  <2>1. IsIndex(n, dims, x)
    BY <1>1, <1>2, SubscriptsAre
  <2>2. m \in Nat /\ SetLinearIndex(dims, m, row_major) = x
    BY <1>2, <1>10, <2>1, SubscriptsBack
  <2>3. SetLinearIndex(dims, lin, row_major) = index
    BY <1>2, SubscriptsBack
  <2>4. CASE m = lin
    BY <1>9, <2>2, <2>3, <2>4
  <2>5. CASE m < lin
    <3>1. m \in 0 .. lin - 1
      BY <1>2, <2>2, <2>5
    <3> QED BY <1>8, <1>9, <1>10, <2>5, <3>1
  <2> QED BY <1>2, <1>10, <2>2, <2>4, <2>5
<1>11. DOMAIN w = 0 .. NumEl(j.dims) - 1
  BY <1>5, <1>9
<1>12. NumEl(j.dims) > 0 /\ Len(j.index) = Len(j.dims)
  BY <1>1, <1>4, <1>5 DEF ReadUpTo
<1> QED BY <1>5, <1>7, <1>10, <1>11, <1>12 DEF ReadUpTo

LEMMA IteratorsAreSome ==
  ASSUME NEW i, IsIterator(i)
  PROVE  i # NoIterator
<1>1. "var" \in DOMAIN i
  BY DEF IsIterator
<1>2. DOMAIN NoIterator = {}
  BY DEF NoIterator
<1> QED BY <1>1, <1>2

LEMMA StartsReading ==
  ASSUME NEW v \in Vars, NEW row_major \in BOOLEAN, NEW dims \in Seq(Nat), NumEl(dims) > 0, NEW var,
         NEW i, i = [var |-> v, row_major |-> row_major, dims |-> dims,
                     index |-> [k \in DOMAIN dims |-> 0], linearIndex |-> 0],
         NEW vector, DOMAIN vector = 0 .. NumEl(dims) - 1
  PROVE  ReadUpTo(i, vector, var)
<1>1. PICK n, index : n = Len(dims) /\ index = [k \in 1 .. n |-> 0]
  OBVIOUS
<1>2. n \in Nat /\ DOMAIN dims = 1 .. n /\ index \in [1 .. n -> Nat] /\ \A k \in 1 .. n : index[k] = 0
  BY <1>1
<1>3. index \in Seq(Nat) /\ Len(index) = n
  <2>1. index \in Seq(Nat)
    BY <1>2, SeqDef
  <2> QED BY <1>2, <2>1
<1>4. i.index = index /\ i.dims = dims /\ i.row_major = row_major /\ i.linearIndex = 0 /\ i.var = v
  BY <1>1, <1>2
<1>5. i \in [var : Vars, row_major : BOOLEAN, dims : Seq(Nat), index : Seq(Nat), linearIndex : Nat]
  <2>1. i = [var |-> v, row_major |-> row_major, dims |-> dims, index |-> index, linearIndex |-> 0]
    BY <1>1, <1>2
  <2> QED BY <1>3, <2>1
<1>6. LinearIndexIn(dims, index, row_major) = 0
  BY <1>1, StartsAtZero
<1>7. \A k \in DOMAIN dims : index[k] < dims[k]
  <2>1. IsDims(n, dims)
    BY <1>1, NoEmptyDim
  <2> QED BY <1>2, <2>1 DEF IsDims, Positive
<1>8. ASSUME NEW x \in Subscripts(dims), NEW m, m = LinearIndexIn(dims, x, row_major), m < 0 PROVE FALSE
  <2>1. IsIndex(n, dims, x) /\ IsDims(n, dims)
    BY <1>1, SubscriptsAre, NoEmptyDim
  <2>2. m \in Nat
    BY <1>8, <2>1, SubscriptsBack
  <2> QED BY <1>8, <2>2
<1> QED BY <1>1, <1>3, <1>4, <1>5, <1>6, <1>7, <1>8 DEF ReadUpTo

LEMMA ReadInvNext ==
  ASSUME VarsInv, ReadInv, [MatVariablesNext]_matio_vars
  PROVE  ReadInv'
<1>1. CASE UNCHANGED matio_vars
  BY <1>1 DEF matio_vars, ReadInv, Idle, VarOf
<1>2. CASE DecodeNext
  <2>1. PICK i, vector, var : i = it /\ vector = val /\ var = VarOf(it.var)
    OBVIOUS
  <2>2. ReadUpTo(i, vector, var) /\ it # NoIterator
    BY <1>2, <2>1 DEF ReadInv, DecodeNext, Idle
  <2>3. CASE Valid(i)
    <3>1. PICK j, w : j = it' /\ w = val'
      OBVIOUS
    <3>2. /\ w = [vector EXCEPT ![i.linearIndex] = Element(var, i.index)] /\ j = Increment(i)
          /\ UNCHANGED <<p_vardata, vardata>>
      BY <1>2, <2>1, <2>3, <3>1 DEF DecodeNext, var_vars
    <3>3. ReadUpTo(j, w, var)
      BY <2>2, <2>3, <3>2, ReadsOn
    <3>4. j # NoIterator /\ j.var = i.var
      <4>1. IsIterator(j)
        BY <3>3 DEF ReadUpTo, IsIterator
      <4>2. j.var = i.var
        <5>1. \E f : Steps(i, f, Len(i.dims))
          <6>1. PICK n : n = Len(i.dims)
            OBVIOUS
          <6>2. i.dims \in Seq(Nat) /\ i.row_major \in BOOLEAN /\ DOMAIN i.index = 1 .. n
            BY <2>2, <6>1, ReadUpToIs
          <6> QED BY <6>1, <6>2, IncrementIs
        <5>2. PICK f, new : j = [i EXCEPT !.index = new, !.linearIndex = @ + 1]
          BY <3>2, <5>1 DEF Steps
        <5> QED BY <5>2
      <4> QED BY <4>1, <4>2, IteratorsAreSome
    <3>5. VarOf(it.var)' = var
      BY <2>1, <3>1, <3>2, <3>4 DEF VarOf
    <3> QED BY <3>1, <3>3, <3>4, <3>5 DEF ReadInv, Idle
  <2>4. CASE ~Valid(i)
    BY <1>2, <2>1, <2>4 DEF DecodeNext, ReadInv, Idle
  <2> QED BY <2>3, <2>4
<1>3. ASSUME Idle, NEW v \in Vars, NEW complex \in BOOLEAN, NEW row_major \in BOOLEAN,
             Decode(v, complex, row_major)
      PROVE  ReadInv'
  <2>1. PICK var, varname : var = VarOf(v) /\ varname = vardata[p_vardata[v]].varname
    OBVIOUS
  <2>2. PICK wrong :
          /\ wrong = IF var.is_complex /\ ~complex THEN VarTypeError(varname)
                      ELSE IF ~KnownType(var) THEN VarMatTypeError
                      ELSE IF NumEl(var.dims) <= 0 THEN InvalidIndexError
                      ELSE NoError
          /\ IF wrong = NoError
             THEN /\ it' = StartOf(v, row_major)
                  /\ val' = [lin \in 0 .. NumEl(var.dims) - 1 |-> ZeroElement]
             ELSE UNCHANGED reading_vars
          /\ Holds(p_vardata[v]) /\ UNCHANGED <<p_vardata, vardata>>
    BY <1>3, <2>1 DEF Decode, var_vars
  <2>3. CASE wrong # NoError
    BY <1>3, <2>2, <2>3 DEF ReadInv, Idle, reading_vars
  <2>4. CASE wrong = NoError
    <3>1. PICK dims : dims = var.dims
      OBVIOUS
    <3>2. dims \in Seq(Nat) /\ NumEl(dims) \in Int
      <4>1. varname \in DOMAIN Contents
        <5>1. p_vardata[v] \in 1 .. Len(vardata)
          BY <2>2 DEF VarsInv, Holds, Absent, NULL
        <5>2. vardata[p_vardata[v]] \in [refcount : Int, varname : DOMAIN Contents, loaded : BOOLEAN]
          <6>1. PICK R : R = [refcount : Int, varname : DOMAIN Contents, loaded : BOOLEAN]
            OBVIOUS
          <6>2. vardata \in Seq(R)
            BY <6>1 DEF VarsInv
          <6> QED BY <5>1, <6>1, <6>2, ElementOfSeq
        <5> QED BY <2>1, <5>2
      <4>2. dims \in Seq(Nat)
        BY <2>1, <3>1, <4>1, ContentsAssumption DEF VarOf
      <4>3. dims \in Seq(Int) /\ Len(dims) \in Nat
        BY <4>2
      <4>4. PICK p \in [0 .. Len(dims) -> Int] : NumEl(dims) = p[Len(dims)]
        BY <4>3, NumElSteps
      <4>5. p[Len(dims)] \in Int
        BY <4>3
      <4> QED BY <4>2, <4>4, <4>5
    <3>3. NumEl(dims) > 0
      <4>1. VarTypeError(varname) # NoError /\ VarMatTypeError # NoError /\ InvalidIndexError # NoError
        <5>1. DOMAIN NoError = {}
          BY DEF NoError
        <5>2. /\ "kind" \in DOMAIN VarTypeError(varname) /\ "kind" \in DOMAIN VarMatTypeError
              /\ "kind" \in DOMAIN InvalidIndexError
          BY DEF VarTypeError, VarMatTypeError, InvalidIndexError
        <5> QED BY <5>1, <5>2
      <4>2. ~(NumEl(dims) <= 0)
        BY <2>2, <2>4, <3>1, <4>1
      <4> QED BY <3>2, <4>2
    <3>4. PICK i, vector : i = it' /\ vector = val'
      OBVIOUS
    <3>5. /\ i = [var |-> v, row_major |-> row_major, dims |-> dims,
                  index |-> [k \in DOMAIN dims |-> 0], linearIndex |-> 0]
          /\ DOMAIN vector = 0 .. NumEl(dims) - 1
      BY <2>1, <2>2, <2>4, <3>1, <3>4 DEF StartOf, VarOf
    <3>6. ReadUpTo(i, vector, var)
      BY <3>2, <3>3, <3>5, StartsReading
    <3>7. i # NoIterator /\ i.var = v
      <4>1. IsIterator(i)
        BY <3>6 DEF ReadUpTo, IsIterator
      <4> QED BY <3>5, <4>1, IteratorsAreSome
    <3>8. VarOf(it.var)' = var
      BY <2>1, <2>2, <3>4, <3>7 DEF VarOf
    <3> QED BY <3>4, <3>6, <3>7, <3>8 DEF ReadInv, Idle
  <2> QED BY <2>3, <2>4
<1>4. ASSUME Idle, UNCHANGED reading_vars PROVE ReadInv'
  BY <1>4 DEF ReadInv, Idle, reading_vars
<1>5. ASSUME Idle, NEW f \in Files,
             \/ OpenFile(f) \/ DestroyFile(f) \/ GetVarInfoList(f)
             \/ \E g \in Files : MoveFile(f, g) \/ AssignFile(f, g)
             \/ \E v \in Vars : ReadVar(v, f)
      PROVE  ReadInv'
  BY <1>4, <1>5 DEF OpenFile, DestroyFile, GetVarInfoList, MoveFile, AssignFile, ReadVar
<1>6. ASSUME Idle, NEW v \in Vars,
             \/ DestroyVar(v)
             \/ \E w \in Vars : CopyVar(v, w) \/ MoveVar(v, w) \/ AssignCopy(v, w) \/ AssignMove(v, w)
      PROVE  ReadInv'
  BY <1>4, <1>6 DEF DestroyVar, CopyVar, MoveVar, AssignCopy, AssignMove
<1> QED BY <1>1, <1>2, <1>3, <1>5, <1>6 DEF MatVariablesNext

LEMMA ReadsInOrder ==
  ASSUME ReadInv
  PROVE  VectorsInOrder
<1> SUFFICES ASSUME it # NoIterator
             PROVE  /\ Valid(it) =>
                         /\ SetLinearIndex(it.dims, it.linearIndex, it.row_major) = it.index
                         /\ LinearIndexIn(it.dims, it.index, it.row_major) = it.linearIndex
                    /\ ~Valid(it) =>
                         \A index \in Subscripts(it.dims) :
                           /\ LinearIndexIn(it.dims, index, it.row_major) \in DOMAIN val
                           /\ val[LinearIndexIn(it.dims, index, it.row_major)] = Element(VarOf(it.var), index)
  BY DEF VectorsInOrder
<1>1. PICK i, vector, var, n, dims, row_major :
        i = it /\ vector = val /\ var = VarOf(it.var) /\ n = Len(i.dims) /\ dims = i.dims /\ row_major = i.row_major
  OBVIOUS
<1>2. ReadUpTo(i, vector, var)
  BY <1>1 DEF ReadInv, Idle
<1>3. /\ IsDims(n, dims) /\ dims \in Seq(Nat) /\ row_major \in BOOLEAN /\ n = Len(dims) /\ i.linearIndex \in Nat
      /\ Valid(i) => /\ IsIndex(n, dims, i.index)
                     /\ LinearIndexIn(dims, i.index, row_major) = i.linearIndex
  BY <1>1, <1>2, ReadUpToIs
<1>4. ASSUME Valid(i) PROVE SetLinearIndex(dims, i.linearIndex, row_major) = i.index
  BY <1>3, <1>4, SubscriptsBack
<1>5. ASSUME ~Valid(i), NEW x \in Subscripts(dims), NEW m, m = LinearIndexIn(dims, x, row_major)
      PROVE  m \in DOMAIN vector /\ vector[m] = Element(var, x)
  <2>1. m \in Nat /\ NumEl(dims) \in Nat /\ m < NumEl(dims)
    <3>1. IsIndex(n, dims, x)
      BY <1>3, SubscriptsAre
    <3> QED BY <1>3, <1>5, <3>1, SubscriptsBack
  <2>2. m < i.linearIndex
    BY <1>1, <1>3, <1>5, <2>1 DEF Valid
  <2>3. DOMAIN vector = 0 .. NumEl(dims) - 1
    BY <1>1, <1>2 DEF ReadUpTo
  <2>4. vector[m] = Element(var, x)
    BY <1>1, <1>2, <1>5, <2>2 DEF ReadUpTo
  <2> QED BY <2>1, <2>3, <2>4
<1> QED BY <1>1, <1>3, <1>4, <1>5

-----------------------------------------------------------------------------
\* The theorems

\* The invariants of files and variables say when what matio gave is released.
LEMMA ReleasedInTime ==
  ASSUME FilesInv, VarsInv
  PROVE  ReleasedWithLastHolder
<1>1. ASSUME NEW d \in DOMAIN vardata
      PROVE  LET holders == {v \in Vars : p_vardata[v] = d}
             IN  /\ holders # {} => vardata[d].refcount > 0
                 /\ holders = {} /\ <<"data", d>> \notin forgotten => vardata[d].refcount = 0
  <2>1. PICK S, r : S = {v \in Vars : p_vardata[v] = d} /\ r = vardata[d].refcount
    OBVIOUS
  <2>2. Holders(p_vardata, d) = S /\ DOMAIN p_vardata = Vars
    BY <2>1 DEF VarsInv, Holders
  <2>3. IsFiniteSet(S) /\ Cardinality(S) \in Nat /\ (Cardinality(S) = 0 <=> S = {})
    <3>1. S \subseteq Vars
      BY <2>1
    <3> QED BY <3>1, ContentsAssumption, FS_Subset, FS_CardinalityType, FS_EmptySet
  <2>4. r \in Int /\ r >= Cardinality(S) /\ (<<"data", d>> \notin forgotten => r = Cardinality(S))
    <3>1. PICK R : R = [refcount : Int, varname : DOMAIN Contents, loaded : BOOLEAN]
      OBVIOUS
    <3>2. vardata \in Seq(R)
      BY <3>1 DEF VarsInv
    <3>3. vardata[d] \in R
      BY <3>2, LenProperties, ElementOfSeq
    <3>4. r \in Int
      BY <2>1, <3>1, <3>3
    <3> QED BY <2>1, <2>2, <3>4 DEF VarsInv
  <2>5. S # {} => r > 0
    BY <2>3, <2>4
  <2>6. S = {} /\ <<"data", d>> \notin forgotten => r = 0
    BY <2>3, <2>4
  <2> QED BY <2>1, <2>5, <2>6
<1>2. ASSUME NEW n \in DOMAIN opened
      PROVE  LET holders == {f \in Files : p_matfp[f] = n}
             IN  /\ Cardinality(holders) <= 1
                 /\ holders # {} => opened[n] = "open"
                 /\ holders = {} /\ <<"file", n>> \notin forgotten => opened[n] = "closed"
  <2>1. PICK S : S = {f \in Files : p_matfp[f] = n}
    OBVIOUS
  <2>2. Holders(p_matfp, n) = S
    BY <2>1 DEF FilesInv, Holders
  <2>3. Holds(n)
    <3>1. DOMAIN opened = 1 .. Len(opened)
      BY DEF FilesInv
    <3> QED BY <3>1 DEF Holds, Absent, NULL
  <2>4. S = {} \/ \E f : S = {f}
    BY <2>1, <2>3 DEF FilesInv
  <2>5. Cardinality(S) <= 1
    BY <2>4, FS_EmptySet, FS_Singleton
  <2> QED BY <2>1, <2>2, <2>5 DEF FilesInv
<1> QED BY <1>1, <1>2 DEF ReleasedWithLastHolder

\* What objects hold, and what has been read, is as the files have it: the invariants
\* are kept by every constructor, assignment and destructor of tools/ezmatio.h, and by
\* every turn of the loop of decodeValue.
THEOREM VariablesInvariance == MatVariablesSpec => [](FilesInv /\ VarsInv /\ ReadInv)
<1>1. MatVariablesInit => FilesInv /\ VarsInv /\ ReadInv
  BY FilesInvInit, VarsInvInit DEF MatVariablesInit, ReadInv, Idle
<1>2. FilesInv /\ VarsInv /\ ReadInv /\ [MatVariablesNext]_matio_vars => (FilesInv /\ VarsInv /\ ReadInv)'
  BY FilesInvNext, VarsInvNext, ReadInvNext
<1> QED BY <1>1, <1>2, PTL DEF MatVariablesSpec

\* The variables of a data file can be used wherever they have gone.
THEOREM VariablesUsableAlways == MatVariablesSpec => []VariablesUsable
<1>1. FilesInv /\ VarsInv /\ ReadInv => VariablesUsable
  BY ReleasedInTime, ReadsInOrder DEF VariablesUsable
<1> QED BY <1>1, VariablesInvariance, PTL

-----------------------------------------------------------------------------
\* The data that the walks use

\* A part of a sequence.
LEMMA Cut ==
  ASSUME NEW s \in Seq(Int), NEW n, n = Len(s), NEW a \in 1 .. n + 1, NEW b \in 0 .. n, a <= b + 1
  PROVE  /\ SubSeq(s, a, b) \in Seq(Int) /\ Len(SubSeq(s, a, b)) = b + 1 - a
         /\ DOMAIN SubSeq(s, a, b) = 1 .. b + 1 - a
         /\ \A i \in 1 .. b + 1 - a : SubSeq(s, a, b)[i] = s[i + a - 1]
<1>1. n \in Nat /\ a \in Int /\ b \in Int
  OBVIOUS
<1>2. ASSUME NEW i \in a .. b PROVE s[i] \in Int
  <2>1. i \in 1 .. n
    BY <1>1
  <2> QED BY <2>1
<1>3. PICK t : t = SubSeq(s, a, b)
  OBVIOUS
<1>4. /\ t \in Seq(Int) /\ Len(t) = IF a <= b THEN b - a + 1 ELSE 0
      /\ \A i \in 1 .. b - a + 1 : t[i] = s[a + i - 1]
  BY <1>1, <1>2, <1>3, SubSeqProperties
<1>5. Len(t) = b + 1 - a
  BY <1>1, <1>4
<1>6. DOMAIN t = 1 .. b + 1 - a
  BY <1>4, <1>5
<1>7. ASSUME NEW i \in 1 .. b + 1 - a PROVE t[i] = s[i + a - 1]
  <2>1. i \in 1 .. b - a + 1 /\ a + i - 1 = i + a - 1
    BY <1>1
  <2> QED BY <1>4, <2>1
<1> QED BY <1>3, <1>4, <1>5, <1>6, <1>7

Products(p, n, dims) ==
  /\ p[0] = 1 /\ NumEl(dims) = p[n]
  /\ \A i \in 1 .. n : p[i] = p[i - 1] * dims[i] /\ Stride(dims, i) = p[i - 1]

Places(l, n, dims, index) ==
  /\ l[0] = 0 /\ LinearIndex(dims, index) = l[n]
  /\ \A i \in 1 .. n : l[i] = l[i - 1] + index[i] * Stride(dims, i)

\* The strides are the products of the dimensions before.
LEMMA Strides ==
  ASSUME NEW dims \in Seq(Int), NEW n, n = Len(dims)
  PROVE  \E p \in [0 .. n -> Int] : Products(p, n, dims)
<1>1. n \in Nat
  OBVIOUS
<1>2. PICK p \in [0 .. n -> Int] : /\ p[0] = 1 /\ NumEl(dims) = p[n]
                                   /\ \A i \in 1 .. n : p[i] = p[i - 1] * dims[i]
  BY NumElSteps
<1>3. ASSUME NEW i \in 1 .. n PROVE Stride(dims, i) = p[i - 1]
  <2>1. PICK m \in 0 .. n - 1, s \in Seq(Int) : /\ m = i - 1 /\ s = SubSeq(dims, 1, m) /\ Len(s) = m
                                                /\ \A j \in 1 .. m : s[j] = dims[j]
    <3>1. i - 1 \in 0 .. n - 1 /\ i - 1 \in 0 .. n
      BY <1>1
    <3>2. /\ SubSeq(dims, 1, i - 1) \in Seq(Int) /\ Len(SubSeq(dims, 1, i - 1)) = i - 1
          /\ \A j \in 1 .. i - 1 : SubSeq(dims, 1, i - 1)[j] = dims[j]
      BY <1>1
    <3> QED BY <3>1, <3>2
  <2>2. PICK q \in [0 .. m -> Int] : /\ q[0] = 1 /\ NumEl(s) = q[m]
                                     /\ \A j \in 1 .. m : q[j] = q[j - 1] * s[j]
    <3>1. \E q \in [0 .. Len(s) -> Int] : /\ q[0] = 1 /\ NumEl(s) = q[Len(s)]
                                          /\ \A j \in 1 .. Len(s) : q[j] = q[j - 1] * s[j]
      BY NumElSteps
    <3>2. Len(s) = m
      BY <2>1
    <3> QED BY <3>1, <3>2
  <2>3. \A j \in 1 .. m : p[j - 1] = q[j - 1] => p[j] = q[j]
    <3>1. \A j \in 1 .. m : j \in 1 .. n
      BY <1>1, <2>1
    <3> QED BY <1>2, <2>1, <2>2, <3>1
  <2>4. m \in Nat /\ p[0] = q[0] /\ m \in 0 .. m
    BY <1>1, <1>2, <2>1, <2>2
  <2>5. \A j \in 0 .. m : p[j] = q[j]
    <3> DEFINE S == {j \in 0 .. m : p[j] = q[j]}
    <3>1. 0 \in S /\ \A j \in 1 .. m : j - 1 \in S => j \in S
      BY <2>3, <2>4
    <3> HIDE DEF S
    <3>2. \A j \in 0 .. m : j \in S
      BY <2>4, <3>1, UpSteps
    <3> QED BY <3>2 DEF S
  <2>6. NumEl(s) = p[m]
    BY <2>2, <2>4, <2>5
  <2> QED BY <2>1, <2>6 DEF Stride
<1> QED BY <1>2, <1>3 DEF Products

\* What LinearIndex goes through.
LEMMA LinearIndexSteps ==
  ASSUME NEW dims \in Seq(Int), NEW n, n = Len(dims), NEW index, Whole(n, index)
  PROVE  \E l \in [0 .. n -> Int] : Places(l, n, dims, index)
<1>1. PICK stride \in [1 .. n -> Int] : \A i \in 1 .. n : stride[i] = Stride(dims, i)
  <2>1. PICK p \in [0 .. n -> Int] : \A i \in 1 .. n : Stride(dims, i) = p[i - 1]
    BY Strides DEF Products
  <2>2. \A i \in 1 .. n : i - 1 \in 0 .. n
    OBVIOUS
  <2>3. \A i \in 1 .. n : Stride(dims, i) \in Int
    BY <2>1, <2>2
  <2>4. PICK stride : stride = [i \in 1 .. n |-> Stride(dims, i)]
    OBVIOUS
  <2>5. stride \in [1 .. n -> Int] /\ \A i \in 1 .. n : stride[i] = Stride(dims, i)
    BY <2>3, <2>4
  <2> QED BY <2>5
<1> DEFINE o == [k \in DOMAIN dims |-> k]
           D == DOMAIN o
           g == [jy \in (1 .. n) \X Int |-> jy[2] + index[jy[1]] * stride[jy[1]]]
           Folds(iter) == iter = [s \in SUBSET D |->
                                    IF s = {} THEN 0
                                    ELSE iter[s \ {Max(s)}] + index[o[Max(s)]] * Stride(dims, o[Max(s)])]
<1>2. D = 1 .. n /\ n \in Nat /\ \A k \in D : o[k] = k
  OBVIOUS
<1>3. \E iter : Folds(iter)
  <2> HIDE DEF o
  <2>1. g \in [(1 .. n) \X Int -> Int]
    <3>1. \A k \in 1 .. n : stride[k] \in Int /\ index[k] \in Int
      BY <1>1 DEF Whole
    <3>2. \A jy \in (1 .. n) \X Int : jy[2] + index[jy[1]] * stride[jy[1]] \in Int
      BY <1>2, <3>1
    <3> QED BY <3>2
  <2>2. \A j \in 1 .. n, y \in Int : g[<<j, y>>] = y + index[j] * stride[j]
    OBVIOUS
  <2> HIDE DEF g
  <2>3. PICK iter \in [SUBSET (1 .. n) -> Int] : FoldsLeft(iter, n, 0, g)
    <3>1. PICK zero \in Int : zero = 0
      OBVIOUS
    <3>2. \E iter \in [SUBSET (1 .. n) -> Int] : FoldsLeft(iter, n, zero, g)
      BY <1>2, <2>1, LeftFold
    <3> QED BY <3>1, <3>2
  <2>4. \A s \in SUBSET (1 .. n) :
             iter[s] = IF s = {} THEN 0
                       ELSE iter[s \ {Max(s)}] + index[o[Max(s)]] * Stride(dims, o[Max(s)])
    <3>1. \A s \in SUBSET (1 .. n) : s # {} => Max(s) \in 1 .. n
      BY <1>2, Largest
    <3>2. \A s \in SUBSET (1 .. n) : s # {} => o[Max(s)] = Max(s) /\ Stride(dims, Max(s)) = stride[Max(s)]
      BY <1>1, <1>2, <3>1
    <3> SUFFICES ASSUME NEW s \in SUBSET (1 .. n)
                 PROVE  iter[s] = IF s = {} THEN 0
                                  ELSE iter[s \ {Max(s)}] + index[o[Max(s)]] * Stride(dims, o[Max(s)])
      OBVIOUS
    <3>3. CASE s = {}
      BY <2>3, <3>3 DEF FoldsLeft
    <3>4. CASE s # {}
      <4>1. PICK t \in SUBSET (1 .. n), j \in 1 .. n : t = s \ {Max(s)} /\ j = Max(s)
        <5>1. s \ {Max(s)} \in SUBSET (1 .. n)
          OBVIOUS
        <5> QED BY <3>1, <3>4, <5>1
      <4>2. iter[s] = g[<<j, iter[t]>>]
        BY <2>3, <3>4, <4>1 DEF FoldsLeft
      <4>3. iter[t] \in Int
        BY <2>3
      <4>4. iter[s] = iter[t] + index[j] * stride[j]
        BY <2>2, <4>2, <4>3
      <4>5. o[j] = j /\ stride[j] = Stride(dims, o[j])
        BY <3>2, <3>4, <4>1
      <4> QED BY <3>4, <4>1, <4>4, <4>5
    <3> QED BY <3>3, <3>4
  <2>5. D = 1 .. n
    BY <1>2
  <2> DEFINE iter0 == [s \in SUBSET D |->
                        IF s = {} THEN 0
                        ELSE iter[s \ {Max(s)}] + index[o[Max(s)]] * Stride(dims, o[Max(s)])]
  <2> HIDE DEF D
  <2>6. iter = [s \in SUBSET D |-> iter[s]]
    BY <2>3, <2>5
  <2>7. \A s \in SUBSET D : iter[s] = iter0[s]
    BY <2>4, <2>5
  <2>8. iter = iter0
    BY <2>6, <2>7
  <2> QED BY <2>8
<1>4. PICK iter : Folds(iter) /\ LinearIndex(dims, index) = iter[D]
  BY <1>3 DEF LinearIndex, FoldLeft, MapThenFoldSet
<1> DEFINE l == [i \in 0 .. n |-> iter[1 .. i]]
<1>5. l[0] = 0 /\ LinearIndex(dims, index) = l[n]
  <2>1. 1 .. 0 = {}
    OBVIOUS
  <2>2. l[0] = iter[{}] /\ l[n] = iter[D] /\ {} \in SUBSET D
    BY <1>2, <2>1
  <2> HIDE DEF l, D
  <2> QED BY <1>4, <2>2
<1>6. \A i \in 1 .. n : l[i] = l[i - 1] + index[i] * Stride(dims, i)
  <2> SUFFICES ASSUME NEW i \in 1 .. n PROVE l[i] = l[i - 1] + index[i] * Stride(dims, i)
    OBVIOUS
  <2>1. (1 .. i) \in SUBSET D /\ i \in Nat \ {0} /\ i - 1 \in 0 .. n /\ Max(1 .. i) = i /\ o[i] = i
    BY <1>2, MaxUpTo
  <2> HIDE DEF o
  <2>2. iter[1 .. i] = iter[(1 .. i) \ {i}] + index[i] * Stride(dims, i)
    <3>1. PICK s \in SUBSET D : s = 1 .. i /\ s # {} /\ Max(s) = i
      <4>1. 1 .. i # {}
        BY <2>1
      <4> QED BY <2>1, <4>1
    <3> HIDE DEF D
    <3>2. iter[s] = iter[s \ {Max(s)}] + index[o[Max(s)]] * Stride(dims, o[Max(s)])
      BY <1>4, <3>1
    <3> QED BY <2>1, <3>1, <3>2
  <2>3. iter[1 .. i] = iter[1 .. i - 1] + index[i] * Stride(dims, i)
    BY <2>1, <2>2, MaxUpTo
  <2>4. l[i] = iter[1 .. i] /\ l[i - 1] = iter[1 .. i - 1]
    BY <2>1
  <2> HIDE DEF l
  <2> QED BY <2>3, <2>4
<1>7. l \in [0 .. n -> Int]
  <2>1. \A i \in 1 .. n : index[i] \in Int /\ Stride(dims, i) \in Int
    BY <1>1 DEF Whole
  <2> HIDE DEF l
  <2>2. \A i \in 1 .. n : l[i - 1] \in Int => l[i] \in Int
    <3> SUFFICES ASSUME NEW i \in 1 .. n, l[i - 1] \in Int PROVE l[i] \in Int
      OBVIOUS
    <3>1. PICK a \in Int, b \in Int, c \in Int : a = l[i - 1] /\ b = index[i] /\ c = Stride(dims, i)
      BY <2>1
    <3>2. l[i] = a + b * c
      BY <1>6, <3>1
    <3> QED BY <3>2
  <2>3. \A i \in 0 .. n : l[i] \in Int
    <3>1. l[0] \in Int
      BY <1>5
    <3>2. n \in Nat
      BY <1>2
    <3> QED BY <2>2, <3>1, <3>2, StepsTyped
  <2> QED BY <2>3 DEF l
<1> HIDE DEF l
<1> QED BY <1>5, <1>6, <1>7 DEF Places

\* The first two subscripts are those of a matrix, the others say which one.
InParts(dims, index, outer, rest) ==
  /\ LinearIndex(dims, index) =
       index[1] + dims[1] * index[2] + dims[1] * dims[2] * LinearIndex(outer, rest)
  /\ LinearIndex(outer, rest) \in Int

LEMMA LinearParts ==
  ASSUME NEW dims \in Seq(Int), NEW n, n = Len(dims), n >= 2,
         NEW index \in [1 .. n -> Int],
         NEW outer, outer = SubSeq(dims, 3, n), NEW rest, rest = SubSeq(index, 3, n)
  PROVE  InParts(dims, index, outer, rest)
<1> DEFINE m == n - 2
<1>1. n \in Nat /\ m \in Nat /\ DOMAIN dims = 1 .. n /\ \A k \in 1 .. n : dims[k] \in Int /\ index[k] \in Int
  OBVIOUS
<1>2. outer \in Seq(Int) /\ Len(outer) = m
  <2>1. 3 \in 1 .. n + 1 /\ n \in 0 .. n /\ 3 <= n + 1 /\ n + 1 - 3 = m
    BY <1>1
  <2> HIDE DEF m
  <2> QED BY <2>1, Cut
<1>2a. \A i \in 1 .. m : outer[i] = dims[i + 2] /\ rest[i] = index[i + 2]
  <2>1. index \in Seq(Int) /\ Len(index) = n
    BY <1>1
  <2>2. \A i \in 1 .. m : (i + 3) - 1 = i + 2
    BY <1>1
  <2>3. \A i \in 1 .. m : outer[i] = dims[(i + 3) - 1]
    BY <1>1
  <2>4. \A i \in 1 .. m : rest[i] = index[(i + 3) - 1]
    BY <1>1, <2>1
  <2> QED BY <2>2, <2>3, <2>4
<1>3. Whole(n, index) /\ Whole(m, rest)
  BY <1>1, <1>2a DEF Whole
<1>4. PICK p \in [0 .. n -> Int] :
        /\ p[0] = 1 /\ NumEl(dims) = p[n]
        /\ \A i \in 1 .. n : p[i] = p[i - 1] * dims[i] /\ Stride(dims, i) = p[i - 1]
  <2>1. PICK p \in [0 .. n -> Int] : Products(p, n, dims)
    BY Strides
  <2> QED BY <2>1 DEF Products
<1>5. PICK l \in [0 .. n -> Int] :
        /\ l[0] = 0 /\ LinearIndex(dims, index) = l[n]
        /\ \A i \in 1 .. n : l[i] = l[i - 1] + index[i] * Stride(dims, i)
  <2>1. PICK l \in [0 .. n -> Int] : Places(l, n, dims, index)
    BY <1>3, LinearIndexSteps
  <2> QED BY <2>1 DEF Places
<1>6. PICK q \in [0 .. m -> Int] :
        /\ q[0] = 1 /\ NumEl(outer) = q[m]
        /\ \A i \in 1 .. m : q[i] = q[i - 1] * outer[i] /\ Stride(outer, i) = q[i - 1]
  <2>1. m = Len(outer)
    BY <1>2
  <2> HIDE DEF m
  <2>2. PICK q \in [0 .. m -> Int] : Products(q, m, outer)
    BY <1>2, <2>1, Strides
  <2> QED BY <2>2 DEF Products
<1>7. PICK r \in [0 .. m -> Int] :
        /\ r[0] = 0 /\ LinearIndex(outer, rest) = r[m]
        /\ \A i \in 1 .. m : r[i] = r[i - 1] + rest[i] * Stride(outer, i)
  <2>1. m = Len(outer)
    BY <1>2
  <2> HIDE DEF m
  <2>2. PICK r \in [0 .. m -> Int] : Places(r, m, outer, rest)
    BY <1>2, <1>3, <2>1, LinearIndexSteps
  <2> QED BY <2>2 DEF Places
<1>8. PICK a \in Int, b \in Int, x \in Int, y \in Int :
        a = dims[1] /\ b = dims[2] /\ x = index[1] /\ y = index[2]
  <2>1. 1 \in 1 .. n /\ 2 \in 1 .. n
    BY <1>1
  <2> QED BY <1>1, <2>1
<1> DEFINE S == {i \in 0 .. m : p[i + 2] = a * b * q[i] /\ l[i + 2] = x + a * y + a * b * r[i]}
<1>9. 0 \in S
  <2>1. 1 \in 1 .. n /\ 2 \in 1 .. n /\ 1 - 1 = 0 /\ 2 - 1 = 1 /\ 0 + 2 = 2 /\ 0 \in 0 .. m
    BY <1>1
  <2>2. p[1] = 1 * a /\ p[2] = p[1] * b /\ Stride(dims, 1) = 1 /\ Stride(dims, 2) = p[1]
    BY <1>4, <1>8, <2>1
  <2>3. l[1] = 0 + x * 1 /\ l[2] = l[1] + y * p[1]
    BY <1>5, <1>8, <2>1, <2>2
  <2>4. p[1] = a /\ l[1] = x
    BY <2>2, <2>3
  <2>5. p[2] = a * b * 1 /\ l[2] = x + a * y + a * b * 0
    BY <2>2, <2>3, <2>4
  <2> QED BY <1>6, <1>7, <2>1, <2>5
<1>10. ASSUME NEW j \in 1 .. m, j - 1 \in S PROVE j \in S
  <2>1. /\ j \in 0 .. m /\ j - 1 \in 0 .. m /\ j + 2 \in 1 .. n /\ (j - 1) + 2 = j + 1 /\ (j + 2) - 1 = j + 1
        /\ j + 1 \in 0 .. n /\ j + 2 \in 0 .. n
    BY <1>1
  <2>2. PICK q0 \in Int, r0 \in Int, d \in Int, i \in Int :
          q0 = q[j - 1] /\ r0 = r[j - 1] /\ d = dims[j + 2] /\ i = index[j + 2]
    BY <1>1, <1>6, <1>7, <2>1
  <2>3. p[j + 1] = a * b * q0 /\ l[j + 1] = x + a * y + a * b * r0
    BY <1>10, <2>1, <2>2
  <2>4. p[j + 2] = p[j + 1] * d /\ Stride(dims, j + 2) = p[j + 1]
    BY <1>4, <2>1, <2>2
  <2>5. l[j + 2] = l[j + 1] + i * p[j + 1]
    BY <1>5, <2>1, <2>2, <2>4
  <2>6. q[j] = q0 * d /\ r[j] = r0 + i * q0
    BY <1>2a, <1>6, <1>7, <2>2
  <2>7. (a * b * q0) * d = a * b * (q0 * d)
    OBVIOUS
  <2>8. x + a * y + a * b * r0 + i * (a * b * q0) = x + a * y + a * b * (r0 + i * q0)
    OBVIOUS
  <2> QED BY <2>1, <2>3, <2>4, <2>5, <2>6, <2>7, <2>8
<1>11. m \in S
  <2>1. \A j \in 0 .. m : j \in S
    <3> HIDE DEF S, m
    <3> QED BY <1>1, <1>9, <1>10, UpSteps
  <2> HIDE DEF S
  <2> QED BY <1>1, <2>1
<1>12. p[n] = a * b * q[m] /\ l[n] = x + a * y + a * b * r[m]
  <2>1. m + 2 = n
    BY <1>1
  <2> HIDE DEF m
  <2> QED BY <1>11, <2>1
<1>13. q[m] \in Int /\ r[m] \in Int
  <2>1. m \in 0 .. m
    BY <1>1
  <2> HIDE DEF m
  <2> QED BY <1>6, <1>7, <2>1
<1> QED BY <1>5, <1>7, <1>8, <1>12, <1>13 DEF InParts

\* A variable has no negative number of elements.
LEMMA NoFewer ==
  ASSUME NEW dims \in Seq(Nat)
  PROVE  NumEl(dims) \in Nat
<1> DEFINE n == Len(dims)
<1>1. n \in Nat /\ dims \in Seq(Int) /\ \A k \in 1 .. n : dims[k] \in Nat
  OBVIOUS
<1>2. PICK p \in [0 .. n -> Int] : /\ p[0] = 1 /\ NumEl(dims) = p[n]
                                   /\ \A i \in 1 .. n : p[i] = p[i - 1] * dims[i]
  BY <1>1, NumElSteps
<1>3. \A i \in 1 .. n : p[i - 1] \in Nat => p[i] \in Nat
  <2> SUFFICES ASSUME NEW i \in 1 .. n, p[i - 1] \in Nat PROVE p[i] \in Nat
    OBVIOUS
  <2>1. PICK a \in Nat, b \in Nat : a = p[i - 1] /\ b = dims[i]
    BY <1>1
  <2>2. p[i] = a * b
    BY <1>2, <2>1
  <2> QED BY <2>2
<1>4. p[0] \in Nat
  BY <1>2
<1>5. \A i \in 0 .. n : p[i] \in Nat
  <2> HIDE DEF n
  <2> QED BY <1>1, <1>3, <1>4, StepsTyped
<1> QED BY <1>1, <1>2, <1>5

\* A matrix of one column that is read from any number of dimensions: all elements, in
\* their order.
LEMMA ColumnRead ==
  ASSUME NEW var, IsVariable(var), CanReadMatrix(var, FALSE, Dynamic, 1),
         NEW rows, rows = NumEl(var.dims)
  PROVE  /\ rows \in Nat /\ MatrixValue(var).rows = rows
         /\ \A k \in 1 .. rows : MatrixValue(var).at[<<k - 1, 0>>] = var.data[k - 1]
<1> DEFINE dims == var.dims
           n == Len(dims)
           stacked == DimsStackedCols(dims)
<1>1. dims \in Seq(Nat) /\ n \in Nat /\ n >= 2 /\ dims \in Seq(Int) /\ \A k \in 1 .. n : dims[k] \in Nat
  BY DEF IsVariable
<1>2. rows \in Nat
  BY <1>1, NoFewer
<1>3. stacked[2] = 1
  <2>1. MatchesWanted(stacked, <<Dynamic, 1>>)
    BY DEF CanReadMatrix, CheckShape, VarShape
  <2> HIDE DEF stacked
  <2> QED BY <2>1 DEF MatchesWanted
<1>4. PICK p \in [0 .. n -> Int] : /\ p[0] = 1 /\ NumEl(dims) = p[n]
                                   /\ \A i \in 1 .. n : p[i] = p[i - 1] * dims[i] /\ Stride(dims, i) = p[i - 1]
  <2> HIDE DEF dims
  <2>1. PICK p \in [0 .. n -> Int] : Products(p, n, dims)
    BY <1>1, Strides
  <2> QED BY <2>1 DEF Products
<1>5. stacked[1] = rows
  <2>1. CASE n = 2
    <3>1. stacked = dims
      BY <2>1 DEF DimsStackedCols
    <3>2. p[2] = p[1] * dims[2] /\ p[1] = p[0] * dims[1]
      <4>1. 1 \in 1 .. n /\ 2 \in 1 .. n /\ 2 - 1 = 1 /\ 1 - 1 = 0
        BY <2>1
      <4> QED BY <1>4, <4>1
    <3>3. dims[2] = 1 /\ dims[1] \in Int
      BY <1>1, <1>3, <2>1, <3>1
    <3> HIDE DEF stacked
    <3>4. p[2] = dims[1]
      BY <1>4, <3>2, <3>3
    <3> QED BY <1>4, <2>1, <3>1, <3>4
  <2>2. CASE n # 2
    <3>1. stacked = <<NumEl(Front(dims)), Last(dims)>>
      BY <2>2 DEF DimsStackedCols
    <3>2. Front(dims) = SubSeq(dims, 1, n - 1) /\ Last(dims) = dims[n]
      BY DEF Front, Last
    <3>3. NumEl(Front(dims)) = Stride(dims, n)
      BY <3>2 DEF Stride
    <3>4. n \in 1 .. n /\ n - 1 \in 0 .. n
      BY <1>1
    <3>5. dims[n] = 1
      BY <1>3, <3>1, <3>2
    <3>6. p[n] = p[n - 1] * 1 /\ Stride(dims, n) = p[n - 1] /\ p[n - 1] \in Int
      BY <1>4, <3>4, <3>5
    <3> HIDE DEF stacked, n, dims
    <3>7. p[n] = p[n - 1]
      BY <3>6
    <3> QED BY <1>4, <3>1, <3>3, <3>6, <3>7 DEF dims
  <2> QED BY <2>1, <2>2
<1>6. MatrixValue(var).rows = rows
  BY <1>5 DEF MatrixValue, InitEigenMatrix
<1>7. ASSUME NEW k \in 1 .. rows
      PROVE  MatrixValue(var).at[<<k - 1, 0>>] = var.data[k - 1]
  <2>1. MatrixValue(var).at = [ij \in (0 .. rows - 1) \X (0 .. 1 - 1) |->
                                 var.data[0 + ij[1] + rows * ij[2]]]
    BY <1>3, <1>5 DEF MatrixValue, InitEigenMatrix
  <2>2. <<k - 1, 0>> \in (0 .. rows - 1) \X (0 .. 1 - 1) /\ 0 + (k - 1) + rows * 0 = k - 1
    BY <1>2
  <2> QED BY <2>1, <2>2
<1> QED BY <1>2, <1>6, <1>7

\* The matrices in a list of them.
LEMMA MatrixRead ==
  ASSUME NEW var, IsVariable(var), NEW index \in Subscripts(var.dims),
         NEW n, n = Len(var.dims),
         NEW k, k = 1 + LinearIndex(SubSeq(var.dims, 3, n), SubSeq(index, 3, n)),
         k \in DOMAIN MatricesValue(var)
  PROVE  MatricesValue(var)[k].at[<<index[1], index[2]>>] = Element(var, index)
<1> DEFINE dims == var.dims
           inner == SubSeq(dims, 1, 2)
<1>1. dims \in Seq(Nat) /\ dims \in Seq(Int) /\ n \in Nat /\ n >= 2 /\ \A i \in 1 .. n : dims[i] \in Nat
  BY DEF IsVariable
<1>2. index \in [1 .. n -> Int] /\ \A i \in 1 .. n : index[i] \in 0 .. dims[i] - 1
  BY <1>1, SubscriptsAre DEF IsIndex, InBox
<1>3. PICK a \in Nat, b \in Nat, x \in Nat, y \in Nat :
        /\ a = dims[1] /\ b = dims[2] /\ x = index[1] /\ y = index[2]
        /\ x \in 0 .. a - 1 /\ y \in 0 .. b - 1
  <2>1. 1 \in 1 .. n /\ 2 \in 1 .. n
    BY <1>1
  <2>2. \A d \in Nat : \A z \in 0 .. d - 1 : z \in Nat
    OBVIOUS
  <2> QED BY <1>1, <1>2, <2>1, <2>2
<1>4. PICK lin \in Int : /\ lin = LinearIndex(SubSeq(dims, 3, n), SubSeq(index, 3, n))
                         /\ LinearIndex(dims, index) = x + a * y + a * b * lin
  <2>1. PICK d \in Seq(Int) : d = dims
    BY <1>1
  <2>2. n = Len(d)
    BY <2>1
  <2>3. PICK outer, rest : outer = SubSeq(d, 3, n) /\ rest = SubSeq(index, 3, n)
    OBVIOUS
  <2>4. n >= 2 /\ index \in [1 .. n -> Int]
    BY <1>1, <1>2
  <2>5. InParts(d, index, outer, rest)
    BY <2>2, <2>3, <2>4, LinearParts
  <2> HIDE DEF dims
  <2> QED BY <1>3, <2>1, <2>3, <2>5 DEF InParts
<1>5. Len(inner) = 2 /\ inner[1] = a /\ inner[2] = b
  BY <1>1, <1>3
<1>6. MatricesValue(var)[k] = InitEigenMatrix(var, inner, (k - 1) * a * b)
  <2>1. k - 1 = lin /\ k = 1 + lin
    BY <1>4
  <2>2. OffsetOf(dims, k - 1) = (k - 1) * a * b
    BY <1>3 DEF OffsetOf
  <2> QED BY <2>2 DEF MatricesValue
<1>7. InitEigenMatrix(var, inner, (k - 1) * a * b).at =
        [ij \in (0 .. a - 1) \X (0 .. b - 1) |-> var.data[((k - 1) * a * b) + ij[1] + a * ij[2]]]
  <2>1. DimsStackedCols(inner) = inner
    BY <1>5 DEF DimsStackedCols
  <2> HIDE DEF inner
  <2> QED BY <1>5, <2>1 DEF InitEigenMatrix
<1>8. <<x, y>> \in (0 .. a - 1) \X (0 .. b - 1)
  BY <1>3
<1>9. MatricesValue(var)[k].at[<<x, y>>] = var.data[((k - 1) * a * b) + x + a * y]
  BY <1>6, <1>7, <1>8
<1>10. ((k - 1) * a * b) + x + a * y = x + a * y + a * b * lin
  <2>1. k - 1 = lin
    BY <1>4
  <2> QED BY <2>1
<1> HIDE DEF dims
<1> QED BY <1>3, <1>4, <1>9, <1>10 DEF Element, dims

\* One after the other, and those that were not observed are left out.
NonZero(freq, n) == {k \in 1 .. n : freq[k] # 0}

UpToRank(freq, n, k) == {j \in NonZero(freq, n) : j <= k}

InTurn(freq, rec, n, meas) ==
  /\ Len(meas) = Cardinality(NonZero(freq, n))
  /\ \A k \in NonZero(freq, n) : meas[Cardinality(UpToRank(freq, n, k))] = rec[k]

Gathers(m, n, freq, rec) ==
  m[0] = <<>> /\ \A i \in 1 .. n : m[i] = IF freq[i] = 0 THEN m[i - 1] ELSE Append(m[i - 1], rec[i])

LEMMA GatheredInTurn ==
  ASSUME NEW n \in Nat, NEW freq, NEW Meas, NEW rec \in [1 .. n -> Meas],
         NEW m \in [0 .. n -> Seq(Meas)], Gathers(m, n, freq, rec)
  PROVE  InTurn(freq, rec, n, m[n])
<1> DEFINE S == {i \in 0 .. n : InTurn(freq, rec, i, m[i])}
<1>1. 0 \in S
  <2>1. NonZero(freq, 0) = {}
    BY DEF NonZero
  <2>2. m[0] = <<>> /\ Len(m[0]) = 0 /\ 0 \in 0 .. n
    BY DEF Gathers
  <2>3. Cardinality(NonZero(freq, 0)) = 0
    BY <2>1, FS_EmptySet
  <2>4. InTurn(freq, rec, 0, m[0])
    BY <2>1, <2>2, <2>3 DEF InTurn
  <2> QED BY <2>2, <2>4
<1>2. ASSUME NEW i \in 1 .. n, i - 1 \in S PROVE i \in S
  <2>1. i \in Nat /\ i - 1 \in 0 .. n /\ i \in 0 .. n /\ InTurn(freq, rec, i - 1, m[i - 1])
    BY <1>2
  <2>2. PICK c, C : c = NonZero(freq, i - 1) /\ C = NonZero(freq, i)
    OBVIOUS
  <2>3. IsFiniteSet(c) /\ Cardinality(c) \in Nat /\ c \subseteq 1 .. i - 1
    <3>1. IsFiniteSet(1 .. i - 1)
      BY <2>1, FS_Interval
    <3>2. c \subseteq 1 .. i - 1
      BY <2>2 DEF NonZero
    <3>3. IsFiniteSet(c)
      BY <3>1, <3>2, FS_Subset
    <3> QED BY <3>2, <3>3, FS_CardinalityType
  <2>4. \A k \in c : UpToRank(freq, i, k) = UpToRank(freq, i - 1, k) /\ k \in 1 .. i - 1
    BY <2>1, <2>2, <2>3 DEF UpToRank, NonZero
  <2>5. \A k \in c : m[i - 1][Cardinality(UpToRank(freq, i - 1, k))] = rec[k]
    BY <2>1, <2>2 DEF InTurn
  <2>6. m[i - 1] \in Seq(Meas) /\ Len(m[i - 1]) = Cardinality(c)
    BY <2>1, <2>2 DEF InTurn
  <2>7. CASE freq[i] = 0
    <3>1. C = c
      BY <2>1, <2>2, <2>7 DEF NonZero
    <3>2. m[i] = m[i - 1]
      BY <2>7 DEF Gathers
    <3>3. Len(m[i]) = Cardinality(C) /\ \A k \in C : m[i][Cardinality(UpToRank(freq, i, k))] = rec[k]
      BY <2>4, <2>5, <2>6, <3>1, <3>2
    <3> QED BY <2>1, <2>2, <3>3 DEF InTurn
  <2>8. CASE freq[i] # 0
    <3>1. C = c \cup {i} /\ i \notin c
      BY <2>1, <2>2, <2>8 DEF NonZero
    <3>2. Cardinality(C) = Cardinality(c) + 1
      BY <2>3, <3>1, FS_AddElement
    <3>3. m[i] = Append(m[i - 1], rec[i]) /\ rec[i] \in Meas
      BY <2>8 DEF Gathers
    <3>4. /\ Len(m[i]) = Cardinality(c) + 1 /\ m[i][Cardinality(c) + 1] = rec[i]
          /\ \A r \in 1 .. Cardinality(c) : m[i][r] = m[i - 1][r]
      <4>1. PICK s \in Seq(Meas), l \in Nat, e \in Meas :
              s = m[i - 1] /\ l = Cardinality(c) /\ e = rec[i] /\ Len(s) = l /\ m[i] = Append(s, e)
        BY <2>3, <2>6, <3>3
      <4>2. Len(Append(s, e)) = l + 1 /\ Append(s, e)[l + 1] = e /\ \A r \in 1 .. l : Append(s, e)[r] = s[r]
        BY <4>1
      <4> QED BY <4>1, <4>2
    <3>5. ASSUME NEW k \in c
          PROVE  m[i][Cardinality(UpToRank(freq, i, k))] = rec[k]
      <4>1. PICK u : u = UpToRank(freq, i - 1, k)
        OBVIOUS
      <4>2. u \subseteq c /\ k \in u
        BY <2>2, <2>3, <4>1 DEF UpToRank
      <4>3. Cardinality(u) <= Cardinality(c) /\ IsFiniteSet(u)
        BY <2>3, <4>2, FS_Subset
      <4>4. Cardinality(u) \in Nat /\ Cardinality(u) # 0
        BY <4>2, <4>3, FS_CardinalityType, FS_EmptySet
      <4>5. Cardinality(u) \in 1 .. Cardinality(c)
        BY <2>3, <4>3, <4>4
      <4> QED BY <2>4, <2>5, <3>4, <4>1, <4>5
    <3>6. UpToRank(freq, i, i) = C
      BY <2>2, <2>3, <3>1 DEF UpToRank
    <3>7. m[i][Cardinality(UpToRank(freq, i, i))] = rec[i]
      BY <3>2, <3>4, <3>6
    <3>8. Len(m[i]) = Cardinality(C) /\ \A k \in C : m[i][Cardinality(UpToRank(freq, i, k))] = rec[k]
      BY <3>1, <3>2, <3>4, <3>5, <3>7
    <3> QED BY <2>1, <2>2, <3>8 DEF InTurn
  <2> QED BY <2>7, <2>8
<1>3. \A i \in 0 .. n : i \in S
  <2> HIDE DEF S
  <2> QED BY <1>1, <1>2, UpSteps
<1>4. n \in S
  <2> HIDE DEF S
  <2> QED BY <1>3
<1> QED BY <1>4

\* What MeasurementData gathers is that.
LEMMA MeasurementsInTurn ==
  ASSUME NEW n \in Nat, DOMAIN Effects = 1 .. n, NEW freq, freq = [k \in 1 .. n |-> Frequency(k)],
         NEW rec, rec = [k \in 1 .. n |-> [E |-> Effects[k], n |-> Frequency(k)]]
  PROVE  InTurn(freq, rec, n, MeasurementData)
<1> DEFINE Meas == {rec[k] : k \in 1 .. n}
           R == Seq(Meas)
           o == [k \in DOMAIN Effects |-> k]
           D == DOMAIN o
           g == [jy \in (1 .. n) \X R |-> IF freq[jy[1]] = 0 THEN jy[2] ELSE Append(jy[2], rec[jy[1]])]
           Folds(iter) == iter = [s \in SUBSET D |->
                                    IF s = {} THEN <<>>
                                    ELSE IF Frequency(o[Max(s)]) = 0 THEN iter[s \ {Max(s)}]
                                         ELSE Append(iter[s \ {Max(s)}],
                                                     [E |-> Effects[o[Max(s)]], n |-> Frequency(o[Max(s)])])]
<1>1. D = 1 .. n /\ \A k \in D : o[k] = k
  OBVIOUS
<1>2. \A k \in 1 .. n : /\ freq[k] = Frequency(k) /\ rec[k] = [E |-> Effects[k], n |-> Frequency(k)]
                        /\ rec[k] \in Meas
  OBVIOUS
<1>3. \E iter : Folds(iter)
  <2> HIDE DEF o, Meas
  <2>1. g \in [(1 .. n) \X R -> R]
    <3>1. \A jy \in (1 .. n) \X R : Append(jy[2], rec[jy[1]]) \in R
      BY <1>2
    <3> HIDE DEF R
    <3>2. \A jy \in (1 .. n) \X R : (IF freq[jy[1]] = 0 THEN jy[2] ELSE Append(jy[2], rec[jy[1]])) \in R
      BY <3>1
    <3> QED BY <3>2
  <2>2. \A j \in 1 .. n, y \in R : g[<<j, y>>] = IF freq[j] = 0 THEN y ELSE Append(y, rec[j])
    OBVIOUS
  <2> HIDE DEF g
  <2>3. PICK iter \in [SUBSET (1 .. n) -> R] : FoldsLeft(iter, n, <<>>, g)
    <3>1. PICK none \in R : none = <<>>
      <4>1. <<>> \in Seq(Meas)
        OBVIOUS
      <4> QED BY <4>1
    <3> HIDE DEF R
    <3>2. \E iter \in [SUBSET (1 .. n) -> R] : FoldsLeft(iter, n, none, g)
      BY <2>1, LeftFold
    <3> QED BY <3>1, <3>2
  <2> DEFINE folded == [s \in SUBSET D |->
                          IF s = {} THEN <<>>
                          ELSE IF Frequency(o[Max(s)]) = 0 THEN iter[s \ {Max(s)}]
                               ELSE Append(iter[s \ {Max(s)}],
                                           [E |-> Effects[o[Max(s)]], n |-> Frequency(o[Max(s)])])]
  <2> HIDE DEF R
  <2>4. ASSUME NEW s \in SUBSET (1 .. n)
        PROVE  iter[s] = folded[s]
    <3>1. s \in SUBSET D
      BY <1>1
    <3>2. CASE s = {}
      <4>1. iter[s] = <<>>
        BY <2>3, <3>2 DEF FoldsLeft
      <4>2. folded[s] = <<>>
        BY <3>1, <3>2
      <4> QED BY <4>1, <4>2
    <3>3. CASE s # {}
      <4>1. PICK t \in SUBSET (1 .. n), j \in 1 .. n : t = s \ {Max(s)} /\ j = Max(s)
        <5>1. s \ {Max(s)} \in SUBSET (1 .. n)
          OBVIOUS
        <5>2. Max(s) \in 1 .. n
          BY <3>3, Largest
        <5> QED BY <5>1, <5>2
      <4>2. iter[s] = g[<<j, iter[t]>>]
        BY <2>3, <3>3, <4>1 DEF FoldsLeft
      <4>3. iter[t] \in R
        BY <2>3
      <4>4. iter[s] = IF freq[j] = 0 THEN iter[t] ELSE Append(iter[t], rec[j])
        BY <2>2, <4>2, <4>3
      <4>5. o[j] = j /\ freq[j] = Frequency(o[j]) /\ rec[j] = [E |-> Effects[o[j]], n |-> Frequency(o[j])]
        BY <1>1, <1>2
      <4>6. folded[s] = IF Frequency(o[j]) = 0 THEN iter[t]
                        ELSE Append(iter[t], [E |-> Effects[o[j]], n |-> Frequency(o[j])])
        BY <3>1, <3>3, <4>1
      <4> HIDE DEF folded
      <4> QED BY <4>4, <4>5, <4>6
    <3> QED BY <3>2, <3>3
  <2>5. iter = [s \in SUBSET D |-> iter[s]]
    BY <1>1, <2>3
  <2> HIDE DEF folded, D
  <2>6. iter = folded
    <3>1. \A s \in SUBSET D : iter[s] = folded[s]
      BY <1>1, <2>4
    <3>2. folded = [s \in SUBSET D |-> folded[s]]
      BY DEF folded
    <3> QED BY <2>5, <3>1, <3>2
  <2> QED BY <2>3, <2>6 DEF folded
<1>4. PICK iter : Folds(iter) /\ MeasurementData = iter[D]
  <2>1. MeasurementData =
          FoldLeft(LAMBDA meas, k : IF Frequency(k) = 0 THEN meas
                                    ELSE Append(meas, [E |-> Effects[k], n |-> Frequency(k)]),
                   <<>>, o)
    BY Zenon DEF MeasurementData
  <2> HIDE DEF o
  <2> QED BY <1>3, <2>1 DEF FoldLeft, MapThenFoldSet
<1> DEFINE m == [i \in 0 .. n |-> iter[1 .. i]]
<1>5. m[0] = <<>> /\ MeasurementData = m[n]
  <2>1. 1 .. 0 = {}
    OBVIOUS
  <2>2. m[0] = iter[{}] /\ m[n] = iter[D] /\ {} \in SUBSET D
    BY <1>1, <2>1
  <2> HIDE DEF m, D
  <2> QED BY <1>4, <2>2
<1>6. \A i \in 1 .. n : m[i] = IF freq[i] = 0 THEN m[i - 1] ELSE Append(m[i - 1], rec[i])
  <2> SUFFICES ASSUME NEW i \in 1 .. n PROVE m[i] = IF freq[i] = 0 THEN m[i - 1] ELSE Append(m[i - 1], rec[i])
    OBVIOUS
  <2>1. /\ i \in Nat \ {0} /\ i - 1 \in 0 .. n /\ Max(1 .. i) = i /\ o[i] = i
        /\ (1 .. i) \in SUBSET D /\ (1 .. i) # {} /\ (1 .. i) \ {i} = 1 .. i - 1
    <3>1. i \in Nat \ {0} /\ i - 1 \in 0 .. n /\ (1 .. i) # {}
      <4>1. i \in Nat \ {0} /\ i \in 1 .. i
        OBVIOUS
      <4>2. i - 1 \in 0 .. n
        OBVIOUS
      <4>3. (1 .. i) # {}
        BY <4>1
      <4> QED BY <4>1, <4>2, <4>3
    <3>2. o[i] = i /\ (1 .. i) \in SUBSET D
      BY <1>1
    <3>3. Max(1 .. i) = i /\ (1 .. i) \ {i} = 1 .. i - 1
      BY <3>1, MaxUpTo
    <3> QED BY <3>1, <3>2, <3>3
  <2>2. PICK s : s = 1 .. i
    OBVIOUS
  <2> HIDE DEF D, o
  <2>3. iter[s] = IF Frequency(o[Max(s)]) = 0 THEN iter[s \ {Max(s)}]
                  ELSE Append(iter[s \ {Max(s)}], [E |-> Effects[o[Max(s)]], n |-> Frequency(o[Max(s)])])
    BY <1>4, <2>1, <2>2
  <2>4. m[i] = iter[s] /\ m[i - 1] = iter[s \ {Max(s)}]
    <3>1. m[i] = iter[1 .. i] /\ m[i - 1] = iter[1 .. i - 1]
      BY <2>1
    <3>2. s \ {Max(s)} = 1 .. i - 1
      BY <2>1, <2>2
    <3> HIDE DEF m
    <3> QED BY <2>2, <3>1, <3>2
  <2>5. freq[i] = Frequency(i) /\ rec[i] = [E |-> Effects[i], n |-> Frequency(i)]
    BY <1>2
  <2> HIDE DEF m
  <2> QED BY <2>1, <2>2, <2>3, <2>4, <2>5
<1>7. m \in [0 .. n -> R]
  <2>1. m[0] \in R
    <3>1. <<>> \in Seq(Meas)
      OBVIOUS
    <3> HIDE DEF m
    <3> QED BY <1>5, <3>1
  <2> HIDE DEF m
  <2>2. \A i \in 1 .. n : m[i - 1] \in R => m[i] \in R
    <3> SUFFICES ASSUME NEW i \in 1 .. n, m[i - 1] \in R PROVE m[i] \in R
      OBVIOUS
    <3>1. rec[i] \in Meas
      BY <1>2
    <3> HIDE DEF Meas
    <3>2. Append(m[i - 1], rec[i]) \in R
      BY <3>1
    <3> QED BY <1>6, <3>2
  <2>3. \A i \in 0 .. n : m[i] \in R
    <3> HIDE DEF R
    <3> QED BY <2>1, <2>2, StepsTyped
  <2> QED BY <2>3 DEF m
<1>8. rec \in [1 .. n -> Meas]
  BY <1>2
<1> HIDE DEF m, Meas
<1>9. Gathers(m, n, freq, rec)
  BY <1>5, <1>6 DEF Gathers
<1> QED BY <1>5, <1>7, <1>8, <1>9, GatheredInTurn

\* The data taken are those of the file.
LEMMA DataTaken ==
  ASSUME inv \in Invocations, Has("Nm"), CanReadData, ValidInput
  PROVE  DataOf(inv.data["Emn"], inv.data["Nm"], MeasurementData)
<1>1. PICK Emn, Nm, n : Emn = inv.data["Emn"] /\ Nm = inv.data["Nm"] /\ n = NumEl(Nm.dims)
  OBVIOUS
<1>2. IsVariable(Emn) /\ IsVariable(Nm)
  BY <1>1, InvocationsAssumption DEF Has, CanReadData
<1>3. /\ n \in Nat /\ MatrixValue(Nm).rows = n
      /\ \A k \in 1 .. n : MatrixValue(Nm).at[<<k - 1, 0>>] = Nm.data[k - 1]
  <2>1. CanReadMatrix(Nm, FALSE, Dynamic, 1)
    BY <1>1 DEF CanReadData
  <2> QED BY <1>1, <1>2, <2>1, ColumnRead
<1>4. \A k \in 1 .. n : Frequency(k) = Nm.data[k - 1][1]
  BY <1>1, <1>3 DEF Frequency
<1>5. DOMAIN Effects = 1 .. n
  <2>1. OuterDim(Emn.dims) \in Nat
    <3>1. PICK dims \in Seq(Nat), l \in Nat : dims = Emn.dims /\ l = Len(dims) /\ l >= 2
      BY <1>2 DEF IsVariable
    <3>2. SubSeq(dims, 3, l) \in Seq(Nat)
      <4>1. \A i \in 3 .. l : dims[i] \in Nat
        BY <3>1
      <4> QED BY <3>1, <4>1
    <3> QED BY <3>1, <3>2, NoFewer DEF OuterDim
  <2>2. PICK outer \in Nat : outer = OuterDim(Emn.dims)
    BY <2>1
  <2>3. DOMAIN Effects = 1 .. outer
    BY <1>1, <2>2 DEF Effects, MatricesValue
  <2>4. Len(Effects) = outer
    BY <1>1, <2>2 DEF Effects, MatricesValue
  <2>5. Len(Effects) = n
    BY <1>1, <1>3 DEF ValidInput
  <2> QED BY <2>3, <2>4, <2>5
<1>6. PICK freq, rec : /\ freq = [k \in 1 .. n |-> Frequency(k)]
                       /\ rec = [k \in 1 .. n |-> [E |-> Effects[k], n |-> Frequency(k)]]
  OBVIOUS
<1>7. InTurn(freq, rec, n, MeasurementData)
  BY <1>3, <1>5, <1>6, MeasurementsInTurn
<1>8. PICK observed : observed = {k \in 1 .. NumEl(Nm.dims) : Nm.data[k - 1][1] # 0}
  OBVIOUS
<1>9. /\ observed = NonZero(freq, n)
      /\ \A k \in observed : {j \in observed : j <= k} = UpToRank(freq, n, k) /\ k \in 1 .. n
  <2>1. \A k \in 1 .. n : freq[k] = Nm.data[k - 1][1]
    BY <1>4, <1>6
  <2>2. observed = NonZero(freq, n)
    BY <1>1, <1>8, <2>1 DEF NonZero
  <2> QED BY <2>2 DEF UpToRank, NonZero
<1>10. Len(MeasurementData) = Cardinality(observed)
  BY <1>7, <1>9 DEF InTurn
<1>11. ASSUME NEW index \in Subscripts(Emn.dims), NEW k,
              k = 1 + LinearIndex(SubSeq(Emn.dims, 3, Len(Emn.dims)), SubSeq(index, 3, Len(index))),
              k \in observed, NEW rank, rank = Cardinality({j \in observed : j <= k})
       PROVE  /\ MeasurementData[rank].n = Nm.data[k - 1][1]
              /\ MeasurementData[rank].E.at[<<index[1], index[2]>>] = Element(Emn, index)
  <2>1. k \in 1 .. n /\ rank = Cardinality(UpToRank(freq, n, k))
    BY <1>9, <1>11
  <2>2. MeasurementData[rank] = [E |-> Effects[k], n |-> Frequency(k)]
    BY <1>6, <1>7, <1>9, <1>11, <2>1 DEF InTurn
  <2>3. PICK l : l = Len(Emn.dims) /\ l = Len(index)
    <3>1. PICK dims \in Seq(Nat), l \in Nat : dims = Emn.dims /\ l = Len(dims)
      BY <1>2 DEF IsVariable
    <3>2. index \in [1 .. l -> Int]
      BY <1>11, <3>1, SubscriptsAre DEF IsIndex
    <3>3. Len(index) = l
      BY <3>1, <3>2
    <3> QED BY <3>1, <3>3
  <2>4. Effects = MatricesValue(Emn)
    BY <1>1 DEF Effects
  <2>5. MatricesValue(Emn)[k].at[<<index[1], index[2]>>] = Element(Emn, index)
    <3>1. k = 1 + LinearIndex(SubSeq(Emn.dims, 3, l), SubSeq(index, 3, l)) /\ k \in DOMAIN MatricesValue(Emn)
      BY <1>5, <1>11, <2>1, <2>3, <2>4
    <3> QED BY <1>2, <1>11, <2>3, <3>1, MatrixRead
  <2> QED BY <1>4, <2>1, <2>2, <2>4, <2>5
<1>12. DataOf(Emn, Nm, MeasurementData)
  <2>1. \A index \in Subscripts(Emn.dims) : \A k, rank :
          /\ k = 1 + LinearIndex(SubSeq(Emn.dims, 3, Len(Emn.dims)), SubSeq(index, 3, Len(index)))
          /\ k \in observed /\ rank = Cardinality({j \in observed : j <= k})
          => /\ MeasurementData[rank].n = Nm.data[k - 1][1]
             /\ MeasurementData[rank].E.at[<<index[1], index[2]>>] = Element(Emn, index)
    BY <1>11
  <2> QED BY <1>8, <1>10, <2>1, Zenon DEF DataOf
<1> QED BY <1>1, <1>12

\* Steps that leave the data alone.
LEMMA DataStay ==
  ASSUME DataInv, UNCHANGED <<inv, llh>>, phase' = "dispatch" => phase = "dispatch" \/ Has("Nm")
  PROVE  DataInv'
BY DEF DataInv, DataAsGiven, Has

\* Only tomorun_dispatch() takes data.
LEMMA DataStep ==
  ASSUME DataInv, [TomorunNext]_tomorun_vars
  PROVE  DataInv'
<1> USE DEF Exit, Goto, BadOptions, data, progress
<1>1. CASE UNCHANGED tomorun_vars
  BY <1>1, DataStay DEF tomorun_vars, program
<1>2. CASE StoreOptions \/ SetUpLogging \/ SetSwitches \/ CheckOptions \/ ShowParameters \/ Return
  BY <1>2, DataStay DEF StoreOptions, SetUpLogging, SetSwitches, CheckOptions, ShowParameters, Return
<1>3. CASE OpenDataFile
  BY <1>3, DataStay DEF OpenDataFile
<1>4. CASE Dispatch
  <2>1. CASE DataRead /\ llh' = MeasurementData /\ phase' = "tomorun" /\ inv' = inv
    <3>1. DataOf(inv.data["Emn"], inv.data["Nm"], llh')
      <4>1. CanReadData /\ ValidInput /\ Has("Nm") /\ inv \in Invocations
        BY <1>4, <2>1 DEF DataRead, DataInv, Dispatch
      <4> QED BY <2>1, <4>1, DataTaken
    <3> QED BY <2>1, <3>1 DEF DataInv, DataAsGiven
  <2>2. CASE UNCHANGED <<inv, llh>> /\ phase' = "over"
    BY <2>2, DataStay
  <2> QED BY <1>4, <2>1, <2>2 DEF Dispatch, Abort
<1>5. CASE SetUpRun \/ RunTasks \/ FinishRun \/ UsedDirectly \/ ReportIntervalElapses
  BY <1>5, DataStay DEF SetUpRun, RunTasks, FinishRun, UsedDirectly, ReportIntervalElapses, Abort, program
<1>6. CASE Hit \/ Tick \/ Over
  BY <1>6, DataStay DEF Hit, Tick, Over, tomorun_vars, program
<1> QED BY <1>1, <1>2, <1>3, <1>4, <1>5, <1>6 DEF TomorunNext, Main

\* The data are taken when the file has the frequencies, and never change after.
THEOREM DataInvariance == TomorunSpec => []DataInv
<1>1. TomorunInit => DataInv
  BY DEF TomorunInit, DataInv, DataAsGiven, None
<1>2. DataInv /\ [TomorunNext]_tomorun_vars => DataInv'
  BY DataStep
<1> QED BY <1>1, <1>2, PTL DEF TomorunSpec

\* Whatever the file, the walks work on the effects in it that were observed, each with
\* its frequency and with every element in its place (tomorun_dispatch(), addMeasEffect()).
THEOREM DataAsGivenAlways == TomorunSpec => []DataAsGiven
<1>1. DataInv => DataAsGiven
  BY DEF DataInv
<1> QED BY <1>1, DataInvariance, PTL

=============================================================================
