--------------------------- MODULE PyTomorunProofs ---------------------------
(***************************************************************************)
(* Proofs about DispatcherLocks and PyTomorun, for any calls and any       *)
(* number of threads.  The mutexes make the writers of each part of the    *)
(* shared data exclude each other, and somebody can always go on; what     *)
(* follows from LocksInv has a lemma of its own, for programs in which the *)
(* threads do more than lock.  PyTomorun is one: what goes wrong first     *)
(* reaches the caller, Python is called under the GIL only, and the        *)
(* promises of DispatcherLocks still hold of threads that fail in the      *)
(* middle of a section and of a main thread that lets the GIL go before    *)
(* the run and takes it back after it.  And the tasks are set up as the    *)
(* arguments of the call ask for.                                          *)
(***************************************************************************)
EXTENDS PyTomorun, CommonLemmas, FiniteSetTheorems

-----------------------------------------------------------------------------
\* Any two sections that write the same data have a mutex in common, in every
\* dispatcher.
LEMMA WritersShareMutex ==
  ASSUME kind \in {"cxx", "omp", "python"},
         NEW what \in {"report", "schedule"},
         NEW s \in Writes(what), NEW r \in Writes(what)
  PROVE  MutexesOf(s) \cap MutexesOf(r) # {}
<1>1. CASE kind = "omp"
  BY <1>1 DEF MutexesOf, OmpMutexes
<1>2. CASE kind # "omp"
  <2>1. MutexesOf(s) = CxxMutexes(s) /\ MutexesOf(r) = CxxMutexes(r)
    BY <1>2 DEF MutexesOf, PythonMutexes, Writes
  <2>2. CASE what = "report"
    <3>1. \A q \in Writes("report") : "status_report" \in CxxMutexes(q)
      BY DEF Writes, CxxMutexes
    <3> QED BY <2>1, <2>2, <3>1
  <2>3. CASE what = "schedule"
    <3>1. \A q \in Writes("schedule") : "schedule" \in CxxMutexes(q)
      BY DEF Writes, CxxMutexes
    <3> QED BY <2>1, <2>3, <3>1
  <2> QED BY <2>2, <2>3
<1> QED BY <1>1, <1>2

\* Two threads are never inside two sections with a mutex in common.
LEMMA InsideExclusive ==
  ASSUME OneHolder, NEW t \in AllThreads, NEW u \in AllThreads, t # u,
         Inside(t), Inside(u)
  PROVE  MutexesOf(section[t]) \cap MutexesOf(section[u]) = {}
BY DEF OneHolder, Inside

\* The GIL is none of the sections' own mutexes.
LEMMA MutexesKnown ==
  ASSUME kind \in {"cxx", "omp", "python"},
         NEW s \in WorkerSections \cup MasterSections
  PROVE  MutexesOf(s) \subseteq {"status_report", "schedule", "user", "critical"}
BY DEF MutexesOf, OmpMutexes, CxxMutexes, PythonMutexes, WorkerSections, MasterSections

-----------------------------------------------------------------------------
LEMMA LocksAtFirst ==
  ASSUME LocksInit
  PROVE  LocksInv
BY DEF LocksInit, LocksInv, LocksTyped, OneHolder, TypeOK

LEMMA LocksStep ==
  ASSUME LocksInv, [LocksNext]_lock_vars
  PROVE  LocksInv'
<1> USE DEF LocksInv, LocksTyped
<1>a. ASSUME NEW t \in AllThreads
      PROVE  /\ SectionsOf(t) \subseteq WorkerSections \cup MasterSections
             /\ "none" \notin SectionsOf(t)
  BY DEF SectionsOf, WorkerSections, MasterSections
<1>b. ASSUME UNCHANGED kind, NEW s
      PROVE  MutexesOf(s)' = MutexesOf(s) /\ UsesPython(s)' = UsesPython(s)
  BY <1>b DEF MutexesOf, UsesPython
<1>c. ASSUME UNCHANGED kind, NEW t
      PROVE  SectionsOf(t)' = SectionsOf(t)
  BY <1>c DEF SectionsOf
<1>1. ASSUME NEW t \in AllThreads, Want(t) PROVE LocksInv'
  <2>1. PICK s \in SectionsOf(t) : section' = [section EXCEPT ![t] = s]
    BY <1>1 DEF Want
  <2>2. LocksTyped' /\ OneHolder'
    BY <1>1, <1>a, <2>1 DEF Want, OneHolder
  <2>3. TypeOK'
    BY <1>1, <1>a, <1>b, <1>c, <2>1 DEF Want, TypeOK, Inside
  <2> QED BY <2>2, <2>3
<1>2. ASSUME NEW t \in AllThreads, Lock(t) PROVE LocksInv'
  <2>1. PICK m \in MutexesOf(section[t]) \ held[t] :
          Free(m) /\ held' = [held EXCEPT ![t] = @ \cup {m}]
    BY <1>2 DEF Lock
  <2>2. m \in {"status_report", "schedule", "user", "critical"}
    <3>1. section[t] \in WorkerSections \cup MasterSections
      BY <1>2 DEF Lock
    <3> QED BY <2>1, <3>1, MutexesKnown
  <2>3. LocksTyped'
    BY <1>2, <2>1, <2>2 DEF Lock
  <2>4. OneHolder'
    BY <2>1 DEF OneHolder, Free
  <2>5. TypeOK'
    BY <1>2, <1>b, <1>c, <2>1, <2>2 DEF Lock, TypeOK, Inside
  <2> QED BY <2>3, <2>4, <2>5
<1>3. ASSUME NEW t \in AllThreads, BackOff(t) PROVE LocksInv'
  <2>1. LocksTyped' /\ OneHolder'
    BY <1>3 DEF BackOff, OneHolder
  <2>2. t \notin for_gil
    BY <1>3 DEF BackOff, MustBackOff, TypeOK, Inside
  <2>3. TypeOK'
    BY <1>3, <1>b, <1>c, <2>2 DEF BackOff, TypeOK, Inside
  <2> QED BY <2>1, <2>3
<1>4. ASSUME NEW t \in AllThreads, Leave(t) PROVE LocksInv'
  <2>1. LocksTyped' /\ OneHolder'
    BY <1>4 DEF Leave, StillHeld, OneHolder
  <2>2. TypeOK'
    BY <1>4, <1>b, <1>c DEF Leave, StillHeld, TypeOK, Inside
  <2> QED BY <2>1, <2>2
<1>5. ASSUME NEW t \in AllThreads, WantGil(t) PROVE LocksInv'
  <2>1. LocksTyped' /\ OneHolder'
    BY <1>5 DEF WantGil, OneHolder
  <2>2. TypeOK'
    BY <1>5, <1>b, <1>c DEF WantGil, TypeOK, Inside
  <2> QED BY <2>1, <2>2
<1>6. ASSUME NEW t \in AllThreads, TakeGil(t) PROVE LocksInv'
  <2>1. LocksTyped' /\ OneHolder'
    BY <1>6 DEF TakeGil, OneHolder, Free
  <2>2. TypeOK'
    BY <1>6, <1>b, <1>c DEF TakeGil, TypeOK, Inside
  <2> QED BY <2>1, <2>2
<1>7. ASSUME NEW t \in AllThreads, LetGilGo(t) PROVE LocksInv'
  <2>1. LocksTyped' /\ OneHolder'
    BY <1>7 DEF LetGilGo, OneHolder
  <2>2. \A u \in AllThreads : section[u] # "none" => "GIL" \notin MutexesOf(section[u])
    BY MutexesKnown
  <2>3. TypeOK'
    BY <1>7, <1>b, <1>c, <2>2 DEF LetGilGo, TypeOK, Inside
  <2> QED BY <2>1, <2>3
<1>8. CASE UNCHANGED lock_vars
  <2>1. LocksTyped' /\ OneHolder'
    BY <1>8 DEF lock_vars, OneHolder
  <2>2. TypeOK'
    BY <1>8, <1>b, <1>c DEF lock_vars, TypeOK, Inside
  <2> QED BY <2>1, <2>2
<1> QED
  BY <1>1, <1>2, <1>3, <1>4, <1>5, <1>6, <1>7, <1>8 DEF LocksNext, ThreadStep

-----------------------------------------------------------------------------
\* What the invariant implies.

LEMMA ExclusiveWriters ==
  ASSUME LocksInv
  PROVE  WritersExclusive
BY InsideExclusive, WritersShareMutex DEF LocksInv, LocksTyped, WritersExclusive

LEMMA AlwaysSomebody ==
  ASSUME LocksInv
  PROVE  SomebodyGoesOn
<1> DEFINE GoesOn(t) ==
      /\ section[t] # "none"
      /\ \/ Inside(t) /\ t \notin for_gil
         \/ t \in for_gil /\ ("GIL" \in held[t] \/ Free("GIL"))
         \/ MustBackOff(t)
         \/ \E m \in MutexesOf(section[t]) \ held[t] : Free(m)
<1> SUFFICES ASSUME NEW t \in AllThreads, section[t] # "none"
             PROVE  \E u \in AllThreads : GoesOn(u)
  BY DEF SomebodyGoesOn
<1>1. ASSUME NEW u \in AllThreads, "GIL" \in held[u] PROVE GoesOn(u)
  BY <1>1 DEF LocksInv, TypeOK, Inside
<1>2. ASSUME Free("GIL"), NEW u \in AllThreads, held[u] # {} PROVE GoesOn(u)
  <2>1. section[u] # "none"
    BY <1>2 DEF LocksInv, TypeOK
  <2>2. CASE Inside(u)
    BY <1>2, <2>1, <2>2
  <2>3. CASE ~Inside(u)
    <3>1. PICK m \in MutexesOf(section[u]) \ held[u] : TRUE
      BY <2>1, <2>3 DEF Inside
    <3> QED BY <1>2, <2>1, <3>1 DEF MustBackOff
  <2> QED BY <2>2, <2>3
<1>3. CASE ~Free("GIL")
  BY <1>1, <1>3 DEF Free
<1>4. CASE Free("GIL") /\ \E u \in AllThreads : held[u] # {}
  BY <1>2, <1>4
<1>5. CASE Free("GIL") /\ \A u \in AllThreads : held[u] = {}
  <2>1. CASE Inside(t)
    BY <1>5, <2>1
  <2>2. CASE ~Inside(t)
    <3>1. PICK m \in MutexesOf(section[t]) \ held[t] : TRUE
      BY <2>2 DEF Inside
    <3>2. Free(m)
      BY <1>5 DEF Free
    <3> QED BY <3>1, <3>2
  <2> QED BY <2>1, <2>2
<1> QED BY <1>3, <1>4, <1>5

LEMMA OneLogger ==
  ASSUME LocksInv
  PROVE  LoggerUsedByOne
<1> SUFFICES ASSUME kind \in {"omp", "python"},
                    NEW t \in AllThreads, NEW u \in AllThreads, t # u,
                    Logging(t), Logging(u)
             PROVE  FALSE
  BY DEF LoggerUsedByOne, LoggerExclusive
<1>1. CASE kind = "omp"
  <2>1. "critical" \in MutexesOf(section[t]) \cap MutexesOf(section[u])
    BY <1>1 DEF MutexesOf, OmpMutexes
  <2> QED BY <2>1, InsideExclusive DEF LocksInv, Logging
<1>2. CASE kind = "python"
  BY <1>2 DEF Logging, LocksInv, OneHolder
<1> QED BY <1>1, <1>2

-----------------------------------------------------------------------------
\* A mutex never has two holders, even while std::lock() tries and backs off.
THEOREM HoldersUnique == LocksSpec => []LocksInv
<1>1. LocksInit => LocksInv BY LocksAtFirst
<1>2. LocksInv /\ [LocksNext]_lock_vars => LocksInv' BY LocksStep
<1> QED BY <1>1, <1>2, PTL DEF LocksSpec

\* A thread holds only mutexes of the section it wants or is in, and none once
\* it has left.
THEOREM NothingLeftLocked == LocksSpec => []TypeOK
<1>1. LocksInv => TypeOK BY DEF LocksInv
<1> QED BY <1>1, HoldersUnique, PTL

\* The status report accounting and the schedule counters are written by one
\* thread at a time, whatever the number of threads and in every dispatcher.
THEOREM WritersNeverMeet == LocksSpec => []WritersExclusive
<1> QED BY ExclusiveWriters, HoldersUnique, PTL

\* A thread that cannot get its first mutex waits for one that holds it, and
\* that one is inside, can take the mutex it lacks, or gives back what it has;
\* and who holds the GIL waits for nothing.
THEOREM NoMutualWait == LocksSpec => []SomebodyGoesOn
<1> QED BY AlwaysSomebody, HoldersUnique, PTL

\* Under OpenMP's critical region, and with the logger that takes the GIL, the
\* logger is used by one thread at a time.
THEOREM LoggerSafe == LocksSpec => []LoggerUsedByOne
<1> QED BY OneLogger, HoldersUnique, PTL

\* Shared data and the logger have one user at a time, for any number of threads.
THEOREM OneUserHolds == LocksSpec => []OneUserAtATime
<1>1. WritersExclusive /\ LoggerUsedByOne => OneUserAtATime BY DEF OneUserAtATime
<1> QED BY <1>1, WritersNeverMeet, LoggerSafe, PTL

-----------------------------------------------------------------------------
\* Failing threads, and the GIL

\* the variables that arguments are taken into are of no concern here
LEMMA Fixed ==
  ASSUME UNCHANGED call
  PROVE  /\ SettingsFail' <=> SettingsFail
         /\ NumRepeats' = NumRepeats
BY DEF SettingsFail, NumRepeats, Arg, Given

LEMMA InvariantInit ==
  ASSUME PyInit
  PROVE  IInv
<1>1. LocksSound
  BY DEF AllThreads, PyInit, LocksSound, LocksTyped, OneHolder, LetGo
<1>2. NothingYet /\ HowItEnded /\ ErrorReachesCaller
  BY DEF PyInit, NothingYet, HowItEnded, ErrorReachesCaller
<1>3. CaughtHaveSource
  BY DEF PyInit, CaughtHaveSource
<1> QED BY <1>1, <1>2, <1>3 DEF IInv

\* Taking arguments either goes on to the next or ends with an error.
LEMMA ArgumentsStep ==
  ASSUME IInv, TakingArguments,
         UNCHANGED <<lock_vars, call, require_gil, running, num_results, dispatch>>,
         stage' = "over" \/ (TakingArguments' /\ UNCHANGED raised)
  PROVE  IInv'
<1>1. ~LetGo /\ ~LetGo' /\ stage' # "returning"
  BY DEF TakingArguments, LetGo
<1>2. LocksSound'
  BY <1>1 DEF IInv, LocksSound, LocksTyped, OneHolder, lock_vars
<1>3. NothingYet'
  BY DEF IInv, NothingYet, TakingArguments, running, dispatch
<1>4. CaughtHaveSource'
  BY Fixed DEF IInv, CaughtHaveSource, Source, running, dispatch
<1>5. HowItEnded' /\ ErrorReachesCaller'
  BY <1>1 DEF IInv, NothingYet, HowItEnded, ErrorReachesCaller, TakingArguments, dispatch
<1> QED BY <1>2, <1>3, <1>4, <1>5 DEF IInv

LEMMA TakeArguments ==
  ASSUME \/ TakeMeasurements \/ TakeFigOfMerit \/ TakeParameters \/ TakeSeeds \/ TakeOptions
  PROVE  /\ TakingArguments
         /\ UNCHANGED <<lock_vars, call, require_gil, running, num_results, dispatch>>
         /\ stage' = "over" \/ (TakingArguments' /\ UNCHANGED raised)
<1>1. CASE TakeMeasurements
  BY <1>1 DEF TakeMeasurements, Stage, TakingArguments
<1>2. CASE TakeFigOfMerit
  BY <1>2 DEF TakeFigOfMerit, Stage, TakingArguments
<1>3. CASE TakeParameters
  BY <1>3 DEF TakeParameters, Stage, TakingArguments
<1>4. CASE TakeSeeds
  BY <1>4 DEF TakeSeeds, Stage, TakingArguments
<1>5. CASE TakeOptions
  BY <1>5 DEF TakeOptions, Stage, TakingArguments
<1> QED BY <1>1, <1>2, <1>3, <1>4, <1>5

-----------------------------------------------------------------------------
LEMMA SetUpRunStep ==
  ASSUME IInv, SetUpRun
  PROVE  IInv'
<1>1. /\ stage = "dispatcher" /\ stage' = "run" /\ require_gil'
      /\ held' = [held EXCEPT ![Master] = {}]
      /\ UNCHANGED <<kind, section, for_gil, arguments, setup, running, returning, dispatch>>
  BY DEF SetUpRun, LogsWithGil
<1>2. LocksSound'
  <2>1. /\ for_gil = {} /\ \A t \in AllThreads : section[t] = "none"
        /\ \A t \in AllThreads \ {Master} : held[t] = {}
    BY <1>1 DEF IInv, LocksSound, LetGo
  <2> QED BY <1>1, <2>1 DEF IInv, LocksSound, LocksTyped, OneHolder, LetGo, TypeOK
<1>3. NothingYet'
  BY <1>1 DEF IInv, NothingYet, TakingArguments, returning
<1>4. CaughtHaveSource'
  BY <1>1, Fixed DEF IInv, CaughtHaveSource, Source, running, dispatch, arguments
<1>5. HowItEnded' /\ ErrorReachesCaller'
  BY <1>1 DEF HowItEnded, ErrorReachesCaller
<1> QED BY <1>2, <1>3, <1>4, <1>5 DEF IInv

\* In a step during the run that catches nothing only the locks matter.
LEMMA DuringRun ==
  ASSUME IInv, stage = "run", stage' = "run", LocksInv',
         UNCHANGED <<kind, call, require_gil, returning, caught, failed>>,
         ctrl_c' = ctrl_c \/ (ctrl_c = "none" /\ ctrl_c' = "pending")
  PROVE  IInv'
<1>1. LocksSound'
  BY DEF IInv, LocksSound, LocksInv, LetGo
<1>2. NothingYet'
  BY DEF IInv, NothingYet, TakingArguments, returning
<1>3. CaughtHaveSource'
  <2>1. \A i \in DOMAIN caught : Source(caught[i])'
    BY Fixed DEF IInv, CaughtHaveSource, Source
  <2> QED BY <2>1 DEF IInv, CaughtHaveSource
<1>4. HowItEnded' /\ ErrorReachesCaller'
  BY DEF HowItEnded, ErrorReachesCaller
<1> QED BY <1>1, <1>2, <1>3, <1>4 DEF IInv

\* The locks at a step of the run that leaves them alone.
LEMMA LocksUnchanged ==
  ASSUME IInv, stage = "run"
  PROVE  LocksInv /\ (UNCHANGED lock_vars => LocksInv')
<1>1. LocksInv
  BY DEF IInv, LocksSound, LocksInv, LetGo
<1> QED BY <1>1, LocksStep

LEMMA WorkerStepStep ==
  ASSUME IInv, WorkerStep
  PROVE  IInv'
<1>1. /\ stage = "run" /\ stage' = "run"
      /\ UNCHANGED <<call, require_gil, returning, caught, failed, ctrl_c>>
  BY DEF WorkerStep, arguments, running, dispatch
<1>2. PICK t \in AllThreads : ThreadStep(t)
  BY DEF WorkerStep
<1>3. LocksInv' /\ UNCHANGED kind
  <2>1. LocksNext
    BY <1>2 DEF LocksNext
  <2>2. LocksInv'
    BY <1>1, <2>1, LocksUnchanged, LocksStep
  <2>3. UNCHANGED kind
    BY <1>2 DEF ThreadStep, Want, Lock, BackOff, Leave, WantGil, TakeGil, LetGilGo
  <2> QED BY <2>2, <2>3
<1> QED BY <1>1, <1>3, DuringRun

LEMMA TaskStep ==
  ASSUME IInv, NEW t \in AllThreads, StartTask(t) \/ EndTask(t)
  PROVE  IInv'
<1>1. /\ stage = "run" /\ stage' = "run"
      /\ UNCHANGED <<lock_vars, call, require_gil, returning, caught, ctrl_c>>
  BY DEF StartTask, EndTask, RunStep, arguments
<1>2. UNCHANGED failed
  <2>1. CASE StartTask(t)
    BY <2>1 DEF StartTask, Dispatcher!Start
  <2>2. CASE EndTask(t)
    BY <2>2 DEF EndTask, Dispatcher!Deliver, dispatch
  <2> QED BY <2>1, <2>2
<1> QED BY <1>1, <1>2, LocksUnchanged, DuringRun DEF lock_vars

LEMMA HitStep ==
  ASSUME IInv, HitCtrlC
  PROVE  IInv'
<1>1. /\ stage = "run" /\ stage' = "run" /\ ctrl_c = "none" /\ ctrl_c' = "pending"
      /\ UNCHANGED <<lock_vars, call, require_gil, returning, caught, failed>>
  BY DEF HitCtrlC, arguments, dispatch
<1> QED BY <1>1, LocksUnchanged, DuringRun DEF lock_vars

\* An exception is caught with the reason there was for it, and the thread leaves
\* its section with nothing held.
LEMMA RaiseStep ==
  ASSUME IInv, NEW t \in AllThreads, Raise(t)
  PROVE  IInv'
<1>1. /\ stage = "run" /\ stage' = "run"
      /\ held' = [held EXCEPT ![t] = {}] /\ for_gil' = for_gil \ {t}
      /\ section' = [section EXCEPT ![t] = "none"]
      /\ UNCHANGED <<kind, call, setup, require_gil, returning>>
      /\ failed'
  BY DEF Raise, StillHeld, arguments, Dispatcher!Fail
<1>2. PICK e \in ErrorsOf(t) :
        /\ caught' = Append(caught, e)
        /\ ctrl_c' = IF e = "KeyboardInterrupt" THEN "raised" ELSE ctrl_c
  BY DEF Raise
<1>3. LocksInv
  BY <1>1, LocksUnchanged
<1>4. LocksSound'
  <2>1. LocksTyped' /\ OneHolder'
    BY <1>1, <1>3 DEF LocksInv, LocksTyped, OneHolder
  <2>2. \A s : UsesPython(s)' = UsesPython(s) /\ MutexesOf(s)' = MutexesOf(s)
    BY <1>1 DEF UsesPython, MutexesOf
  <2>3. \A u \in AllThreads : SectionsOf(u)' = SectionsOf(u)
    BY <1>1 DEF SectionsOf
  <2>4. TypeOK'
    BY <1>1, <1>3, <2>2, <2>3 DEF LocksInv, LocksTyped, TypeOK, Inside
  <2> QED BY <1>1, <2>1, <2>4 DEF IInv, LocksSound, LetGo
<1>5. NothingYet' /\ HowItEnded' /\ ErrorReachesCaller'
  BY <1>1 DEF IInv, NothingYet, HowItEnded, ErrorReachesCaller, TakingArguments, returning
<1>6. CaughtHaveSource'
  <2> DEFINE Errors == {"figure of merit", "progress_fn", CastError, "KeyboardInterrupt"}
             HadSource(x) == \/ x \in call.fails
                             \/ x = CastError /\ SettingsFail
                             \/ x = "KeyboardInterrupt" /\ ctrl_c' = "raised"
             last == Len(caught) + 1
  <2>1. caught \in Seq(Errors) /\ e \in Errors
    BY <1>2 DEF IInv, CaughtHaveSource, ErrorsOf
  <2>2. HadSource(e)
    BY <1>2 DEF ErrorsOf, CastError
  <2>3. \A i \in DOMAIN caught : HadSource(caught[i])
    BY <1>2 DEF IInv, CaughtHaveSource, Source
  <2>4. ctrl_c' = "raised" =>
          e = "KeyboardInterrupt" \/ \E i \in DOMAIN caught : caught[i] = "KeyboardInterrupt"
    BY <1>2 DEF IInv, CaughtHaveSource
  <2> HIDE DEF Errors, HadSource
  <2>5. /\ caught' \in Seq(Errors)
        /\ DOMAIN caught' = DOMAIN caught \cup {last}
        /\ caught'[last] = e
        /\ \A i \in DOMAIN caught : caught'[i] = caught[i]
    BY <1>2, <2>1
  <2>6. \A i \in DOMAIN caught' : HadSource(caught'[i])
    BY <2>2, <2>3, <2>5
  <2>7. ctrl_c' = "raised" => \E i \in DOMAIN caught' : caught'[i] = "KeyboardInterrupt"
    BY <2>4, <2>5
  <2>8. caught' # <<>> /\ failed' /\ call' \in Calls
    <3>1. caught' # <<>>
      BY <1>2, <2>1
    <3> QED BY <1>1, <3>1 DEF IInv, CaughtHaveSource
  <2>9. caught' \in Seq({"figure of merit", "progress_fn", CastError, "KeyboardInterrupt"})
    BY <2>5 DEF Errors
  <2>10. \A i \in DOMAIN caught' :
           \/ caught'[i] \in call'.fails
           \/ caught'[i] = CastError /\ SettingsFail'
           \/ caught'[i] = "KeyboardInterrupt" /\ ctrl_c' = "raised"
    BY <1>1, <2>6, Fixed DEF HadSource
  <2> QED BY <2>7, <2>8, <2>9, <2>10 DEF CaughtHaveSource, Source, CastError
<1> QED BY <1>4, <1>5, <1>6 DEF IInv

\* The tasks of a run that ends well are those asked for.
LEMMA EndRunStep ==
  ASSUME IInv, EndRun
  PROVE  IInv'
<1>1. /\ stage = "run" /\ stage' = "returning"
      /\ \A t \in AllThreads : section[t] = "none"
      /\ UNCHANGED <<lock_vars, call, require_gil, caught, ctrl_c, returning, failed>>
  BY DEF EndRun, Dispatcher!End, arguments, running
<1>2. LocksSound'
  <2>1. TypeOK'
    BY <1>1, LocksUnchanged DEF LocksInv
  <2> QED BY <1>1, <2>1 DEF IInv, LocksSound, LocksTyped, OneHolder, LetGo, lock_vars
<1>3. NothingYet' /\ ErrorReachesCaller'
  BY <1>1 DEF IInv, NothingYet, ErrorReachesCaller, TakingArguments, returning
<1>4. CaughtHaveSource'
  BY <1>1, Fixed DEF IInv, CaughtHaveSource, Source
<1>5. HowItEnded'
  <2>1. PICK n \in Repeats, how \in {"ok", "exception"} :
          n = NumRepeats /\ Dispatcher(n)!End(how)
    BY DEF EndRun
  <2>2. NumRepeats' = n /\ n \in Nat
    BY <1>1, <2>1, Fixed, CallsAssumption
  <2>3. CASE how = "ok"
    BY <2>1, <2>2, <2>3 DEF Dispatcher!End, HowItEnded
  <2>4. CASE how = "exception"
    BY <2>1, <2>4 DEF Dispatcher!End, HowItEnded
  <2> QED BY <2>3, <2>4
<1> QED BY <1>2, <1>3, <1>4, <1>5 DEF IInv

\* With all sections left nothing is held, nobody waits, and the first exception
\* caught is the one raised.
LEMMA ReturnStep ==
  ASSUME IInv, Return
  PROVE  IInv'
<1>1. /\ stage = "returning" /\ stage' = "over"
      /\ held' = [held EXCEPT ![Master] = {"GIL"}]
      /\ UNCHANGED <<kind, section, for_gil, call, running, dispatch>>
  BY DEF Return, arguments
<1>2. LocksSound'
  <2>1. \A t \in AllThreads : section[t] = "none" /\ held[t] = {}
    BY <1>1 DEF IInv, LocksSound, LetGo, TypeOK
  <2>2. for_gil = {}
    BY <1>1, <2>1 DEF IInv, LocksSound, LetGo, LocksTyped, TypeOK, Inside
  <2> QED BY <1>1, <2>1, <2>2 DEF IInv, LocksSound, LocksTyped, OneHolder, LetGo, AllThreads
<1>3. NothingYet' /\ HowItEnded'
  BY <1>1 DEF NothingYet, HowItEnded, TakingArguments
<1>4. CaughtHaveSource'
  BY <1>1, Fixed DEF IInv, CaughtHaveSource, Source, running, dispatch
<1>5. ErrorReachesCaller'
  <2>1. raised = "none" /\ num_results = -1
    BY <1>1 DEF IInv, NothingYet
  <2>2. CASE outcome = "ok"
    <3>1. caught = <<>> /\ ctrl_c # "raised" /\ NumRepeats \in Nat
          /\ delivered = 0 .. NumRepeats - 1
      <4>1. caught = <<>> /\ NumRepeats \in Nat /\ delivered = 0 .. NumRepeats - 1
        BY <1>1, <2>2 DEF IInv, HowItEnded, CaughtHaveSource
      <4>2. DOMAIN caught = {}
        BY <4>1
      <4> QED BY <4>1, <4>2 DEF IInv, CaughtHaveSource
    <3>2. num_results' = NumRepeats /\ raised' = "none"
      <4>1. Cardinality(0 .. NumRepeats - 1) = NumRepeats
        BY <3>1, FS_Interval
      <4> QED BY <2>1, <2>2, <3>1, <4>1 DEF Return
    <3> QED BY <1>1, <3>1, <3>2, Fixed DEF ErrorReachesCaller, running
  <2>3. CASE outcome # "ok"
    <3>1. raised' = caught[1] /\ num_results' = -1 /\ caught # <<>> /\ 1 \in DOMAIN caught
      <4> DEFINE Errors == {"figure of merit", "progress_fn", CastError, "KeyboardInterrupt"}
      <4>1. caught # <<>>
        BY <1>1, <2>3 DEF IInv, HowItEnded, CaughtHaveSource
      <4>2. caught \in Seq(Errors)
        BY DEF IInv, CaughtHaveSource
      <4> HIDE DEF Errors
      <4>3. Head(caught) = caught[1] /\ Len(caught) \in Nat /\ Len(caught) # 0
            /\ DOMAIN caught = 1 .. Len(caught)
        BY <4>1, <4>2
      <4>4. 1 \in DOMAIN caught
        BY <4>3
      <4> QED BY <2>1, <2>3, <4>1, <4>3, <4>4 DEF Return, Rethrown
    <3>2. raised' # "none"
      <4>1. Source(raised')
        BY <3>1 DEF IInv, CaughtHaveSource
      <4>2. call.fails \subseteq {"figure of merit", "progress_fn"}
        BY CallsAssumption DEF IInv, CaughtHaveSource
      <4> QED BY <4>1, <4>2 DEF Source, CastError
    <3>3. ASSUME call.fails = {}, ~SettingsFail
          PROVE  ctrl_c = "raised" <=> raised' = "KeyboardInterrupt"
      BY <3>1, <3>3 DEF IInv, CaughtHaveSource, Source
    <3> QED BY <1>1, <3>1, <3>2, <3>3, Fixed DEF ErrorReachesCaller, running
  <2> QED BY <2>2, <2>3
<1> QED BY <1>2, <1>3, <1>4, <1>5 DEF IInv

-----------------------------------------------------------------------------
\* Steps that change nothing.
LEMMA PyStutter ==
  ASSUME IInv, UNCHANGED py_vars
  PROVE  IInv'
<1> USE DEF py_vars, lock_vars, arguments, running, returning, dispatch
<1>1. LocksSound'
  <2>1. (TypeOK /\ kind = "python" /\ LocksTyped) => TypeOK'
    BY DEF TypeOK, Inside, MutexesOf, UsesPython, SectionsOf
  <2> QED BY <2>1 DEF IInv, LocksSound, LocksTyped, OneHolder, LetGo
<1>2. NothingYet' /\ HowItEnded' /\ ErrorReachesCaller'
  BY Fixed DEF IInv, NothingYet, HowItEnded, ErrorReachesCaller, TakingArguments
<1>3. CaughtHaveSource'
  BY Fixed DEF IInv, CaughtHaveSource, Source
<1> QED BY <1>1, <1>2, <1>3 DEF IInv

-----------------------------------------------------------------------------
\* What the invariant implies.

\* Outside the run the sections are left, and only the main thread holds the GIL.
LEMMA LocksHold ==
  ASSUME IInv
  PROVE  LocksInv \/ (~LetGo /\ \A t \in AllThreads : section[t] = "none")
BY DEF IInv, LocksSound, LocksInv

LEMMA OneUser ==
  ASSUME IInv
  PROVE  OneUserAtATime
<1>1. CASE LocksInv
  BY <1>1, ExclusiveWriters, OneLogger DEF OneUserAtATime
<1>2. CASE \A t \in AllThreads : section[t] = "none"
  BY <1>2 DEF OneUserAtATime, WritersExclusive, LoggerUsedByOne, LoggerExclusive, Inside,
             Logging
<1> QED BY <1>1, <1>2, LocksHold

LEMMA Progress ==
  ASSUME IInv
  PROVE  SomebodyGoesOn
<1>1. CASE LocksInv
  BY <1>1, AlwaysSomebody
<1>2. CASE \A t \in AllThreads : section[t] = "none"
  BY <1>2 DEF SomebodyGoesOn
<1> QED BY <1>1, <1>2, LocksHold

LEMMA UnderGil ==
  ASSUME IInv
  PROVE  PythonUnderGil
<1> SUFFICES ASSUME NEW t \in AllThreads, CallsPython(t)
             PROVE  "GIL" \in held[t]
  BY DEF PythonUnderGil
<1>1. CASE ~LetGo
  BY <1>1 DEF IInv, LocksSound, LetGo, CallsPython, Inside
<1>2. CASE LetGo
  BY <1>2 DEF IInv, LocksSound, LetGo, CallsPython
<1> QED BY <1>1, <1>2

-----------------------------------------------------------------------------
\* The locks, what was caught and how the run ended stay in agreement from the
\* first argument to the return, for any calls and number of threads.
THEOREM PyInvariance == PySpec => []IInv
<1>1. PyInit => IInv
  BY InvariantInit
<1>2. ASSUME IInv, PyNext PROVE IInv'
  <2>1. CASE TakeMeasurements \/ TakeFigOfMerit \/ TakeParameters \/ TakeSeeds \/ TakeOptions
    BY <1>2, <2>1, TakeArguments, ArgumentsStep
  <2>2. CASE SetUpRun
    BY <1>2, <2>2, SetUpRunStep
  <2>3. CASE WorkerStep
    BY <1>2, <2>3, WorkerStepStep
  <2>4. CASE HitCtrlC
    BY <1>2, <2>4, HitStep
  <2>5. ASSUME NEW t \in AllThreads, StartTask(t) \/ EndTask(t) PROVE IInv'
    BY <1>2, <2>5, TaskStep
  <2>6. ASSUME NEW t \in AllThreads, Raise(t) PROVE IInv'
    BY <1>2, <2>6, RaiseStep
  <2>7. CASE EndRun
    BY <1>2, <2>7, EndRunStep
  <2>8. CASE Return
    BY <1>2, <2>8, ReturnStep
  <2>9. CASE AfterReturn
    BY <1>2, <2>9, PyStutter DEF AfterReturn
  <2> QED BY <1>2, <2>1, <2>2, <2>3, <2>4, <2>5, <2>6, <2>7, <2>8, <2>9 DEF PyNext
<1>3. IInv /\ [PyNext]_py_vars => IInv'
  BY <1>2, PyStutter
<1> QED BY <1>1, <1>3, PTL DEF PySpec

\* tomorun() raises what went wrong first, returns results only if nothing did, and
\* then all of them.
THEOREM FirstErrorReachesCaller == PySpec => []ErrorReachesCaller
<1>1. IInv => ErrorReachesCaller BY DEF IInv
<1> QED BY <1>1, PyInvariance, PTL

\* Whoever calls Python has the GIL, the main thread before and after the run too.
THEOREM PythonOnlyUnderGil == PySpec => []PythonUnderGil
<1> QED BY UnderGil, PyInvariance, PTL

\* Threads that fail in the middle of a section leave the others the shared data
\* and the logger one at a time.
THEOREM OneUserInPython == PySpec => []OneUserAtATime
<1> QED BY OneUser, PyInvariance, PTL

\* With the GIL on top of the mutexes somebody can always go on, failures or not.
THEOREM NoMutualWaitInPython == PySpec => []SomebodyGoesOn
<1> QED BY Progress, PyInvariance, PTL

-----------------------------------------------------------------------------
\* The arguments

\* Counting up to each element numbers the elements of a finite set.
LEMMA NthNumbers ==
  ASSUME NEW n \in Nat, NEW S \in SUBSET (1 .. n)
  PROVE  /\ IsFiniteSet(S) /\ Cardinality(S) \in Nat
         /\ \A m \in 1 .. Cardinality(S) : Nth(S, m) \in S
         /\ \A k \in S : \E m \in 1 .. Cardinality(S) : Nth(S, m) = k
<1> DEFINE N == Cardinality(S)
           UpTo(k) == {j \in S : j <= k}
           rank == [k \in S |-> Cardinality(UpTo(k))]
<1>1. IsFiniteSet(S) /\ N \in Nat
  <2>1. IsFiniteSet(1 .. n)
    BY FS_Interval
  <2> QED BY <2>1, FS_Subset, FS_CardinalityType
<1>2. \A k \in S : IsFiniteSet(UpTo(k)) /\ Cardinality(UpTo(k)) \in 1 .. N
  <2> SUFFICES ASSUME NEW k \in S
               PROVE  IsFiniteSet(UpTo(k)) /\ Cardinality(UpTo(k)) \in 1 .. N
    OBVIOUS
  <2>1. UpTo(k) \in SUBSET S /\ k \in UpTo(k)
    OBVIOUS
  <2>2. IsFiniteSet(UpTo(k)) /\ Cardinality(UpTo(k)) \in Nat /\ Cardinality(UpTo(k)) <= N
    BY <1>1, <2>1, FS_Subset, FS_CardinalityType
  <2>3. Cardinality(UpTo(k)) # 0
    BY <2>1, <2>2, FS_EmptySet
  <2> QED BY <1>1, <2>2, <2>3
<1>3. \A k, l \in S : k < l => rank[k] # rank[l]
  <2> SUFFICES ASSUME NEW k \in S, NEW l \in S, k < l, rank[k] = rank[l]
               PROVE  FALSE
    OBVIOUS
  <2>0. S \subseteq Int
    OBVIOUS
  <2>a. \A j \in S : j <= k => j <= l
    BY <2>0
  <2>b. l <= l /\ ~(l <= k)
    BY <2>0
  <2>1. UpTo(k) \in SUBSET UpTo(l) /\ l \in UpTo(l) /\ l \notin UpTo(k)
    BY <2>a, <2>b
  <2>2. UpTo(k) = UpTo(l)
    <3> HIDE DEF UpTo
    <3> QED BY <1>2, <2>1, FS_Subset
  <2> QED BY <2>1, <2>2
<1>4. rank \in [S -> 1 .. N]
  BY <1>2
<1>5. rank \in Injection(S, 1 .. N)
  <2>1. \A k, l \in S : rank[k] = rank[l] => k = l
    <3> SUFFICES ASSUME NEW k \in S, NEW l \in S, rank[k] = rank[l], k # l
                 PROVE  FALSE
      OBVIOUS
    <3>1. k < l \/ l < k
      OBVIOUS
    <3> QED BY <1>3, <3>1
  <2> HIDE DEF rank
  <2> QED BY <1>4, <2>1 DEF Injection, IsInjective
<1>6. rank \in Surjection(S, 1 .. N)
  <2>1. IsFiniteSet(1 .. N) /\ Cardinality(1 .. N) = N
    BY <1>1, FS_Interval
  <2> HIDE DEF rank
  <2> QED BY <1>1, <1>5, <2>1, FS_Injection
<1>7. \A m \in 1 .. N : \E k \in S : Cardinality(UpTo(k)) = m
  BY <1>6 DEF Surjection
<1>8. \A m \in 1 .. N : Nth(S, m) \in S /\ Cardinality(UpTo(Nth(S, m))) = m
  BY <1>7 DEF Nth
<1>9. \A k \in S : Nth(S, rank[k]) = k
  <2> SUFFICES ASSUME NEW k \in S
               PROVE  Nth(S, rank[k]) = k
    OBVIOUS
  <2>1. rank[k] \in 1 .. N
    BY <1>4
  <2>2. Nth(S, rank[k]) \in S /\ rank[Nth(S, rank[k])] = rank[k]
    BY <1>8, <2>1
  <2> HIDE DEF rank
  <2> QED BY <1>5, <2>2 DEF Injection, IsInjective
<1> QED BY <1>1, <1>2, <1>8, <1>9

LEMMA SeedsCount == 2 ^ SeedWidth \in Nat \ {0}
<1>1. SeedWidth - 1 \in 0 .. 31 /\ (SeedWidth - 1) + 1 = SeedWidth
  <2>1. SeedWidth \in 1 .. 32
    BY CallsAssumption
  <2> QED BY <2>1
<1>2. 2 ^ ((SeedWidth - 1) + 1) \in Nat \ {0}
  BY <1>1, PowersOfTwo, Zenon
<1> QED BY <1>1, <1>2

LEMMA ExtendedIs ==
  ASSUME NEW f, NEW g, NEW x
  PROVE  /\ x \in DOMAIN f => x \in DOMAIN Extended(f, g) /\ Extended(f, g)[x] = f[x]
         /\ x \in DOMAIN g /\ x \notin DOMAIN f =>
              x \in DOMAIN Extended(f, g) /\ Extended(f, g)[x] = g[x]
BY DEF Extended

\* What is taken from the measurements once they are found in order.
LEMMA MeasuredIs ==
  ASSUME call \in Calls, MeasurementsError = "none"
  PROVE  LET Nm == call.args["Nm"]
             llh == Measured(EffectsGiven)
         IN  /\ \A k \in DOMAIN Nm : Nm[k] # 0 =>
                  \E j \in DOMAIN llh : llh[j] = <<EffectsGiven[k], Nm[k]>>
             /\ \A j \in DOMAIN llh : llh[j][2] > 0 /\ llh[j][1].valid
<1> DEFINE Nm == call.args["Nm"]
           E == EffectsGiven
           O == Observed(E)
           N == Cardinality(O)
<1>1. Given("Nm") /\ (Given("Emn") \/ Given("Exn")) /\ ~Uncastable({"Nm", "Exn"})
      /\ EffectsError(E) = "none" /\ (~Given("Exn") => ~Uncastable({"Emn"}))
  <2>1. Given("Nm") /\ (Given("Emn") \/ Given("Exn")) /\ ~Uncastable({"Nm", "Exn"})
    BY DEF MeasurementsError, Invalid, CastError
  <2>2. CASE Given("Exn")
    BY <2>1, <2>2 DEF MeasurementsError, EffectsGiven, Invalid, CastError
  <2>3. CASE ~Given("Exn")
    <3>1. E = call.args["Emn"]
      BY <2>3 DEF EffectsGiven
    <3>2. ~(Len(E) = Len(Nm) /\ Uncastable({"Emn"})) /\ EffectsError(E) = "none"
      BY <2>1, <2>3, <3>1 DEF MeasurementsError, Invalid, CastError
    <3> QED BY <2>1, <3>2 DEF EffectsError, Invalid
  <2> QED BY <2>1, <2>2, <2>3
<1>2. Nm \in Seq(Nat) /\ IsList(E)
  <2>1. \A name : Given(name) /\ name \notin call.uncastable => IsArgument(name, call.args[name])
    BY CallsAssumption DEF Given
  <2>2. Nm \in Seq(Nat)
    BY <1>1, <2>1 DEF Uncastable, IsArgument
  <2>3. CASE Given("Exn")
    BY <1>1, <2>1, <2>3 DEF Uncastable, IsArgument, EffectsGiven
  <2>4. CASE ~Given("Exn")
    BY <1>1, <2>1, <2>4 DEF Uncastable, IsArgument, EffectsGiven
  <2> QED BY <2>2, <2>3, <2>4
<1>3. /\ DOMAIN E = DOMAIN Nm /\ DOMAIN Nm = 1 .. Len(Nm) /\ Len(Nm) \in Nat
      /\ \A k \in O : E[k].valid
  <2>1. Len(E) = Len(Nm) /\ \A k \in O : E[k].valid
    BY <1>1 DEF EffectsError, Invalid
  <2> HIDE DEF E, Nm
  <2> QED BY <1>2, <2>1 DEF IsList
<1>4. O = {k \in DOMAIN E : Nm[k] # 0}
  BY DEF Observed
<1>5. O \in SUBSET (1 .. Len(Nm))
  BY <1>3, <1>4
<1>6. /\ N \in Nat
      /\ \A m \in 1 .. N : Nth(O, m) \in O
      /\ \A k \in O : \E m \in 1 .. N : Nth(O, m) = k
  <2> HIDE DEF O, Nm
  <2> QED BY <1>3, <1>5, NthNumbers
<1>7. Measured(E) = [m \in 1 .. N |-> <<E[Nth(O, m)], Nm[Nth(O, m)]>>]
  BY DEF Measured
<1>8. \A k \in O : Nm[k] \in Nat /\ Nm[k] # 0
  <2> HIDE DEF Nm, E
  <2> QED BY <1>2, <1>3, <1>4
<1> HIDE DEF O, N, Nm, E
<1>9. ASSUME NEW k \in DOMAIN Nm, Nm[k] # 0
      PROVE  \E j \in DOMAIN Measured(E) : Measured(E)[j] = <<E[k], Nm[k]>>
  <2>1. k \in O
    BY <1>3, <1>4, <1>9
  <2> QED BY <1>6, <1>7, <2>1
<1>10. ASSUME NEW j \in DOMAIN Measured(E)
       PROVE  Measured(E)[j][2] > 0 /\ Measured(E)[j][1].valid
  <2>1. j \in 1 .. N /\ Measured(E)[j] = <<E[Nth(O, j)], Nm[Nth(O, j)]>>
    BY <1>7
  <2> QED BY <1>3, <1>6, <1>8, <2>1
<1> QED BY <1>9, <1>10 DEF Nm, E

\* The effect of a stage that raises no error.
LEMMA StagePassed ==
  ASSUME NEW at, NEW error, NEW taken, NEW warnings, NEW prepared, NEW next,
         Stage(at, error, taken, warnings, prepared, next), stage' # "over"
  PROVE  /\ stage = at /\ error = "none" /\ stage' = next /\ call' = call
         /\ left' = left \ taken /\ warned' = warned \cup warnings
         /\ setup' = Extended(prepared, setup)
BY DEF Stage

LEMMA StageFailed ==
  ASSUME NEW at, NEW error, NEW taken, NEW warnings, NEW prepared, NEW next,
         Stage(at, error, taken, warnings, prepared, next)
  PROVE  call' = call
BY DEF Stage

\* What a stage has left for the tasks, no later one changes.
LEMMA EarlierKept ==
  ASSUME NEW prepared, call' = call, warned \subseteq warned', setup' = Extended(prepared, setup)
  PROVE  /\ MeasurementsKept /\ "llh" \notin DOMAIN prepared => MeasurementsKept'
         /\ FigOfMeritKept /\ "valcalc" \notin DOMAIN prepared => FigOfMeritKept'
         /\ ParametersKept => ParametersKept'
         /\ SeedsKept /\ "task_seeds" \notin DOMAIN prepared => SeedsKept'
<1>1. \A x \in DOMAIN setup \ DOMAIN prepared : x \in DOMAIN setup' /\ setup'[x] = setup[x]
  BY ExtendedIs
<1>2. ASSUME MeasurementsKept, "llh" \notin DOMAIN prepared
      PROVE  MeasurementsKept'
  <2>1. "llh" \in DOMAIN setup' /\ setup'.llh = setup.llh
    BY <1>1, <1>2 DEF MeasurementsKept
  <2>2. EffectsGiven' = EffectsGiven
    BY DEF EffectsGiven, Given
  <2> QED BY <1>2, <2>1, <2>2 DEF MeasurementsKept
<1>3. FigOfMerit' = FigOfMerit /\ NumRepeats' = NumRepeats /\ FromDevice' = FromDevice
  BY DEF FigOfMerit, NumRepeats, FromDevice, BaseSeed, Arg, Given
<1>4. ASSUME FigOfMeritKept, "valcalc" \notin DOMAIN prepared
      PROVE  FigOfMeritKept'
  <2>1. "valcalc" \in DOMAIN setup' /\ setup'.valcalc = setup.valcalc
    BY <1>1, <1>4 DEF FigOfMeritKept
  <2> QED BY <1>3, <1>4, <2>1 DEF FigOfMeritKept
<1>5. ParametersKept => ParametersKept'
  BY <1>3 DEF ParametersKept
<1>6. ASSUME SeedsKept, "task_seeds" \notin DOMAIN prepared
      PROVE  SeedsKept'
  <2>1. "task_seeds" \in DOMAIN setup' /\ setup'.task_seeds = setup.task_seeds
    BY <1>1, <1>6 DEF SeedsKept
  <2> QED BY <1>3, <1>6, <2>1 DEF SeedsKept
<1> QED BY <1>2, <1>4, <1>5, <1>6

LEMMA MeasurementsTaken ==
  ASSUME ArgumentsInv, TakeMeasurements
  PROVE  ArgumentsInv'
<1>1. call' = call /\ call' \in Calls
  BY StageFailed DEF TakeMeasurements, ArgumentsInv
<1>2. CASE stage' = "over"
  BY <1>1, <1>2 DEF ArgumentsInv, TakenSoFar, NotYetIgnored, AfterMeasurements,
       AfterFigOfMerit, AfterParameters, AfterSeeds, AfterOptions
<1>3. CASE stage' # "over"
  <2>1. /\ stage = "measurements" /\ MeasurementsError = "none" /\ stage' = "figure of merit"
        /\ left' = left \ {"dim", "Nm", "Emn", "Exn"}
        /\ setup' = Extended(IF MeasurementsError = "none" THEN [llh |-> Measured(EffectsGiven)]
                             ELSE Empty, setup)
    BY <1>3, StagePassed DEF TakeMeasurements
  <2>2. "llh" \in DOMAIN setup' /\ setup'.llh = Measured(EffectsGiven)
    <3>1. setup' = Extended([llh |-> Measured(EffectsGiven)], setup)
      BY <2>1
    <3> QED BY <3>1, ExtendedIs
  <2>3. MeasurementsKept'
    <3>1. EffectsGiven' = EffectsGiven
      BY <1>1 DEF EffectsGiven, Given
    <3> QED BY <1>1, <2>1, <2>2, <3>1, MeasuredIs DEF MeasurementsKept, ArgumentsInv
  <2>4. NotYetIgnored'
    BY <1>1, <2>1 DEF NotYetIgnored, ArgumentsInv, TakenSoFar
  <2> QED BY <1>1, <2>1, <2>3, <2>4 DEF ArgumentsInv, TakenSoFar, AfterFigOfMerit,
            AfterParameters, AfterSeeds, AfterOptions
<1> QED BY <1>2, <1>3

LEMMA FigOfMeritTaken ==
  ASSUME ArgumentsInv, TakeFigOfMerit
  PROVE  ArgumentsInv'
<1>1. call' = call /\ call' \in Calls
  BY StageFailed DEF TakeFigOfMerit, ArgumentsInv
<1>2. CASE stage' = "over"
  BY <1>1, <1>2 DEF ArgumentsInv, TakenSoFar, NotYetIgnored, AfterMeasurements,
       AfterFigOfMerit, AfterParameters, AfterSeeds, AfterOptions
<1>3. CASE stage' # "over"
  <2>1. /\ stage = "figure of merit" /\ FigOfMeritError = "none" /\ stage' = "parameters"
        /\ warned' = warned \cup (Ignored \cup (IF Given("fig_of_merit") THEN {}
                                                ELSE {"fig_of_merit"}))
        /\ setup' = Extended([valcalc |-> FigOfMerit], setup)
    BY <1>3 DEF TakeFigOfMerit, Stage
  <2>2. MeasurementsKept'
    <3>1. MeasurementsKept /\ "llh" \notin DOMAIN [valcalc |-> FigOfMerit]
      BY <2>1 DEF ArgumentsInv, TakenSoFar, AfterMeasurements
    <3>2. warned \subseteq warned'
      BY <2>1
    <3> QED BY <1>1, <2>1, <3>1, <3>2, EarlierKept, Zenon
  <2>3. FigOfMeritKept'
    <3>1. "valcalc" \in DOMAIN setup' /\ setup'.valcalc = FigOfMerit /\ FigOfMerit' = FigOfMerit
      <4>1. FigOfMerit' = FigOfMerit
        BY <1>1 DEF FigOfMerit, Arg, Given
      <4> DEFINE prepared == [valcalc |-> FigOfMerit]
      <4>2. "valcalc" \in DOMAIN prepared /\ prepared.valcalc = FigOfMerit
        OBVIOUS
      <4> HIDE DEF prepared
      <4>3. setup' = Extended(prepared, setup)
        BY <2>1 DEF prepared
      <4> QED BY <4>1, <4>2, <4>3, ExtendedIs
    <3>2. FigOfMerit \in ToReference \cup {"obs-value", "callable"}
      BY <2>1 DEF FigOfMeritError, Invalid, CastError
    <3>3. DOMAIN call.args \cap {"ref_state", "observable"} \subseteq
            warned' \cup NeededFor(FigOfMerit)
      <4>1. DOMAIN call.args \cap {"ref_state", "observable"} \subseteq left
        BY <2>1 DEF ArgumentsInv, TakenSoFar, NotYetIgnored
      <4> QED BY <2>1, <4>1 DEF Ignored
    <3> QED BY <1>1, <3>1, <3>2, <3>3 DEF FigOfMeritKept
  <2> QED BY <1>1, <2>1, <2>2, <2>3 DEF ArgumentsInv, TakenSoFar, NotYetIgnored,
            AfterParameters, AfterSeeds, AfterOptions
<1> QED BY <1>2, <1>3

LEMMA ParametersTaken ==
  ASSUME ArgumentsInv, TakeParameters
  PROVE  ArgumentsInv'
<1>1. call' = call /\ call' \in Calls
  BY StageFailed DEF TakeParameters, ArgumentsInv
<1>2. CASE stage' = "over"
  BY <1>1, <1>2 DEF ArgumentsInv, TakenSoFar, NotYetIgnored, AfterMeasurements,
       AfterFigOfMerit, AfterParameters, AfterSeeds, AfterOptions
<1>3. CASE stage' # "over"
  <2> DEFINE prepared == [num_repeats |-> NumRepeats]
  <2>1. /\ stage = "parameters" /\ ParametersError = "none" /\ stage' = "seeds"
        /\ warned \subseteq warned' /\ setup' = Extended(prepared, setup)
    BY <1>3 DEF TakeParameters, Stage
  <2>2. MeasurementsKept' /\ FigOfMeritKept'
    <3>1. MeasurementsKept /\ FigOfMeritKept
      BY <2>1 DEF ArgumentsInv, TakenSoFar, AfterMeasurements, AfterFigOfMerit
    <3>2. "llh" \notin DOMAIN prepared /\ "valcalc" \notin DOMAIN prepared
      OBVIOUS
    <3> HIDE DEF prepared
    <3> QED BY <1>1, <2>1, <3>1, <3>2, EarlierKept
  <2>3. ParametersKept'
    <3>1. \A name : Given(name) /\ name \notin call.uncastable => IsArgument(name, call.args[name])
      BY <1>1, CallsAssumption DEF Given
    <3>2. /\ Given("mhrw_params") /\ "mhrw_params" \notin call.uncastable
          /\ call.args["mhrw_params"].n_run >= 0
          /\ Given("num_repeats") => "num_repeats" \notin call.uncastable
          /\ ~(NumRepeats < 1)
      <4>1. Given("mhrw_params") /\ ~Uncastable({"mhrw_params"}) /\ ~Uncastable({"num_repeats"})
            /\ ~(NumRepeats < 1) /\ ~(Arg("mhrw_params", [n_sweep |-> 1, n_therm |-> 0, n_run |-> 0]).n_run < 0)
        BY <2>1 DEF ParametersError, Invalid, CastError
      <4>2. ~(call.args["mhrw_params"].n_run < 0)
        BY <4>1 DEF Arg
      <4>3. call.args["mhrw_params"].n_run \in Int
        BY <3>1, <4>1 DEF Uncastable, IsArgument
      <4> QED BY <4>1, <4>2, <4>3 DEF Uncastable
    <3>3. call.args["mhrw_params"].n_run \in 0 .. MaxInt
      <4>1. MaxInt \in Int
        BY SMT DEF MaxInt
      <4>2. call.args["mhrw_params"].n_run \in Int /\ call.args["mhrw_params"].n_run <= MaxInt
        BY <3>1, <3>2 DEF IsArgument
      <4> QED BY <3>2, <4>1, <4>2
    <3>4. NumRepeats \in 1 .. 2 ^ SeedWidth
      <4>1. 2 ^ SeedWidth \in Nat
        BY SeedsCount
      <4>2. call.cores \in 0 .. 2 ^ SeedWidth
        BY <1>1, CallsAssumption
      <4>3. Given("num_repeats") =>
              call.args["num_repeats"] \in Int /\ call.args["num_repeats"] <= 2 ^ SeedWidth
        BY <3>1, <3>2 DEF IsArgument
      <4> QED BY <3>2, <4>1, <4>2, <4>3 DEF NumRepeats, Arg
    <3>5. NumRepeats' = NumRepeats
      BY <1>1 DEF NumRepeats, Arg, Given
    <3> QED BY <1>1, <3>3, <3>4, <3>5 DEF ParametersKept
  <2> QED BY <1>1, <2>1, <2>2, <2>3 DEF ArgumentsInv, TakenSoFar, NotYetIgnored,
            AfterSeeds, AfterOptions
<1> QED BY <1>2, <1>3

\* Tasks numbered from a base seed have seeds of their own.
LEMMA SeedsDiffer ==
  ASSUME NEW b \in Int, NEW n \in 1 .. 2 ^ SeedWidth
  PROVE  IsInjective([k \in 1 .. n |-> TaskSeed(b, k - 1)])
<1> DEFINE M == 2 ^ SeedWidth
           seeds == [k \in 1 .. n |-> TaskSeed(b, k - 1)]
<1>1. M \in Nat \ {0}
  BY SeedsCount
<1>2. ASSUME NEW k \in 1 .. n, NEW l \in 1 .. n, seeds[k] = seeds[l]
      PROVE  k = l
  <2>1. (b + (k - 1)) % M = (b + (l - 1)) % M
    BY <1>2 DEF TaskSeed
  <2>2. n \in 1 .. M
    OBVIOUS
  <2> HIDE DEF M
  <2>3. /\ b + (k - 1) \in Int /\ b + (l - 1) \in Int
        /\ (b + (k - 1)) - (b + (l - 1)) < M /\ (b + (l - 1)) - (b + (k - 1)) < M
    BY <1>1, <2>2
  <2>4. b + (k - 1) = b + (l - 1)
    BY <1>1, <2>1, <2>3, SameRemainder
  <2> QED BY <1>1, <2>2, <2>4
<1>3. DOMAIN seeds = 1 .. n
  OBVIOUS
<1> HIDE DEF seeds
<1>4. IsInjective(seeds)
  BY <1>2, <1>3 DEF IsInjective
<1> QED BY <1>4 DEF seeds

LEMMA SeedsTaken ==
  ASSUME ArgumentsInv, TakeSeeds
  PROVE  ArgumentsInv'
<1> DEFINE base == IF FromDevice THEN [1 .. NumRepeats -> Seeds]
                   ELSE {[k \in 1 .. NumRepeats |-> TaskSeed(b, k - 1)] : b \in BaseSeeds}
<1>1. PICK seeds : /\ SeedsError = "none" => seeds \in base
                   /\ Stage("seeds", SeedsError, {"rng_base_seed"},
                            IF SeedTooLarge THEN {"rng_base_seed"} ELSE {},
                            [task_seeds |-> seeds], "options")
  BY DEF TakeSeeds
<1>2. call' = call /\ call' \in Calls
  BY <1>1, StageFailed DEF ArgumentsInv
<1>3. CASE stage' = "over"
  BY <1>2, <1>3 DEF ArgumentsInv, TakenSoFar, NotYetIgnored, AfterMeasurements,
       AfterFigOfMerit, AfterParameters, AfterSeeds, AfterOptions
<1>4. CASE stage' # "over"
  <2> DEFINE prepared == [task_seeds |-> seeds]
  <2>1. /\ stage = "seeds" /\ SeedsError = "none" /\ stage' = "options"
        /\ warned \subseteq warned' /\ setup' = Extended(prepared, setup)
    BY <1>1, <1>4 DEF Stage
  <2>2. "llh" \notin DOMAIN prepared /\ "valcalc" \notin DOMAIN prepared
        /\ "task_seeds" \in DOMAIN prepared /\ prepared.task_seeds = seeds
    OBVIOUS
  <2>3. MeasurementsKept' /\ FigOfMeritKept' /\ ParametersKept'
    <3>1. MeasurementsKept /\ FigOfMeritKept /\ ParametersKept
      BY <2>1 DEF ArgumentsInv, TakenSoFar, AfterMeasurements, AfterFigOfMerit, AfterParameters
    <3> HIDE DEF prepared
    <3> QED BY <1>2, <2>1, <2>2, <3>1, EarlierKept
  <2>4. FromDevice \/ IsInjective(seeds)
    <3> SUFFICES ASSUME ~FromDevice
                 PROVE  IsInjective(seeds)
      OBVIOUS
    <3>1. PICK b \in BaseSeeds : seeds = [k \in 1 .. NumRepeats |-> TaskSeed(b, k - 1)]
      BY <1>1, <2>1
    <3>2. b \in Int
      <4>1. 2 ^ SeedWidth \in Nat \ {0}
        BY SeedsCount
      <4>2. CASE BaseSeed.type = "int"
        <5>1. BaseSeed.is \in Int
          <6>1. Given("rng_base_seed") /\ BaseSeed = call.args["rng_base_seed"]
            BY <4>2 DEF BaseSeed, Arg
          <6>2. "rng_base_seed" \notin call.uncastable
            BY <2>1, <6>1 DEF SeedsError, Uncastable, CastError
          <6>3. IsArgument("rng_base_seed", call.args["rng_base_seed"])
            BY <1>2, <6>1, <6>2, CallsAssumption DEF Given
          <6> QED BY <4>2, <6>1, <6>3 DEF IsArgument
        <5>2. b = BaseSeed.is % 2 ^ SeedWidth
          BY <4>2 DEF BaseSeeds
        <5> QED BY <4>1, <5>1, <5>2
      <4>3. CASE BaseSeed.type # "int"
        BY <4>1, <4>3 DEF BaseSeeds, Seeds
      <4> QED BY <4>2, <4>3
    <3>3. NumRepeats \in 1 .. 2 ^ SeedWidth
      BY <2>1 DEF ArgumentsInv, TakenSoFar, AfterParameters, ParametersKept
    <3> QED BY <3>1, <3>2, <3>3, SeedsDiffer
  <2>5. SeedsKept'
    <3>1. "task_seeds" \in DOMAIN setup' /\ setup'.task_seeds = seeds
      <4> HIDE DEF prepared
      <4> QED BY <2>1, <2>2, ExtendedIs
    <3>2. FromDevice' = FromDevice
      BY <1>2 DEF FromDevice, BaseSeed, Arg, Given
    <3> QED BY <2>4, <3>1, <3>2 DEF SeedsKept
  <2> QED BY <1>2, <2>1, <2>3, <2>5 DEF ArgumentsInv, TakenSoFar, NotYetIgnored, AfterOptions
<1> QED BY <1>3, <1>4

LEMMA LevelsBounded ==
  ASSUME call \in Calls, OptionsError = "none", ParametersKept
  PROVE  Levels \in 0 .. 30
<1> DEFINE given == Arg("binning_num_levels", -1)
           n_run == call.args["mhrw_params"].n_run
<1>1. given \in Int /\ given <= 30
  <2>1. CASE Given("binning_num_levels")
    <3>1. "binning_num_levels" \notin call.uncastable
      BY <2>1 DEF OptionsError, Uncastable, CastError
    <3>2. IsArgument("binning_num_levels", call.args["binning_num_levels"])
      BY <2>1, <3>1, CallsAssumption DEF Given
    <3> QED BY <2>1, <3>2 DEF IsArgument, Arg
  <2>2. CASE ~Given("binning_num_levels")
    BY <2>2 DEF Arg
  <2> QED BY <2>1, <2>2
<1>2. n_run \in Int /\ n_run <= MaxInt
  <2>1. n_run \in 0 .. MaxInt
    BY DEF ParametersKept
  <2>2. MaxInt \in Int
    BY SMT DEF MaxInt
  <2> HIDE DEF n_run
  <2> QED BY <2>1, <2>2, SMT
<1>3. Levels = SanitizeBinningLevels(given, n_run, 128)
  BY DEF Levels, SamplesLastLevel
<1> HIDE DEF given, n_run
<1>4. Levels \in Int /\ Levels > 0 /\ (given > 0 => Levels = given)
      /\ (~(given > 0) => Levels <= 30)
  BY <1>1, <1>2, <1>3, LevelsLeaveEnough
<1> QED BY <1>1, <1>4, SMT

LEMMA OptionsTaken ==
  ASSUME ArgumentsInv, TakeOptions
  PROVE  ArgumentsInv'
<1>1. call' = call /\ call' \in Calls
  BY DEF TakeOptions, Stage, ArgumentsInv
<1>2. CASE stage' = "over"
  BY <1>1, <1>2 DEF ArgumentsInv, TakenSoFar, NotYetIgnored, AfterMeasurements,
       AfterFigOfMerit, AfterParameters, AfterSeeds, AfterOptions
<1>3. CASE stage' # "over"
  <2> DEFINE prepared ==
               [binning_num_levels |-> IF OptionsError = "none" THEN Levels ELSE 0,
                jumps_method |-> Arg("jumps_method", "full"),
                progress_interval_ms |-> Arg("progress_interval_ms", 500)]
  <2>1. /\ stage = "options" /\ OptionsError = "none" /\ stage' = "dispatcher"
        /\ left' = left \ OptionNames
        /\ warned' = warned \cup (IF OptionsError = "none" THEN LevelWarnings ELSE {})
        /\ setup' = Extended(prepared, setup)
    BY <1>3 DEF TakeOptions, Stage
  <2>2. /\ "llh" \notin DOMAIN prepared /\ "valcalc" \notin DOMAIN prepared
        /\ "task_seeds" \notin DOMAIN prepared
        /\ "binning_num_levels" \in DOMAIN prepared /\ prepared.binning_num_levels = Levels
    BY <2>1
  <2>3. MeasurementsKept' /\ FigOfMeritKept' /\ ParametersKept' /\ SeedsKept'
    <3>1. MeasurementsKept /\ FigOfMeritKept /\ ParametersKept /\ SeedsKept
      BY <2>1 DEF ArgumentsInv, TakenSoFar, AfterMeasurements, AfterFigOfMerit,
           AfterParameters, AfterSeeds
    <3>2. warned \subseteq warned'
      BY <2>1
    <3> HIDE DEF prepared
    <3> QED BY <1>1, <2>1, <2>2, <3>1, <3>2, EarlierKept
  <2>4. OptionsKept'
    <3>1. "binning_num_levels" \in DOMAIN setup' /\ setup'.binning_num_levels = Levels
      <4> HIDE DEF prepared
      <4> QED BY <2>1, <2>2, ExtendedIs
    <3>2. Levels' = Levels /\ LevelWarnings' = LevelWarnings
      <4>1. Levels' = Levels
        BY <1>1 DEF Levels, Arg, Given
      <4> QED BY <1>1, <4>1 DEF LevelWarnings
    <3>3. Levels \in 0 .. 30
      <4>1. call \in Calls /\ ParametersKept
        BY <2>1 DEF ArgumentsInv, TakenSoFar, AfterParameters, AfterSeeds
      <4> QED BY <2>1, <4>1, LevelsBounded
    <3>4. left' = {}
      <4>1. left \ OptionNames = {}
        BY <2>1 DEF OptionsError, Invalid, CastError
      <4> QED BY <2>1, <4>1
    <3>5. LevelWarnings \subseteq warned'
      BY <2>1
    <3> QED BY <3>1, <3>2, <3>3, <3>4, <3>5 DEF OptionsKept
  <2> QED BY <1>1, <2>1, <2>3, <2>4 DEF ArgumentsInv, TakenSoFar, NotYetIgnored
<1> QED BY <1>2, <1>3

\* From the run on nothing is taken, and nothing changed.
LEMMA ArgumentsAtRest ==
  ASSUME ArgumentsInv, UNCHANGED <<arguments, setup>>,
         \/ stage' \in {stage, "over"}
         \/ stage \in AfterOptions /\ stage' \in AfterOptions
  PROVE  ArgumentsInv'
<1>1. call' = call /\ left' = left /\ warned' = warned /\ setup' = setup
  BY DEF arguments
<1>2. /\ MeasurementsKept' = MeasurementsKept /\ FigOfMeritKept' = FigOfMeritKept
      /\ ParametersKept' = ParametersKept /\ SeedsKept' = SeedsKept
      /\ OptionsKept' = OptionsKept
  <2>1. /\ EffectsGiven' = EffectsGiven /\ FigOfMerit' = FigOfMerit
        /\ NumRepeats' = NumRepeats /\ FromDevice' = FromDevice /\ Levels' = Levels
    BY <1>1 DEF EffectsGiven, FigOfMerit, NumRepeats, FromDevice, BaseSeed, Levels, Arg, Given
  <2>2. LevelWarnings' = LevelWarnings
    BY <1>1, <2>1 DEF LevelWarnings
  <2> QED BY <1>1, <2>1, <2>2 DEF MeasurementsKept, FigOfMeritKept, ParametersKept, SeedsKept,
            OptionsKept
<1> USE DEF AfterMeasurements, AfterFigOfMerit, AfterParameters, AfterSeeds, AfterOptions
<1>3. CASE stage' = stage
  BY <1>1, <1>2, <1>3 DEF ArgumentsInv, TakenSoFar, NotYetIgnored
<1>4. CASE stage' = "over"
  BY <1>1, <1>4 DEF ArgumentsInv, TakenSoFar, NotYetIgnored
<1>5. CASE stage \in AfterOptions /\ stage' \in AfterOptions
  BY <1>1, <1>2, <1>5 DEF ArgumentsInv, TakenSoFar, NotYetIgnored
<1> QED BY <1>3, <1>4, <1>5

LEMMA RunLeavesArguments ==
  ASSUME \/ SetUpRun \/ WorkerStep \/ HitCtrlC \/ EndRun \/ Return \/ AfterReturn
         \/ \E t \in AllThreads : StartTask(t) \/ EndTask(t) \/ Raise(t)
  PROVE  /\ UNCHANGED <<arguments, setup>>
         /\ \/ stage' \in {stage, "over"}
            \/ stage \in AfterOptions /\ stage' \in AfterOptions
<1> USE DEF AfterOptions
<1>1. CASE SetUpRun
  BY <1>1 DEF SetUpRun
<1>2. CASE WorkerStep
  BY <1>2 DEF WorkerStep
<1>3. CASE HitCtrlC
  BY <1>3 DEF HitCtrlC
<1>4. CASE EndRun
  BY <1>4 DEF EndRun
<1>5. CASE Return
  BY <1>5 DEF Return
<1>6. CASE AfterReturn
  BY <1>6 DEF AfterReturn, py_vars
<1>7. ASSUME NEW t \in AllThreads, StartTask(t) \/ EndTask(t) \/ Raise(t)
      PROVE  UNCHANGED <<arguments, setup>> /\ stage' = stage
  BY <1>7 DEF StartTask, EndTask, Raise, RunStep
<1> QED BY <1>1, <1>2, <1>3, <1>4, <1>5, <1>6, <1>7

\* What the stages have left is what was asked for.
LEMMA AskedFor ==
  ASSUME ArgumentsInv
  PROVE  TasksAsAsked
<1> SUFFICES ASSUME stage \in {"run", "returning"}
             PROVE  TasksAsAsked
  BY DEF TasksAsAsked
<1> DEFINE n_run == call.args["mhrw_params"].n_run
           M == 2 ^ Levels
           unused == IF setup.valcalc = "callable" THEN {"ref_state", "observable"}
                     ELSE IF setup.valcalc = "obs-value" THEN {"ref_state"} ELSE {"observable"}
<1>1. MeasurementsKept /\ FigOfMeritKept /\ ParametersKept /\ SeedsKept /\ OptionsKept
  BY DEF ArgumentsInv, TakenSoFar, AfterMeasurements, AfterFigOfMerit, AfterParameters,
       AfterSeeds, AfterOptions
<1>2. DOMAIN call.args \cap unused \subseteq warned
  BY <1>1 DEF FigOfMeritKept, NeededFor, ToReference
<1>3. ASSUME warned \cap {"n_run", "few samples"} = {}
      PROVE  \E blocks \in SamplesLastLevel .. n_run :
               n_run = blocks * 2 ^ setup.binning_num_levels
  <2>1. n_run % M = 0 /\ ~(n_run \div M < SamplesLastLevel)
    BY <1>1, <1>3 DEF OptionsKept, LevelWarnings, FewSamples, LastLevelNumSamples
  <2>2. n_run \in Nat
    <3>1. n_run \in 0 .. MaxInt
      BY <1>1 DEF ParametersKept
    <3> HIDE DEF n_run
    <3> QED BY <3>1, SMT
  <2>3. M \in Nat \ {0}
    <3>1. Levels \in 0 .. 31
      <4>1. Levels \in 0 .. 30
        BY <1>1 DEF OptionsKept
      <4> QED BY <4>1, SMT
    <3> QED BY <3>1, PowersOfTwo, Zenon
  <2>4. setup.binning_num_levels = Levels
    BY <1>1 DEF OptionsKept
  <2> HIDE DEF n_run, M
  <2>5. /\ n_run = (n_run \div M) * M /\ n_run \div M \in Int /\ n_run \div M <= n_run
        /\ n_run \div M >= 128
    <3>1. /\ n_run = M * (n_run \div M) + (n_run % M)
          /\ n_run \div M \in Nat
      BY <2>2, <2>3, SMT
    <3>2. n_run = M * (n_run \div M)
      BY <2>1, <2>2, <2>3, <3>1, SMT
    <3>3. \A b \in Nat : M * b >= b /\ M * b = b * M
      BY <2>3, SMT
    <3>4. n_run \div M >= 128
      BY <2>1, <3>1, SMT DEF SamplesLastLevel
    <3> HIDE DEF n_run
    <3> QED BY <3>1, <3>2, <3>3, <3>4
  <2>6. n_run \div M \in SamplesLastLevel .. n_run
    BY <2>2, <2>5, SMT DEF SamplesLastLevel
  <2>7. \E blocks \in SamplesLastLevel .. n_run : n_run = blocks * M
    BY <2>5, <2>6, Zenon
  <2> QED BY <2>4, <2>7 DEF M
<1>4. left = {} /\ (FromDevice \/ IsInjective(setup.task_seeds))
  BY <1>1 DEF SeedsKept, OptionsKept
<1> QED BY <1>1, <1>2, <1>3, <1>4 DEF TasksAsAsked, MeasurementsKept

THEOREM PyArgumentsInvariance == PySpec => []ArgumentsInv
<1>1. PyInit => ArgumentsInv
  BY DEF PyInit, ArgumentsInv, TakenSoFar, NotYetIgnored, AfterMeasurements, AfterFigOfMerit,
       AfterParameters, AfterSeeds, AfterOptions
<1>2. ASSUME ArgumentsInv, [PyNext]_py_vars
      PROVE  ArgumentsInv'
  <2>1. CASE TakeMeasurements \/ TakeFigOfMerit \/ TakeParameters \/ TakeSeeds \/ TakeOptions
    BY <1>2, <2>1, MeasurementsTaken, FigOfMeritTaken, ParametersTaken, SeedsTaken, OptionsTaken
  <2>2. CASE \/ SetUpRun \/ WorkerStep \/ HitCtrlC \/ EndRun \/ Return \/ AfterReturn
             \/ \E t \in AllThreads : StartTask(t) \/ EndTask(t) \/ Raise(t)
    BY <1>2, <2>2, RunLeavesArguments, ArgumentsAtRest
  <2>3. CASE UNCHANGED py_vars
    BY <1>2, <2>3, ArgumentsAtRest DEF py_vars
  <2> QED BY <1>2, <2>1, <2>2, <2>3 DEF PyNext
<1> QED BY <1>1, <1>2, PTL DEF PySpec

THEOREM PyTasksAsAsked == PySpec => []TasksAsAsked
<1> QED BY AskedFor, PyArgumentsInvariance, PTL

=============================================================================
