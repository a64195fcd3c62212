--------------------------- MODULE DispatcherLocks ---------------------------
(***************************************************************************)
(* The critical sections of the dispatchers on threads, at the level of    *)
(* mutexes: struct CriticalSectionManager and class ThreadSanitizerLogger  *)
(* of multiprocthreads.h (three mutexes, two taken at once with            *)
(* std::lock) and of multiprocomp.h (one unnamed critical region for       *)
(* everything); and Python's global interpreter lock, the GIL, which the   *)
(* tasks, the logger and the callback of the Python module take in passing.*)
(* ThreadCommon takes each critical section as one step; this module is    *)
(* about what makes that right, and about the logger, which need not be    *)
(* thread safe.  A faulty twin of an operator stands just before it.       *)
(***************************************************************************)
EXTENDS FiniteSets

CONSTANTS
  Threads,        \* the worker threads other than the master
  Master

ASSUME MasterAssumption == Master \notin Threads

AllThreads == Threads \cup {Master}

VARIABLES
  kind,           \* the dispatcher: "cxx", "omp", or "python" when it is the
                  \* first of them, at work for the Python module
  section,        \* the critical section each thread is in or waits for
  held,           \* the mutexes each thread holds
  for_gil         \* the threads in a section that wait for the GIL or hold it

lock_vars == <<kind, section, held, for_gil>>

\* the sections of a task or worker, and those only the master enters:
\* "initiate" also stands for the two setters; in "python" a task calls Python
WorkerSections == {"enter_exit_submit", "schedule", "log", "python"}
MasterSections == {"initiate", "send"}

SectionsOf(t) ==
  (WorkerSections \cup (IF t = Master THEN MasterSections ELSE {}))
    \ (IF kind = "python" THEN {} ELSE {"python"})

CxxMutexesMissingOne(s) ==
  CASE s = "enter_exit_submit" -> {"schedule"}
    [] s = "schedule" -> {"schedule"}
    [] s = "log" -> {"user"}
    [] s = "initiate" -> {"status_report"}
    [] s = "send" -> {"status_report", "user"}

CxxMutexes(s) ==
  CASE s = "enter_exit_submit" -> {"status_report", "schedule"}
    [] s = "schedule" -> {"schedule"}
    [] s = "log" -> {"user"}
    [] s = "initiate" -> {"status_report"}
    [] s = "send" -> {"status_report", "user"}
    [] s = "python" -> {}

OmpMutexesNamedLog(s) == IF s = "log" THEN {"critical(log)"} ELSE {"critical"}

OmpMutexes(s) == {"critical"}

\* the logger of the Python module counts as thread safe
PythonMutexes(s) == IF s = "log" THEN {} ELSE CxxMutexes(s)

MutexesOf(s) ==
  CASE kind = "cxx" -> CxxMutexes(s)
    [] kind = "omp" -> OmpMutexes(s)
    [] kind = "python" -> PythonMutexes(s)

\* what logs, calls back or computes with Python's objects
UsesPython(s) == kind = "python" /\ s \in {"log", "initiate", "send", "python"}

Free(m) == \A t \in AllThreads : m \notin held[t]

Inside(t) == section[t] # "none" /\ MutexesOf(section[t]) \subseteq held[t]

LocksInit ==
  /\ kind \in {"cxx", "omp", "python"}
  /\ section = [t \in AllThreads |-> "none"]
  /\ held = [t \in AllThreads |-> {}]
  /\ for_gil = {}

Want(t) ==
  /\ section[t] = "none"
  /\ \E s \in SectionsOf(t) : section' = [section EXCEPT ![t] = s]
  /\ UNCHANGED <<held, kind, for_gil>>

\* the first mutex is waited for, any other only tried
Lock(t) ==
  /\ section[t] # "none"
  /\ \E m \in MutexesOf(section[t]) \ held[t] :
       /\ Free(m)
       /\ held' = [held EXCEPT ![t] = @ \cup {m}]
  /\ UNCHANGED <<section, kind, for_gil>>

NeverBackOff(t) == FALSE

\* std::lock() gives up what it has when it finds the next mutex taken
MustBackOff(t) ==
  /\ held[t] # {}
  /\ \E m \in MutexesOf(section[t]) \ held[t] : ~Free(m)

BackOff(t) ==
  /\ section[t] # "none"
  /\ MustBackOff(t)
  /\ held' = [held EXCEPT ![t] = {}]
  /\ UNCHANGED <<section, kind, for_gil>>

\* gil_scoped_acquire waits, and gives nothing up
WantGil(t) ==
  /\ Inside(t) /\ UsesPython(section[t])
  /\ t \notin for_gil
  /\ for_gil' = for_gil \cup {t}
  /\ UNCHANGED <<section, held, kind>>

TakeGil(t) ==
  /\ t \in for_gil
  /\ "GIL" \notin held[t] /\ Free("GIL")
  /\ held' = [held EXCEPT ![t] = @ \cup {"GIL"}]
  /\ UNCHANGED <<section, kind, for_gil>>

LetGilGo(t) ==
  /\ t \in for_gil
  /\ "GIL" \in held[t]
  /\ held' = [held EXCEPT ![t] = @ \ {"GIL"}]
  /\ for_gil' = for_gil \ {t}
  /\ UNCHANGED <<section, kind>>

\* the lock guards, which have adopted the mutexes, unlock them all
StillHeld(t) == {}

Leave(t) ==
  /\ Inside(t) /\ t \notin for_gil
  /\ section' = [section EXCEPT ![t] = "none"]
  /\ held' = [held EXCEPT ![t] = StillHeld(t)]
  /\ UNCHANGED <<kind, for_gil>>

ThreadStep(t) ==
  \/ Want(t) \/ Lock(t) \/ BackOff(t) \/ Leave(t)
  \/ WantGil(t) \/ TakeGil(t) \/ LetGilGo(t)

LocksNext == \E t \in AllThreads : ThreadStep(t)

LocksSpec == LocksInit /\ [][LocksNext]_lock_vars

-----------------------------------------------------------------------------
TypeOK ==
  /\ \A t \in AllThreads : section[t] \in SectionsOf(t) \cup {"none"}
  /\ \A t \in AllThreads : section[t] = "none" => held[t] = {}
  /\ \A t \in AllThreads : section[t] # "none" =>
       held[t] \ {"GIL"} \subseteq MutexesOf(section[t])
  /\ \A t \in for_gil : Inside(t) /\ UsesPython(section[t])
  /\ \A t \in AllThreads : "GIL" \in held[t] => t \in for_gil

Writes(what) ==
  CASE what = "report" -> {"enter_exit_submit", "initiate", "send"}
    [] what = "schedule" -> {"enter_exit_submit", "schedule"}

\* The status report accounting and the schedule counters are each written by
\* one thread at a time, whichever of the four kinds of section it is in: what
\* ThreadCommon takes as one step is one.
WritersExclusive ==
  \A what \in {"report", "schedule"} : \A t, u \in AllThreads :
    /\ t # u
    /\ Inside(t) /\ section[t] \in Writes(what)
    /\ Inside(u) /\ section[u] \in Writes(what)
    => FALSE

\* Threads that ask for pairs of mutexes, and for the GIL on top of them, never
\* wait for each other for good: one of those that want to enter or to call
\* Python can go on, or is inside.
SomebodyGoesOn ==
  (\E t \in AllThreads : section[t] # "none") =>
    \E t \in AllThreads :
      /\ section[t] # "none"
      /\ \/ Inside(t) /\ t \notin for_gil
         \/ t \in for_gil /\ ("GIL" \in held[t] \/ Free("GIL"))
         \/ MustBackOff(t)
         \/ \E m \in MutexesOf(section[t]) \ held[t] : Free(m)

\* the initiation of a report logs directly, and so may the callback
Logging(t) ==
  /\ Inside(t) /\ section[t] \in {"log", "initiate", "send"}
  /\ kind = "python" => "GIL" \in held[t]

\* The logger given to the dispatcher "does not need to be thread safe": it is
\* used by one thread at a time.
LoggerExclusive ==
  \A t, u \in AllThreads : t # u /\ Logging(t) /\ Logging(u) => FALSE

\* With OpenMP's one critical region that is so, and with the logger that takes
\* the GIL.
LoggerUsedByOne == kind \in {"omp", "python"} => LoggerExclusive

\* Nothing that the threads share, neither data nor the logger, has two users at
\* a time, as far as the mutexes of the kind of dispatcher provide for it.
OneUserAtATime == WritersExclusive /\ LoggerUsedByOne

-----------------------------------------------------------------------------
\* The inductive invariant, in parts.

\* the values of the variables
LocksTyped ==
  /\ kind \in {"cxx", "omp", "python"}
  /\ section \in [AllThreads ->
                    WorkerSections \cup MasterSections \cup {"none"}]
  /\ held \in [AllThreads -> SUBSET {"status_report", "schedule", "user",
                                     "critical", "GIL"}]
  /\ for_gil \subseteq AllThreads

\* a mutex has one holder at most
OneHolder ==
  \A t, u \in AllThreads : t # u => held[t] \cap held[u] = {}

LocksInv == LocksTyped /\ TypeOK /\ OneHolder

=============================================================================
