----------------------------- MODULE PyTomorun -----------------------------
(***************************************************************************)
(* tomographer.tomorun.tomorun(), the Python function: py_tomorun() of     *)
(* pytomorun.cxx takes its keyword arguments, prepares the tasks, lets the *)
(* GIL go, has the tasks run by the dispatcher on C++11 threads, and takes *)
(* the GIL again to return the results or to raise what went wrong.        *)
(*                                                                         *)
(* The dispatcher is represented by its contract, and its threads, with    *)
(* their mutexes and the GIL, by DispatcherLocks.  A faulty twin of an     *)
(* operator stands just before it.                                         *)
(***************************************************************************)
EXTENDS DispatcherLocks, SequencesExt, BinningLevels

CONSTANTS
  Calls,          \* the calls that are followed, each a record of
                  \*   args         the arguments given, by name
                  \*   uncastable   the names of those that are of a wrong type
                  \*   cores        what hardware_concurrency() returns
                  \*   fails        what raises an exception during the run:
                  \*                the figure of merit, the progress function
                  \*   ctrl_c       whether Ctrl+C is hit during the run
  Repeats,        \* the numbers of tasks of calls that come to run them
  SeedWidth       \* a seed has this many bits

\* what the signatures and the casts of pybind11 leave of the arguments: counts are
\* not negative, and 2 ^ levels is an int, as the numbers are
IsList(s) == Len(s) \in Nat /\ DOMAIN s = 1 .. Len(s)

IsArgument(name, value) ==
  /\ name = "Nm" => value \in Seq(Nat)
  /\ name = "Emn" => IsList(value)
  /\ name = "Exn" => IsList(value.rows)
  /\ name = "mhrw_params" => value.n_run \in Int /\ value.n_run <= MaxInt
  /\ name = "num_repeats" => value \in Int /\ value <= 2 ^ SeedWidth
  /\ name = "rng_base_seed" => (value.type = "int" => value.is \in Int)
  /\ name = "binning_num_levels" => value \in Int /\ value <= 30

ASSUME CallsAssumption ==
  /\ Repeats \subseteq Nat /\ SeedWidth \in 1 .. 32
  /\ \A c \in Calls :
       /\ c.fails \subseteq {"figure of merit", "progress_fn"}
       /\ c.cores \in 0 .. 2 ^ SeedWidth
       /\ \A name \in DOMAIN c.args \ c.uncastable : IsArgument(name, c.args[name])

VARIABLES
  call,           \* the call at hand
  stage,          \* where py_tomorun() is
  left,           \* names of arguments not taken yet
  warned,         \* what there were warnings about
  setup,          \* what the tasks are given
  require_gil,    \* require_gil_acquisition of logger_with_gil
  task,           \* the task each thread runs, or -1
  caught,         \* the exceptions that were caught in tasks and the callback
  ctrl_c,         \* "none", "pending" or "raised", a hit of Ctrl+C
  raised,         \* the exception that is raised, or "none"
  num_results,    \* how many results of tasks are returned
  started, delivered, stopping, failed, outcome   \* of the contract

arguments == <<call, left, warned>>
dispatch == <<started, delivered, stopping, failed, outcome>>
running == <<task, caught, ctrl_c>>
returning == <<raised, num_results>>
py_vars == <<lock_vars, stage, arguments, setup, require_gil, running, returning, dispatch>>

Dispatcher(num_total_runs) ==
  INSTANCE DispatcherContract WITH Tasks <- 0 .. num_total_runs - 1

Empty == [n \in {} |-> 0]

Extended(f, g) == [x \in DOMAIN f \cup DOMAIN g |-> IF x \in DOMAIN f THEN f[x] ELSE g[x]]

PyInit ==
  /\ kind = "python"
  /\ section = [t \in AllThreads |-> "none"]
  /\ held = [t \in AllThreads |-> IF t = Master THEN {"GIL"} ELSE {}]
  /\ for_gil = {}
  /\ call \in Calls
  /\ stage = "measurements"
  /\ left = DOMAIN call.args
  /\ warned = {}
  /\ setup = Empty
  /\ require_gil = FALSE
  /\ task = [t \in AllThreads |-> -1]
  /\ caught = <<>>
  /\ ctrl_c = "none"
  /\ raised = "none" /\ num_results = -1
  /\ started = {} /\ delivered = {} /\ stopping = FALSE /\ failed = FALSE
  /\ outcome = "none"

-----------------------------------------------------------------------------
\* Taking arguments

Given(name) == name \in DOMAIN call.args

Arg(name, default) == IF Given(name) THEN call.args[name] ELSE default

Uncastable(names) == \E name \in names : Given(name) /\ name \in call.uncastable

Invalid == "TomorunInvalidInputError"
CastError == "cast error"

\* one stage of py_tomorun(): it raises an error, or takes these arguments, with
\* these warnings, adds to the setup, and goes on
Stage(at, error, taken, warnings, prepared, next) ==
  /\ stage = at
  /\ IF error # "none"
     THEN /\ raised' = error /\ stage' = "over"
          /\ UNCHANGED <<left, warned, setup>>
     ELSE /\ left' = left \ taken
          /\ warned' = warned \cup warnings
          /\ setup' = Extended(prepared, setup)
          /\ stage' = next
          /\ UNCHANGED raised
  /\ UNCHANGED <<lock_vars, call, require_gil, running, num_results, dispatch>>

\* addMeasEffect() skips what was never observed, unchecked (counts are not
\* negative here, nor effects of a wrong size)
Observed(effects) == {k \in DOMAIN effects : call.args["Nm"][k] # 0}

\* the element of a finite set of numbers that has n up to it
Nth(S, n) == CHOOSE k \in S : Cardinality({j \in S : j <= k}) = n

Measured(effects) ==
  LET counted == [n \in 1 .. Cardinality(Observed(effects)) |-> Nth(Observed(effects), n)]
  IN  [n \in DOMAIN counted |-> <<effects[counted[n]], call.args["Nm"][counted[n]]>>]

EffectsError(effects) ==
  IF Len(effects) # Len(call.args["Nm"]) THEN Invalid
  ELSE IF \E k \in Observed(effects) : ~effects[k].valid THEN "InvalidMeasData"
  ELSE "none"

MeasurementsError ==
  IF (~Given("Emn") /\ ~Given("Exn")) \/ ~Given("Nm") THEN Invalid
  ELSE IF Uncastable({"Nm", "Exn"}) THEN CastError
  ELSE IF Given("Exn")
       THEN IF Given("Emn") \/ call.args["Exn"].cols # call.args["dim"] * call.args["dim"]
            THEN Invalid ELSE EffectsError(call.args["Exn"].rows)
  ELSE IF Len(call.args["Emn"]) = Len(call.args["Nm"]) /\ Uncastable({"Emn"})
       THEN CastError ELSE EffectsError(call.args["Emn"])

EffectsGiven == IF Given("Exn") THEN call.args["Exn"].rows ELSE call.args["Emn"]

TakeMeasurements ==
  LET error == MeasurementsError
  IN  Stage("measurements", error, {"dim", "Nm", "Emn", "Exn"}, {},
            IF error = "none" THEN [llh |-> Measured(EffectsGiven)] ELSE Empty,
            "figure of merit")

FigOfMerit == Arg("fig_of_merit", "obs-value")

ToReference == {"fidelity", "tr-dist", "purif-dist"}

\* the argument that the figure of merit needs besides
NeededFor(f) ==
  IF f \in ToReference THEN {"ref_state"}
  ELSE IF f = "obs-value" THEN {"observable"} ELSE {}

FigOfMeritError ==
  LET needs == NeededFor(FigOfMerit)
  IN  IF Uncastable({"fig_of_merit"}) THEN CastError
      ELSE IF \/ FigOfMerit \notin ToReference \cup {"obs-value", "callable"}
              \/ \E name \in needs : ~Given(name)
           THEN Invalid
      ELSE IF Uncastable(needs) THEN CastError
      ELSE IF \E name \in needs : call.args[name] # <<call.args["dim"], call.args["dim"]>>
           THEN Invalid
      ELSE "none"

\* what is given and not needed is dropped with a warning
Ignored == ({"ref_state", "observable"} \cap left) \ NeededFor(FigOfMerit)

TakeFigOfMerit ==
  Stage("figure of merit", FigOfMeritError,
        {"fig_of_merit", "ref_state", "observable"},
        Ignored \cup (IF Given("fig_of_merit") THEN {} ELSE {"fig_of_merit"}),
        [valcalc |-> FigOfMerit], "parameters")

\* HistogramParams()
DefaultHistParams == [num_bins |-> 50]

NumRepeats == Arg("num_repeats", call.cores)

ParametersError ==
  LET hist == Arg("hist_params", DefaultHistParams)
      mhrw == Arg("mhrw_params", [n_sweep |-> 1, n_therm |-> 0, n_run |-> 0])
  IN  IF Uncastable({"hist_params"}) THEN CastError
      ELSE IF ~Given("mhrw_params") THEN Invalid
      ELSE IF Uncastable({"mhrw_params"}) THEN CastError
      ELSE IF hist.num_bins < 1 \/ mhrw.n_sweep < 1 \/ mhrw.n_therm < 0 \/ mhrw.n_run < 0
           THEN Invalid
      ELSE IF Uncastable({"num_repeats"}) THEN CastError
      ELSE IF NumRepeats < 1 THEN Invalid ELSE "none"

TakeParameters ==
  Stage("parameters", ParametersError, {"hist_params", "mhrw_params", "num_repeats"},
        IF Given("hist_params") THEN {} ELSE {"hist_params"},
        [num_repeats |-> NumRepeats], "seeds")

Seeds == 0 .. 2 ^ SeedWidth - 1

BaseSeed == Arg("rng_base_seed", [type |-> "None"])

SeedsError ==
  IF \/ Uncastable({"rng_base_seed"})
     \/ BaseSeed.type = "int" /\ BaseSeed.is < 0
  THEN CastError
  ELSE IF BaseSeed.type = "str" /\ BaseSeed.is \notin {"random-device", "random-device-all"}
       THEN Invalid ELSE "none"

\* the time, or what the device gives, may be anything; of an integer that is
\* too large the lower bits are kept
BaseSeeds ==
  IF BaseSeed.type = "int" THEN {BaseSeed.is % 2 ^ SeedWidth} ELSE Seeds

SeedTooLarge == BaseSeed.type = "int" /\ BaseSeed.is >= 2 ^ SeedWidth

FromDevice == BaseSeed.type = "str" /\ BaseSeed.is = "random-device-all"

TaskSeedSame(base_seed, k) == base_seed

TaskSeed(base_seed, k) == (base_seed + k) % 2 ^ SeedWidth

TakeSeeds ==
  LET base == IF FromDevice THEN [1 .. NumRepeats -> Seeds]
              ELSE {[k \in 1 .. NumRepeats |-> TaskSeed(b, k - 1)] : b \in BaseSeeds}
      none == [k \in 1 .. NumRepeats |-> 0]
  IN  \E seeds \in IF SeedsError = "none" THEN base ELSE {none} :
        Stage("seeds", SeedsError, {"rng_base_seed"},
              IF SeedTooLarge THEN {"rng_base_seed"} ELSE {},
              [task_seeds |-> seeds], "options")

SamplesLastLevel == 128

Levels == SanitizeBinningLevels(Arg("binning_num_levels", -1), call.args["mhrw_params"].n_run,
                                SamplesLastLevel)

LevelWarnings ==
  LET n_run == call.args["mhrw_params"].n_run
  IN  {w \in {"few levels", "few samples", "n_run"} :
         CASE w = "few levels" -> FewLevels(Levels)
           [] w = "few samples" -> FewSamples(Levels, n_run, SamplesLastLevel)
           [] w = "n_run" -> n_run % 2 ^ Levels # 0}

OptionNames ==
  {"binning_num_levels", "jumps_method", "ctrl_step_size_params",
   "ctrl_converged_params", "progress_fn", "progress_interval_ms"}

OptionsError ==
  IF Uncastable({"binning_num_levels", "jumps_method"}) THEN CastError
  ELSE IF Arg("jumps_method", "full") \notin {"full", "light"} THEN Invalid
  ELSE IF Uncastable({"ctrl_step_size_params", "ctrl_converged_params",
                      "progress_interval_ms"}) THEN CastError
  ELSE IF left \ OptionNames # {} THEN Invalid
  ELSE "none"

TakeOptions ==
  Stage("options", OptionsError, OptionNames,
        IF OptionsError = "none" THEN LevelWarnings ELSE {},
        [binning_num_levels |-> IF OptionsError = "none" THEN Levels ELSE 0,
         jumps_method |-> Arg("jumps_method", "full"),
         progress_interval_ms |-> Arg("progress_interval_ms", 500)],
        "dispatcher")

-----------------------------------------------------------------------------
\* Running the tasks

LogsWithoutGil == FALSE

LogsWithGil == TRUE

\* the report handler is set while nobody else runs; then the GIL is let go
SetUpRun ==
  /\ stage = "dispatcher"
  /\ require_gil' = LogsWithGil
  /\ held' = [held EXCEPT ![Master] = {}]
  /\ stage' = "run"
  /\ UNCHANGED <<kind, section, for_gil, arguments, setup, running, returning, dispatch>>

\* nobody asks for a report without an interval, nor once the tasks are to stop;
\* tasks call Python
MayWant(t) ==
  /\ section'[t] \in MasterSections =>
       setup.progress_interval_ms > 0 /\ (stopping => section[t] # "none")
  /\ task[t] # -1 \/ section'[t] # "python"

WorkerStep ==
  /\ stage = "run"
  /\ \E t \in AllThreads : ThreadStep(t) /\ MayWant(t)
  /\ UNCHANGED <<stage, arguments, setup, require_gil, running, returning, dispatch>>

RunStep(t) ==
  /\ stage = "run" /\ section[t] = "none"
  /\ UNCHANGED <<lock_vars, stage, arguments, setup, require_gil, caught, ctrl_c,
                 returning>>

\* run_task() of the next task
StartTask(t) ==
  /\ RunStep(t) /\ task[t] = -1 /\ ~stopping
  /\ LET k == Cardinality(started)
     IN  /\ k < NumRepeats
         /\ Dispatcher(1)!Start(k)
         /\ task' = [task EXCEPT ![t] = k]

\* What a task reads of the settings of the controllers, two dictionaries of which
\* the model keeps whether they have the controller enabled, and the names of the
\* settings that are of a wrong type.  A name never read does no harm.
DefaultSettings == [enabled |-> TRUE, bad |-> {}]

StepSizeNames ==
  {"desired_accept_ratio_min", "desired_accept_ratio_max", "acceptable_accept_ratio_min",
   "acceptable_accept_ratio_max", "ensure_n_therm_fixed_params_fraction"}

ConvergedNames ==
  {"check_frequency_sweeps", "max_allowed_unknown", "max_allowed_unknown_notisolated",
   "max_allowed_not_converged", "max_add_run_iters"}

SettingsFail ==
  LET step_size == Arg("ctrl_step_size_params", DefaultSettings)
      converged == Arg("ctrl_converged_params", DefaultSettings)
      ReadIf(settings, names) == IF settings.enabled THEN names ELSE {}
  IN  \/ step_size.bad \cap ({"num_samples", "enabled"} \cup ReadIf(step_size, StepSizeNames)) # {}
      \/ converged.bad \cap ({"enabled"} \cup ReadIf(converged, ConvergedNames)) # {}

\* its end, interrupted or with a result; reading the settings comes first
EndTask(t) ==
  /\ RunStep(t) /\ task[t] # -1 /\ ~SettingsFail
  /\ task' = [task EXCEPT ![t] = -1]
  /\ \/ Dispatcher(1)!Deliver(task[t])
     \/ stopping /\ UNCHANGED dispatch

\* Python notes the hit, for the main thread to find
HitCtrlC ==
  /\ stage = "run" /\ call.ctrl_c /\ ctrl_c = "none"
  /\ ctrl_c' = "pending"
  /\ UNCHANGED <<lock_vars, stage, arguments, setup, require_gil, task, caught,
                 returning, dispatch>>

\* The exceptions that a thread that holds the GIL may meet.  The main thread is
\* the one to find a hit of Ctrl+C: in checkPyException(), called in the callback
\* and around a figure of merit, or while it runs Python's code otherwise.
ErrorsOf(t) ==
  {e \in {"figure of merit", "progress_fn", CastError, "KeyboardInterrupt"} :
     CASE e = "figure of merit" ->
            section[t] = "python" /\ setup.valcalc = "callable" /\ e \in call.fails
       [] e = "progress_fn" -> section[t] = "send" /\ Given(e) /\ e \in call.fails
       [] e = CastError -> section[t] = "python" /\ SettingsFail
       [] e = "KeyboardInterrupt" ->
            /\ t = Master /\ ctrl_c = "pending"
            /\ task[t] # -1 \/ section[t] \in MasterSections}

\* The exception unlocks all that the thread holds, and ends its task; the others
\* are told to stop.
Raise(t) ==
  /\ stage = "run" /\ "GIL" \in held[t]
  /\ \E e \in ErrorsOf(t) :
       /\ caught' = Append(caught, e)
       /\ ctrl_c' = IF e = "KeyboardInterrupt" THEN "raised" ELSE ctrl_c
  /\ held' = [held EXCEPT ![t] = StillHeld(t)]
  /\ for_gil' = for_gil \ {t}
  /\ section' = [section EXCEPT ![t] = "none"]
  /\ task' = [task EXCEPT ![t] = -1]
  /\ Dispatcher(1)!Fail
  /\ UNCHANGED <<kind, stage, arguments, setup, require_gil, returning>>

\* run() has joined the threads
EndRun ==
  /\ stage = "run"
  /\ \A t \in AllThreads : section[t] = "none" /\ task[t] = -1
  /\ \E n \in Repeats, how \in {"ok", "exception"} :
       n = NumRepeats /\ Dispatcher(n)!End(how)
  /\ stage' = "returning"
  /\ UNCHANGED <<lock_vars, arguments, setup, require_gil, running, returning>>

LastCaught == Last(caught)

\* run_epilog(), and what py_tomorun() makes of it
Rethrown == Head(caught)

\* With the GIL taken back the results are put together, or what was caught is
\* raised in Python.
Return ==
  /\ stage = "returning" /\ Free("GIL")
  /\ held' = [held EXCEPT ![Master] = {"GIL"}]
  /\ IF outcome = "ok"
     THEN /\ require_gil' = FALSE /\ num_results' = Cardinality(delivered)
          /\ UNCHANGED raised
     ELSE /\ raised' = Rethrown
          /\ UNCHANGED <<require_gil, num_results>>
  /\ stage' = "over"
  /\ UNCHANGED <<kind, section, for_gil, arguments, setup, running, dispatch>>

AfterReturn == stage = "over" /\ UNCHANGED py_vars

PyNext ==
  \/ TakeMeasurements \/ TakeFigOfMerit \/ TakeParameters \/ TakeSeeds \/ TakeOptions
  \/ SetUpRun \/ WorkerStep \/ HitCtrlC
  \/ \E t \in AllThreads : StartTask(t) \/ EndTask(t) \/ Raise(t)
  \/ EndRun \/ Return \/ AfterReturn

PySpec == PyInit /\ [][PyNext]_py_vars

-----------------------------------------------------------------------------
\* What tomorun() promises

\* The tasks that run are those asked for: every argument has been used, or there
\* was a warning about it; the effects observed go with their own counts, each
\* task has a seed of its own unless a device gave them, and without a warning
\* the binning analysis takes every sample up to its last level.
TasksAsAsked ==
  stage \in {"run", "returning"} =>
    LET Nm == call.args["Nm"]
        n_run == call.args["mhrw_params"].n_run
        unused == IF setup.valcalc = "callable" THEN {"ref_state", "observable"}
                  ELSE IF setup.valcalc = "obs-value" THEN {"ref_state"} ELSE {"observable"}
    IN  /\ left = {}
        /\ DOMAIN call.args \cap unused \subseteq warned
        /\ \A k \in DOMAIN Nm : Nm[k] # 0 =>
             \E j \in DOMAIN setup.llh : setup.llh[j] = <<EffectsGiven[k], Nm[k]>>
        /\ \A j \in DOMAIN setup.llh : setup.llh[j][2] > 0 /\ setup.llh[j][1].valid
        /\ FromDevice \/ IsInjective(setup.task_seeds)
        /\ warned \cap {"n_run", "few samples"} = {} =>
             \E blocks \in SamplesLastLevel .. n_run :
               n_run = blocks * 2 ^ setup.binning_num_levels

\* What went wrong first in the tasks and the progress function, whichever thread it
\* happened on, is what tomorun() raises, and a hit of Ctrl+C that was taken from
\* Python is raised if nothing else can go wrong; results are returned only if
\* nothing went wrong, and then all of them.
ErrorReachesCaller ==
  stage = "over" /\ started # {} =>
    /\ IF raised = "none"
       THEN caught = <<>> /\ ctrl_c # "raised" /\ num_results = NumRepeats
       ELSE num_results = -1 /\ caught # <<>> /\ raised = caught[1]
    /\ call.fails = {} /\ ~SettingsFail =>
         (ctrl_c = "raised" <=> raised = "KeyboardInterrupt")

\* Python is called only by who holds the GIL: py_tomorun() itself, when it is not
\* running tasks, and during the run whoever logs, all through the logger that
\* takes the GIL.
CallsPython(t) ==
  \/ kind = "python" /\ t = Master /\ stage \notin {"run", "returning"}
  \/ /\ Inside(t) /\ UsesPython(section[t])
     /\ require_gil \/ section[t] \notin {"log", "initiate"} => "GIL" \in held[t]

PythonUnderGil == \A t \in AllThreads : CallsPython(t) => "GIL" \in held[t]

-----------------------------------------------------------------------------
\* The inductive invariant, in parts.  Before the run and after it only the main
\* thread is there, and has the GIL.

TakingArguments == stage \notin {"run", "returning", "over"}
LetGo == stage \in {"run", "returning"}

\* TypeOK is that of DispatcherLocks
LocksSound ==
  /\ kind = "python" /\ LocksTyped /\ OneHolder
  /\ LetGo => TypeOK /\ require_gil
  /\ ~LetGo => /\ for_gil = {}
               /\ \A t \in AllThreads :
                    section[t] = "none" /\ held[t] = IF t = Master THEN {"GIL"} ELSE {}
  /\ stage = "returning" => \A t \in AllThreads : section[t] = "none"

NothingYet ==
  /\ TakingArguments => started = {} /\ caught = <<>> /\ outcome = "none"
  /\ stage # "over" => raised = "none" /\ num_results = -1

\* where an exception that was caught came from
Source(e) ==
  \/ e \in call.fails
  \/ e = CastError /\ SettingsFail
  \/ e = "KeyboardInterrupt" /\ ctrl_c = "raised"

CaughtHaveSource ==
  /\ call \in Calls
  /\ caught \in Seq({"figure of merit", "progress_fn", CastError, "KeyboardInterrupt"})
  /\ \A i \in DOMAIN caught : Source(caught[i])
  /\ ctrl_c = "raised" => \E i \in DOMAIN caught : caught[i] = "KeyboardInterrupt"
  /\ failed <=> caught # <<>>

HowItEnded ==
  stage = "returning" =>
    \/ /\ outcome = "ok" /\ ~failed
       /\ NumRepeats \in Nat /\ delivered = 0 .. NumRepeats - 1
    \/ outcome = "exception" /\ failed

\* What each stage leaves behind for the tasks, unless it raised an error.
AfterOptions == {"dispatcher", "run", "returning"}
AfterSeeds == {"options"} \cup AfterOptions
AfterParameters == {"seeds"} \cup AfterSeeds
AfterFigOfMerit == {"parameters"} \cup AfterParameters
AfterMeasurements == {"figure of merit"} \cup AfterFigOfMerit

MeasurementsKept ==
  LET Nm == call.args["Nm"]
  IN  /\ "llh" \in DOMAIN setup
      /\ \A k \in DOMAIN Nm : Nm[k] # 0 =>
           \E j \in DOMAIN setup.llh : setup.llh[j] = <<EffectsGiven[k], Nm[k]>>
      /\ \A j \in DOMAIN setup.llh : setup.llh[j][2] > 0 /\ setup.llh[j][1].valid

FigOfMeritKept ==
  /\ "valcalc" \in DOMAIN setup /\ setup.valcalc = FigOfMerit
  /\ FigOfMerit \in ToReference \cup {"obs-value", "callable"}
  /\ DOMAIN call.args \cap {"ref_state", "observable"} \subseteq warned \cup NeededFor(FigOfMerit)

ParametersKept ==
  /\ NumRepeats \in 1 .. 2 ^ SeedWidth
  /\ call.args["mhrw_params"].n_run \in 0 .. MaxInt

SeedsKept ==
  "task_seeds" \in DOMAIN setup /\ (FromDevice \/ IsInjective(setup.task_seeds))

OptionsKept ==
  /\ left = {}
  /\ "binning_num_levels" \in DOMAIN setup /\ setup.binning_num_levels = Levels
  /\ Levels \in 0 .. 30
  /\ LevelWarnings \subseteq warned

NotYetIgnored ==
  stage \in {"measurements", "figure of merit"} =>
    DOMAIN call.args \cap {"ref_state", "observable"} \subseteq left

TakenSoFar ==
  /\ NotYetIgnored
  /\ stage \in AfterMeasurements => MeasurementsKept
  /\ stage \in AfterFigOfMerit => FigOfMeritKept
  /\ stage \in AfterParameters => ParametersKept
  /\ stage \in AfterSeeds => SeedsKept
  /\ stage \in AfterOptions => OptionsKept

IInv ==
  /\ LocksSound
  /\ NothingYet
  /\ CaughtHaveSource
  /\ HowItEnded
  /\ ErrorReachesCaller

ArgumentsInv == call \in Calls /\ TakenSoFar

=============================================================================
