---------------------------- MODULE MHRandomWalk ----------------------------
(***************************************************************************)
(* One Metropolis-Hastings random walk, MHRandomWalk::run(), with the      *)
(* controllers tomorun gives it: none, one of these or both.               *)
(*   - "step", MHRWStepSizeController, changes the parameters while the    *)
(*     walk thermalizes and decides when it has;                           *)
(*   - "converged", MHRWValueErrorBinsConvergedController, prolongs the    *)
(*     live run until the error bars of the binning analysis converge.     *)
(*                                                                         *)
(* One action is one turn of a loop of run(): its condition, the move, the *)
(* statistics and the controllers' callbacks.  Points, values and the step *)
(* size are left out; whether a move is accepted and whether the error     *)
(* bars have converged are choices.  What the step size decides, the sweep *)
(* size, follows it in direction.  The moving average of the acceptance    *)
(* ratio is kept slot by slot; ratios are counts of accepted moves in it.  *)
(* A faulty twin of an operator stands just before it, as in ThreadCommon. *)
(***************************************************************************)
EXTENDS Integers, Sequences, FiniteSetsExt

CONSTANTS
  SweepSizes,        \* the sweep sizes there are
  NTherms, NRuns,    \* the n_therm and n_run a walk may be started with
  DefaultSweep,      \* the sweep size set for an invalid step size (101)
  Buffer,            \* bufferSize() of the moving average
  DesiredMin, DesiredMax,        \* desired and acceptable ratios, as
  AcceptableMin, AcceptableMax,  \*   counts of accepted moves in the buffer
  FracNum, FracDen,  \* ensure_n_therm_fixed_params_fraction
  SampleSize,        \* effectiveSampleSize() of the binning analysis
  ControllerLists,   \* the combinations of controllers
  CheckFrequencies,  \* the check_frequency_sweeps given; 0 is "disabled"
  MaxAddNum, MaxAddDen,          \* max_add_run_iters
  CountMax,          \* the largest value of CountIntType
  Restless,          \* bound: the ratio is as desired from this move on
  MaxIterations      \* bound: no walk is followed any longer than this

\* The enumeration MHRWControllerAdjustmentStrategy: in which stage of the walk,
\* and how often, a controller is asked to adjust the parameters.
Stages == {"WhileThermalizing", "WhileRunning"}

AdjustmentStrategy(c) ==
  IF c = "step" THEN {"WhileThermalizing", "EveryIteration"} ELSE {}

\* no two controllers adjust in the same stage
ControllersCompatible(list) ==
  \A i, j \in DOMAIN list :
    i # j => AdjustmentStrategy(list[i]) \cap AdjustmentStrategy(list[j])
               \cap Stages = {}

ASSUME WalkAssumption ==
  /\ ControllerLists \subseteq Seq({"step", "converged"})
  /\ \A list \in ControllerLists : ControllersCompatible(list)
  /\ SweepSizes \subseteq Nat \ {0}
  /\ NTherms \subseteq Nat \ {0}
  /\ NRuns \subseteq Nat \ {0}
  /\ DefaultSweep \in SweepSizes
  /\ Buffer \in Nat \ {0}
  /\ {AcceptableMin, DesiredMin, DesiredMax, AcceptableMax} \subseteq 0 .. Buffer
  /\ AcceptableMin <= DesiredMin
  /\ DesiredMin <= DesiredMax
  /\ DesiredMax <= AcceptableMax
  /\ FracNum \in Nat
  /\ FracDen \in Nat \ {0}
  /\ SampleSize \in Nat \ {0}
  /\ CheckFrequencies \subseteq Nat
  /\ MaxAddNum \in Nat \ {0}
  /\ MaxAddDen \in Nat \ {0}
  /\ {CountMax, Restless, MaxIterations} \subseteq Nat

VARIABLES
  pc,                     \* where run() is
  controllers,            \* of the combined controller, in their order
  n_sweep, n_therm, n_run,                \* _n, the walk's parameters
  orig_n_therm,
  last_corrected_unacceptable_iter_k,
  accept_buffer,          \* the last accept/reject decisions, oldest first to go
  check_frequency_sweeps,
  limited,                \* max_add_run_iters > 0
  last_forbidden_iter_number,
  k, n,                   \* iterations of this stage, samples processed
  steady                  \* history: iterations since parameters changed

params == <<n_sweep, n_therm, n_run, orig_n_therm>>
settings == <<controllers, check_frequency_sweeps, limited>>
averaging == <<accept_buffer, last_corrected_unacceptable_iter_k, steady>>
vars == <<pc, settings, params, averaging, last_forbidden_iter_number, k, n>>

Has(controller) == controller \in Range(controllers)

-----------------------------------------------------------------------------
\* The statistics collectors: the histogram, and the moving average of the
\* acceptance ratio for a controller that needs it

StatsCollectors ==
  <<"value_stats">> \o IF Has("step") THEN <<"movavg_accept_stats">> ELSE <<>>

\* accepted moves in the buffer; slots not yet written count as rejections
Accepted(buffer) == Cardinality({i \in DOMAIN buffer : buffer[i] = 1})

Recorded(accept) == [accept_buffer EXCEPT ![k % Buffer] = accept]

\* every collector sees every move; only the moving average makes use of it
RawMove(accept) ==
  accept_buffer' = IF "movavg_accept_stats" \in Range(StatsCollectors)
                   THEN Recorded(accept) ELSE accept_buffer

InitStats == n' = 0

\* a sample goes to the histogram and to its binning analysis
ProcessSample == n' = n + 1

\* pos is k + 1 once the move at iteration k is recorded
HasMovingAverage == k + 1 >= Buffer

IsDesired(accepted) == accepted \in DesiredMin .. DesiredMax
IsAcceptable(accepted) == accepted \in AcceptableMin .. AcceptableMax

-----------------------------------------------------------------------------
\* The step size controller

\* a step size that is not a positive number is replaced, the sweep size with it
InitParams == n_sweep' \in {n_sweep, DefaultSweep}

\* too many accepted moves: larger steps, shorter sweeps; and conversely
AdjustedSweeps(accepted) ==
  {s \in SweepSizes :
     IF accepted > DesiredMax THEN s <= n_sweep ELSE s >= n_sweep}

\* the sweeps that ensure_n_therm_fixed_params_fraction promises
FixedTherm == (FracNum * orig_n_therm) \div FracDen

NThermMinFromStart(s) == 1 + FixedTherm

NThermMin(s) == k \div s + 1 + FixedTherm

NThermFor(s) == Max({n_therm, NThermMin(s)})

Adjusts(accepted) ==
  HasMovingAverage /\ k % Buffer = 0 /\ ~IsDesired(accepted)

AdjustParams(accepted) ==
  IF Adjusts(accepted)
  THEN /\ last_corrected_unacceptable_iter_k' =
            IF IsAcceptable(accepted) THEN last_corrected_unacceptable_iter_k
                                      ELSE k
       /\ \E s \in AdjustedSweeps(accepted) :
            n_sweep' = s /\ n_therm' = NThermFor(s)
       /\ steady' = 0
  ELSE /\ UNCHANGED <<n_sweep, n_therm, last_corrected_unacceptable_iter_k>>
       /\ steady' = steady + 1

StepAllowsDoneThermalization ==
  /\ IsDesired(Accepted(accept_buffer))
  /\ (k - last_corrected_unacceptable_iter_k) * FracDen
       >= n_sweep * FracNum * orig_n_therm

-----------------------------------------------------------------------------
\* The error bars controller

CheckFrequencyAsGiven(given) == given

\* rounded up to a multiple of what the binning analysis flushes at once
CheckFrequency(given) ==
  IF given % SampleSize = 0 THEN given
                            ELSE (given \div SampleSize + 1) * SampleSize

CheckLength == n_sweep * check_frequency_sweeps

TooSoonInclusive ==
  /\ last_forbidden_iter_number > 0
  /\ k - last_forbidden_iter_number <= CheckLength

TooSoon ==
  /\ last_forbidden_iter_number > 0
  /\ k - last_forbidden_iter_number < CheckLength

OverLimitNever == FALSE

OverLimit == limited /\ k * MaxAddDen > MaxAddNum * n_run * n_sweep

\* whether it comes to look at the error bars
Analyses ==
  /\ check_frequency_sweeps # 0
  /\ ~TooSoon
  /\ k % CheckLength = 0
  /\ ~OverLimit

\* "converged" is the outcome of the analysis, should there be one
ErrorBinsAllowDoneRuns(converged) ==
  \/ check_frequency_sweeps = 0
  \/ ~TooSoon /\ k % CheckLength = 0 /\ (OverLimit \/ converged)

-----------------------------------------------------------------------------
\* The controllers combined: all of them have to agree to an end

EnabledCallback(controller, stage, moment) ==
  {stage, moment} \subseteq AdjustmentStrategy(controller)

InitControllers ==
  IF Has("step") THEN InitParams /\ orig_n_therm' = n_therm
                 ELSE UNCHANGED <<n_sweep, orig_n_therm>>

AdjustAll(stage, moment, accepted) ==
  IF \E c \in Range(controllers) : EnabledCallback(c, stage, moment)
  THEN AdjustParams(accepted)
  ELSE /\ UNCHANGED <<n_sweep, n_therm, last_corrected_unacceptable_iter_k>>
       /\ steady' = steady + 1

AllowDoneThermalization ==
  \A c \in Range(controllers) : c = "step" => StepAllowsDoneThermalization

AllowDoneRuns(converged) ==
  \A c \in Range(controllers) :
    c = "converged" => ErrorBinsAllowDoneRuns(converged)

-----------------------------------------------------------------------------
\* The walk

\* a controller is asked only at the end of a sweep
MoreTherm ==
  k < n_sweep * n_therm \/ k % n_sweep # 0 \/ ~AllowDoneThermalization

MoreRuns(converged) ==
  k < n_sweep * n_run \/ k % n_sweep # 0 \/ ~AllowDoneRuns(converged)

IsLiveIter == (k + 1) % n_sweep = 0

\* samples the binning analysis holds but has not used yet
Unflushed == n % SampleSize

Init ==
  /\ pc = "new"
  /\ n_sweep \in SweepSizes /\ n_therm \in NTherms /\ n_run \in NRuns
  /\ orig_n_therm = 0
  /\ controllers \in ControllerLists
  /\ check_frequency_sweeps \in {CheckFrequency(f) : f \in CheckFrequencies}
  /\ limited \in BOOLEAN
  /\ ~Has("converged") => check_frequency_sweeps = 0 /\ ~limited
  /\ last_corrected_unacceptable_iter_k = 0
  /\ last_forbidden_iter_number = 0
  /\ accept_buffer = [i \in 0 .. Buffer - 1 |-> 0]
  /\ k = 0 /\ n = 0 /\ steady = 0

\* _init(), of the collectors and of the controllers; then run() refuses
\* parameters that overflow its counters
Start ==
  /\ pc = "new"
  /\ InitStats
  /\ InitControllers
  /\ pc' = IF n_sweep' * n_therm > CountMax \/ n_sweep' * n_run > CountMax
           THEN "refused" ELSE "therm"
  /\ UNCHANGED <<settings, n_therm, n_run, averaging,
                 last_forbidden_iter_number, k>>

\* whether the point proposed is accepted depends on nothing that is followed here
Move(accept) ==
  /\ Has("step") /\ k >= Restless => IsDesired(Accepted(Recorded(accept)))
  /\ RawMove(accept)

ThermIteration ==
  /\ pc = "therm" /\ k < MaxIterations
  /\ MoreTherm
  /\ \E accept \in {0, 1} :
       /\ Move(accept)
       /\ AdjustAll("WhileThermalizing", "EveryIteration", Accepted(Recorded(accept)))
  /\ k' = k + 1
  /\ UNCHANGED <<pc, settings, n_run, orig_n_therm, last_forbidden_iter_number, n>>

ThermalizingDone ==
  /\ pc = "therm"
  /\ ~MoreTherm
  /\ pc' = "live" /\ k' = 0
  /\ UNCHANGED <<settings, params, averaging, last_forbidden_iter_number, n>>

\* The moves of a live run go to the moving average too: nobody reads it then.
LiveIteration(converged) ==
  /\ pc = "live" /\ k < MaxIterations
  /\ MoreRuns(converged)
  /\ last_forbidden_iter_number' =
       IF k >= n_sweep * n_run /\ k % n_sweep = 0 /\ Has("converged") /\ Analyses
       THEN k ELSE last_forbidden_iter_number
  /\ IF IsLiveIter THEN ProcessSample ELSE UNCHANGED n
  /\ k' = k + 1
  /\ UNCHANGED <<pc, settings, params, averaging>>

Done(converged) ==
  /\ pc = "live"
  /\ ~MoreRuns(converged)
  /\ pc' = "done"
  /\ UNCHANGED <<settings, params, averaging, last_forbidden_iter_number, k, n>>

Next ==
  \/ Start
  \/ ThermIteration
  \/ ThermalizingDone
  \/ \E converged \in BOOLEAN : LiveIteration(converged) \/ Done(converged)

Spec == Init /\ [][Next]_vars

\* run() is a loop in one thread: it goes on as long as it can
FairSpec == Spec /\ WF_vars(Next)

-----------------------------------------------------------------------------
TypeOK ==
  /\ pc \in {"new", "therm", "live", "done", "refused"}
  /\ n_sweep \in SweepSizes
  /\ n_therm \in Nat /\ n_therm >= orig_n_therm
  /\ n_run \in NRuns
  /\ orig_n_therm \in NTherms \cup {0}
  /\ check_frequency_sweeps \in Nat
  /\ accept_buffer \in [0 .. Buffer - 1 -> {0, 1}]
  /\ {k, n, steady} \subseteq Nat
  /\ last_corrected_unacceptable_iter_k \in Nat
  /\ last_forbidden_iter_number \in Nat

\* Live samples are taken only after the promised part of the thermalization,
\* in whole sweeps, was done at the parameters the live run uses: whenever and
\* however often the step size was corrected, n_therm was raised enough.  Without
\* a step size controller the whole of it is.
FixedParamsBeforeLive ==
  pc \in {"live", "done"} =>
    steady >= n_sweep * IF Has("step") THEN FixedTherm ELSE n_therm

WithinLimit(i) ==
  i <= n_sweep * n_run \/ i * MaxAddDen <= MaxAddNum * n_run * n_sweep

\* One sample per sweep, taken at its last iteration, and at least the n_run samples
\* asked for, although the controller may end the run at any check; when it has a
\* say in the end, every sample of the histogram is in the binning analysis too.  The
\* run is prolonged only by a controller that has.  If max_add_run_iters is set it goes
\* on to the first check past the limit, and no further: what lies between the limit
\* and that check is more than tomorun's options promise (ProlongedAsAsked).
LiveRunComplete ==
  /\ pc = "live" => n = k \div n_sweep
  /\ pc = "done" =>
       /\ n >= n_run /\ k = n * n_sweep
       /\ check_frequency_sweeps # 0 => Unflushed = 0
  /\ pc \in {"live", "done"} =>
       \/ k <= n_sweep * n_run
       \/ /\ check_frequency_sweeps # 0
          /\ limited => WithinLimit(k - CheckLength)

\* Once the acceptance ratio has settled the walk ends, be the error bars converged
\* or not: all controllers together never wait for one another for ever.
WalkEnds ==
  limited \/ check_frequency_sweeps = 0 => <>(pc \in {"done", "refused"})

-----------------------------------------------------------------------------
\* What the code says of itself, and does not keep

\* The option control-binning-converged-max-add-run-iters: "a value of 1.5 prolongs the
\* random walk by at most 50% of the run sweeps".
ProlongedAsAsked == pc = "done" /\ limited => WithinLimit(k)

-----------------------------------------------------------------------------
\* The inductive invariant, in parts.

\* what the constructors leave behind, until the walk needs it
Untouched ==
  /\ pc = "new" => /\ k = 0 /\ steady = 0 /\ last_corrected_unacceptable_iter_k = 0
                   /\ n_therm \in NTherms
  /\ pc \in {"new", "therm"} => n = 0 /\ last_forbidden_iter_number = 0

\* the binning analysis has flushed whatever there is at every check
ChecksAfterFlush ==
  /\ controllers \in ControllerLists
  /\ check_frequency_sweeps % SampleSize = 0
  /\ check_frequency_sweeps # 0 => Has("converged")

\* Unless the parameters are those of the start, the iterations n_therm still
\* prescribes make up for what the promised sweeps at fixed parameters lack.
ThermProlonged ==
  pc = "therm" =>
    IF Has("step")
    THEN \/ steady = k /\ last_corrected_unacceptable_iter_k = 0
         \/ k + n_sweep * FixedTherm <= n_sweep * n_therm + steady
    ELSE steady = k

\* the check that refused to end the run lies behind, at a multiple of CheckLength
RefusedBefore ==
  pc = "live" /\ last_forbidden_iter_number # 0 =>
    /\ check_frequency_sweeps # 0
    /\ last_forbidden_iter_number % CheckLength = 0
    /\ last_forbidden_iter_number < k

\* Prolonged, the run has passed the last check not long ago: at that check it was
\* too soon to end, or not yet over the limit.
LastCheck ==
  pc \in {"live", "done"} =>
    \/ k <= n_sweep * n_run
    \/ /\ check_frequency_sweeps # 0
       /\ limited => \E i \in 0 .. k : /\ i % CheckLength = 0
                                       /\ i < k /\ k <= i + CheckLength
                                       /\ WithinLimit(i)

OneSamplePerSweep ==
  /\ pc = "live" => n = k \div n_sweep
  /\ pc = "done" => /\ n >= n_run /\ k = n * n_sweep
                    /\ check_frequency_sweeps # 0 => Unflushed = 0

IInv ==
  /\ TypeOK
  /\ Untouched
  /\ ChecksAfterFlush
  /\ ThermProlonged
  /\ FixedParamsBeforeLive
  /\ RefusedBefore
  /\ LastCheck
  /\ OneSamplePerSweep

=============================================================================
