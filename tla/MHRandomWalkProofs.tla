------------------------- MODULE MHRandomWalkProofs -------------------------
(***************************************************************************)
(* Proofs about MHRandomWalk: for any sweep sizes, run lengths and         *)
(* controllers, live samples are taken at parameters that have been left   *)
(* alone for as long as promised, one per sweep, and the live run ends     *)
(* with whole sweeps and whole blocks of the binning analysis.             *)
(*                                                                         *)
(* The arithmetic is in lemmas of its own.  Each action then has a lemma   *)
(* that it preserves IInv; the one about the live run needs most: a check  *)
(* of the error bars comes every CheckLength iterations, never sooner.     *)
(***************************************************************************)
EXTENDS MHRandomWalk, TLAPS

-----------------------------------------------------------------------------
\* Arithmetic.

LEMMA MaxOfTwo ==
  ASSUME NEW a \in Nat, NEW b \in Nat
  PROVE  Max({a, b}) \in Nat /\ Max({a, b}) >= a /\ Max({a, b}) >= b
<1>1. \E x \in {a, b} : \A y \in {a, b} : x >= y
  OBVIOUS
<1>2. Max({a, b}) \in {a, b} /\ \A y \in {a, b} : Max({a, b}) >= y
  BY <1>1 DEF Max
<1> QED BY <1>2

LEMMA DivMod ==
  ASSUME NEW a \in Nat, NEW d \in Nat \ {0}
  PROVE  /\ a \div d \in Nat /\ a % d \in Nat
         /\ a = d * (a \div d) + (a % d)
         /\ a % d < d
OBVIOUS

LEMMA Quotient ==
  ASSUME NEW q \in Nat, NEW d \in Nat \ {0}, NEW r \in Nat, r < d
  PROVE  (d * q + r) \div d = q /\ (d * q + r) % d = r
OBVIOUS

LEMMA Products ==
  ASSUME NEW a \in Nat, NEW b \in Nat, NEW c \in Nat
  PROVE  /\ a * b \in Nat /\ a * b = b * a
         /\ (a * b) * c = a * (b * c)
         /\ a * (b + c) = a * b + a * c
         /\ a <= b => c * a <= c * b
         /\ c # 0 /\ c * a <= c * b => a <= b
         /\ c # 0 /\ c * a = c * b => a = b
OBVIOUS

\* a sweep is complete when its last iteration is
LEMMA NextSweep ==
  ASSUME NEW a \in Nat, NEW s \in Nat \ {0}
  PROVE  (a + 1) \div s = IF (a + 1) % s = 0 THEN a \div s + 1 ELSE a \div s
OBVIOUS

LEMMA Multiples ==
  ASSUME NEW a \in Nat, NEW s \in Nat \ {0}, NEW c \in Nat \ {0}, (s * a) % (s * c) = 0
  PROVE  a % c = 0
<1> DEFINE x == s * a
<1> DEFINE y == s * c
<1>1. x \in Nat /\ y \in Nat \ {0} /\ x % y = 0
  BY Products
<1> HIDE DEF x, y
<1>2. x \div y \in Nat /\ x = y * (x \div y)
  BY <1>1, DivMod
<1>3. PICK q \in Nat : x = y * q
  BY <1>2
<1>4. s * a = s * (c * q) /\ c * q \in Nat
  BY <1>3, Products DEF x, y
<1>5. a = c * q
  BY <1>4, Products
<1> QED BY <1>5, Quotient

\* a multiple of a multiple
LEMMA MultipleOfMultiple ==
  ASSUME NEW a \in Nat, NEW c \in Nat \ {0}, NEW b \in Nat \ {0}, a % c = 0, c % b = 0
  PROVE  a % b = 0
<1> DEFINE q == a \div c
<1> DEFINE r == c \div b
<1>1. q \in Nat /\ a = c * q /\ r \in Nat /\ c = b * r
  BY DivMod
<1> HIDE DEF q, r
<1>2. a = b * (r * q) /\ r * q \in Nat
  BY <1>1, Products
<1>3. (b * (r * q) + 0) % b = 0
  BY <1>2, Quotient
<1> QED BY <1>2, <1>3

\* between two multiples of c lies the distance c at least
LEMMA MultiplesApart ==
  ASSUME NEW a \in Nat, NEW b \in Nat, NEW c \in Nat \ {0},
         a % c = 0, b % c = 0, a < b
  PROVE  c <= b - a
<1> DEFINE q == a \div c
<1> DEFINE r == b \div c
<1>1. q \in Nat /\ a = c * q /\ r \in Nat /\ b = c * r
  BY DivMod
<1> HIDE DEF q, r
<1>2. ~(r <= q)
  BY <1>1, Products
<1>3. q + 1 <= r
  BY <1>1, <1>2
<1>4. c * (q + 1) <= c * r /\ c * (q + 1) = c * q + c
  BY <1>1, <1>3, Products
<1> QED BY <1>1, <1>4

\* the last multiple of c below or at a
LEMMA LastMultiple ==
  ASSUME NEW a \in Nat, NEW c \in Nat \ {0}, a % c # 0
  PROVE  /\ a - (a % c) \in Nat /\ a - (a % c) < a /\ a + 1 <= a - (a % c) + c
         /\ (a - (a % c)) % c = 0
<1> DEFINE q == a \div c
<1> DEFINE r == a % c
<1>1. q \in Nat /\ r \in Nat /\ a = c * q + r /\ r < c /\ r # 0
  BY DivMod
<1> HIDE DEF q, r
<1>2. c * q \in Nat
  BY <1>1, Products
<1>3. a - r = c * q
  BY <1>1, <1>2
<1>4. (c * q + 0) % c = 0
  BY <1>1, Quotient
<1>5. (a - r) % c = 0 /\ a - r \in Nat /\ a - r < a /\ a + 1 <= a - r + c
  BY <1>1, <1>2, <1>3, <1>4
<1> QED BY <1>5 DEF r

-----------------------------------------------------------------------------
\* The constants, and what the walk computes from them.

LEMMA Sizes ==
  ASSUME TypeOK
  PROVE  /\ n_sweep \in Nat \ {0} /\ n_run \in Nat \ {0} /\ n_therm \in Nat
         /\ orig_n_therm \in Nat /\ k \in Nat /\ n \in Nat /\ steady \in Nat
         /\ last_corrected_unacceptable_iter_k \in Nat
         /\ last_forbidden_iter_number \in Nat
         /\ check_frequency_sweeps \in Nat
         /\ n_sweep * n_run \in Nat /\ n_sweep * n_therm \in Nat
<1>1. n_sweep \in Nat \ {0} /\ n_run \in Nat \ {0} /\ n_therm \in Nat
  BY WalkAssumption DEF TypeOK
<1>2. n_sweep * n_run \in Nat /\ n_sweep * n_therm \in Nat
  BY <1>1, Products
<1> QED BY <1>1, <1>2, WalkAssumption DEF TypeOK

LEMMA FixedThermIsFloor ==
  ASSUME TypeOK
  PROVE  FixedTherm \in Nat /\ FracDen * FixedTherm <= FracNum * orig_n_therm
<1> DEFINE a == FracNum * orig_n_therm
<1>1. a \in Nat /\ FracDen \in Nat \ {0}
  BY Sizes, Products, WalkAssumption
<1> HIDE DEF a
<1>2. /\ a \div FracDen \in Nat /\ a % FracDen \in Nat
      /\ a = FracDen * (a \div FracDen) + (a % FracDen)
  BY <1>1, DivMod
<1>3. FracDen * (a \div FracDen) \in Nat
  BY <1>1, <1>2, Products
<1>4. a \div FracDen \in Nat /\ FracDen * (a \div FracDen) <= a
  BY <1>1, <1>2, <1>3
<1> QED BY <1>4 DEF FixedTherm, a

LEMMA CheckLengthPositive ==
  ASSUME TypeOK, check_frequency_sweeps # 0
  PROVE  CheckLength \in Nat \ {0}
BY Sizes, Products DEF CheckLength

\* Only the step size controller changes parameters, and only it asks for the
\* acceptance ratio before the end of the thermalization.
LEMMA Adjusting ==
  ASSUME NEW accepted
  PROVE  /\ Has("step") =>
              (AdjustAll("WhileThermalizing", "EveryIteration", accepted)
                 <=> AdjustParams(accepted))
         /\ ~Has("step") =>
              (AdjustAll("WhileThermalizing", "EveryIteration", accepted)
                 <=> /\ UNCHANGED <<n_sweep, n_therm, last_corrected_unacceptable_iter_k>>
                     /\ steady' = steady + 1)
         /\ Has("step") => (AllowDoneThermalization <=> StepAllowsDoneThermalization)
<1>1. (\E c \in Range(controllers) : EnabledCallback(c, "WhileThermalizing", "EveryIteration"))
        <=> Has("step")
  BY DEF EnabledCallback, AdjustmentStrategy, Has
<1>2. Has("step") => (AllowDoneThermalization <=> StepAllowsDoneThermalization)
  BY DEF AllowDoneThermalization, Has
<1> QED BY <1>1, <1>2 DEF AdjustAll

-----------------------------------------------------------------------------
\* The inductive invariant, action by action.

LEMMA InvariantInit ==
  ASSUME Init
  PROVE  IInv
<1>1. TypeOK
  <2>1. n_sweep \in SweepSizes /\ n_therm \in Nat /\ n_therm >= 0 /\ n_run \in NRuns
    BY WalkAssumption DEF Init
  <2>2. check_frequency_sweeps \in Nat
    <3>1. PICK f \in CheckFrequencies : check_frequency_sweeps = CheckFrequency(f)
      BY DEF Init
    <3>2. f \in Nat /\ SampleSize \in Nat \ {0}
      BY WalkAssumption
    <3>3. f \div SampleSize + 1 \in Nat
      BY <3>2
    <3>4. (f \div SampleSize + 1) * SampleSize \in Nat
      BY <3>2, <3>3, Products
    <3> QED BY <3>1, <3>2, <3>4 DEF CheckFrequency
  <2> QED BY <2>1, <2>2 DEF Init, TypeOK
<1>2. ChecksAfterFlush
  <2>1. PICK f \in CheckFrequencies : check_frequency_sweeps = CheckFrequency(f)
    BY DEF Init
  <2>2. f \in Nat /\ SampleSize \in Nat \ {0}
    BY WalkAssumption
  <2> DEFINE q == f \div SampleSize + 1
  <2>3. q \in Nat
    BY <2>2
  <2> HIDE DEF q
  <2>4. (SampleSize * q + 0) % SampleSize = 0 /\ SampleSize * q = q * SampleSize
        /\ q * SampleSize \in Nat
    BY <2>2, <2>3, Quotient, Products
  <2>5. (q * SampleSize) % SampleSize = 0
    BY <2>2, <2>3, <2>4
  <2>6. CheckFrequency(f) % SampleSize = 0
    BY <2>5 DEF CheckFrequency, q
  <2> QED BY <2>1, <2>6 DEF ChecksAfterFlush, Init
<1>3. Untouched
  BY DEF Init, Untouched
<1>4. ThermProlonged /\ FixedParamsBeforeLive /\ RefusedBefore /\ LastCheck
      /\ OneSamplePerSweep
  BY DEF Init, ThermProlonged, FixedParamsBeforeLive, RefusedBefore, LastCheck,
     OneSamplePerSweep
<1> QED BY <1>1, <1>2, <1>3, <1>4 DEF IInv

LEMMA StartStep ==
  ASSUME IInv, Start
  PROVE  IInv'
<1>1. /\ pc = "new" /\ pc' \in {"refused", "therm"} /\ n' = 0
      /\ UNCHANGED <<settings, n_therm, n_run, averaging, last_forbidden_iter_number, k>>
  BY DEF Start, InitStats
<1>2. n_sweep' \in {n_sweep, DefaultSweep} /\ orig_n_therm' \in {n_therm, orig_n_therm}
  BY DEF Start, InitControllers, InitParams
<1>3. /\ k = 0 /\ steady = 0 /\ last_corrected_unacceptable_iter_k = 0
      /\ n_therm \in NTherms /\ last_forbidden_iter_number = 0
  BY <1>1 DEF IInv, Untouched
<1>4. TypeOK'
  <2>1. n_sweep' \in SweepSizes /\ orig_n_therm' \in NTherms \cup {0}
    BY <1>2, <1>3, WalkAssumption DEF IInv, TypeOK
  <2>2. n_therm' \in Nat /\ n_therm' >= orig_n_therm'
    BY <1>1, <1>2, WalkAssumption DEF IInv, TypeOK
  <2> QED BY <1>1, <2>1, <2>2 DEF IInv, TypeOK, settings, averaging
<1>5. Untouched'
  BY <1>1, <1>3 DEF Untouched
<1>6. ChecksAfterFlush'
  BY <1>1 DEF IInv, ChecksAfterFlush, settings, Has
<1>7. ThermProlonged'
  BY <1>1, <1>3 DEF ThermProlonged, averaging
<1>8. FixedParamsBeforeLive' /\ RefusedBefore' /\ LastCheck' /\ OneSamplePerSweep'
  BY <1>1 DEF FixedParamsBeforeLive, RefusedBefore, LastCheck, OneSamplePerSweep
<1> QED BY <1>4, <1>5, <1>6, <1>7, <1>8 DEF IInv

\* what the step size controller leaves of the promise when it corrects the sweep
LEMMA Correction ==
  ASSUME TypeOK, NEW s \in Nat \ {0}
  PROVE  /\ NThermFor(s) \in Nat /\ NThermFor(s) >= n_therm
         /\ k + 1 + s * FixedTherm <= s * NThermFor(s)
<1> DEFINE F == FixedTherm
<1> DEFINE q == k \div s
<1>1. F \in Nat /\ k \in Nat /\ n_therm \in Nat
  BY Sizes, FixedThermIsFloor
<1>2. q \in Nat /\ k % s \in Nat /\ k = s * q + (k % s) /\ k % s < s
  BY <1>1, DivMod
<1>3. NThermMin(s) = q + 1 + F
  BY DEF NThermMin
<1> HIDE DEF F, q
<1>4. q + 1 + F \in Nat
  BY <1>1, <1>2
<1>5. /\ NThermFor(s) \in Nat /\ NThermFor(s) >= n_therm
      /\ q + 1 + F <= NThermFor(s)
  BY <1>1, <1>3, <1>4, MaxOfTwo DEF NThermFor
<1>6. s * (q + 1 + F) <= s * NThermFor(s)
  BY <1>4, <1>5, Products
<1>7. s * (q + 1 + F) = s * q + s + s * F /\ s * q \in Nat /\ s * F \in Nat
  BY <1>1, <1>2, Products
<1>8. s * NThermFor(s) \in Nat
  BY <1>5, Products
<1>9. k + 1 <= s * q + s
  BY <1>1, <1>2, <1>7
<1>10. k + 1 + s * F <= s * NThermFor(s)
  BY <1>1, <1>6, <1>7, <1>8, <1>9
<1> QED BY <1>5, <1>10 DEF F

LEMMA ThermIterationStep ==
  ASSUME IInv, ThermIteration
  PROVE  IInv'
<1>t. TypeOK
  BY DEF IInv
<1>1. /\ pc = "therm" /\ pc' = "therm" /\ k' = k + 1
      /\ UNCHANGED <<settings, n_run, orig_n_therm, last_forbidden_iter_number, n>>
      /\ FixedTherm' = FixedTherm
  BY DEF ThermIteration, FixedTherm
<1>2. PICK accept \in {0, 1} :
        /\ Move(accept)
        /\ AdjustAll("WhileThermalizing", "EveryIteration", Accepted(Recorded(accept)))
  BY DEF ThermIteration
<1>3. accept_buffer' \in [0 .. Buffer - 1 -> {0, 1}]
  BY <1>t, <1>2 DEF TypeOK, Move, RawMove, Recorded
<1>4. (Has("step"))' <=> Has("step")
  BY <1>1 DEF Has, settings
<1> DEFINE A == Accepted(Recorded(accept))
<1>5. \/ /\ UNCHANGED <<n_sweep, n_therm, last_corrected_unacceptable_iter_k>>
         /\ steady' = steady + 1
      \/ /\ Has("step") /\ n_sweep' \in SweepSizes /\ n_therm' = NThermFor(n_sweep')
         /\ steady' = 0
         /\ last_corrected_unacceptable_iter_k' \in {last_corrected_unacceptable_iter_k, k}
  <2>1. CASE Has("step")
    <3>1. AdjustParams(A)
      BY <1>2, <2>1, Adjusting
    <3> QED BY <2>1, <3>1 DEF AdjustParams, AdjustedSweeps
  <2>2. CASE ~Has("step")
    BY <1>2, <2>2, Adjusting
  <2> QED BY <2>1, <2>2
<1>6. Untouched' /\ ChecksAfterFlush'
  BY <1>1 DEF IInv, Untouched, ChecksAfterFlush, settings, Has
<1>7. FixedParamsBeforeLive' /\ RefusedBefore' /\ LastCheck' /\ OneSamplePerSweep'
  BY <1>1 DEF FixedParamsBeforeLive, RefusedBefore, LastCheck, OneSamplePerSweep
<1>8. CASE /\ UNCHANGED <<n_sweep, n_therm, last_corrected_unacceptable_iter_k>>
           /\ steady' = steady + 1
  <2>1. TypeOK'
    BY <1>1, <1>3, <1>8 DEF IInv, TypeOK, settings
  <2>2. FixedTherm \in Nat /\ n_sweep * FixedTherm \in Nat
    BY <1>t, FixedThermIsFloor, Sizes, Products
  <2>3. n_sweep * n_therm \in Nat /\ k \in Nat /\ steady \in Nat
    BY <1>t, Sizes
  <2>4. (n_sweep * n_therm)' = n_sweep * n_therm /\ (n_sweep * FixedTherm)' = n_sweep * FixedTherm
    BY <1>1, <1>8
  <2>5. ASSUME Has("step"), steady = k, last_corrected_unacceptable_iter_k = 0
        PROVE  steady' = k' /\ last_corrected_unacceptable_iter_k' = 0
    BY <1>1, <1>8, <2>3, <2>5
  <2>6. ASSUME Has("step"), k + n_sweep * FixedTherm <= n_sweep * n_therm + steady
        PROVE  (k + n_sweep * FixedTherm <= n_sweep * n_therm + steady)'
    <3> DEFINE x == n_sweep * n_therm
    <3> DEFINE y == n_sweep * FixedTherm
    <3>1. x \in Nat /\ y \in Nat /\ k + y <= x + steady /\ x' = x /\ y' = y
      BY <2>2, <2>3, <2>4, <2>6
    <3> HIDE DEF x, y
    <3>2. k' + y' <= x' + steady'
      BY <1>1, <1>8, <2>3, <3>1
    <3> QED BY <3>2 DEF x, y
  <2>7. ASSUME ~Has("step") PROVE steady' = k'
    BY <1>1, <1>8, <2>7 DEF IInv, ThermProlonged
  <2>8. ThermProlonged'
    BY <1>1, <1>4, <2>5, <2>6, <2>7 DEF IInv, ThermProlonged
  <2> QED BY <1>6, <1>7, <2>1, <2>8 DEF IInv
<1>9. CASE /\ Has("step") /\ n_sweep' \in SweepSizes /\ n_therm' = NThermFor(n_sweep')
           /\ steady' = 0
           /\ last_corrected_unacceptable_iter_k' \in {last_corrected_unacceptable_iter_k, k}
  <2>1. n_sweep' \in Nat \ {0}
    BY <1>9, WalkAssumption
  <2>2. /\ n_therm' \in Nat /\ n_therm' >= n_therm
        /\ k + 1 + n_sweep' * FixedTherm <= n_sweep' * n_therm'
    BY <1>t, <1>9, <2>1, Correction
  <2>3. TypeOK'
    <3>1. n_therm' >= orig_n_therm'
      BY <1>t, <1>1, <2>2, Sizes DEF TypeOK
    <3>2. k' \in Nat /\ last_corrected_unacceptable_iter_k' \in Nat
      BY <1>t, <1>1, <1>9, Sizes
    <3> QED BY <1>t, <1>1, <1>3, <1>9, <2>2, <3>1, <3>2 DEF TypeOK, settings
  <2>4. n_sweep' * n_therm' \in Nat
    BY <2>1, <2>2, Products
  <2>5. (k + n_sweep * FixedTherm <= n_sweep * n_therm + steady)'
    BY <1>1, <1>9, <2>2, <2>4
  <2>6. ThermProlonged'
    BY <1>4, <1>9, <2>5 DEF ThermProlonged
  <2> QED BY <1>6, <1>7, <2>3, <2>6 DEF IInv
<1> QED BY <1>5, <1>8, <1>9

\* While nothing was adjusted, it is the controller's own condition that keeps the
\* promise, whatever n_therm is.
LEMMA PromiseKeptByCondition ==
  ASSUME TypeOK, last_corrected_unacceptable_iter_k = 0, StepAllowsDoneThermalization
  PROVE  n_sweep * FixedTherm <= k
<1> DEFINE s == n_sweep
<1> DEFINE F == FixedTherm
<1> DEFINE D == FracDen
<1> DEFINE a == FracNum
<1> DEFINE b == orig_n_therm
<1>1. /\ s \in Nat \ {0} /\ F \in Nat /\ D \in Nat \ {0} /\ a \in Nat /\ b \in Nat
      /\ k \in Nat /\ D * F <= a * b
  BY Sizes, FixedThermIsFloor, WalkAssumption
<1>2. (k - 0) * D >= (s * a) * b
  BY DEF StepAllowsDoneThermalization
<1> HIDE DEF s, F, D, a, b
<1>3. k - 0 = k
  BY <1>1
<1>4. k * D >= (s * a) * b
  BY <1>2, <1>3
<1>5. /\ D * F \in Nat /\ a * b \in Nat /\ s * F \in Nat /\ s * (D * F) \in Nat
      /\ s * (a * b) \in Nat /\ k * D \in Nat /\ D * (s * F) \in Nat
  BY <1>1, Products
<1>6. s * (D * F) <= s * (a * b)
  BY <1>1, <1>5, Products
<1>7. (s * a) * b = s * (a * b) /\ k * D = D * k
  BY <1>1, Products
<1>8. s * (D * F) = D * (s * F)
  <2>1. (s * D) * F = s * (D * F) /\ (D * s) * F = D * (s * F) /\ s * D = D * s
    BY <1>1, Products
  <2> QED BY <2>1
<1>9. D * (s * F) <= D * k
  BY <1>4, <1>5, <1>6, <1>7, <1>8
<1>10. s * F <= k
  BY <1>1, <1>5, <1>9, Products
<1> QED BY <1>10 DEF s, F

LEMMA ThermalizingDoneStep ==
  ASSUME IInv, ThermalizingDone
  PROVE  IInv'
<1>t. TypeOK
  BY DEF IInv
<1>1. /\ pc = "therm" /\ ~MoreTherm /\ pc' = "live" /\ k' = 0
      /\ UNCHANGED <<settings, params, averaging, last_forbidden_iter_number, n>>
  BY DEF ThermalizingDone
<1>2. /\ n_sweep * n_therm \in Nat /\ k \in Nat /\ steady \in Nat
      /\ n_sweep \in Nat \ {0} /\ n_sweep * n_run \in Nat
  BY <1>t, Sizes
<1>3. n_sweep * n_therm <= k /\ AllowDoneThermalization
  BY <1>1, <1>2 DEF MoreTherm
<1>4. FixedTherm \in Nat /\ n_sweep * FixedTherm \in Nat
  BY <1>2, FixedThermIsFloor, Products, <1>t
<1>5. ASSUME Has("step") PROVE n_sweep * FixedTherm <= steady
  <2>1. CASE steady = k /\ last_corrected_unacceptable_iter_k = 0
    BY <1>t, <1>3, <1>5, <2>1, Adjusting, PromiseKeptByCondition
  <2>2. CASE k + n_sweep * FixedTherm <= n_sweep * n_therm + steady
    BY <1>2, <1>3, <1>4, <2>2
  <2> QED BY <1>1, <1>5, <2>1, <2>2 DEF IInv, ThermProlonged
<1>6. ASSUME ~Has("step") PROVE n_sweep * n_therm <= steady
  BY <1>1, <1>3, <1>6 DEF IInv, ThermProlonged
<1>7. FixedParamsBeforeLive'
  <2>1. /\ (Has("step"))' <=> Has("step")
        /\ UNCHANGED <<n_sweep, n_therm, steady>> /\ FixedTherm' = FixedTherm
    BY <1>1 DEF Has, settings, params, averaging, FixedTherm
  <2>2. ASSUME Has("step") PROVE steady' >= n_sweep' * FixedTherm'
    BY <1>2, <1>4, <1>5, <2>1, <2>2
  <2>3. ASSUME ~Has("step") PROVE steady' >= n_sweep' * n_therm'
    BY <1>2, <1>6, <2>1, <2>3
  <2> QED BY <2>1, <2>2, <2>3 DEF FixedParamsBeforeLive
<1>8. TypeOK'
  BY <1>t, <1>1 DEF TypeOK, settings, params, averaging
<1>9. Untouched' /\ ThermProlonged'
  BY <1>1 DEF Untouched, ThermProlonged
<1>10. ChecksAfterFlush'
  BY <1>1 DEF IInv, ChecksAfterFlush, settings, Has
<1>11. RefusedBefore'
  BY <1>1 DEF IInv, Untouched, RefusedBefore
<1>12. LastCheck'
  BY <1>1, <1>2 DEF LastCheck, params
<1>13. OneSamplePerSweep'
  <2>1. 0 \div n_sweep = 0
    BY <1>2
  <2> QED BY <1>1, <2>1 DEF IInv, Untouched, OneSamplePerSweep, params
<1> QED BY <1>7, <1>8, <1>9, <1>10, <1>11, <1>12, <1>13 DEF IInv

\* What a live iteration knows of the checks: if it comes after those that were asked
\* for, the controller is there, and at a check it was not over the limit.
LEMMA NotEnded ==
  ASSUME IInv, pc = "live", NEW converged \in BOOLEAN, MoreRuns(converged),
         n_sweep * n_run <= k
  PROVE  /\ check_frequency_sweeps # 0
         /\ k % CheckLength = 0 => ~OverLimit
<1>t. TypeOK
  BY DEF IInv
<1> DEFINE s == n_sweep
<1> DEFINE r == n_run
<1>1. s \in Nat \ {0} /\ r \in Nat \ {0} /\ k \in Nat /\ s * r \in Nat
  BY <1>t, Sizes
<1>2. k % s # 0 \/ ~AllowDoneRuns(converged)
  BY <1>1 DEF MoreRuns
<1>3. ~AllowDoneRuns(converged) => ~ErrorBinsAllowDoneRuns(converged)
  BY DEF AllowDoneRuns
<1>4. check_frequency_sweeps # 0
  <2>1. CASE k <= s * r
    <3> HIDE DEF s, r
    <3>1. (s * r + 0) % s = 0
      BY <1>1, Quotient
    <3>2. k = s * r
      BY <1>1, <2>1 DEF s, r
    <3>3. k % s = 0
      BY <1>1, <3>1, <3>2
    <3> QED BY <1>2, <1>3, <3>3 DEF ErrorBinsAllowDoneRuns
  <2>2. CASE ~(k <= s * r)
    BY <2>2 DEF IInv, LastCheck
  <2> QED BY <2>1, <2>2
<1>5. ASSUME k % CheckLength = 0 PROVE ~OverLimit
  <2> DEFINE c == CheckLength
  <2> DEFINE f == check_frequency_sweeps
  <2>1. c \in Nat \ {0} /\ c = s * f /\ f \in Nat
    BY <1>t, <1>4, CheckLengthPositive, Sizes DEF CheckLength
  <2>2. k % c = 0
    BY <1>5
  <2>3. k % s = 0
    <3> HIDE DEF c, f, s
    <3>1. (s * f + 0) % s = 0
      BY <1>1, <2>1, Quotient
    <3>2. c % s = 0
      BY <2>1, <3>1
    <3> QED BY <1>1, <2>1, <2>2, <3>2, MultipleOfMultiple
  <2>4. ~TooSoon
    <3>1. SUFFICES ASSUME last_forbidden_iter_number > 0,
                          k - last_forbidden_iter_number < c
                   PROVE  FALSE
      BY DEF TooSoon
    <3> DEFINE l == last_forbidden_iter_number
    <3>2. l \in Nat /\ l > 0 /\ k - l < c
      BY <1>t, <3>1, Sizes
    <3>3. l % c = 0 /\ l < k
      BY <3>2 DEF IInv, RefusedBefore
    <3> HIDE DEF c, l
    <3>4. c <= k - l
      BY <1>1, <2>1, <2>2, <3>2, <3>3, MultiplesApart
    <3> QED BY <1>1, <2>1, <3>2, <3>4
  <2> QED BY <1>2, <1>3, <1>4, <1>5, <2>3, <2>4 DEF ErrorBinsAllowDoneRuns
<1> QED BY <1>4, <1>5

LEMMA LiveIterationStep ==
  ASSUME IInv, NEW converged \in BOOLEAN, LiveIteration(converged)
  PROVE  IInv'
<1>t. TypeOK
  BY DEF IInv
<1>1. /\ pc = "live" /\ pc' = "live" /\ k' = k + 1 /\ MoreRuns(converged)
      /\ UNCHANGED <<settings, params, averaging>>
  BY DEF LiveIteration
<1>2. /\ n_sweep \in Nat \ {0} /\ n_run \in Nat \ {0} /\ n_sweep * n_run \in Nat
      /\ k \in Nat /\ n \in Nat /\ last_forbidden_iter_number \in Nat
  BY <1>t, Sizes
<1>3. /\ UNCHANGED <<CheckLength, FixedTherm, check_frequency_sweeps, limited, n_sweep, n_run>>
      /\ (Has("step"))' <=> Has("step")
      /\ \A i : WithinLimit(i)' <=> WithinLimit(i)
  BY <1>1 DEF settings, params, CheckLength, FixedTherm, Has, WithinLimit
<1>4. TypeOK'
  <2>1. n' \in Nat
    BY <1>2 DEF LiveIteration, ProcessSample
  <2>2. last_forbidden_iter_number' \in Nat
    BY <1>2 DEF LiveIteration
  <2>3. k' \in Nat
    BY <1>1, <1>2
  <2> QED BY <1>t, <1>1, <2>1, <2>2, <2>3 DEF TypeOK, settings, params, averaging
<1>5. Untouched' /\ ThermProlonged'
  BY <1>1 DEF Untouched, ThermProlonged
<1>6. ChecksAfterFlush'
  BY <1>1 DEF IInv, ChecksAfterFlush, settings, Has
<1>7. FixedParamsBeforeLive'
  BY <1>1, <1>3 DEF IInv, FixedParamsBeforeLive, averaging, params
<1>8. RefusedBefore'
  <2>1. k < k'
    BY <1>1, <1>2
  <2>2. CASE last_forbidden_iter_number' = last_forbidden_iter_number
    BY <1>1, <1>2, <1>3, <2>2 DEF IInv, RefusedBefore
  <2>3. CASE last_forbidden_iter_number' = k /\ Analyses
    BY <1>3, <2>1, <2>3 DEF RefusedBefore, Analyses
  <2> QED BY <2>2, <2>3 DEF LiveIteration
<1>9. LastCheck'
  <2> DEFINE N == n_sweep * n_run
  <2> DEFINE c == CheckLength
  <2>1. CASE k < N
    <3>1. k' <= N
      BY <1>1, <1>2, <2>1
    <3> QED BY <1>3, <3>1 DEF LastCheck
  <2>2. CASE N <= k
    <3>1. check_frequency_sweeps # 0 /\ (k % c = 0 => ~OverLimit)
      BY <1>1, <2>2, NotEnded
    <3>2. c \in Nat \ {0}
      BY <1>t, <3>1, CheckLengthPositive
    <3>3. ASSUME limited
          PROVE  \E i \in 0 .. k' : /\ i % c = 0 /\ i < k' /\ k' <= i + c
                                    /\ WithinLimit(i)
      <4>1. CASE k % c = 0
        <5>1. WithinLimit(k)
          <6>1. ~(k * MaxAddDen > MaxAddNum * n_run * n_sweep)
            BY <3>1, <3>3, <4>1 DEF OverLimit
          <6>2. k * MaxAddDen \in Nat /\ MaxAddNum * n_run * n_sweep \in Nat
            BY <1>2, Products, WalkAssumption
          <6> QED BY <6>1, <6>2 DEF WithinLimit
        <5> HIDE DEF c
        <5>2. k \in 0 .. k' /\ k < k' /\ k' <= k + c
          BY <1>1, <1>2, <3>2
        <5> QED BY <4>1, <5>1, <5>2
      <4>2. CASE k % c # 0 /\ k = N
        <5> DEFINE i == k - (k % c)
        <5>1. i \in Nat /\ i < k /\ k + 1 <= i + c /\ i % c = 0
          BY <1>2, <3>2, <4>2, LastMultiple
        <5> HIDE DEF i, c
        <5>2. i <= N
          BY <1>2, <4>2, <5>1
        <5>3. i \in 0 .. k' /\ i < k' /\ k' <= i + c
          BY <1>1, <1>2, <3>2, <5>1
        <5> QED BY <5>1, <5>2, <5>3 DEF WithinLimit
      <4>3. CASE k % c # 0 /\ k # N
        <5>1. ~(k <= N)
          BY <1>2, <2>2, <4>3
        <5>2. PICK i \in 0 .. k : i % c = 0 /\ i < k /\ k <= i + c /\ WithinLimit(i)
          BY <1>1, <3>3, <5>1 DEF IInv, LastCheck
        <5> HIDE DEF c
        <5>3. i + c # k
          <6>1. i \in Nat
            BY <5>2
          <6>2. i = c * (i \div c) /\ i \div c \in Nat
            BY <3>2, <5>2, <6>1, DivMod
          <6> DEFINE q == i \div c
          <6>3. i = c * q /\ q \in Nat
            BY <6>2
          <6> HIDE DEF q
          <6>4. c * (q + 1) = i + c /\ (c * (q + 1) + 0) % c = 0 /\ c * (q + 1) \in Nat
            BY <3>2, <6>3, Products, Quotient
          <6>5. (i + c) % c = 0
            BY <6>4
          <6> QED BY <4>3, <6>5
        <5>4. i \in 0 .. k' /\ i < k' /\ k' <= i + c
          BY <1>1, <1>2, <3>2, <5>2, <5>3
        <5> QED BY <5>2, <5>4
      <4> QED BY <4>1, <4>2, <4>3
    <3> HIDE DEF c
    <3>4. limited' => \E i \in 0 .. k' : /\ i % c = 0 /\ i < k' /\ k' <= i + c
                                         /\ WithinLimit(i)'
      BY <1>3, <3>3
    <3> QED BY <1>3, <3>1, <3>4 DEF LastCheck, c
  <2> QED BY <1>2, <2>1, <2>2
<1>10. OneSamplePerSweep'
  <2>1. n = k \div n_sweep
    BY <1>1 DEF IInv, OneSamplePerSweep
  <2>2. (k + 1) \div n_sweep = IF IsLiveIter THEN n + 1 ELSE n
    BY <1>2, <2>1, NextSweep DEF IsLiveIter
  <2>3. n' = IF IsLiveIter THEN n + 1 ELSE n
    BY DEF LiveIteration, ProcessSample
  <2> QED BY <1>1, <1>3, <2>2, <2>3 DEF OneSamplePerSweep
<1> QED BY <1>4, <1>5, <1>6, <1>7, <1>8, <1>9, <1>10 DEF IInv

LEMMA DoneStep ==
  ASSUME IInv, NEW converged \in BOOLEAN, Done(converged)
  PROVE  IInv'
<1>t. TypeOK
  BY DEF IInv
<1>1. /\ pc = "live" /\ pc' = "done" /\ ~MoreRuns(converged)
      /\ UNCHANGED <<settings, params, averaging, last_forbidden_iter_number, k, n>>
  BY DEF Done
<1>2. /\ n_sweep \in Nat \ {0} /\ n_run \in Nat \ {0} /\ n_sweep * n_run \in Nat
      /\ k \in Nat /\ n \in Nat
  BY <1>t, Sizes
<1>3. n_sweep * n_run <= k /\ k % n_sweep = 0 /\ AllowDoneRuns(converged)
  BY <1>1, <1>2 DEF MoreRuns
<1>4. k = n_sweep * n
  BY <1>1, <1>2, <1>3, DivMod DEF IInv, OneSamplePerSweep
<1>5. n >= n_run /\ k = n * n_sweep
  BY <1>2, <1>3, <1>4, Products
<1>6. ASSUME check_frequency_sweeps # 0 PROVE Unflushed = 0
  <2>1. ErrorBinsAllowDoneRuns(converged) /\ check_frequency_sweeps % SampleSize = 0
    BY <1>3, <1>6 DEF IInv, ChecksAfterFlush, Has, AllowDoneRuns
  <2>2. (n_sweep * n) % (n_sweep * check_frequency_sweeps) = 0
    BY <1>4, <1>6, <2>1 DEF ErrorBinsAllowDoneRuns, CheckLength
  <2>3. check_frequency_sweeps \in Nat \ {0}
    BY <1>t, <1>6, Sizes
  <2>4. n % check_frequency_sweeps = 0
    BY <1>2, <2>2, <2>3, Multiples
  <2>5. n % SampleSize = 0
    BY <1>2, <2>1, <2>3, <2>4, MultipleOfMultiple, WalkAssumption
  <2> QED BY <2>5 DEF Unflushed
<1>7. OneSamplePerSweep'
  BY <1>1, <1>5, <1>6 DEF OneSamplePerSweep, params, settings, Unflushed
<1>8. LastCheck'
  BY <1>1 DEF IInv, LastCheck, params, settings, WithinLimit, CheckLength
<1>9. FixedParamsBeforeLive'
  BY <1>1 DEF IInv, FixedParamsBeforeLive, params, settings, averaging, Has, FixedTherm
<1>10. TypeOK' /\ ChecksAfterFlush'
  BY <1>1 DEF IInv, TypeOK, ChecksAfterFlush, params, settings, averaging, Has
<1>11. Untouched' /\ ThermProlonged' /\ RefusedBefore'
  BY <1>1 DEF Untouched, ThermProlonged, RefusedBefore
<1> QED BY <1>7, <1>8, <1>9, <1>10, <1>11 DEF IInv

LEMMA Stutter ==
  ASSUME IInv, UNCHANGED vars
  PROVE  IInv'
BY DEF IInv, vars, settings, params, averaging, TypeOK, Untouched, ChecksAfterFlush, Has,
   ThermProlonged, FixedTherm, FixedParamsBeforeLive, RefusedBefore, CheckLength,
   LastCheck, WithinLimit, OneSamplePerSweep, Unflushed

-----------------------------------------------------------------------------
\* The theorems.

\* Every state of a walk satisfies the inductive invariant.
THEOREM Invariance == Spec => []IInv
<1>1. ASSUME IInv, [Next]_vars PROVE IInv'
  BY <1>1, StartStep, ThermIterationStep, ThermalizingDoneStep, LiveIterationStep,
     DoneStep, Stutter DEF Next
<1> QED BY InvariantInit, <1>1, PTL DEF Spec

\* The parameters, counters and the buffer of the moving average keep their types; the
\* length of the thermalization only grows.
THEOREM TypeCorrect == Spec => []TypeOK
<1>1. IInv => TypeOK
  BY DEF IInv
<1> QED BY <1>1, Invariance, PTL

\* However often the step size controller corrects the sweep, the live run begins only
\* when enough sweeps have passed at the parameters it then uses.
THEOREM ParamsFixedBeforeLive == Spec => []FixedParamsBeforeLive
<1>1. IInv => FixedParamsBeforeLive
  BY DEF IInv
<1> QED BY <1>1, Invariance, PTL

\* What is within the limit is so for fewer iterations.
LEMMA WithinLimitDown ==
  ASSUME TypeOK, NEW i \in Nat, NEW j \in Int, j <= i, WithinLimit(i)
  PROVE  WithinLimit(j)
<1> DEFINE N == n_sweep * n_run
<1> DEFINE M == MaxAddNum * n_run * n_sweep
<1>1. N \in Nat /\ M \in Nat /\ MaxAddDen \in Nat
  BY Sizes, Products, WalkAssumption
<1>2. i <= N \/ i * MaxAddDen <= M
  BY DEF WithinLimit
<1> HIDE DEF N, M
<1>3. j * MaxAddDen \in Int /\ i * MaxAddDen \in Int /\ j * MaxAddDen <= i * MaxAddDen
  BY <1>1
<1>4. j <= N \/ j * MaxAddDen <= M
  BY <1>1, <1>2, <1>3
<1> QED BY <1>4 DEF WithinLimit, N, M

\* A live run takes one sample per sweep and at least n_run of them, ends with whole
\* blocks of the binning analysis when that decides on the end, and is prolonged by no
\* more than one check beyond what it may.
THEOREM RunComplete == Spec => []LiveRunComplete
<1>1. ASSUME IInv PROVE LiveRunComplete
  <2>1. TypeOK
    BY <1>1 DEF IInv
  <2>2. ASSUME pc \in {"live", "done"}, ~(k <= n_sweep * n_run)
        PROVE  /\ check_frequency_sweeps # 0
               /\ limited => WithinLimit(k - CheckLength)
    <3>1. check_frequency_sweeps # 0
      BY <1>1, <2>2 DEF IInv, LastCheck
    <3>2. ASSUME limited PROVE WithinLimit(k - CheckLength)
      <4>1. PICK i \in 0 .. k : k <= i + CheckLength /\ WithinLimit(i)
        BY <1>1, <2>2, <3>2 DEF IInv, LastCheck
      <4>2. CheckLength \in Nat /\ k \in Nat /\ i \in Nat
        BY <2>1, <3>1, CheckLengthPositive, Sizes
      <4>3. k - CheckLength \in Int /\ k - CheckLength <= i
        BY <4>1, <4>2
      <4> QED BY <2>1, <4>1, <4>2, <4>3, WithinLimitDown
    <3> QED BY <3>1, <3>2
  <2>3. OneSamplePerSweep
    BY <1>1 DEF IInv
  <2> QED BY <2>2, <2>3 DEF LiveRunComplete, OneSamplePerSweep
<1> QED BY <1>1, Invariance, PTL

=============================================================================
