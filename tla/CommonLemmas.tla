---------------------------- MODULE CommonLemmas ----------------------------
(***************************************************************************)
(* Facts that the proofs share: powers of two, remainders, the number of   *)
(* levels of a binning analysis; and folds, which TLA+ defines by choosing *)
(* a recursive function, and which are what its equations say once there   *)
(* is such a function.                                                     *)
(***************************************************************************)
EXTENDS BinningLevels, FiniteSetsExt, FiniteSetTheorems, WellFoundedInduction, TLAPS

\* TLA+ leaves powers to arithmetic, which knows those of given numbers.
LEMMA PowersOfTwo ==
  ASSUME NEW e \in 0 .. 31
  PROVE  /\ 2 ^ e \in Nat \ {0} /\ 2 ^ (e + 1) \in Nat \ {0}
         /\ 2 ^ (e + 1) = 2 * 2 ^ e
<1> DEFINE P(x) == 2 ^ x
<1>1. /\ P(0) = 1 /\ P(1) = 2 /\ P(2) = 4 /\ P(3) = 8
      /\ P(4) = 16 /\ P(5) = 32 /\ P(6) = 64 /\ P(7) = 128
      /\ P(8) = 256 /\ P(9) = 512 /\ P(10) = 1024 /\ P(11) = 2048
      /\ P(12) = 4096 /\ P(13) = 8192 /\ P(14) = 16384 /\ P(15) = 32768
      /\ P(16) = 65536 /\ P(17) = 131072 /\ P(18) = 262144 /\ P(19) = 524288
      /\ P(20) = 1048576 /\ P(21) = 2097152 /\ P(22) = 4194304 /\ P(23) = 8388608
      /\ P(24) = 16777216 /\ P(25) = 33554432 /\ P(26) = 67108864 /\ P(27) = 134217728
      /\ P(28) = 268435456 /\ P(29) = 536870912 /\ P(30) = 1073741824 /\ P(31) = 2147483648
      /\ P(32) = 4294967296
  OBVIOUS
<1> HIDE DEF P
<1>2. P(e) \in Nat \ {0} /\ P(e + 1) \in Nat \ {0} /\ P(e + 1) = 2 * P(e)
  BY <1>1
<1> QED BY <1>2 DEF P

LEMMA Division ==
  ASSUME NEW M \in Nat \ {0}, NEW a \in Int
  PROVE  /\ a \div M \in Int /\ a % M \in 0 .. M - 1
         /\ a = M * (a \div M) + (a % M)
<1>1. a = M * (a \div M) + (a % M)
  OBVIOUS
<1>2. a \div M \in Int
  OBVIOUS
<1>3. a % M \in 0 .. M - 1
  OBVIOUS
<1> QED BY <1>1, <1>2, <1>3

\* Two numbers with the same remainder that differ by less than the modulus are equal.
LEMMA SameRemainder ==
  ASSUME NEW M \in Nat \ {0}, NEW a \in Int, NEW b \in Int,
         a % M = b % M, a - b < M, b - a < M
  PROVE  a = b
<1>1. PICK p \in Int, q \in Int, r \in Int : a = M * p + r /\ b = M * q + r
  <2>1. a = M * (a \div M) + (a % M) /\ b = M * (b \div M) + (b % M)
    OBVIOUS
  <2>2. a \div M \in Int /\ b \div M \in Int /\ a % M \in Int
    OBVIOUS
  <2> QED BY <2>1, <2>2, Zenon
<1>2. p = q
  <2>1. a - b = M * (p - q) /\ b - a = M * (q - p)
    BY <1>1
  <2>2. \A d \in Int : d >= 1 => M * d >= M
    OBVIOUS
  <2>3. ~(p - q >= 1) /\ ~(q - p >= 1)
    BY <2>1, <2>2
  <2> QED BY <2>3
<1> QED BY <1>1, <1>2

\* There is a whole logarithm of every number up to 2 ^ 30.
LEMMA WholeLog2Is ==
  ASSUME NEW n \in Nat, n >= 1, n < 2 ^ 30
  PROVE  /\ WholeLog2(n) \in 0 .. 29
         /\ 2 ^ WholeLog2(n) <= n /\ n < 2 ^ (WholeLog2(n) + 1)
<1> DEFINE P(x) == 2 ^ x
           Above == {l \in 0 .. 30 : n < P(l)}
           R == {ss \in Nat \X Nat : ss[1] < ss[2]}
<1>1. P(0) = 1 /\ P(30) = 1073741824 /\ n < P(30)
  BY SMT
<1> HIDE DEF P
<1>2. IsWellFoundedOn(R, Nat)
  BY NatLessThanWellFounded, Zenon DEF OpToRel
<1>3. Above \subseteq Nat /\ Above # {}
  <2>1. 30 \in Above
    BY <1>1, SMT
  <2> QED BY <2>1
<1>4. PICK m \in Above : \A l \in Above : <<l, m>> \notin R
  <2> HIDE DEF Above, R
  <2> QED BY <1>2, <1>3, WFMin
<1>5. m \in 0 .. 30 /\ n < P(m)
  OBVIOUS
<1>6. m # 0
  BY <1>1, <1>5, SMT
<1>7. m - 1 \in 0 .. 29
  BY <1>5, <1>6, SMT
<1>8. m - 1 \notin Above
  <2>1. <<m - 1, m>> \in R
    BY <1>5, <1>7, SMT
  <2> QED BY <1>4, <2>1
<1>9. ~(n < P(m - 1))
  <2>1. m - 1 \in 0 .. 30
    BY <1>7, SMT
  <2> QED BY <1>8, <2>1, Zenon
<1>10. P(m - 1) \in Nat
  <2>1. m - 1 \in 0 .. 31
    BY <1>7, SMT
  <2> QED BY <2>1, PowersOfTwo, Zenon DEF P
<1>11. P(m - 1) <= n
  BY <1>9, <1>10, SMT
<1>12. (m - 1) + 1 = m
  BY <1>5, SMT
<1>13. P(m - 1) <= n /\ n < P((m - 1) + 1)
  BY <1>5, <1>11, <1>12
<1>14. \E l \in 0 .. 29 : 2 ^ l <= n /\ n < 2 ^ (l + 1)
  BY <1>7, <1>13, Zenon DEF P
<1> HIDE DEF Above
<1> QED BY <1>14, Zenon DEF WholeLog2

\* Unless it is given the number of levels leaves enough samples at the last one,
\* and less than twice as many, if there are enough.
LEMMA LevelsLeaveEnough ==
  ASSUME NEW given \in Int, NEW n_run \in Int, n_run <= MaxInt, NEW L,
         L = SanitizeBinningLevels(given, n_run, 128)
  PROVE  /\ L \in Int /\ L > 0
         /\ given > 0 => L = given
         /\ ~(given > 0) =>
              /\ L <= 30
              /\ \/ L = 1 /\ n_run < 512
                 \/ n_run \div 2 ^ L \in 128 .. 255
<1> DEFINE q == n_run \div 128
           P(x) == 2 ^ x
<1>1. q \in Int /\ q < 1073741824 /\ 128 * q <= n_run /\ n_run < 128 * q + 128
  BY SMT DEF MaxInt
<1>2. L = IF given > 0 THEN given ELSE IF q < 2 THEN 1 ELSE WholeLog2(q)
  BY DEF SanitizeBinningLevels, ChosenAutomatically
<1> HIDE DEF q, P
<1>3. CASE given > 0
  BY <1>2, <1>3
<1>4. CASE ~(given > 0) /\ q < 2
  BY <1>1, <1>2, <1>4, SMT
<1>5. CASE ~(given > 0) /\ ~(q < 2)
  <2>1. L = WholeLog2(q)
    BY <1>2, <1>5
  <2>2. L \in 0 .. 29 /\ P(L) <= q /\ q < P(L + 1)
    <3>1. 1073741824 = 2 ^ 30
      BY SMT
    <3>2. q < 2 ^ 30 /\ q \in Nat /\ q >= 1
      BY <1>1, <1>5, <3>1, SMT
    <3> QED BY <2>1, <3>2, WholeLog2Is, Zenon DEF P
  <2>3. P(0) = 1 /\ P(1) = 2
    BY SMT DEF P
  <2>4. L # 0
    BY <1>1, <1>5, <2>2, <2>3, SMT
  <2>5. P(L) \in Nat \ {0} /\ P(L + 1) \in Nat /\ P(L + 1) = 2 * P(L)
    <3>1. L \in 0 .. 31
      BY <2>2, SMT
    <3>2. P(L) \in Nat \ {0} /\ P(L + 1) \in Nat \ {0} /\ P(L + 1) = 2 * P(L)
      BY <3>1, PowersOfTwo, Zenon DEF P
    <3> QED BY <3>2
  <2>6. 128 * P(L) <= n_run /\ n_run < 256 * P(L)
    BY <1>1, <2>2, <2>5, SMT
  <2>7. n_run \div P(L) \in 128 .. 255
    <3>1. PICK M \in Nat \ {0} : M = P(L)
      BY <2>5
    <3>2. 128 * M <= n_run /\ n_run < 256 * M
      BY <2>6, <3>1
    <3>3. PICK d, r : d = n_run \div M /\ r = n_run % M
      OBVIOUS
    <3>4. d \in Int /\ r \in 0 .. M - 1 /\ n_run = M * d + r
      BY <3>1, <3>3, Division
    <3>5. ~(d <= 127)
      <4>1. SUFFICES ASSUME d <= 127 PROVE FALSE
        OBVIOUS
      <4>2. M * d <= M * 127
        BY <3>1, <3>4, <4>1, SMT
      <4> QED BY <3>1, <3>2, <3>4, <4>2, SMT
    <3>6. ~(d >= 256)
      <4>1. SUFFICES ASSUME d >= 256 PROVE FALSE
        OBVIOUS
      <4>2. M * d >= M * 256
        BY <3>1, <3>4, <4>1, SMT
      <4> QED BY <3>1, <3>2, <3>4, <4>2, SMT
    <3>7. d \in 128 .. 255
      BY <3>4, <3>5, <3>6, SMT
    <3> QED BY <3>1, <3>3, <3>7
  <2> QED BY <1>5, <2>2, <2>4, <2>7 DEF P
<1> QED BY <1>3, <1>4, <1>5

-----------------------------------------------------------------------------
\* Folds

\* Natural numbers up to n have a least one without a property, if there is any.
LEMMA LeastOf ==
  ASSUME NEW S \in SUBSET Nat, S # {}
  PROVE  \E m \in S : \A l \in S : m <= l
<1> DEFINE R == {ss \in Nat \X Nat : ss[1] < ss[2]}
<1>1. IsWellFoundedOn(R, Nat)
  BY NatLessThanWellFounded, Zenon DEF OpToRel
<1>2. PICK m \in S : \A l \in S : <<l, m>> \notin R
  <2> HIDE DEF R
  <2> QED BY <1>1, WFMin
<1>3. ASSUME NEW l \in S PROVE m <= l
  <2>1. l \in Nat /\ m \in Nat /\ ~(l < m)
    BY <1>2
  <2> QED BY <2>1
<1> QED BY <1>3

\* Two sequences that start and go on in the same way are the same.
LEMMA SameSteps ==
  ASSUME NEW n \in Nat, NEW p, NEW q, p[0] = q[0],
         \A i \in 1 .. n : p[i - 1] = q[i - 1] => p[i] = q[i]
  PROVE  \A i \in 0 .. n : p[i] = q[i]
<1> DEFINE Bad == {i \in 0 .. n : p[i] # q[i]}
<1>1. SUFFICES ASSUME Bad # {} PROVE FALSE
  OBVIOUS
<1>2. PICK m \in Bad : \A l \in Bad : m <= l
  <2>1. Bad \subseteq Nat
    OBVIOUS
  <2> HIDE DEF Bad
  <2> QED BY <1>1, <2>1, LeastOf
<1>3. m \in 1 .. n /\ p[m] # q[m]
  OBVIOUS
<1>4. m - 1 \notin Bad /\ m - 1 \in 0 .. n
  BY <1>2, <1>3
<1> QED BY <1>3, <1>4

FoldsBy(iter, D, next, base, g) ==
  \A s \in SUBSET D :
    iter[s] = IF s = {} THEN base ELSE g[<<next[s], iter[s \ {next[s]}]>>]

FoldsLeft(iter, n, base, g) ==
  \A s \in SUBSET (1 .. n) :
    iter[s] = IF s = {} THEN base ELSE g[<<Max(s), iter[s \ {Max(s)}]>>]

FoldsRight(iter, n, base, g) ==
  \A s \in SUBSET (1 .. n) :
    iter[s] = IF s = {} THEN base ELSE g[<<Min(s), iter[s \ {Min(s)}]>>]

\* What is built up from the elements of a set, in any order of choice.
LEMMA FoldExists ==
  ASSUME NEW Y, NEW D, IsFiniteSet(D), NEW base \in Y, NEW g \in [D \X Y -> Y],
         NEW next \in [SUBSET D -> D \cup {D}], \A s \in (SUBSET D) \ {{}} : next[s] \in s
  PROVE  \E iter \in [SUBSET D -> Y] : FoldsBy(iter, D, next, base, g)
<1> DEFINE Built(iter, s) ==
      iter[s] = IF s = {} THEN base ELSE g[<<next[s], iter[s \ {next[s]}]>>]
           Up(m) == \E iter \in [SUBSET D -> Y] :
                      \A s \in SUBSET D : Cardinality(s) <= m => Built(iter, s)
           Bad == {m \in Nat : ~Up(m)}
<1>1. \A s \in SUBSET D : Cardinality(s) \in Nat /\ (s # {} => Cardinality(s \ {next[s]}) = Cardinality(s) - 1)
  <2> SUFFICES ASSUME NEW s \in SUBSET D
               PROVE  Cardinality(s) \in Nat /\ (s # {} => Cardinality(s \ {next[s]}) = Cardinality(s) - 1)
    OBVIOUS
  <2>1. IsFiniteSet(s)
    BY FS_Subset
  <2>2. Cardinality(s) \in Nat
    BY <2>1, FS_CardinalityType
  <2>3. ASSUME s # {} PROVE Cardinality(s \ {next[s]}) = Cardinality(s) - 1
    <3>1. next[s] \in s
      BY <2>3
    <3>2. PICK x : x = next[s]
      OBVIOUS
    <3>3. Cardinality(s \ {x}) = Cardinality(s) - 1
      BY <2>1, <3>1, <3>2, FS_RemoveElement
    <3> QED BY <3>2, <3>3
  <2> QED BY <2>2, <2>3
<1>2. Up(0)
  <2> DEFINE first == [s \in SUBSET D |-> base]
  <2>1. \A s \in SUBSET D : Cardinality(s) <= 0 => s = {}
    <3> SUFFICES ASSUME NEW s \in SUBSET D, Cardinality(s) <= 0 PROVE s = {}
      OBVIOUS
    <3>1. Cardinality(s) \in Nat
      BY <1>1
    <3>2. Cardinality(s) = 0
      BY <3>1
    <3>3. IsFiniteSet(s)
      BY FS_Subset
    <3> QED BY <3>2, <3>3, FS_EmptySet
  <2>2. first \in [SUBSET D -> Y]
    OBVIOUS
  <2>3. \A s \in SUBSET D : Cardinality(s) <= 0 => Built(first, s)
    BY <2>1
  <2> HIDE DEF first, Built
  <2> QED BY <2>2, <2>3
<1>3. ASSUME NEW m \in Nat, Up(m) PROVE Up(m + 1)
  <2>1. PICK iter \in [SUBSET D -> Y] :
          \A s \in SUBSET D : Cardinality(s) <= m => Built(iter, s)
    BY <1>3
  <2> DEFINE more == [s \in SUBSET D |-> IF s = {} THEN base
                                         ELSE g[<<next[s], iter[s \ {next[s]}]>>]]
  <2>2. more \in [SUBSET D -> Y]
    <3> SUFFICES ASSUME NEW s \in SUBSET D, s # {}
                 PROVE  g[<<next[s], iter[s \ {next[s]}]>>] \in Y
      OBVIOUS
    <3>1. next[s] \in D /\ iter[s \ {next[s]}] \in Y
      OBVIOUS
    <3> QED BY <3>1
  <2>3. \A s \in SUBSET D : Cardinality(s) <= m => more[s] = iter[s]
    BY <2>1
  <2>4. ASSUME NEW s \in SUBSET D, Cardinality(s) <= m + 1 PROVE Built(more, s)
    <3>1. CASE s = {}
      BY <3>1
    <3>2. CASE s # {}
      <4>1. s \ {next[s]} \in SUBSET D /\ Cardinality(s \ {next[s]}) <= m
        BY <1>1, <2>4, <3>2
      <4>2. more[s \ {next[s]}] = iter[s \ {next[s]}]
        BY <2>3, <4>1
      <4> QED BY <3>2, <4>2
    <3> QED BY <3>1, <3>2
  <2> HIDE DEF more, Built
  <2> QED BY <2>2, <2>4
<1>4. \A m \in Nat : Up(m)
  <2> HIDE DEF Up
  <2>1. SUFFICES ASSUME Bad # {} PROVE FALSE
    OBVIOUS
  <2>2. PICK m \in Bad : \A l \in Bad : m <= l
    <3>1. Bad \subseteq Nat
      OBVIOUS
    <3> HIDE DEF Bad
    <3> QED BY <2>1, <3>1, LeastOf
  <2>3. m \in Nat \ {0} /\ ~Up(m)
    BY <1>2
  <2>4. m - 1 \in Nat /\ (m - 1) + 1 = m
    BY <2>3
  <2>5. Up(m - 1)
    BY <2>2, <2>4
  <2> QED BY <1>3, <2>3, <2>4, <2>5
<1>5. Cardinality(D) \in Nat /\ \A s \in SUBSET D : Cardinality(s) <= Cardinality(D)
  BY FS_Subset, FS_CardinalityType
<1>6. Up(Cardinality(D))
  <2> HIDE DEF Up
  <2> QED BY <1>4, <1>5
<1> QED BY <1>5, <1>6 DEF FoldsBy

LEMMA Largest ==
  ASSUME NEW n \in Nat, NEW s \in SUBSET (1 .. n), s # {}
  PROVE  Max(s) \in s /\ \A x \in s : x <= Max(s)
<1> DEFINE T == {n - x : x \in s}
<1>1. PICK t \in T : \A l \in T : t <= l
  <2>1. \A x \in s : n - x \in Nat
    OBVIOUS
  <2>2. T \in SUBSET Nat /\ T # {}
    BY <2>1
  <2> HIDE DEF T
  <2> QED BY <2>2, LeastOf
<1>2. PICK x \in s : t = n - x
  OBVIOUS
<1>3. \A y \in s : x >= y
  <2> SUFFICES ASSUME NEW y \in s PROVE x >= y
    OBVIOUS
  <2>1. n - y \in T /\ x \in 1 .. n /\ y \in 1 .. n
    OBVIOUS
  <2>2. n - x <= n - y
    BY <1>1, <1>2, <2>1
  <2> QED BY <2>1, <2>2
<1>4. Max(s) \in s /\ \A y \in s : Max(s) >= y
  BY <1>3 DEF Max
<1> QED BY <1>4

LEMMA Smallest ==
  ASSUME NEW s \in SUBSET Nat, s # {}
  PROVE  Min(s) \in s /\ \A x \in s : Min(s) <= x
BY LeastOf DEF Min

LEMMA MaxUpTo ==
  ASSUME NEW i \in Nat \ {0}
  PROVE  Max(1 .. i) = i /\ (1 .. i) \ {i} = 1 .. i - 1 /\ (1 .. i) # {}
<1>1. \A x \in 1 .. i : (\A y \in 1 .. i : x >= y) => x = i
  OBVIOUS
<1>2. i \in 1 .. i /\ (\A y \in 1 .. i : i >= y)
  OBVIOUS
<1>3. Max(1 .. i) = i
  BY <1>1, <1>2 DEF Max
<1>4. (1 .. i) \ {i} = 1 .. i - 1
  OBVIOUS
<1> QED BY <1>2, <1>3, <1>4

LEMMA MinDownTo ==
  ASSUME NEW n \in Nat, NEW i \in 1 .. n
  PROVE  Min(i .. n) = i /\ (i .. n) \ {i} = i + 1 .. n /\ (i .. n) # {}
<1>1. \A x \in i .. n : (\A y \in i .. n : x <= y) => x = i
  OBVIOUS
<1>2. i \in i .. n /\ (\A y \in i .. n : i <= y)
  OBVIOUS
<1>3. Min(i .. n) = i
  BY <1>1, <1>2 DEF Min
<1>4. (i .. n) \ {i} = i + 1 .. n
  OBVIOUS
<1> QED BY <1>2, <1>3, <1>4

\* The results of folding a sequence from the left and from the right.
LEMMA LeftFold ==
  ASSUME NEW Y, NEW n \in Nat, NEW base \in Y, NEW g \in [(1 .. n) \X Y -> Y]
  PROVE  \E iter \in [SUBSET (1 .. n) -> Y] : FoldsLeft(iter, n, base, g)
<1> DEFINE D == 1 .. n
           next == [s \in SUBSET D |-> IF s = {} THEN D ELSE Max(s)]
<1>1. IsFiniteSet(D)
  BY FS_Interval
<1>2. \A s \in (SUBSET D) \ {{}} : next[s] = Max(s) /\ next[s] \in s
  BY Largest
<1>3. next \in [SUBSET D -> D \cup {D}]
  BY Largest
<1>4. g \in [D \X Y -> Y]
  OBVIOUS
<1> HIDE DEF D, next
<1>5. PICK iter \in [SUBSET D -> Y] : FoldsBy(iter, D, next, base, g)
  <2>1. \A s \in (SUBSET D) \ {{}} : next[s] \in s
    BY <1>2
  <2> QED BY <1>1, <1>3, <1>4, <2>1, FoldExists
<1>6. \A s \in SUBSET D :
        iter[s] = IF s = {} THEN base ELSE g[<<Max(s), iter[s \ {Max(s)}]>>]
  BY <1>2, <1>5 DEF FoldsBy
<1> QED BY <1>5, <1>6 DEF D, FoldsLeft

LEMMA RightFold ==
  ASSUME NEW Y, NEW n \in Nat, NEW base \in Y, NEW g \in [(1 .. n) \X Y -> Y]
  PROVE  \E iter \in [SUBSET (1 .. n) -> Y] : FoldsRight(iter, n, base, g)
<1> DEFINE D == 1 .. n
           next == [s \in SUBSET D |-> IF s = {} THEN D ELSE Min(s)]
<1>1. IsFiniteSet(D)
  BY FS_Interval
<1>2. \A s \in (SUBSET D) \ {{}} : next[s] = Min(s) /\ next[s] \in s
  <2>1. D \subseteq Nat
    OBVIOUS
  <2> QED BY <2>1, Smallest
<1>3. next \in [SUBSET D -> D \cup {D}]
  BY <1>2
<1>4. g \in [D \X Y -> Y]
  OBVIOUS
<1> HIDE DEF D, next
<1>5. PICK iter \in [SUBSET D -> Y] : FoldsBy(iter, D, next, base, g)
  <2>1. \A s \in (SUBSET D) \ {{}} : next[s] \in s
    BY <1>2
  <2> QED BY <1>1, <1>3, <1>4, <2>1, FoldExists
<1>6. \A s \in SUBSET D :
        iter[s] = IF s = {} THEN base ELSE g[<<Min(s), iter[s \ {Min(s)}]>>]
  BY <1>2, <1>5 DEF FoldsBy
<1> QED BY <1>5, <1>6 DEF D, FoldsRight

\* Each step keeps to a set.
LEMMA StepsTyped ==
  ASSUME NEW Y, NEW n \in Nat, NEW p, p[0] \in Y,
         \A i \in 1 .. n : p[i - 1] \in Y => p[i] \in Y
  PROVE  \A i \in 0 .. n : p[i] \in Y
<1> DEFINE Bad == {i \in 0 .. n : p[i] \notin Y}
<1>1. SUFFICES ASSUME Bad # {} PROVE FALSE
  OBVIOUS
<1>2. PICK m \in Bad : \A l \in Bad : m <= l
  <2>1. Bad \subseteq Nat
    OBVIOUS
  <2> HIDE DEF Bad
  <2> QED BY <1>1, <2>1, LeastOf
<1>3. m \in 1 .. n /\ p[m] \notin Y
  OBVIOUS
<1>4. m - 1 \notin Bad /\ m - 1 \in 0 .. n
  BY <1>2, <1>3
<1> QED BY <1>3, <1>4

\* Going through numbers upwards or downwards.
LEMMA UpSteps ==
  ASSUME NEW n \in Nat, NEW S, 0 \in S, \A j \in 1 .. n : j - 1 \in S => j \in S
  PROVE  \A j \in 0 .. n : j \in S
<1> DEFINE p == [i \in 0 .. n |-> i]
<1>1. p[0] = 0 /\ \A i \in 1 .. n : p[i - 1] = i - 1 /\ p[i] = i
  OBVIOUS
<1>2. \A i \in 0 .. n : p[i] = i
  OBVIOUS
<1> HIDE DEF p
<1>3. \A i \in 0 .. n : p[i] \in S
  BY <1>1, StepsTyped
<1> QED BY <1>2, <1>3

LEMMA DownSteps ==
  ASSUME NEW n \in Nat, NEW S, n + 1 \in S, \A j \in 1 .. n : j + 1 \in S => j \in S
  PROVE  \A j \in 1 .. n + 1 : j \in S
<1> DEFINE p == [i \in 0 .. n |-> n + 1 - i]
<1>1. p[0] = n + 1 /\ \A i \in 1 .. n : p[i - 1] = n + 1 - i + 1 /\ p[i] = n + 1 - i /\ n + 1 - i \in 1 .. n
  OBVIOUS
<1>2. \A i \in 0 .. n : p[i] = n + 1 - i
  OBVIOUS
<1>3. \A i \in 0 .. n : p[i] \in S
  <2> HIDE DEF p
  <2>1. \A i \in 1 .. n : p[i - 1] \in S => p[i] \in S
    BY <1>1
  <2>2. p[0] \in S
    BY <1>1
  <2> QED BY <2>1, <2>2, StepsTyped
<1>4. ASSUME NEW j \in 1 .. n + 1 PROVE j \in S
  <2>1. PICK i \in 0 .. n : n + 1 - i = j
    <3>1. n + 1 - j \in 0 .. n /\ n + 1 - (n + 1 - j) = j
      OBVIOUS
    <3> QED BY <3>1
  <2> QED BY <1>2, <1>3, <2>1
<1> QED BY <1>4

=============================================================================
