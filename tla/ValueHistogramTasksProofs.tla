---------------------- MODULE ValueHistogramTasksProofs ----------------------
(***************************************************************************)
(* Proofs about ValueHistogramTasks, for any runs and figures of merit:    *)
(* every sample is counted in the bin whose limits it lies between, the    *)
(* error bars are those of the blocks of samples, and the verdict on each  *)
(* is the one that the levels call for.                                    *)
(***************************************************************************)
EXTENDS ValueHistogramTasks, CommonLemmas

-----------------------------------------------------------------------------
\* Fractions

\* p divides a
Divides(p, a) == \E q \in Int : a = p * q

\* The recursion of GCD is that of the greatest common divisor.
LEMMA GCDSteps ==
  ASSUME NEW a \in Nat, NEW b \in Nat
  PROVE  GCD[<<a, b>>] = IF b = 0 THEN a ELSE GCD[<<b, a % b>>]
<1> DEFINE Common(x, y) == {p \in 1 .. y : Divides(p, x) /\ Divides(p, y)}
           h == [z \in Nat \X Nat |-> IF z[2] = 0 THEN z[1] ELSE Max(Common(z[1], z[2]))]
           Recursion(f) == f = [z \in Nat \X Nat |-> IF z[2] = 0 THEN z[1] ELSE f[<<z[2], z[1] % z[2]>>]]
<1>1. ASSUME NEW x \in Nat, NEW y \in Nat \ {0}
      PROVE  x % y \in Nat /\ x % y < y /\ \E q \in Nat : x = y * q + (x % y)
  <2>1. x \div y \in Nat /\ x % y \in 0 .. y - 1
    OBVIOUS
  <2>2. x = y * (x \div y) + (x % y)
    BY Division
  <2>3. PICK q, r : q = x \div y /\ r = x % y
    OBVIOUS
  <2>4. q \in Nat /\ r \in Nat /\ r < y /\ x = y * q + r
    BY <2>1, <2>2, <2>3
  <2> QED BY <2>3, <2>4
<1>2. ASSUME NEW x \in Nat, NEW y \in Nat \ {0}
      PROVE  h[<<x, y>>] = h[<<y, x % y>>]
  <2>1. PICK r \in Nat, q \in Nat : r = x % y /\ r < y /\ x = y * q + r
    BY <1>1
  <2>2. h[<<x, y>>] = Max(Common(x, y)) /\ h[<<y, r>>] = IF r = 0 THEN y ELSE Max(Common(y, r))
    OBVIOUS
  <2>3. CASE r = 0
    <3>1. y \in Common(x, y)
      <4>1. x = y * q /\ y = y * 1 /\ q \in Int /\ 1 \in Int
        BY <2>1, <2>3
      <4> QED BY <4>1 DEF Divides
    <3>2. \A p \in Common(x, y) : y >= p
      OBVIOUS
    <3>3. \A p \in Common(x, y) : (\A z \in Common(x, y) : p >= z) => p = y
      BY <3>1
    <3> HIDE DEF Common
    <3> QED BY <2>1, <2>2, <2>3, <3>1, <3>2, <3>3 DEF Max
  <2>4. CASE r # 0
    <3>1. ASSUME NEW p \in Common(x, y) PROVE p \in Common(y, r)
      <4>1. PICK s \in Int, t \in Int : x = p * s /\ y = p * t /\ p \in 1 .. y
        BY DEF Divides
      <4>2. r = p * (s - t * q)
        BY <4>1, <2>1
      <4>3. s - t * q > 0
        BY <4>1, <4>2, <2>4, <2>1
      <4>4. p <= r
        BY <4>1, <4>2, <4>3
      <4> QED BY <4>1, <4>2, <4>4 DEF Divides
    <3>2. ASSUME NEW p \in Common(y, r) PROVE p \in Common(x, y)
      <4>1. PICK s \in Int, t \in Int : y = p * s /\ r = p * t /\ p \in 1 .. r
        BY DEF Divides
      <4>2. x = p * (s * q + t) /\ s * q + t \in Int
        <5>0. x = y * q + r
          BY <2>1
        <5>1. p \in Int /\ s \in Int /\ t \in Int /\ q \in Int
          BY <4>1, <2>1
        <5>2. y * q = p * (s * q) /\ p * (s * q) + p * t = p * (s * q + t) /\ s * q + t \in Int
          BY <4>1, <5>1
        <5> QED BY <4>1, <5>0, <5>1, <5>2
      <4>3. p \in 1 .. y
        BY <4>1, <2>1
      <4> QED BY <4>1, <4>2, <4>3 DEF Divides
    <3>3. Common(x, y) = Common(y, r)
      BY <3>1, <3>2
    <3> HIDE DEF Common, h
    <3> QED BY <2>1, <2>2, <2>4, <3>3
  <2> HIDE DEF h
  <2> QED BY <2>1, <2>3, <2>4
<1>3. h = [z \in Nat \X Nat |-> IF z[2] = 0 THEN z[1] ELSE h[<<z[2], z[1] % z[2]>>]]
  <2>1. \A x \in Nat, y \in Nat : h[<<x, y>>] = IF y = 0 THEN x ELSE h[<<y, x % y>>]
    <3>1. \A x \in Nat : h[<<x, 0>>] = x
      OBVIOUS
    <3> HIDE DEF h
    <3> QED BY <3>1, <1>2
  <2>2. \A x \in Nat, y \in Nat : (IF y = 0 THEN x ELSE Max(Common(x, y))) = IF y = 0 THEN x ELSE h[<<y, x % y>>]
    <3>1. \A x \in Nat, y \in Nat : h[<<x, y>>] = IF y = 0 THEN x ELSE Max(Common(x, y))
      OBVIOUS
    <3> HIDE DEF h
    <3> QED BY <2>1, <3>1
  <2> QED BY <2>2, Zenon
<1>4. Recursion(h)
  BY <1>3
<1>5. GCD = CHOOSE f : Recursion(f)
  BY DEF GCD
<1>6. Recursion(GCD)
  <2> HIDE DEF h, Recursion
  <2> QED BY <1>4, <1>5
<1>7. GCD = [z \in Nat \X Nat |-> IF z[2] = 0 THEN z[1] ELSE GCD[<<z[2], z[1] % z[2]>>]]
  BY <1>6
<1> QED BY <1>7

LEMMA GCDDivides ==
  ASSUME NEW a \in Nat, NEW b \in Nat, a # 0 \/ b # 0
  PROVE  GCD[<<a, b>>] \in Nat \ {0} /\ Divides(GCD[<<a, b>>], a) /\ Divides(GCD[<<a, b>>], b)
<1> DEFINE Fine(x, y) == /\ GCD[<<x, y>>] \in Nat \ {0}
                         /\ Divides(GCD[<<x, y>>], x) /\ Divides(GCD[<<x, y>>], y)
           Bad == {y \in Nat : \E x \in Nat : (x # 0 \/ y # 0) /\ ~Fine(x, y)}
<1>1. SUFFICES ASSUME Bad # {} PROVE FALSE
  OBVIOUS
<1>2. PICK y \in Bad : \A z \in Bad : y <= z
  <2>1. Bad \subseteq Nat
    OBVIOUS
  <2> HIDE DEF Bad
  <2> QED BY <1>1, <2>1, LeastOf
<1>3. PICK x \in Nat : y \in Nat /\ (x # 0 \/ y # 0) /\ ~Fine(x, y)
  OBVIOUS
<1>4. CASE y = 0
  <2>1. GCD[<<x, y>>] = x
    BY <1>3, <1>4, GCDSteps
  <2>2. x = x * 1 /\ y = x * 0 /\ 1 \in Int /\ 0 \in Int
    BY <1>3, <1>4
  <2>3. Divides(x, x) /\ Divides(x, y)
    BY <2>2 DEF Divides
  <2> QED BY <1>3, <1>4, <2>1, <2>3
<1>5. CASE y # 0
  <2>1. PICK r, q : r = x % y /\ q = x \div y
    OBVIOUS
  <2>2. r \in Nat /\ r < y /\ q \in Int /\ x = y * q + r
    <3>1. x \div y \in Int /\ x % y \in 0 .. y - 1 /\ x = y * (x \div y) + (x % y)
      BY <1>3, <1>5, Division
    <3> QED BY <1>3, <1>5, <2>1, <3>1
  <2>3. r \notin Bad
    <3>1. ~(y <= r)
      BY <1>3, <2>2
    <3> HIDE DEF Bad
    <3> QED BY <1>2, <3>1
  <2>4. Fine(y, r)
    BY <1>3, <1>5, <2>2, <2>3
  <2>5. GCD[<<x, y>>] = GCD[<<y, r>>]
    BY <1>3, <1>5, <2>1, GCDSteps
  <2>6. PICK g : g = GCD[<<y, r>>]
    OBVIOUS
  <2>7. g \in Nat \ {0} /\ Divides(g, y) /\ Divides(g, r)
    BY <2>4, <2>6
  <2>8. PICK s \in Int, t \in Int : y = g * s /\ r = g * t
    BY <2>7 DEF Divides
  <2>9. x = g * (s * q + t) /\ s * q + t \in Int
    <3>1. y * q = g * (s * q) /\ g * (s * q) + g * t = g * (s * q + t) /\ s * q + t \in Int
      BY <2>2, <2>7, <2>8
    <3> QED BY <2>2, <2>8, <3>1
  <2>10. Divides(g, x)
    BY <2>9 DEF Divides
  <2> QED BY <1>3, <2>5, <2>6, <2>7, <2>10
<1> QED BY <1>3, <1>4, <1>5

LEMMA WholeQuotient ==
  ASSUME NEW g \in Nat \ {0}, NEW s \in Int
  PROVE  (g * s) \div g = s
<1>1. PICK q, r : q = (g * s) \div g /\ r = (g * s) % g
  OBVIOUS
<1>2. q \in Int /\ r \in 0 .. g - 1 /\ g * s = g * q + r
  <2>1. g * s \in Int
    OBVIOUS
  <2> QED BY <1>1, <2>1, Division
<1>3. r = g * (s - q)
  BY <1>2
<1>4. s - q <= 0 \/ g * (s - q) >= g
  BY <1>2
<1>5. s - q >= 0 \/ g * (s - q) < 0
  BY <1>2
<1>6. s - q = 0
  BY <1>2, <1>3, <1>4, <1>5
<1> QED BY <1>1, <1>2, <1>6

\* What Frac gives, for any numbers.
LEMMA FracIs ==
  ASSUME NEW c \in Int, NEW d \in Int
  PROVE  \E x \in Int, y \in Nat :
           /\ Frac(c, d) = <<x, y>>
           /\ d # 0 => y # 0 /\ x * d = c * y
           /\ d = 0 => y = 0 /\ x = IF c > 0 THEN 1 ELSE IF c < 0 THEN -1 ELSE 0
<1>1. CASE c = 0 /\ d = 0
  BY <1>1 DEF Frac
<1>2. CASE ~(c = 0 /\ d = 0)
  <2>1. Abs(c) \in Nat /\ Abs(d) \in Nat /\ (Abs(c) # 0 \/ Abs(d) # 0)
    BY <1>2 DEF Abs
  <2>2. PICK g \in Nat \ {0} : g = GCD[<<Abs(c), Abs(d)>>] /\ Divides(g, Abs(c)) /\ Divides(g, Abs(d))
    BY <2>1, GCDDivides
  <2>3. PICK s \in Int, t \in Int : Abs(c) = g * s /\ Abs(d) = g * t
    BY <2>2 DEF Divides
  <2>4. PICK u \in Int : c = g * u
    <3>1. c = Abs(c) \/ c = -Abs(c)
      BY DEF Abs
    <3>2. g * (-s) = -(g * s) /\ -s \in Int
      BY <2>2, <2>3
    <3> QED BY <2>3, <3>1, <3>2
  <2>5. -c = g * (-u) /\ -u \in Int
    BY <2>4
  <2>6. CASE d > 0
    <3>1. d = g * t
      BY <2>3, <2>6 DEF Abs
    <3>2. c \div g = u /\ d \div g = t
      BY <2>4, <3>1, WholeQuotient
    <3>3. Frac(c, d) = <<u, t>>
      BY <1>2, <2>2, <2>6, <3>2 DEF Frac
    <3>4. t > 0 /\ u * d = c * t
      BY <2>4, <2>6, <3>1
    <3> QED BY <2>6, <3>3, <3>4
  <2>7. CASE d < 0
    <3>1. -d = g * t
      BY <2>3, <2>7 DEF Abs
    <3>2. (0 - c) \div g = -u /\ (0 - d) \div g = t
      <4>1. 0 - c = g * (-u) /\ 0 - d = g * t
        BY <2>5, <3>1
      <4> QED BY <2>5, <4>1, WholeQuotient
    <3>3. Frac(c, d) = <<-u, t>>
      BY <1>2, <2>2, <2>7, <3>2 DEF Frac
    <3>4. t > 0
      BY <2>7, <3>1
    <3>5. (-u) * d = c * t
      <4>1. d = g * (-t) /\ c = g * u
        BY <2>4, <3>1
      <4> QED BY <4>1
    <3> QED BY <2>5, <2>7, <3>3, <3>4, <3>5
  <2>8. CASE d = 0
    <3>1. g = Abs(c)
      <4>1. Abs(d) = 0
        BY <2>8 DEF Abs
      <4>2. GCD[<<Abs(c), 0>>] = Abs(c)
        BY <2>1, GCDSteps
      <4> QED BY <2>2, <4>1, <4>2
    <3>2. u = IF c > 0 THEN 1 ELSE -1
      <4>1. c = g \/ c = -g
        BY <3>1 DEF Abs
      <4>2. g * u = g => u = 1
        OBVIOUS
      <4>3. g * u = -g => u = -1
        OBVIOUS
      <4> QED BY <2>4, <4>1, <4>2, <4>3
    <3>3. c \div g = u
      BY <2>4, WholeQuotient
    <3>4. d \div g = 0
      <4>1. d = g * 0
        BY <2>8
      <4> QED BY <4>1, WholeQuotient
    <3>5. Frac(c, d) = <<u, 0>>
      BY <1>2, <2>2, <2>8, <3>3, <3>4 DEF Frac
    <3>6. c # 0
      BY <1>2, <2>8
    <3> QED BY <2>8, <3>2, <3>5, <3>6
  <2> QED BY <2>6, <2>7, <2>8
<1> QED BY <1>1, <1>2

-----------------------------------------------------------------------------
\* Comparison

\* Whole parts first, then what is left.
LEMMA CrossStep ==
  ASSUME NEW p \in Int, NEW q \in Nat \ {0}, NEW r \in Int, NEW s \in Nat \ {0},
         NEW A \in Int, NEW B \in Int, NEW e \in 0 .. q - 1, NEW f \in 0 .. s - 1,
         p = q * A + e, r = s * B + f
  PROVE  p * s < r * q <=> A < B \/ (A = B /\ f # 0 /\ (e = 0 \/ s * e < q * f))
<1>1. p * s = (q * s) * A + e * s /\ r * q = (q * s) * B + f * q
  <2>1. (q * A + e) * s = (q * s) * A + e * s
    OBVIOUS
  <2>2. (s * B + f) * q = (q * s) * B + f * q
    OBVIOUS
  <2> QED BY <2>1, <2>2
<1>2. e * s >= 0 /\ e * s < q * s /\ f * q >= 0 /\ f * q < q * s
  <2>1. e * s >= 0 /\ f * q >= 0
    OBVIOUS
  <2>2. q * s - e * s = (q - e) * s /\ (q - e) * s > 0
    OBVIOUS
  <2>3. q * s - f * q = q * (s - f) /\ q * (s - f) > 0
    OBVIOUS
  <2> QED BY <2>1, <2>2, <2>3
<1>3. q * s \in Nat \ {0}
  OBVIOUS
<1>4. PICK m, x, y : m = q * s /\ x = e * s /\ y = f * q
  OBVIOUS
<1>5. m \in Nat \ {0} /\ x \in Int /\ y \in Int
  BY <1>3, <1>4
<1>6. p * s = m * A + x /\ r * q = m * B + y /\ x >= 0 /\ x < m /\ y >= 0 /\ y < m
  BY <1>1, <1>2, <1>4
<1>7. CASE A < B
  <2>1. m * A + m <= m * B
    <3>1. m * B - (m * A + m) = m * (B - A - 1) /\ m * (B - A - 1) >= 0
      BY <1>5, <1>7
    <3> QED BY <1>5, <3>1
  <2> QED BY <1>5, <1>6, <1>7, <2>1
<1>8. CASE B < A
  <2>1. m * B + m <= m * A
    <3>1. m * A - (m * B + m) = m * (A - B - 1) /\ m * (A - B - 1) >= 0
      BY <1>5, <1>8
    <3> QED BY <1>5, <3>1
  <2> QED BY <1>5, <1>6, <1>8, <2>1
<1>9. CASE A = B
  <2>1. p * s < r * q <=> x < y
    BY <1>5, <1>6, <1>9
  <2>2. f = 0 => y = 0
    BY <1>4
  <2>3. f # 0 => y > 0
    BY <1>4
  <2>4. e = 0 => x = 0
    BY <1>4
  <2>5. x = s * e /\ y = q * f
    BY <1>4
  <2> QED BY <1>5, <1>6, <1>9, <2>1, <2>2, <2>3, <2>4, <2>5
<1> QED BY <1>7, <1>8, <1>9

\* a < b, by cross-multiplication
Cross(a, b) == a[1] * b[2] < b[1] * a[2]

Rest(f) == f[1] % f[2]

WholeBelow(a, b) == a[1] \div a[2] < b[1] \div b[2]
WholeSame(a, b) == a[1] \div a[2] = b[1] \div b[2]

\* what is left of b and of a
Rests(a, b) == << <<b[2], Rest(b)>>, <<a[2], Rest(a)>> >>

LEMMA CrossRecursion ==
  ASSUME NEW a \in Finite, NEW b \in Finite
  PROVE  /\ Rest(a) \in 0 .. a[2] - 1 /\ Rest(b) \in 0 .. b[2] - 1
         /\ Rest(a) # 0 /\ Rest(b) # 0 => Rests(a, b) \in Finite \X Finite
         /\ Cross(a, b) <=>
              \/ WholeBelow(a, b)
              \/ /\ WholeSame(a, b) /\ Rest(b) # 0
                 /\ Rest(a) = 0 \/ Cross(Rests(a, b)[1], Rests(a, b)[2])
<1>1. PICK p \in Int, q \in Nat \ {0}, r \in Int, s \in Nat \ {0} : a = <<p, q>> /\ b = <<r, s>>
  BY DEF Finite
<1>2. PICK A, e, B, f : A = p \div q /\ e = p % q /\ B = r \div s /\ f = r % s
  OBVIOUS
<1>3. /\ A \in Int /\ e \in 0 .. q - 1 /\ p = q * A + e
      /\ B \in Int /\ f \in 0 .. s - 1 /\ r = s * B + f
  BY <1>2, Division
<1>4. p * s < r * q <=> A < B \/ (A = B /\ f # 0 /\ (e = 0 \/ s * e < q * f))
  BY <1>3, CrossStep
<1>5. a[1] = p /\ a[2] = q /\ b[1] = r /\ b[2] = s /\ Rest(a) = e /\ Rest(b) = f
  BY <1>1, <1>2 DEF Rest
<1>6. Rests(a, b) = << <<s, f>>, <<q, e>> >>
  BY <1>5 DEF Rests
<1>7. Cross(a, b) <=> p * s < r * q
  BY <1>5 DEF Cross
<1>8. Cross(Rests(a, b)[1], Rests(a, b)[2]) <=> s * e < q * f
  BY <1>6 DEF Cross
<1>9. e # 0 /\ f # 0 => Rests(a, b) \in Finite \X Finite
  BY <1>3, <1>6 DEF Finite
<1>10. WholeBelow(a, b) = (A < B) /\ WholeSame(a, b) = (A = B)
  BY <1>2, <1>5 DEF WholeBelow, WholeSame
<1> QED BY <1>3, <1>4, <1>5, <1>7, <1>8, <1>9, <1>10

LEMMA PrecedesSteps ==
  ASSUME NEW a \in Finite, NEW b \in Finite
  PROVE  Precedes[<<a, b>>] =
              (\/ WholeBelow(a, b)
               \/ /\ WholeSame(a, b) /\ Rest(b) # 0
                  /\ Rest(a) = 0 \/ Precedes[Rests(a, b)])
<1> DEFINE D == Finite \X Finite
           Step(f, ab) == \/ WholeBelow(ab[1], ab[2])
                          \/ /\ WholeSame(ab[1], ab[2]) /\ Rest(ab[2]) # 0
                             /\ Rest(ab[1]) = 0 \/ f[Rests(ab[1], ab[2])]
           Recursion(f) == f = [ab \in D |-> Step(f, ab)]
           h == [ab \in D |-> Cross(ab[1], ab[2])]
<1>1. Precedes = CHOOSE f : Recursion(f)
  BY DEF Precedes, Rest, Rests, WholeBelow, WholeSame
<1>2. ASSUME NEW ab \in D PROVE Cross(ab[1], ab[2]) = Step(h, ab)
  <2>1. PICK x \in Finite, y \in Finite : ab = <<x, y>> /\ ab[1] = x /\ ab[2] = y
    OBVIOUS
  <2>2. ASSUME Rest(x) # 0, Rest(y) # 0
        PROVE  h[Rests(x, y)] <=> Cross(Rests(x, y)[1], Rests(x, y)[2])
    BY <2>2, CrossRecursion
  <2>3. Cross(x, y) <=> \/ WholeBelow(x, y)
                        \/ /\ WholeSame(x, y) /\ Rest(y) # 0
                           /\ Rest(x) = 0 \/ Cross(Rests(x, y)[1], Rests(x, y)[2])
    BY CrossRecursion
  <2>4. Step(h, ab) = (\/ WholeBelow(x, y)
                      \/ /\ WholeSame(x, y) /\ Rest(y) # 0
                         /\ Rest(x) = 0 \/ h[Rests(x, y)])
    BY <2>1, Zenon
  <2> HIDE DEF h
  <2>5. Cross(x, y) <=> \/ WholeBelow(x, y)
                        \/ /\ WholeSame(x, y) /\ Rest(y) # 0
                           /\ Rest(x) = 0 \/ h[Rests(x, y)]
    BY <2>2, <2>3, Zenon
  <2>6. Cross(x, y) = (\/ WholeBelow(x, y)
                      \/ /\ WholeSame(x, y) /\ Rest(y) # 0
                         /\ Rest(x) = 0 \/ h[Rests(x, y)])
    <3>1. Cross(x, y) \in BOOLEAN
      BY DEF Cross
    <3> QED BY <2>5, <3>1, Zenon
  <2> HIDE DEF Step
  <2> QED BY <2>1, <2>4, <2>6
<1>3. Recursion(h)
  <2>1. h = [ab \in D |-> Step(h, ab)]
    <3> HIDE DEF Step
    <3> QED BY <1>2, Zenon
  <2> QED BY <2>1
<1>4. Recursion(Precedes)
  <2> HIDE DEF h, Recursion
  <2> QED BY <1>1, <1>3
<1>5. Precedes = [ab \in D |-> Step(Precedes, ab)]
  BY <1>4
<1>6. Precedes[<<a, b>>] = Step(Precedes, <<a, b>>)
  <2> HIDE DEF Step
  <2> QED BY <1>5
<1> QED BY <1>6

\* Finite fractions are compared as they should be.
LEMMA PrecedesIs ==
  ASSUME NEW a \in Finite, NEW b \in Finite
  PROVE  Precedes[<<a, b>>] <=> Cross(a, b)
<1> DEFINE Same(x, y) == Precedes[<<x, y>>] <=> Cross(x, y)
           Bad == {m \in Nat : \E x \in Finite, y \in Finite : m = x[2] + y[2] /\ ~Same(x, y)}
<1>1. SUFFICES ASSUME Bad # {} PROVE FALSE
  <2>1. PICK c \in Nat, d \in Nat : a[2] = c /\ b[2] = d
    BY DEF Finite
  <2> HIDE DEF Same
  <2>2. Same(a, b)
    BY <2>1
  <2> QED BY <2>2 DEF Same
<1>2. PICK m \in Bad : \A l \in Bad : m <= l
  <2>1. Bad \subseteq Nat
    OBVIOUS
  <2> HIDE DEF Bad
  <2> QED BY <1>1, <2>1, LeastOf
<1>3. PICK x \in Finite, y \in Finite : m = x[2] + y[2] /\ ~Same(x, y)
  <2> HIDE DEF Same
  <2> QED OBVIOUS
<1>4. PICK u, v : u = <<y[2], Rest(y)>> /\ v = <<x[2], Rest(x)>>
  OBVIOUS
<1>5. Rests(x, y) = <<u, v>> /\ Rests(x, y)[1] = u /\ Rests(x, y)[2] = v
  BY <1>4 DEF Rests
<1>6. ASSUME Rest(x) # 0, Rest(y) # 0
      PROVE  Precedes[Rests(x, y)] <=> Cross(Rests(x, y)[1], Rests(x, y)[2])
  <2>1. /\ Rest(x) \in 0 .. x[2] - 1 /\ Rest(y) \in 0 .. y[2] - 1
        /\ x[2] \in Nat /\ y[2] \in Nat
    BY CrossRecursion DEF Finite
  <2>2. u \in Finite /\ v \in Finite /\ u[2] = Rest(y) /\ v[2] = Rest(x)
    BY <1>4, <1>6, <2>1 DEF Finite
  <2>3. u[2] + v[2] \in Nat /\ ~(m <= u[2] + v[2])
    BY <1>3, <2>1, <2>2
  <2>4. u[2] + v[2] \notin Bad
    BY <1>2, <2>3
  <2> HIDE DEF Same
  <2>5. Same(u, v)
    BY <2>2, <2>3, <2>4
  <2> QED BY <1>5, <2>5 DEF Same
<1>7. Same(x, y)
  <2>1. Cross(x, y) <=> \/ WholeBelow(x, y)
                        \/ /\ WholeSame(x, y) /\ Rest(y) # 0
                           /\ Rest(x) = 0 \/ Cross(Rests(x, y)[1], Rests(x, y)[2])
    BY CrossRecursion
  <2>2. Precedes[<<x, y>>] = (\/ WholeBelow(x, y)
                             \/ /\ WholeSame(x, y) /\ Rest(y) # 0
                                /\ Rest(x) = 0 \/ Precedes[Rests(x, y)])
    BY PrecedesSteps
  <2> QED BY <1>6, <2>1, <2>2, Zenon
<1> QED BY <1>3, <1>7

\* f is c / d
IsRatio(f, c, d) == f \in Finite /\ c \in Int /\ d \in Nat \ {0} /\ f[1] * d = c * f[2]

LEMMA FracRatio ==
  ASSUME NEW c \in Int, NEW d \in Nat \ {0}
  PROVE  IsRatio(Frac(c, d), c, d)
<1>0. d \in Int
  OBVIOUS
<1>1. PICK x \in Int, y \in Nat :
        /\ Frac(c, d) = <<x, y>>
        /\ d # 0 => y # 0 /\ x * d = c * y
        /\ d = 0 => y = 0 /\ x = IF c > 0 THEN 1 ELSE IF c < 0 THEN -1 ELSE 0
  BY <1>0, FracIs, Zenon
<1> QED BY <1>1 DEF IsRatio, Finite

LEMMA Positive ==
  ASSUME NEW x \in Int, NEW y \in Int, NEW p \in Nat \ {0}
  PROVE  x < y <=> x * p < y * p
<1>1. y * p - x * p = (y - x) * p
  OBVIOUS
<1>2. y - x > 0 => (y - x) * p > 0
  OBVIOUS
<1>3. y - x <= 0 => (y - x) * p <= 0
  OBVIOUS
<1> QED BY <1>1, <1>2, <1>3

LEMMA CrossRatios ==
  ASSUME NEW a, NEW b, NEW c, NEW d, NEW m, NEW e, IsRatio(a, c, d), IsRatio(b, m, e)
  PROVE  Cross(a, b) <=> c * e < m * d
<1>1. PICK p \in Int, q \in Nat \ {0}, r \in Int, s \in Nat \ {0} :
        a[1] = p /\ a[2] = q /\ b[1] = r /\ b[2] = s
  BY DEF IsRatio, Finite
<1>2. /\ c \in Int /\ d \in Nat \ {0} /\ m \in Int /\ e \in Nat \ {0}
      /\ p * d = c * q /\ r * e = m * s
  BY <1>1 DEF IsRatio
<1>3. p * s < r * q <=> (p * s) * (d * e) < (r * q) * (d * e)
  BY <1>1, <1>2, Positive
<1>4. (p * s) * (d * e) = (p * d) * (s * e) /\ (r * q) * (d * e) = (r * e) * (q * d)
  BY <1>1, <1>2
<1>5. (p * d) * (s * e) = (c * e) * (q * s) /\ (r * e) * (q * d) = (m * d) * (q * s)
  <2>1. (c * q) * (s * e) = (c * e) * (q * s) /\ (m * s) * (q * d) = (m * d) * (q * s)
    BY <1>1, <1>2
  <2> QED BY <1>2, <2>1
<1>6. c * e < m * d <=> (c * e) * (q * s) < (m * d) * (q * s)
  <2>1. q * s \in Nat \ {0} /\ c * e \in Int /\ m * d \in Int
    BY <1>1, <1>2
  <2> QED BY <2>1, Positive
<1> QED BY <1>1, <1>3, <1>4, <1>5, <1>6 DEF Cross

LEMMA LessRatios ==
  ASSUME NEW a, NEW b, NEW c, NEW d, NEW m, NEW e, IsRatio(a, c, d), IsRatio(b, m, e)
  PROVE  (Less(a, b) <=> c * e < m * d) /\ (AtLeast(a, b) <=> ~(c * e < m * d))
<1>1. a \in Finite /\ b \in Finite
  BY DEF IsRatio
<1>2. a # NaN /\ b # NaN /\ IsFinite(a) /\ IsFinite(b)
  BY <1>1 DEF Finite, NaN, IsFinite
<1>3. Precedes[<<a, b>>] <=> Cross(a, b)
  BY <1>1, PrecedesIs
<1>4. Less(a, b) <=> Precedes[<<a, b>>]
  BY <1>2 DEF Less
<1>5. Cross(a, b) <=> c * e < m * d
  BY CrossRatios
<1> QED BY <1>2, <1>3, <1>4, <1>5 DEF AtLeast

-----------------------------------------------------------------------------
\* Sets built up element by element

\* If it is so without the next element of a set, then with it as well.
Grows(S, D, next) ==
  \A s \in (SUBSET D) \ {{}} : next[s] \in s /\ (s \ {next[s]} \in S => s \in S)

\* What holds for no elements, and for more elements by one at a time.
LEMMA SubsetSteps ==
  ASSUME NEW D, IsFiniteSet(D), NEW S, {} \in S, NEW next, Grows(S, D, next)
  PROVE  \A s \in SUBSET D : s \in S
<1> DEFINE Bad == {m \in Nat : \E s \in SUBSET D : Cardinality(s) = m /\ s \notin S}
<1>1. \A s \in SUBSET D : IsFiniteSet(s) /\ Cardinality(s) \in Nat
  BY FS_Subset, FS_CardinalityType
<1>2. SUFFICES ASSUME Bad # {} PROVE FALSE
  BY <1>1
<1>3. PICK m \in Bad : \A l \in Bad : m <= l
  <2>1. Bad \subseteq Nat
    OBVIOUS
  <2> HIDE DEF Bad
  <2> QED BY <1>2, <2>1, LeastOf
<1>4. PICK s \in SUBSET D : Cardinality(s) = m /\ s \notin S /\ m \in Nat
  OBVIOUS
<1>5. s # {}
  BY <1>4, Zenon
<1>6. PICK x \in s : x = next[s] /\ (s \ {x} \in S => s \in S)
  BY <1>5 DEF Grows
<1>7. Cardinality(s \ {x}) = m - 1
  BY <1>1, <1>4, <1>6, FS_RemoveElement
<1>8. Cardinality(s \ {x}) \in Nat /\ s \ {x} \in SUBSET D
  BY <1>1
<1>9. m - 1 \in Nat /\ ~(m <= m - 1)
  BY <1>4, <1>7, <1>8
<1>10. m - 1 \notin Bad
  BY <1>3, <1>9
<1>11. s \ {x} \in S
  BY <1>7, <1>8, <1>9, <1>10
<1> QED BY <1>4, <1>6, <1>11

-----------------------------------------------------------------------------
\* Sums of the values of a function

\* sums[s] is the sum over s
Sums(sums, D, f) ==
  /\ sums \in [SUBSET D -> Int] /\ sums[{}] = 0
  /\ \A s \in (SUBSET D) \ {{}} :
       sums[s] = f[CHOOSE x \in s : TRUE] + sums[s \ {CHOOSE x \in s : TRUE}]

LEMMA SumUnfolds ==
  ASSUME NEW D, IsFiniteSet(D), NEW f \in [D -> Int]
  PROVE  \E sums : Sums(sums, D, f) /\ SumFunction(f) = sums[D]
<1> DEFINE next == [s \in SUBSET D |-> IF s = {} THEN D ELSE CHOOSE x \in s : TRUE]
           g == [jy \in D \X Int |-> f[jy[1]] + jy[2]]
           Adds(iter) == iter = [s \in SUBSET DOMAIN f |->
             IF s = {} THEN 0 ELSE f[CHOOSE x \in s : TRUE] + iter[s \ {CHOOSE x \in s : TRUE}]]
<1>0. DOMAIN f = D
  OBVIOUS
<1>1. /\ next \in [SUBSET D -> D \cup {D}]
      /\ \A s \in (SUBSET D) \ {{}} : next[s] = (CHOOSE x \in s : TRUE) /\ next[s] \in s
  OBVIOUS
<1>2. \E iter : Adds(iter)
  <2>1. g \in [D \X Int -> Int]
    OBVIOUS
  <2>2. \A j \in D, y \in Int : g[<<j, y>>] = f[j] + y
    OBVIOUS
  <2> HIDE DEF g, next
  <2>3. PICK iter \in [SUBSET D -> Int] : FoldsBy(iter, D, next, 0, g)
    <3>1. PICK zero \in Int : zero = 0
      OBVIOUS
    <3>2. \E iter \in [SUBSET D -> Int] : FoldsBy(iter, D, next, zero, g)
      BY <1>1, <2>1, FoldExists
    <3> QED BY <3>1, <3>2
  <2>4. ASSUME NEW s \in SUBSET D
        PROVE  iter[s] = IF s = {} THEN 0
                         ELSE f[CHOOSE x \in s : TRUE] + iter[s \ {CHOOSE x \in s : TRUE}]
    <3>1. CASE s = {}
      BY <2>3, <3>1 DEF FoldsBy
    <3>2. CASE s # {}
      <4>1. PICK x \in s : x = next[s] /\ x = CHOOSE y \in s : TRUE
        BY <1>1, <3>2
      <4>2. iter[s] = g[<<x, iter[s \ {x}]>>] /\ iter[s \ {x}] \in Int
        BY <2>3, <3>2, <4>1 DEF FoldsBy
      <4>3. iter[s] = f[x] + iter[s \ {x}]
        BY <2>2, <4>1, <4>2
      <4> QED BY <3>2, <4>1, <4>3
    <3> QED BY <3>1, <3>2
  <2>5. Adds(iter)
    BY <1>0, <2>3, <2>4
  <2> QED BY <2>5
<1>3. PICK iter : Adds(iter) /\ SumFunction(f) = iter[DOMAIN f]
  BY <1>2 DEF SumFunction, SumFunctionOnSet, FoldFunctionOnSet, MapThenFoldSet
<1>4. /\ iter[{}] = 0 /\ SumFunction(f) = iter[D]
      /\ \A s \in (SUBSET D) \ {{}} :
           iter[s] = f[CHOOSE x \in s : TRUE] + iter[s \ {CHOOSE x \in s : TRUE}]
  BY <1>0, <1>3
<1> DEFINE S == {s \in SUBSET D : iter[s] \in Int}
<1>5. {} \in S
  BY <1>4
<1>6. Grows(S, D, next)
  <2> SUFFICES ASSUME NEW s \in (SUBSET D) \ {{}}
               PROVE  next[s] \in s /\ (s \ {next[s]} \in S => s \in S)
    BY DEF Grows
  <2>1. PICK x \in s : x = next[s] /\ x = CHOOSE y \in s : TRUE
    BY <1>1
  <2>2. iter[s] = f[x] + iter[s \ {x}] /\ f[x] \in Int
    BY <1>4, <2>1
  <2> QED BY <2>1, <2>2
<1>7. \A s \in SUBSET D : s \in S
  <2> HIDE DEF S, next
  <2> QED BY <1>5, <1>6, SubsetSteps
<1>8. iter \in [SUBSET D -> Int]
  BY <1>0, <1>3, <1>7
<1> QED BY <1>4, <1>8 DEF Sums

\* h is f with by added to one value
Raised(h, f, D, i, by) ==
  h \in [D -> Int] /\ \A x \in D : h[x] = f[x] + IF x = i THEN by ELSE 0

\* A sum changes with the one value that changes.
LEMMA SumChanges ==
  ASSUME NEW D, IsFiniteSet(D), NEW f \in [D -> Int], NEW i \in D, NEW by \in Int,
         NEW h, Raised(h, f, D, i, by)
  PROVE  SumFunction(f) \in Int /\ SumFunction(h) = SumFunction(f) + by
<1>1. h \in [D -> Int] /\ \A x \in D : h[x] = f[x] + IF x = i THEN by ELSE 0
  BY DEF Raised
<1>2. PICK p : Sums(p, D, f) /\ SumFunction(f) = p[D]
  BY SumUnfolds
<1>3. PICK q : Sums(q, D, h) /\ SumFunction(h) = q[D]
  BY <1>1, SumUnfolds
<1> DEFINE Moved(s) == q[s] = p[s] + IF i \in s THEN by ELSE 0
           S == {s \in SUBSET D : Moved(s)}
           next == [s \in SUBSET D |-> CHOOSE x \in s : TRUE]
<1>4. {} \in S
  BY <1>2, <1>3 DEF Sums
<1>5. Grows(S, D, next)
  <2> SUFFICES ASSUME NEW s \in (SUBSET D) \ {{}}
               PROVE  next[s] \in s /\ (s \ {next[s]} \in S => s \in S)
    BY DEF Grows
  <2>1. PICK x \in s : x = next[s] /\ x = CHOOSE y \in s : TRUE
    OBVIOUS
  <2>2. /\ p[s] = f[x] + p[s \ {x}] /\ q[s] = h[x] + q[s \ {x}]
        /\ p[s \ {x}] \in Int /\ q[s \ {x}] \in Int /\ f[x] \in Int
    BY <1>2, <1>3, <2>1 DEF Sums
  <2>3. h[x] = f[x] + IF x = i THEN by ELSE 0
    BY <1>1
  <2>4. s \ {x} \in S => q[s \ {x}] = p[s \ {x}] + IF i \in s \ {x} THEN by ELSE 0
    OBVIOUS
  <2>5. s \ {x} \in S => Moved(s)
    BY <2>2, <2>3, <2>4
  <2> QED BY <2>1, <2>5
<1>6. D \in S
  <2> HIDE DEF S, next
  <2> QED BY <1>4, <1>5, SubsetSteps
<1> QED BY <1>2, <1>3, <1>6 DEF Sums

LEMMA SumOfZeros ==
  ASSUME NEW D, IsFiniteSet(D)
  PROVE  SumFunction([i \in D |-> 0]) = 0
<1> DEFINE f == [i \in D |-> 0]
<1>1. f \in [D -> Int] /\ \A i \in D : f[i] = 0
  OBVIOUS
<1> HIDE DEF f
<1>2. PICK p : Sums(p, D, f) /\ SumFunction(f) = p[D]
  BY <1>1, SumUnfolds
<1> DEFINE S == {s \in SUBSET D : p[s] = 0}
           next == [s \in SUBSET D |-> CHOOSE x \in s : TRUE]
<1>4. {} \in S
  BY <1>2 DEF Sums
<1>5. Grows(S, D, next)
  <2> SUFFICES ASSUME NEW s \in (SUBSET D) \ {{}}
               PROVE  next[s] \in s /\ (s \ {next[s]} \in S => s \in S)
    BY DEF Grows
  <2>1. PICK x \in s : x = next[s] /\ x = CHOOSE y \in s : TRUE
    OBVIOUS
  <2>2. p[s] = f[x] + p[s \ {x}] /\ f[x] = 0
    BY <1>1, <1>2, <2>1 DEF Sums
  <2> QED BY <2>1, <2>2
<1>6. D \in S
  <2> HIDE DEF S, next
  <2> QED BY <1>4, <1>5, SubsetSteps
<1> QED BY <1>2, <1>6 DEF f

-----------------------------------------------------------------------------
\* Bins

IsParams(p) ==
  /\ p.num_bins \in Nat \ {0} /\ p.min \in Int /\ p.max \in Int /\ p.min < p.max

\* x is in the i-th part of width w
LEMMA PartOf ==
  ASSUME NEW w \in Nat \ {0}, NEW x \in Int, NEW i \in Int
  PROVE  x \div w = i <=> w * i <= x /\ x < w * (i + 1)
<1>1. PICK q, r : q = x \div w /\ r = x % w
  OBVIOUS
<1>2. q \in Int /\ r \in 0 .. w - 1 /\ x = w * q + r
  BY <1>1, Division
<1>3. w * (i + 1) = w * i + w
  OBVIOUS
<1>4. CASE q = i
  BY <1>1, <1>2, <1>3, <1>4
<1>5. CASE q < i
  <2>1. w * i - (w * q + w) = w * (i - q - 1) /\ w * (i - q - 1) >= 0
    BY <1>2, <1>5
  <2>2. w * q \in Int /\ w * i \in Int
    BY <1>2
  <2> QED BY <1>1, <1>2, <1>5, <2>1, <2>2
<1>6. CASE i < q
  <2>1. w * q - (w * i + w) = w * (q - i - 1) /\ w * (q - i - 1) >= 0
    BY <1>2, <1>6
  <2>2. w * q \in Int /\ w * i \in Int
    BY <1>2
  <2> QED BY <1>1, <1>2, <1>3, <1>6, <2>1, <2>2
<1> QED BY <1>2, <1>4, <1>5, <1>6

\* Values off the chart are beyond its ends.
LEMMA OnChart ==
  ASSUME NEW w \in Nat \ {0}, NEW nb \in Nat \ {0}, NEW x \in Int, NEW i \in 0 .. nb - 1
  PROVE  w * i <= x * nb /\ x * nb < w * (i + 1) => 0 <= x /\ x < w
<1>1. x < 0 => x * nb < 0
  OBVIOUS
<1>2. w * i >= 0
  OBVIOUS
<1>3. x >= w => x * nb >= w * nb
  <2>1. x * nb - w * nb = (x - w) * nb
    OBVIOUS
  <2>2. x >= w => (x - w) * nb >= 0
    OBVIOUS
  <2> QED BY <2>1, <2>2
<1>4. w * nb >= w * (i + 1)
  <2>1. w * nb - w * (i + 1) = w * (nb - (i + 1)) /\ w * (nb - (i + 1)) >= 0
    OBVIOUS
  <2> QED BY <2>1
<1> QED BY <1>1, <1>2, <1>3, <1>4

\* The bin that record() counts a value in, if any, is the one whose limits it lies between.
LEMMA RecordIndexIs ==
  ASSUME NEW p, IsParams(p), NEW v \in SampledValues
  PROVE  /\ RecordIndex(p, v) \in Bins(p) \cup {-1}
         /\ \A i \in Bins(p) :
              RecordIndex(p, v) = i <=>
                /\ v # NotFinite
                /\ AtLeast(<<v, 1>>, BinLowerValue(p, i))
                /\ Less(<<v, 1>>, BinUpperValue(p, i))
<1>1. PICK nb \in Nat \ {0}, low \in Int, w \in Nat \ {0} :
        nb = p.num_bins /\ low = p.min /\ w = p.max - p.min /\ p.max = low + w
  BY DEF IsParams
<1>2. Bins(p) = 0 .. nb - 1
  BY <1>1 DEF Bins
<1>3. CASE v = NotFinite
  <2>1. RecordIndex(p, v) = -1
    BY <1>3 DEF RecordIndex, IsWithinBounds
  <2> QED BY <1>2, <1>3, <2>1
<1>4. CASE v # NotFinite
  <2>1. v \in Int
    BY <1>4 DEF SampledValues
  <2>2. PICK x \in Int : x = v - low
    BY <2>1
  <2>3. IsWithinBounds(p, v) <=> 0 <= x /\ x < w
    BY <1>1, <1>4, <2>1, <2>2 DEF IsWithinBounds
  <2>4. BinIndexUnsafe(p, v) = (x * nb) \div w
    BY <1>1, <2>2 DEF BinIndexUnsafe
  <2>5. x * nb \in Int
    OBVIOUS
  <2>6. ASSUME NEW i \in Bins(p)
        PROVE  RecordIndex(p, v) = i <=> w * i <= x * nb /\ x * nb < w * (i + 1)
    <3>1. i \in 0 .. nb - 1 /\ i \in Int /\ i # -1
      BY <1>2
    <3>2. (x * nb) \div w = i <=> w * i <= x * nb /\ x * nb < w * (i + 1)
      BY <2>5, <3>1, PartOf
    <3>3. w * i <= x * nb /\ x * nb < w * (i + 1) => 0 <= x /\ x < w
      BY <3>1, OnChart
    <3> QED BY <2>3, <2>4, <3>1, <3>2, <3>3 DEF RecordIndex
  <2>7. ASSUME NEW i \in Bins(p)
        PROVE  /\ AtLeast(<<v, 1>>, BinLowerValue(p, i)) <=> w * i <= x * nb
               /\ Less(<<v, 1>>, BinUpperValue(p, i)) <=> x * nb < w * (i + 1)
    <3>1. ASSUME NEW j \in Int
          PROVE  /\ AtLeast(<<v, 1>>, BinLowerValue(p, j)) <=> w * j <= x * nb
                 /\ Less(<<v, 1>>, BinLowerValue(p, j)) <=> x * nb < w * j
      <4>1. PICK c \in Int : c = low * nb + j * w
        OBVIOUS
      <4>2. BinLowerValue(p, j) = Frac(c, nb)
        BY <1>1, <4>1 DEF BinLowerValue
      <4>3. IsRatio(BinLowerValue(p, j), c, nb)
        BY <4>2, FracRatio
      <4>4. IsRatio(<<v, 1>>, v, 1)
        BY <2>1 DEF IsRatio, Finite
      <4>5. /\ Less(<<v, 1>>, BinLowerValue(p, j)) <=> v * nb < c * 1
            /\ AtLeast(<<v, 1>>, BinLowerValue(p, j)) <=> ~(v * nb < c * 1)
        BY <4>3, <4>4, LessRatios
      <4>6. v * nb = x * nb + low * nb
        <5>1. v = x + low
          BY <2>1, <2>2
        <5>2. (x + low) * nb = x * nb + low * nb
          OBVIOUS
        <5> QED BY <5>1, <5>2
      <4>7. x * nb \in Int /\ low * nb \in Int /\ w * j \in Int /\ j * w = w * j
        OBVIOUS
      <4> QED BY <4>1, <4>5, <4>6, <4>7
    <3>2. i \in Int /\ i + 1 \in Int
      BY <1>2
    <3> QED BY <3>1, <3>2 DEF BinUpperValue
  <2>8. RecordIndex(p, v) \in Bins(p) \cup {-1}
    <3>1. CASE ~(0 <= x /\ x < w)
      BY <2>3, <3>1 DEF RecordIndex
    <3>2. CASE 0 <= x /\ x < w
      <4>1. PICK q : q = (x * nb) \div w
        OBVIOUS
      <4>2. q \in Int /\ w * q <= x * nb /\ x * nb < w * (q + 1)
        <5>1. q \in Int
          BY <2>5, <4>1, Division
        <5> QED BY <2>5, <4>1, <5>1, PartOf
      <4>3. x * nb >= 0 /\ x * nb < w * nb
        <5>1. w * nb - x * nb = (w - x) * nb /\ (w - x) * nb > 0 /\ x * nb >= 0
          BY <3>2
        <5> QED BY <5>1
      <4>4. q < 0 => w * (q + 1) <= 0
        BY <4>2
      <4>5. q >= nb => w * q >= w * nb
        <5>1. w * q - w * nb = w * (q - nb)
          BY <4>2
        <5>2. q >= nb => w * (q - nb) >= 0
          BY <4>2
        <5> QED BY <4>2, <5>1, <5>2
      <4>6. q \in 0 .. nb - 1
        <5>1. w * (q + 1) \in Int /\ w * q \in Int /\ w * nb \in Int
          BY <4>2
        <5> QED BY <2>5, <4>2, <4>3, <4>4, <4>5, <5>1
      <4> QED BY <1>2, <2>3, <2>4, <3>2, <4>1, <4>6 DEF RecordIndex
    <3> QED BY <3>1, <3>2
  <2> QED BY <1>4, <2>6, <2>7, <2>8
<1> QED BY <1>3, <1>4

\* A value that is recorded is counted once, in its bin or off the chart.
LEMMA RecordedIs ==
  ASSUME NEW p, IsParams(p), NEW v \in SampledValues,
         NEW h \in [params : {p}, bins : [Bins(p) -> Nat], off_chart : Nat]
  PROVE  /\ Recorded(h, v) \in [params : {p}, bins : [Bins(p) -> Nat], off_chart : Nat]
         /\ \A i \in Bins(p) :
              Recorded(h, v).bins[i] = h.bins[i] + IF RecordIndex(p, v) = i THEN 1 ELSE 0
         /\ SumFunction(h.bins) \in Int
         /\ SumFunction(Recorded(h, v).bins) + Recorded(h, v).off_chart
              = SumFunction(h.bins) + h.off_chart + 1
<1>1. PICK bins \in [Bins(p) -> Nat], off \in Nat :
        h = [params |-> p, bins |-> bins, off_chart |-> off]
  OBVIOUS
<1>2. PICK i \in Bins(p) \cup {-1} : i = RecordIndex(p, v)
  BY RecordIndexIs
<1>3. Bins(p) \subseteq Nat /\ IsFiniteSet(Bins(p)) /\ bins \in [Bins(p) -> Int]
  <2>1. PICK m \in Int : Bins(p) = 0 .. m
    BY DEF Bins, IsParams
  <2>2. IsFiniteSet(0 .. m) /\ 0 .. m \subseteq Nat
    BY FS_Interval
  <2> QED BY <2>1, <2>2
<1>4. h.params = p /\ h.bins = bins /\ h.off_chart = off
  BY <1>1
<1>5. CASE i = -1
  <2>1. Recorded(h, v) = [h EXCEPT !.off_chart = @ + 1]
    BY <1>2, <1>4, <1>5 DEF Recorded
  <2>2. Recorded(h, v) = [params |-> p, bins |-> bins, off_chart |-> off + 1]
    BY <1>1, <2>1
  <2>3. \A j \in Bins(p) : RecordIndex(p, v) # j
    BY <1>2, <1>3, <1>5
  <2>4. SumFunction(bins) \in Int
    <3>1. PICK sums : Sums(sums, Bins(p), bins) /\ SumFunction(bins) = sums[Bins(p)]
      BY <1>3, SumUnfolds
    <3> QED BY <3>1 DEF Sums
  <2> QED BY <1>4, <2>2, <2>3, <2>4
<1>6. CASE i # -1
  <2>1. i \in Bins(p)
    BY <1>2, <1>6
  <2>2. Recorded(h, v) = [h EXCEPT !.bins[i] = @ + 1]
    BY <1>2, <1>4, <1>6 DEF Recorded
  <2>3. PICK more : more = [bins EXCEPT ![i] = @ + 1]
    OBVIOUS
  <2>4. Recorded(h, v) = [params |-> p, bins |-> more, off_chart |-> off]
    BY <1>1, <2>2, <2>3
  <2>5. more \in [Bins(p) -> Nat] /\ \A j \in Bins(p) : more[j] = bins[j] + IF i = j THEN 1 ELSE 0
    BY <2>1, <2>3
  <2>6. SumFunction(bins) \in Int /\ SumFunction(more) = SumFunction(bins) + 1
    <3>1. PICK one \in Int : one = 1
      OBVIOUS
    <3>2. Raised(more, bins, Bins(p), i, one)
      BY <2>5, <3>1 DEF Raised
    <3>3. SumFunction(bins) \in Int /\ SumFunction(more) = SumFunction(bins) + one
      BY <1>3, <2>1, <3>2, SumChanges
    <3> QED BY <3>1, <3>2, <3>3
  <2> QED BY <1>2, <1>4, <2>4, <2>5, <2>6
<1> QED BY <1>5, <1>6

\* how many of some samples fell in bin i
CountIn(s, i) == Cardinality({j \in 1 .. Len(s) : LiesIn(s[j], i)})

LEMMA CountOfMore ==
  ASSUME NEW s \in Seq(SampledValues), NEW v \in SampledValues, NEW i
  PROVE  CountIn(s, i) \in Nat /\ CountIn(Append(s, v), i) = CountIn(s, i) + IF LiesIn(v, i) THEN 1 ELSE 0
<1> DEFINE Before == {j \in 1 .. Len(s) : LiesIn(s[j], i)}
           After == {j \in 1 .. Len(Append(s, v)) : LiesIn(Append(s, v)[j], i)}
<1>1. Len(s) \in Nat /\ Len(Append(s, v)) = Len(s) + 1
  OBVIOUS
<1>2. \A j \in 1 .. Len(s) : Append(s, v)[j] = s[j]
  OBVIOUS
<1>3. Append(s, v)[Len(s) + 1] = v
  OBVIOUS
<1>4. IsFiniteSet(Before) /\ Cardinality(Before) \in Nat
  <2>1. IsFiniteSet(1 .. Len(s))
    BY <1>1, FS_Interval
  <2> QED BY <2>1, FS_Subset, FS_CardinalityType
<1>5. Len(s) + 1 \notin Before
  BY <1>1
<1>6. After = IF LiesIn(v, i) THEN Before \cup {Len(s) + 1} ELSE Before
  <2>1. 1 .. Len(s) + 1 = (1 .. Len(s)) \cup {Len(s) + 1}
    BY <1>1
  <2> QED BY <1>1, <1>2, <1>3, <2>1
<1>7. Cardinality(Before \cup {Len(s) + 1}) = Cardinality(Before) + 1
  BY <1>4, <1>5, FS_AddElement
<1>8. CountIn(s, i) = Cardinality(Before) /\ CountIn(Append(s, v), i) = Cardinality(After)
  BY DEF CountIn
<1> HIDE DEF Before, After
<1> QED BY <1>4, <1>6, <1>7, <1>8

LEMMA CountOfNone ==
  ASSUME NEW i
  PROVE  CountIn(<<>>, i) = 0
<1>1. {j \in 1 .. Len(<<>>) : LiesIn(<<>>[j], i)} = {}
  OBVIOUS
<1> QED BY <1>1, FS_EmptySet DEF CountIn

-----------------------------------------------------------------------------
\* Calculators

LEMMA FirstAddress ==
  ASSUME NEW f
  PROVE  /\ FreeAddress(EmptyHeap) = 1
         /\ FreeAddress([a \in {1} |-> f]) = 2
<1>1. Min({1}) = 1 /\ Min({2}) = 2
  BY DEF Min
<1>2. DOMAIN EmptyHeap = {} /\ Cardinality({}) = 0
  BY FS_EmptySet DEF EmptyHeap
<1>3. (1 .. 0 + 1) \ {} = {1}
  OBVIOUS
<1>4. DOMAIN [a \in {1} |-> f] = {1} /\ Cardinality({1}) = 1
  BY FS_Singleton
<1>5. (1 .. 1 + 1) \ {1} = {2}
  OBVIOUS
<1> QED BY <1>1, <1>2, <1>3, <1>4, <1>5 DEF FreeAddress

\* The first calculator, one more, and without it again.
LEMMA CalculatorsMade ==
  ASSUME NEW f, NEW one, one = [a \in {1} |-> f], NEW two, two = [a \in 1 .. 2 |-> f]
  PROVE  /\ CreateIth(EmptyHeap, f).heap = one
         /\ CreateIth(EmptyHeap, f).multiplexor = [i |-> f, valcalc |-> 1]
         /\ CopyOf(one, [i |-> f, valcalc |-> 1]).heap = two
         /\ CopyOf(one, [i |-> f, valcalc |-> 1]).multiplexor = [i |-> f, valcalc |-> 2]
         /\ Destroyed(two, [i |-> f, valcalc |-> 2]) = one
<1>1. CreateIth(EmptyHeap, f).heap = one /\ CreateIth(EmptyHeap, f).multiplexor = [i |-> f, valcalc |-> 1]
  <2>1. DOMAIN EmptyHeap \cup {1} = {1}
    BY DEF EmptyHeap
  <2>2. [b \in {1} |-> IF b = 1 THEN f ELSE EmptyHeap[b]] = one
    OBVIOUS
  <2> QED BY <2>1, <2>2, FirstAddress DEF CreateIth
<1>2. /\ CopyOf(one, [i |-> f, valcalc |-> 1]).heap = two
      /\ CopyOf(one, [i |-> f, valcalc |-> 1]).multiplexor = [i |-> f, valcalc |-> 2]
  <2>1. DOMAIN one \cup {2} = 1 .. 2
    OBVIOUS
  <2>2. [b \in 1 .. 2 |-> IF b = 2 THEN f ELSE one[b]] = two
    OBVIOUS
  <2>3. FreeAddress(one) = 2
    BY FirstAddress
  <2>4. CopyOf(one, [i |-> f, valcalc |-> 1]) = CreateIth(one, f)
    BY DEF CopyOf
  <2> QED BY <2>1, <2>2, <2>3, <2>4 DEF CreateIth
<1>3. Destroyed(two, [i |-> f, valcalc |-> 2]) = one
  <2>1. DOMAIN two \ {2} = {1}
    OBVIOUS
  <2>2. [a \in {1} |-> two[a]] = one
    OBVIOUS
  <2> QED BY <2>1, <2>2 DEF Destroyed, Restrict
<1> QED BY <1>1, <1>2, <1>3

-----------------------------------------------------------------------------
\* Samples are counted

LEMMA CaseFacts ==
  ASSUME CaseInv
  PROVE  /\ IsParams(case.params) /\ case.binning \in BOOLEAN /\ case.levels \in 1 .. 30
         /\ case.n_sweep \in Nat \ {0} /\ Len(case.points) \in Nat \ {0}
         /\ \A i \in 1 .. Len(case.points) : \A point \in case.points[i] :
              Figures[case.figure][point] \in SampledValues
BY CasesAssumption DEF CaseInv, IsParams, SampledValues

LEMMA CountsInit ==
  ASSUME Init
  PROVE  CountsInv
<1>1. CaseInv
  BY DEF Init, CaseInv
<1>2. pc \notin Running
  BY DEF Init, Running
<1>3. CalculatorsInv
  <2>1. PICK one : one = [a \in {1} |-> case.figure]
    OBVIOUS
  <2>2. /\ CreateIth(EmptyHeap, case.figure).heap = one
        /\ CreateIth(EmptyHeap, case.figure).multiplexor = [i |-> case.figure, valcalc |-> 1]
    BY <2>1, CalculatorsMade
  <2>3. heap = one /\ valcalc = [i |-> case.figure, valcalc |-> 1] /\ vcalc = None
    BY <2>2 DEF Init
  <2> QED BY <1>2, <2>1, <2>3 DEF CalculatorsInv
<1>4. CollectorsInv
  BY <1>2 DEF CollectorsInv
<1>5. TallyInv
  <2>1. seen = <<>> /\ pc # "therm"
    BY DEF Init
  <2> QED BY <1>2, <2>1 DEF TallyInv
<1> QED BY <1>1, <1>3, <1>4, <1>5 DEF CountsInv

\* The task at hand ends, and its calculator is gone.
LEMMA CalculatorDestroyed ==
  ASSUME CalculatorsInv, pc \in Running, DestroyCollector, pc' \notin Running, case' = case
  PROVE  CalculatorsInv'
<1>1. PICK one, two : one = [a \in {1} |-> case.figure] /\ two = [a \in 1 .. 2 |-> case.figure]
  OBVIOUS
<1>2. heap = two /\ vcalc = [i |-> case.figure, valcalc |-> 2] /\ valcalc = [i |-> case.figure, valcalc |-> 1]
  BY <1>1 DEF CalculatorsInv
<1>3. PICK f : f = case.figure
  OBVIOUS
<1>4. Destroyed(two, [i |-> f, valcalc |-> 2]) = one
  <2>1. DOMAIN two \ {2} = {1}
    BY <1>1
  <2>2. [a \in {1} |-> two[a]] = one
    BY <1>1
  <2> QED BY <2>1, <2>2 DEF Destroyed, Restrict
<1>5. heap' = one /\ vcalc' = None /\ valcalc' = valcalc
  BY <1>2, <1>3, <1>4 DEF DestroyCollector
<1> QED BY <1>1, <1>2, <1>5 DEF CalculatorsInv, None

\* Steps that leave the task at hand alone.
LEMMA CountsAlone ==
  ASSUME CountsInv, case' = case, k' \in Nat, n' = n, collectors' = collectors,
         UNCHANGED calculators, seen' = seen,
         \/ pc' = pc
         \/ pc \notin Running /\ pc' \notin Running
         \/ pc = "therm" /\ pc' = "live"
  PROVE  CountsInv'
<1>1. (pc' \in Running <=> pc \in Running) /\ (pc' = "therm" => pc = "therm")
  BY DEF Running
<1>2. CaseInv'
  BY DEF CountsInv, CaseInv
<1>3. CalculatorsInv'
  BY <1>1 DEF CountsInv, CalculatorsInv, calculators, None
<1>4. CollectorsInv'
  BY <1>1 DEF CountsInv, CollectorsInv, Values, histogram, Tracked, Bins
<1>5. TallyInv'
  <2>1. TallyInv
    BY DEF CountsInv
  <2>2. \A i : AllHits(Len(seen), i)' = AllHits(Len(seen), i)
    BY DEF AllHits, Hits, LiesIn, Samples, BinLowerValue, BinUpperValue
  <2>3. Tracked' = Tracked /\ histogram' = histogram /\ Samples(Len(seen))' = Samples(Len(seen))
    BY DEF Tracked, histogram, Values, Samples
  <2> QED BY <1>1, <2>1, <2>2, <2>3 DEF TallyInv
<1> QED BY <1>2, <1>3, <1>4, <1>5 DEF CountsInv

\* The task at hand is over.
LEMMA CountsEnd ==
  ASSUME CountsInv, pc \in Running, pc' \notin Running, DestroyCollector,
         case' = case, k' \in Nat, n' = n, seen' = seen
  PROVE  CountsInv'
<1>1. CaseInv'
  BY DEF CountsInv, CaseInv
<1>2. CalculatorsInv'
  BY CalculatorDestroyed DEF CountsInv
<1>3. CollectorsInv'
  BY DEF CollectorsInv
<1>4. TallyInv'
  BY DEF CountsInv, TallyInv, Running
<1> QED BY <1>1, <1>2, <1>3, <1>4 DEF CountsInv

LEMMA CountsRunTask ==
  ASSUME CountsInv, RunTask
  PROVE  CountsInv'
<1>1. /\ case' = case /\ n' = 0 /\ k' = 0 /\ pc = "next" /\ pc' = "therm"
      /\ pc' \in Running /\ pc \notin Running /\ seen' = Append(seen, <<>>)
  BY DEF RunTask, Running
<1>2. CaseInv'
  BY <1>1 DEF CountsInv, CaseInv
<1>3. CalculatorsInv'
  <2>1. PICK one, two : one = [a \in {1} |-> case.figure] /\ two = [a \in 1 .. 2 |-> case.figure]
    OBVIOUS
  <2>2. heap = one /\ valcalc = [i |-> case.figure, valcalc |-> 1]
    BY <1>1, <2>1 DEF CountsInv, CalculatorsInv
  <2>3. /\ CopyOf(one, [i |-> case.figure, valcalc |-> 1]).heap = two
        /\ CopyOf(one, [i |-> case.figure, valcalc |-> 1]).multiplexor = [i |-> case.figure, valcalc |-> 2]
    BY <2>1, CalculatorsMade
  <2>4. heap' = two /\ vcalc' = [i |-> case.figure, valcalc |-> 2] /\ valcalc' = valcalc
    BY <2>2, <2>3 DEF RunTask
  <2> QED BY <1>1, <2>1, <2>2, <2>4 DEF CalculatorsInv
<1>4. PICK p : p = case.params
  OBVIOUS
<1>5. IsParams(p) /\ case.binning \in BOOLEAN
  BY <1>4, CaseFacts DEF CountsInv
<1>6. PICK c : c = ValueStatsCollector
  OBVIOUS
<1>7. /\ HasHistogram(c) /\ {"kind", "histogram"} \subseteq DOMAIN c
      /\ c.kind = IF case.binning THEN "binning" ELSE "histogram"
      /\ c.histogram.params = p
  <2>1. NewHistogram(p).params = p
    BY DEF NewHistogram
  <2>2. CASE case.binning
    BY <1>4, <1>6, <2>1, <2>2 DEF ValueStatsCollector, BinningCollector, HasHistogram
  <2>3. CASE ~case.binning
    BY <1>4, <1>6, <2>1, <2>3 DEF ValueStatsCollector, ValueHistogramCollector, HasHistogram
  <2> QED BY <1>5, <2>2, <2>3
<1>8. PICK d : d = CollectorInit(c)
  OBVIOUS
<1>9. /\ DOMAIN d = DOMAIN c /\ d.kind = c.kind /\ d.histogram = NewHistogram(p)
  BY <1>7, <1>8 DEF CollectorInit
<1>10. CollectorInit(StatusReportCollector) = StatusReportCollector
  BY DEF CollectorInit, HasHistogram, StatusReportCollector
<1>11. /\ DOMAIN collectors' = {1, 2} /\ collectors'[1] = d
       /\ collectors'[2] = StatusReportCollector
  <2>1. collectors' = InitAll(<<c, StatusReportCollector>>)
    BY <1>6 DEF RunTask
  <2>2. PICK cs : cs = <<c, StatusReportCollector>>
    OBVIOUS
  <2>3. DOMAIN cs = {1, 2} /\ cs[1] = c /\ cs[2] = StatusReportCollector
    BY <2>2
  <2>4. collectors' = [i \in {1, 2} |-> CollectorInit(cs[i])]
    BY <2>1, <2>2, <2>3 DEF InitAll
  <2> QED BY <1>8, <1>10, <2>3, <2>4
<1>12. histogram' = [params |-> p, bins |-> [i \in Bins(p) |-> 0], off_chart |-> 0]
  BY <1>9, <1>11 DEF histogram, Values, NewHistogram
<1>13. Tracked' = Bins(p)
  BY <1>1, <1>4 DEF Tracked
<1>14. CollectorsInv'
  <2>1. Values' = d
    BY <1>11 DEF Values
  <2>2. [i \in Bins(p) |-> 0] \in [Bins(p) -> Nat]
    OBVIOUS
  <2>3. histogram' \in [params : {p}, bins : [Bins(p) -> Nat], off_chart : Nat]
    BY <1>12, <2>2
  <2> QED BY <1>1, <1>4, <1>7, <1>9, <1>11, <1>13, <2>1, <2>3 DEF CollectorsInv
<1>15. TallyInv'
  <2>1. /\ seen \in Seq(Seq(SampledValues)) /\ <<>> \in Seq(SampledValues)
    BY DEF CountsInv, TallyInv
  <2>2. /\ seen' \in Seq(Seq(SampledValues)) /\ seen' # <<>> /\ seen'[Len(seen')] = <<>>
    BY <1>1, <2>1
  <2>3. Samples(Len(seen))' = <<>> /\ Len(Samples(Len(seen))') = 0
    BY <2>2 DEF Samples
  <2>4. \A i : AllHits(Len(seen), i)' = 0
    <3> SUFFICES ASSUME NEW i PROVE AllHits(Len(seen), i)' = 0
      OBVIOUS
    <3>1. {j \in 1 .. Len(Samples(Len(seen))') : LiesIn(Samples(Len(seen))[j], i)'} = {}
      BY <2>3
    <3> QED BY <3>1, FS_EmptySet DEF AllHits, Hits
  <2>5. IsFiniteSet(Bins(p))
    <3>1. PICK m \in Int : Bins(p) = 0 .. m
      BY <1>5 DEF Bins, IsParams
    <3> QED BY <3>1, FS_Interval
  <2>6. SumFunction([i \in Bins(p) |-> 0]) = 0
    BY <2>5, SumOfZeros
  <2>7. histogram'.bins = [i \in Bins(p) |-> 0] /\ histogram'.off_chart = 0
    BY <1>12
  <2> QED BY <1>1, <1>13, <2>2, <2>3, <2>4, <2>6, <2>7 DEF TallyInv
<1> QED BY <1>2, <1>3, <1>14, <1>15 DEF CountsInv
\* A sample is counted.
LEMMA CountsSample ==
  ASSUME CountsInv, NEW point, ProcessSample(point),
         point \in case.points[(n % Len(case.points)) + 1],
         pc = "live", pc' = pc, case' = case, k' \in Nat, UNCHANGED calculators
  PROVE  CountsInv'
<1>1. pc \in Running /\ pc' \in Running
  BY DEF Running
<1>2. PICK v : v = Figures[case.figure][point]
  OBVIOUS
<1>3. v \in SampledValues
  <2>1. PICK l \in Nat \ {0} : l = Len(case.points)
    BY CaseFacts DEF CountsInv
  <2>2. n % l \in 0 .. l - 1
    <3>1. n \in Int
      BY DEF CountsInv, CaseInv
    <3> QED BY <2>1, <3>1, Division
  <2>3. (n % l) + 1 \in 1 .. l
    BY <2>1, <2>2
  <2> QED BY <1>2, <2>1, <2>3, CaseFacts DEF CountsInv
<1>4. GetValue(vcalc, point) = v
  BY <1>1, <1>2 DEF CountsInv, CalculatorsInv, GetValue
<1>5. /\ collectors' = ProcessSampleAll(collectors, v) /\ n' = n + 1 /\ n \in Nat
      /\ seen' = [seen EXCEPT ![Len(seen)] = Append(@, v)]
  BY <1>2, <1>4 DEF ProcessSample, CountsInv, CaseInv
<1>6. PICK p : p = case.params
  OBVIOUS
<1>7. IsParams(p)
  BY <1>6, CaseFacts DEF CountsInv
<1>8. PICK c : c = Values
  OBVIOUS
<1>9. /\ DOMAIN collectors = {1, 2} /\ collectors[1] = c /\ collectors[2] = StatusReportCollector
      /\ {"kind", "histogram"} \subseteq DOMAIN c
      /\ c.kind = IF case.binning THEN "binning" ELSE "histogram"
  BY <1>1, <1>8 DEF CountsInv, CollectorsInv, Values
<1>10. PICK h \in [params : {p}, bins : [Bins(p) -> Nat], off_chart : Nat] : h = c.histogram
  BY <1>1, <1>6, <1>8 DEF CountsInv, CollectorsInv, histogram, Tracked
<1>11. PICK d : d = CollectorProcessSample(c, v)
  OBVIOUS
<1>12. /\ {"kind", "histogram"} \subseteq DOMAIN d /\ d.kind = c.kind
       /\ d.histogram = Recorded(h, v)
  <2>1. PICK e : e = CountSample(c, v)
    OBVIOUS
  <2>2. DOMAIN e = DOMAIN c /\ e.kind = c.kind /\ e.histogram = Recorded(h, v)
    BY <1>9, <1>10, <2>1 DEF CountSample
  <2>3. CASE case.binning
    <3>1. d = AnalyseSample(e, v)
      BY <1>9, <1>11, <2>1, <2>3 DEF CollectorProcessSample
    <3>2. DOMAIN d = DOMAIN e /\ d.kind = e.kind /\ d.histogram = e.histogram
      BY <3>1, <1>9, <2>2 DEF AnalyseSample
    <3> QED BY <1>9, <2>2, <3>2
  <2>4. CASE ~case.binning
    <3>1. d = e
      BY <1>9, <1>11, <2>1, <2>4 DEF CollectorProcessSample
    <3> QED BY <1>9, <2>2, <3>1
  <2> QED BY <2>3, <2>4
<1>13. CollectorProcessSample(StatusReportCollector, v) = StatusReportCollector
  BY DEF CollectorProcessSample, StatusReportCollector
<1>14. DOMAIN collectors' = {1, 2} /\ collectors'[1] = d /\ collectors'[2] = StatusReportCollector
  <2>1. PICK cs : cs = collectors
    OBVIOUS
  <2>2. collectors' = [j \in {1, 2} |-> CollectorProcessSample(cs[j], v)]
    BY <1>5, <1>9, <2>1 DEF ProcessSampleAll
  <2> QED BY <1>9, <1>11, <1>13, <2>1, <2>2
<1>15. PICK g : g = Recorded(h, v)
  OBVIOUS
<1>16. /\ g \in [params : {p}, bins : [Bins(p) -> Nat], off_chart : Nat]
       /\ \A i \in Bins(p) : g.bins[i] = h.bins[i] + IF RecordIndex(p, v) = i THEN 1 ELSE 0
       /\ SumFunction(h.bins) \in Int
       /\ SumFunction(g.bins) + g.off_chart = SumFunction(h.bins) + h.off_chart + 1
  BY <1>3, <1>7, <1>15, RecordedIs
<1>17. histogram = h /\ histogram' = g /\ Tracked = Bins(p) /\ Tracked' = Bins(p)
  BY <1>6, <1>8, <1>10, <1>12, <1>14, <1>15 DEF histogram, Values, Tracked
<1>18. CaseInv'
  BY <1>5 DEF CountsInv, CaseInv
<1>19. CalculatorsInv'
  BY <1>1 DEF CountsInv, CalculatorsInv, calculators, None
<1>20. CollectorsInv'
  BY <1>6, <1>9, <1>12, <1>14, <1>16, <1>17 DEF CollectorsInv, Values
<1>21. TallyInv'
  <2>1. /\ seen \in Seq(Seq(SampledValues)) /\ seen # <<>>
    BY <1>1 DEF CountsInv, TallyInv
  <2>2. PICK l \in Nat : l = Len(seen) /\ l >= 1 /\ l \in DOMAIN seen
    BY <2>1
  <2>3. PICK s \in Seq(SampledValues) : s = seen[l]
    BY <2>1, <2>2
  <2>4. PICK t : t = Append(s, v)
    OBVIOUS
  <2>5. t \in Seq(SampledValues) /\ Len(t) = Len(s) + 1
    BY <1>3, <2>4
  <2>6. seen' = [seen EXCEPT ![l] = t]
    BY <1>5, <2>2, <2>3, <2>4
  <2>7. /\ seen' \in Seq(Seq(SampledValues)) /\ Len(seen') = l /\ seen'[l] = t /\ seen' # <<>>
    BY <2>1, <2>2, <2>5, <2>6
  <2>8. Samples(Len(seen)) = s /\ Samples(Len(seen))' = t
    BY <2>2, <2>3, <2>7 DEF Samples
  <2>9. Len(s) = n /\ SumFunction(h.bins) + h.off_chart = n
    BY <1>1, <1>17, <2>8 DEF CountsInv, TallyInv
  <2>10. \A i \in Bins(p) : h.bins[i] = CountIn(s, i)
    BY <1>1, <1>17, <2>8 DEF CountsInv, TallyInv, AllHits, Hits, CountIn
  <2>11. ASSUME NEW i \in Bins(p)
         PROVE  g.bins[i] = AllHits(Len(seen), i)'
    <3>1. LiesIn(v, i) <=> RecordIndex(p, v) = i
      BY <1>3, <1>6, <1>7, RecordIndexIs DEF LiesIn
    <3>2. CountIn(t, i) = CountIn(s, i) + IF LiesIn(v, i) THEN 1 ELSE 0
      BY <1>3, <2>4, CountOfMore
    <3>3. AllHits(Len(seen), i)' = CountIn(t, i)
      <4>1. ASSUME NEW j PROVE LiesIn(Samples(Len(seen))[j], i)' <=> LiesIn(t[j], i)
        BY <2>8 DEF LiesIn, BinLowerValue, BinUpperValue
      <4>2. {j \in 1 .. Len(Samples(Len(seen))') : LiesIn(Samples(Len(seen))[j], i)'}
              = {j \in 1 .. Len(t) : LiesIn(t[j], i)}
        BY <2>8, <4>1
      <4> QED BY <4>2 DEF AllHits, Hits, CountIn
    <3> QED BY <1>16, <2>10, <3>1, <3>2, <3>3
  <2>12. n' = Len(t) /\ SumFunction(g.bins) + g.off_chart = n'
    BY <1>5, <1>16, <2>5, <2>9
  <2>13. pc' # "therm"
    OBVIOUS
  <2> QED BY <1>17, <2>7, <2>8, <2>11, <2>12, <2>13 DEF TallyInv
<1> QED BY <1>18, <1>19, <1>20, <1>21 DEF CountsInv

LEMMA CountsNext ==
  ASSUME CountsInv, [Next]_vars
  PROVE  CountsInv'
<1>1. ASSUME RunTask PROVE CountsInv'
  BY <1>1, CountsRunTask
<1>2. ASSUME NoSeed PROVE CountsInv'
  <2>1. k' \in Nat
    BY <1>2 DEF NoSeed, CountsInv, CaseInv
  <2>2. pc \notin Running /\ pc' \notin Running
    BY <1>2 DEF NoSeed, Running
  <2> QED BY <1>2, <2>1, <2>2, CountsAlone DEF NoSeed
<1>3. ASSUME ThermIteration PROVE CountsInv'
  <2>1. k' \in Nat
    BY <1>3 DEF ThermIteration, CountsInv, CaseInv
  <2> QED BY <1>3, <2>1, CountsAlone DEF ThermIteration
<1>4. ASSUME ThermalizingDone PROVE CountsInv'
  BY <1>4, CountsAlone DEF ThermalizingDone
<1>5. ASSUME Interrupted PROVE CountsInv'
  <2>1. k' \in Nat
    BY <1>5 DEF Interrupted, CountsInv, CaseInv
  <2>2. pc \in Running /\ pc' \notin Running
    BY <1>5 DEF Interrupted, Polled, Running
  <2> QED BY <1>5, <2>1, <2>2, CountsEnd DEF Interrupted
<1>6. ASSUME LiveIteration PROVE CountsInv'
  <2>1. k' \in Nat
    BY <1>6 DEF LiveIteration, CountsInv, CaseInv
  <2>2. CASE UNCHANGED <<collectors, n, seen>>
    BY <1>6, <2>1, <2>2, CountsAlone DEF LiveIteration
  <2>3. CASE \E point \in case.points[(n % Len(case.points)) + 1] : ProcessSample(point)
    BY <1>6, <2>1, <2>3, CountsSample DEF LiveIteration
  <2> QED BY <1>6, <2>2, <2>3 DEF LiveIteration
<1>7. ASSUME Done PROVE CountsInv'
  <2>1. k' \in Nat
    BY <1>7 DEF Done, CountsInv, CaseInv
  <2>2. pc \in Running /\ pc' \notin Running
    BY <1>7 DEF Done, Running
  <2> QED BY <1>7, <2>1, <2>2, CountsEnd DEF Done
<1>8. ASSUME Aggregate \/ PrintFinalReport \/ WriteHistogramCsv PROVE CountsInv'
  <2>1. k' \in Nat
    BY <1>8 DEF Aggregate, PrintFinalReport, WriteHistogramCsv, CountsInv, CaseInv
  <2>2. pc \notin Running /\ pc' \notin Running
    BY <1>8 DEF Aggregate, PrintFinalReport, WriteHistogramCsv, Running
  <2> QED BY <1>8, <2>1, <2>2, CountsAlone DEF Aggregate, PrintFinalReport, WriteHistogramCsv
<1>9. ASSUME UNCHANGED vars PROVE CountsInv'
  <2>1. k' \in Nat
    BY <1>9 DEF vars, CountsInv, CaseInv
  <2> QED BY <1>9, <2>1, CountsAlone DEF vars
<1> QED BY <1>1, <1>2, <1>3, <1>4, <1>5, <1>6, <1>7, <1>8, <1>9 DEF Next

\* The walk's histogram holds what its samples come to, in every state: there is
\* one calculator while no task runs and two while one does, the histogram counts
\* each sample of the task at hand in the bin that it lies in, and the counts add
\* up to the number of samples.
THEOREM CountsInvariance == Spec => []CountsInv
<1>1. CountsInv /\ [Next]_vars => CountsInv'
  BY CountsNext
<1> QED BY <1>1, CountsInit, PTL DEF Spec

\* Whatever the limits and the number of bins, the figure of merit and the values
\* it takes: every sample is counted once, in the bin whose limits it lies between or
\* off the chart, and the task never calls, nor leaves behind, a calculator that is
\* not its own (HistogramTally).
THEOREM HistogramTallyAlways == Spec => []HistogramTally
<1>1. CountsInv => HistogramTally
  <2> SUFFICES ASSUME CountsInv PROVE HistogramTally
    OBVIOUS
  <2>1. pc = "live" =>
          /\ \A i \in Tracked : histogram.bins[i] = AllHits(Len(seen), i)
          /\ SumFunction(histogram.bins) + histogram.off_chart = n
    BY DEF CountsInv, TallyInv, Running
  <2>2. PICK one, two : one = [a \in {1} |-> case.figure] /\ two = [a \in 1 .. 2 |-> case.figure]
    OBVIOUS
  <2>3. PICK a, b : a = [i |-> case.figure, valcalc |-> 1] /\ b = [i |-> case.figure, valcalc |-> 2]
    OBVIOUS
  <2>4. Cardinality({1}) = 1 /\ Cardinality(1 .. 2) = 2 /\ 1 .. 1 = {1}
    <3>1. 1 .. 1 = {1} /\ 1 \in Int /\ 2 \in Int /\ ~(1 > 2) /\ 2 - 1 + 1 = 2
      OBVIOUS
    <3>2. Cardinality({1}) = 1
      BY FS_Singleton
    <3>3. Cardinality(1 .. 2) = 2
      BY <3>1, FS_Interval
    <3> QED BY <3>1, <3>2, <3>3
  <2>5. CASE pc \in Running
    <3>1. heap = two /\ Multiplexors = <<a, b>>
      BY <2>2, <2>3, <2>5 DEF CountsInv, CalculatorsInv, Multiplexors, None
    <3>2. OwnAll(two, <<a, b>>)
      BY <2>2, <2>3, <2>4 DEF OwnAll, Usable
    <3> QED BY <2>1, <3>1, <3>2 DEF HistogramTally
  <2>6. CASE pc \notin Running
    <3>1. heap = one /\ Multiplexors = <<a>>
      BY <2>2, <2>3, <2>6 DEF CountsInv, CalculatorsInv, Multiplexors
    <3>2. OwnAll(one, <<a>>)
      BY <2>2, <2>3, <2>4 DEF OwnAll, Usable
    <3> QED BY <2>1, <3>1, <3>2 DEF HistogramTally
  <2> QED BY <2>5, <2>6
<1> QED BY <1>1, CountsInvariance, PTL

\* A sum does not depend on which element is taken first.
LEMMA AnyOrder ==
  ASSUME NEW D, IsFiniteSet(D), NEW f \in [D -> Int], NEW p, Sums(p, D, f)
  PROVE  \A s \in SUBSET D : \A x \in s : p[s] = f[x] + p[s \ {x}]
<1> DEFINE Good(s) == \A x \in s : p[s] = f[x] + p[s \ {x}]
           Bad == {m \in Nat : \E s \in SUBSET D : Cardinality(s) = m /\ ~Good(s)}
<1>1. \A s \in SUBSET D : IsFiniteSet(s) /\ Cardinality(s) \in Nat
  BY FS_Subset, FS_CardinalityType
<1>2. SUFFICES ASSUME Bad # {} PROVE FALSE
  BY <1>1
<1>3. PICK m \in Bad : \A l \in Bad : m <= l
  <2>1. Bad \subseteq Nat
    OBVIOUS
  <2> HIDE DEF Bad
  <2> QED BY <1>2, <2>1, LeastOf
<1>4. PICK s \in SUBSET D : Cardinality(s) = m /\ ~Good(s) /\ m \in Nat
  OBVIOUS
<1>5. PICK x \in s : p[s] # f[x] + p[s \ {x}]
  BY <1>4
<1>6. PICK c \in s : c = CHOOSE y \in s : TRUE
  BY <1>5
<1>7. ASSUME NEW y \in s PROVE Good(s \ {y})
  <2>1. Cardinality(s \ {y}) = m - 1
    BY <1>1, <1>4, FS_RemoveElement
  <2>2. Cardinality(s \ {y}) \in Nat /\ s \ {y} \in SUBSET D
    BY <1>1
  <2>3. m - 1 \in Nat /\ ~(m <= m - 1)
    BY <1>4, <2>1, <2>2
  <2>4. m - 1 \notin Bad
    BY <1>3, <2>3
  <2> HIDE DEF Good
  <2> QED BY <2>1, <2>2, <2>3, <2>4
<1>8. p[s] = f[c] + p[s \ {c}]
  BY <1>6 DEF Sums
<1>9. x # c
  BY <1>5, <1>8
<1>10. p[s \ {c}] = f[x] + p[(s \ {c}) \ {x}] /\ p[s \ {x}] = f[c] + p[(s \ {x}) \ {c}]
  BY <1>7, <1>9
<1>11. (s \ {c}) \ {x} = (s \ {x}) \ {c}
  OBVIOUS
<1>12. PICK r \in Int : r = p[(s \ {c}) \ {x}]
  <2>1. (s \ {c}) \ {x} \in SUBSET D
    OBVIOUS
  <2> QED BY <2>1 DEF Sums
<1>13. PICK u \in Int, v \in Int : u = f[c] /\ v = f[x]
  OBVIOUS
<1>14. p[s \ {c}] = v + r /\ p[s \ {x}] = u + r
  BY <1>10, <1>11, <1>12, <1>13
<1>15. p[s] = u + (v + r) /\ p[s] # v + (u + r)
  BY <1>5, <1>8, <1>13, <1>14
<1> QED BY <1>12, <1>13, <1>15

\* The last value of a sequence comes on top.
LEMMA LastAdded ==
  ASSUME NEW m \in Nat, NEW f \in [1 .. m + 1 -> Int]
  PROVE  SumFunction(f) = SumFunction([b \in 1 .. m |-> f[b]]) + f[m + 1]
<1> DEFINE D == 1 .. m + 1
           E == 1 .. m
           g == [b \in E |-> f[b]]
<1>1. IsFiniteSet(D) /\ IsFiniteSet(E)
  BY FS_Interval
<1>2. g \in [E -> Int] /\ f \in [D -> Int] /\ E \subseteq D /\ m + 1 \in D /\ D \ {m + 1} = E
  OBVIOUS
<1>3. \A b \in E : g[b] = f[b]
  OBVIOUS
<1> HIDE DEF D, E, g
<1>4. PICK p : Sums(p, D, f) /\ SumFunction(f) = p[D]
  BY <1>1, <1>2, SumUnfolds
<1>5. PICK q : Sums(q, E, g) /\ SumFunction(g) = q[E]
  BY <1>1, <1>2, SumUnfolds
<1> DEFINE S == {s \in SUBSET E : q[s] = p[s]}
           next == [s \in SUBSET E |-> CHOOSE x \in s : TRUE]
<1>6. {} \in S
  BY <1>4, <1>5 DEF Sums
<1>7. Grows(S, E, next)
  <2> SUFFICES ASSUME NEW s \in (SUBSET E) \ {{}}
               PROVE  next[s] \in s /\ (s \ {next[s]} \in S => s \in S)
    BY DEF Grows
  <2>1. PICK x \in s : x = next[s] /\ x = CHOOSE y \in s : TRUE
    OBVIOUS
  <2>2. s \in (SUBSET D) \ {{}}
    BY <1>2
  <2>3. p[s] = f[x] + p[s \ {x}] /\ q[s] = g[x] + q[s \ {x}] /\ g[x] = f[x]
    BY <1>3, <1>4, <1>5, <2>1, <2>2 DEF Sums
  <2> QED BY <2>1, <2>3
<1>8. E \in S
  <2> HIDE DEF S, next
  <2> QED BY <1>1, <1>6, <1>7, SubsetSteps
<1>9. p[D] = f[m + 1] + p[D \ {m + 1}]
  BY <1>1, <1>2, <1>4, AnyOrder
<1>10. PICK u \in Int, v \in Int : u = p[E] /\ v = f[m + 1]
  BY <1>2, <1>4 DEF Sums
<1>11. q[E] = p[E]
  BY <1>8
<1>12. SumFunction(f) = v + u /\ SumFunction(g) = u
  BY <1>2, <1>4, <1>5, <1>9, <1>10, <1>11
<1>13. SumFunction(f) = SumFunction(g) + f[m + 1]
  BY <1>10, <1>12
<1> QED BY <1>13 DEF g, E

\* the sum of the first m values of a sequence without end
UpTo(h, m) == SumFunction([b \in 1 .. m |-> h[b]])

LEMMA UpToIs ==
  ASSUME NEW h \in [Nat -> Int], NEW m \in Nat
  PROVE  UpTo(h, 0) = 0 /\ UpTo(h, m) \in Int /\ UpTo(h, m + 1) = UpTo(h, m) + h[m + 1]
<1>1. UpTo(h, 0) = 0
  <2>1. IsFiniteSet({}) /\ 1 .. 0 = {}
    BY FS_EmptySet
  <2>2. [b \in 1 .. 0 |-> h[b]] = [b \in {} |-> 0]
    BY <2>1
  <2> QED BY <2>1, <2>2, SumOfZeros DEF UpTo
<1>2. UpTo(h, m) \in Int
  <2>1. PICK f \in [1 .. m -> Int] : f = [b \in 1 .. m |-> h[b]]
    <3>1. \A b \in 1 .. m : h[b] \in Int
      OBVIOUS
    <3> QED BY <3>1
  <2>2. IsFiniteSet(1 .. m)
    BY FS_Interval
  <2>3. PICK p : Sums(p, 1 .. m, f) /\ SumFunction(f) = p[1 .. m]
    BY <2>2, SumUnfolds
  <2> QED BY <2>1, <2>3 DEF Sums, UpTo
<1>3. UpTo(h, m + 1) = UpTo(h, m) + h[m + 1]
  <2>1. PICK f \in [1 .. m + 1 -> Int] : f = [b \in 1 .. m + 1 |-> h[b]]
    <3>1. \A b \in 1 .. m + 1 : h[b] \in Int
      OBVIOUS
    <3> QED BY <3>1
  <2>2. SumFunction(f) = SumFunction([b \in 1 .. m |-> f[b]]) + f[m + 1]
    BY LastAdded
  <2>3. [b \in 1 .. m |-> f[b]] = [b \in 1 .. m |-> h[b]] /\ f[m + 1] = h[m + 1]
    BY <2>1
  <2> QED BY <2>1, <2>2, <2>3 DEF UpTo
<1> QED BY <1>1, <1>2, <1>3

-----------------------------------------------------------------------------
\* Blocks of samples

\* marks[j] is 1 if sample j is a hit: how many hits there are from .. to
Ones(marks, from, to) == Cardinality({j \in from .. to : marks[j] = 1})

\* and in each block of 2^level samples
Blocks(marks, level) ==
  [b \in Nat |-> Ones(marks, (b - 1) * 2 ^ level + 1, b * 2 ^ level)]

SquaresOf(h) == [b \in Nat |-> h[b] * h[b]]

LEMMA OnesJoin ==
  ASSUME NEW marks, NEW from \in Int, NEW mid \in Int, NEW to \in Int, from <= mid + 1, mid <= to
  PROVE  /\ Ones(marks, from, to) \in Nat
         /\ Ones(marks, from, to) = Ones(marks, from, mid) + Ones(marks, mid + 1, to)
<1> DEFINE O(x, y) == {j \in x .. y : marks[j] = 1}
<1>1. ASSUME NEW x \in Int, NEW y \in Int
      PROVE  IsFiniteSet(O(x, y)) /\ Cardinality(O(x, y)) \in Nat
  <2>1. IsFiniteSet(x .. y)
    BY FS_Interval
  <2>2. O(x, y) \subseteq x .. y
    OBVIOUS
  <2> HIDE DEF O
  <2> QED BY <2>1, <2>2, FS_Subset, FS_CardinalityType
<1>2. O(from, to) = O(from, mid) \cup O(mid + 1, to) /\ O(from, mid) \cap O(mid + 1, to) = {}
  OBVIOUS
<1>3. PICK A, B : A = O(from, mid) /\ B = O(mid + 1, to)
  OBVIOUS
<1>4. IsFiniteSet(A) /\ IsFiniteSet(B) /\ A \cap B = {}
  <2> HIDE DEF O
  <2> QED BY <1>1, <1>2, <1>3
<1>5. Cardinality(A \cup B) = Cardinality(A) + Cardinality(B)
  <2>1. Cardinality(A \cup B) = Cardinality(A) + Cardinality(B) - Cardinality({})
    BY <1>4, FS_Union
  <2>2. Cardinality(A) \in Nat /\ Cardinality(B) \in Nat /\ Cardinality({}) = 0
    BY <1>4, FS_CardinalityType, FS_EmptySet
  <2> QED BY <2>1, <2>2
<1>6. Cardinality(O(from, to)) \in Nat
  <2> HIDE DEF O
  <2> QED BY <1>1
<1> QED BY <1>2, <1>3, <1>5, <1>6 DEF Ones

LEMMA BlocksAre ==
  ASSUME NEW marks, NEW level \in 0 .. 30
  PROVE  /\ Blocks(marks, level) \in [Nat -> Nat]
         /\ SquaresOf(Blocks(marks, level)) \in [Nat -> Int]
<1>1. 2 ^ level \in Nat \ {0}
  <2>1. level \in 0 .. 31
    OBVIOUS
  <2> QED BY <2>1, PowersOfTwo
<1>2. PICK w \in Nat \ {0} : w = 2 ^ level
  BY <1>1
<1>3. ASSUME NEW b \in Nat PROVE Ones(marks, (b - 1) * w + 1, b * w) \in Nat
  <2>1. PICK c \in Int, d \in Int : c = (b - 1) * w + 1 /\ d = b * w /\ c <= d + 1
    <3>1. b * w = (b - 1) * w + w
      OBVIOUS
    <3>2. (b - 1) * w \in Int /\ b * w \in Int
      OBVIOUS
    <3> QED BY <3>1, <3>2
  <2>2. c <= d + 1 /\ d <= d
    BY <2>1
  <2> QED BY <2>1, <2>2, OnesJoin
<1>4. PICK h : h = Blocks(marks, level)
  OBVIOUS
<1>5. h = [b \in Nat |-> Ones(marks, (b - 1) * w + 1, b * w)]
  BY <1>2, <1>4 DEF Blocks
<1>6. h \in [Nat -> Nat]
  BY <1>3, <1>5
<1> QED BY <1>4, <1>6 DEF SquaresOf

\* One sample to a block at level 0; two blocks make one of the next level.
LEMMA BlocksJoin ==
  ASSUME NEW marks, NEW level \in 0 .. 29, NEW b \in Nat \ {0}
  PROVE  Blocks(marks, level + 1)[b] = Blocks(marks, level)[2 * b - 1] + Blocks(marks, level)[2 * b]
<1>1. 2 ^ level \in Nat \ {0} /\ 2 ^ (level + 1) = 2 * 2 ^ level
  <2>1. level \in 0 .. 31
    OBVIOUS
  <2> QED BY <2>1, PowersOfTwo
<1>2. PICK w \in Nat \ {0} : w = 2 ^ level /\ 2 ^ (level + 1) = 2 * w
  BY <1>1
<1>3. PICK from \in Int, mid \in Int, to \in Int :
        from = (b - 1) * (2 * w) + 1 /\ mid = (2 * b - 1) * w /\ to = b * (2 * w)
  OBVIOUS
<1>4. /\ from = (2 * b - 1 - 1) * w + 1 /\ mid + 1 = (2 * b - 1) * w + 1 /\ to = (2 * b) * w
      /\ mid = from - 1 + w /\ to = mid + w
  <2>1. (b - 1) * (2 * w) = (2 * b - 2) * w /\ b * (2 * w) = (2 * b) * w
    OBVIOUS
  <2>2. (2 * b - 1) * w = (2 * b - 2) * w + w /\ (2 * b) * w = (2 * b - 1) * w + w
    OBVIOUS
  <2>3. 2 * b - 1 - 1 = 2 * b - 2
    OBVIOUS
  <2> QED BY <1>3, <2>1, <2>2, <2>3
<1>5. Ones(marks, from, to) = Ones(marks, from, mid) + Ones(marks, mid + 1, to)
  <2>1. from <= mid + 1 /\ mid <= to
    BY <1>4
  <2> QED BY <2>1, OnesJoin
<1>6. Blocks(marks, level + 1)[b] = Ones(marks, from, to)
  BY <1>2, <1>3 DEF Blocks
<1>7. Blocks(marks, level)[2 * b - 1] = Ones(marks, from, mid)
  <2>1. 2 * b - 1 \in Nat
    OBVIOUS
  <2> QED BY <1>2, <1>3, <1>4, <2>1 DEF Blocks
<1>8. Blocks(marks, level)[2 * b] = Ones(marks, mid + 1, to)
  <2>1. 2 * b \in Nat
    OBVIOUS
  <2> QED BY <1>2, <1>3, <1>4, <2>1 DEF Blocks
<1> QED BY <1>5, <1>6, <1>7, <1>8

LEMMA SingleBlock ==
  ASSUME NEW marks, NEW b \in Nat
  PROVE  Blocks(marks, 0)[b] = IF marks[b] = 1 THEN 1 ELSE 0
<1>1. 2 ^ 0 = 1
  OBVIOUS
<1>2. (b - 1) * 1 + 1 = b /\ b * 1 = b
  OBVIOUS
<1>3. Blocks(marks, 0)[b] = Ones(marks, b, b)
  BY <1>1, <1>2 DEF Blocks
<1>4. {j \in b .. b : marks[j] = 1} = IF marks[b] = 1 THEN {b} ELSE {}
  OBVIOUS
<1>5. Cardinality({b}) = 1 /\ Cardinality({}) = 0
  BY FS_Singleton, FS_EmptySet
<1> QED BY <1>3, <1>4, <1>5 DEF Ones

LEMMA PowersMultiply ==
  ASSUME NEW e \in 0 .. 30, NEW d \in 0 .. e
  PROVE  /\ 2 ^ d \in Nat \ {0} /\ 2 ^ (e - d) \in Nat \ {0} /\ 2 ^ e \in Nat \ {0}
         /\ 2 ^ (e - d) * 2 ^ d = 2 ^ e
<1> DEFINE P(x) == 2 ^ x
           S == {j \in 0 .. e : P(e - j) * P(j) = P(e)}
<1>1. \A x \in 0 .. 31 : P(x) \in Nat \ {0} /\ P(x + 1) \in Nat \ {0} /\ P(x + 1) = 2 * P(x)
  BY PowersOfTwo
<1>2. P(0) = 1
  OBVIOUS
<1> HIDE DEF P
<1>3. 0 \in S
  <2>1. P(e) * 1 = P(e)
    BY <1>1
  <2>2. e - 0 = e /\ 0 \in 0 .. e
    OBVIOUS
  <2> QED BY <1>2, <2>1, <2>2
<1>4. ASSUME NEW j \in 1 .. e, j - 1 \in S PROVE j \in S
  <2>1. e - j \in 0 .. 31 /\ j - 1 \in 0 .. 31 /\ e - (j - 1) = (e - j) + 1 /\ (j - 1) + 1 = j
    OBVIOUS
  <2>2. PICK a \in Nat, b \in Nat : a = P(e - j) /\ b = P(j - 1)
    BY <1>1, <2>1
  <2>3. P(e - (j - 1)) = 2 * a /\ P(j) = 2 * b
    BY <1>1, <2>1, <2>2
  <2>4. (2 * a) * b = a * (2 * b)
    OBVIOUS
  <2>5. P(e - (j - 1)) * P(j - 1) = P(e)
    BY <1>4
  <2> QED BY <2>2, <2>3, <2>4, <2>5
<1>5. d \in S
  <2> HIDE DEF S
  <2>1. \A j \in 0 .. e : j \in S
    BY <1>3, <1>4, UpSteps
  <2> QED BY <2>1
<1>6. P(d) \in Nat \ {0} /\ P(e - d) \in Nat \ {0} /\ P(e) \in Nat \ {0} /\ P(e - d) * P(d) = P(e)
  <2>1. d \in 0 .. 31 /\ e - d \in 0 .. 31 /\ e \in 0 .. 31
    OBVIOUS
  <2> QED BY <1>1, <1>5, <2>1
<1> QED BY <1>6 DEF P

\* The sizes of the levels.
LEMMA LevelSizes ==
  ASSUME NEW levels \in 1 .. 30, NEW level \in 0 .. levels
  PROVE  \E w \in Nat \ {0}, all \in Nat \ {0} :
           /\ w = 2 ^ (levels - level) /\ all = 2 ^ levels /\ w <= all
           /\ level = levels => w = 1
           /\ level < levels => \E half \in Nat \ {0} : half = 2 ^ (levels - (level + 1)) /\ w = 2 * half
<1>1. levels \in 0 .. 30
  OBVIOUS
<1>2. PICK w, u, all : w = 2 ^ (levels - level) /\ u = 2 ^ level /\ all = 2 ^ levels
  OBVIOUS
<1>3. w \in Nat \ {0} /\ u \in Nat \ {0} /\ all \in Nat \ {0} /\ w * u = all
  BY <1>1, <1>2, PowersMultiply
<1>4. w <= all
  <2>1. w * u = w + w * (u - 1)
    BY <1>3
  <2>2. w * (u - 1) >= 0
    BY <1>3
  <2> QED BY <1>3, <2>1, <2>2
<1>5. level = levels => w = 1
  <2>1. 2 ^ 0 = 1
    OBVIOUS
  <2>2. level = levels => levels - level = 0
    OBVIOUS
  <2> QED BY <1>2, <2>1, <2>2
<1>6. ASSUME level < levels
      PROVE  \E half \in Nat \ {0} : half = 2 ^ (levels - (level + 1)) /\ w = 2 * half
  <2>1. levels - (level + 1) \in 0 .. 31 /\ (levels - (level + 1)) + 1 = levels - level
    BY <1>6
  <2> QED BY <1>2, <2>1, PowersOfTwo
<1> QED BY <1>2, <1>3, <1>4, <1>5, <1>6

-----------------------------------------------------------------------------
\* Flushing

\* analyses with so many samples and flushes
Analyses(levels, tracked, count, flushes) ==
  [n_samples : {count}, n_flushes : {flushes},
   samples : [0 .. 2 ^ levels - 1 -> [tracked -> Int]],
   bin_sumsq : [0 .. levels -> [tracked -> Int]]]

\* what becomes of value v when sample i of a level is flushed
SampleFlushed(r, acc, levels, level, i, v) ==
  /\ \A l \in 0 .. levels :
       r.bin_sumsq[l][v] =
         acc.bin_sumsq[l][v] + IF l = level THEN acc.samples[i][v] * acc.samples[i][v] ELSE 0
  /\ \A j \in 0 .. 2 ^ levels - 1 :
       r.samples[j][v] =
         IF i % 2 = 0 /\ level < levels /\ j = i \div 2
         THEN acc.samples[i][v] + acc.samples[i + 1][v] ELSE acc.samples[j][v]

LEMMA FlushSampleIs ==
  ASSUME NEW levels \in 1 .. 30, NEW tracked, NEW count, NEW flushes,
         NEW acc \in Analyses(levels, tracked, count, flushes),
         NEW level \in 0 .. levels, NEW w, w = 2 ^ (levels - level), NEW i \in 0 .. w - 1,
         NEW r, r = FlushSample(acc, level, w, i)
  PROVE  /\ r \in Analyses(levels, tracked, count, flushes)
         /\ \A v \in tracked : SampleFlushed(r, acc, levels, level, i, v)
<1>1. PICK all \in Nat \ {0} :
        /\ all = 2 ^ levels /\ w \in Nat \ {0} /\ w <= all
        /\ level = levels => w = 1
        /\ level < levels => \E half \in Nat \ {0} : w = 2 * half
  <2>1. PICK u \in Nat \ {0}, all \in Nat \ {0} :
          /\ u = 2 ^ (levels - level) /\ all = 2 ^ levels /\ u <= all
          /\ level = levels => u = 1
          /\ level < levels =>
               \E half \in Nat \ {0} : half = 2 ^ (levels - (level + 1)) /\ u = 2 * half
    BY LevelSizes, Zenon
  <2>2. w = u
    BY <2>1
  <2> QED BY <2>1, <2>2, Zenon
<1>2. PICK A \in [0 .. all - 1 -> [tracked -> Int]], B \in [0 .. levels -> [tracked -> Int]] :
        acc = [n_samples |-> count, n_flushes |-> flushes, samples |-> A, bin_sumsq |-> B]
  BY <1>1 DEF Analyses
<1>3. i \in 0 .. all - 1 /\ i \in Nat
  BY <1>1
<1>4. PICK row : row = [v \in tracked |-> B[level][v] + A[i][v] * A[i][v]]
  OBVIOUS
<1>5. row \in [tracked -> Int]
  BY <1>3, <1>4
<1>6. PICK C : C = [B EXCEPT ![level] = row]
  OBVIOUS
<1>7. C \in [0 .. levels -> [tracked -> Int]]
  BY <1>5, <1>6
<1>8. PICK mid : mid = [n_samples |-> count, n_flushes |-> flushes, samples |-> A, bin_sumsq |-> C]
  OBVIOUS
<1>9. Squared(acc, level, i) = mid
  <2>1. Squared(acc, level, i) = [acc EXCEPT !.bin_sumsq[level] = row]
    <3>1. DOMAIN B[level] = tracked
      OBVIOUS
    <3> QED BY <1>2, <1>4, <3>1 DEF Squared
  <2> QED BY <1>2, <1>6, <1>8, <2>1
<1>10. r = Halved(mid, w, i)
  BY <1>9 DEF FlushSample
<1>11. ASSUME NEW v \in tracked, NEW l \in 0 .. levels
       PROVE  C[l][v] = B[l][v] + IF l = level THEN A[i][v] * A[i][v] ELSE 0
  <2>1. B[l][v] \in Int
    OBVIOUS
  <2> QED BY <1>4, <1>6, <2>1
<1>12. CASE i % 2 = 0 /\ level < levels
  <2>1. w > 1 /\ i + 1 \in 0 .. all - 1 /\ i \div 2 \in 0 .. all - 1
    <3>1. PICK half \in Nat \ {0} : w = 2 * half
      BY <1>1, <1>12
    <3>2. PICK q \in Nat : q = i \div 2 /\ i = 2 * q
      BY <1>3, <1>12
    <3>3. i < w /\ 2 * q < 2 * half
      BY <3>1, <3>2
    <3>4. q < half /\ i + 1 < w
      BY <3>1, <3>2, <3>3
    <3> QED BY <1>1, <1>3, <3>1, <3>2, <3>4
  <2>2. PICK next : next = [v \in tracked |-> A[i][v] + A[i + 1][v]]
    OBVIOUS
  <2>3. next \in [tracked -> Int]
    BY <1>3, <2>1, <2>2
  <2>4. PICK q \in 0 .. all - 1 : q = i \div 2
    BY <2>1
  <2>5. PICK D : D = [A EXCEPT ![q] = next]
    OBVIOUS
  <2>6. D \in [0 .. all - 1 -> [tracked -> Int]]
    BY <2>3, <2>5
  <2>7. r = [n_samples |-> count, n_flushes |-> flushes, samples |-> D, bin_sumsq |-> C]
    <3>1. DOMAIN A[q] = tracked
      BY <2>4
    <3>2. r = [mid EXCEPT !.samples[q] = next]
      BY <1>8, <1>10, <1>12, <2>1, <2>2, <2>4, <3>1 DEF Halved
    <3> QED BY <1>8, <2>5, <3>2
  <2>8. r \in Analyses(levels, tracked, count, flushes)
    BY <1>1, <1>7, <2>6, <2>7 DEF Analyses
  <2>9. ASSUME NEW v \in tracked, NEW j \in 0 .. all - 1
        PROVE  D[j][v] = IF j = q THEN A[i][v] + A[i + 1][v] ELSE A[j][v]
    BY <2>2, <2>5
  <2> QED BY <1>1, <1>2, <1>11, <1>12, <2>4, <2>7, <2>8, <2>9 DEF SampleFlushed
<1>13. CASE ~(i % 2 = 0 /\ level < levels)
  <2>1. r = mid
    <3>1. ~(i % 2 = 0 /\ w > 1)
      <4>1. CASE level < levels
        BY <1>13, <4>1
      <4>2. CASE level = levels
        BY <1>1, <4>2
      <4> QED BY <4>1, <4>2
    <3> QED BY <1>10, <3>1 DEF Halved
  <2>2. r \in Analyses(levels, tracked, count, flushes)
    BY <1>1, <1>7, <1>8, <2>1 DEF Analyses
  <2>3. r.bin_sumsq = C /\ r.samples = A /\ acc.bin_sumsq = B /\ acc.samples = A
    BY <1>2, <1>8, <2>1
  <2> QED BY <1>1, <1>11, <1>13, <2>2, <2>3 DEF SampleFlushed
<1> QED BY <1>12, <1>13

\* how many blocks of each level have been added up when, of this flush, the first of a
\* level are done
AddedUp(levels, flushes, level, done, l) ==
  flushes * 2 ^ (levels - l) + IF l < level THEN 2 ^ (levels - l) ELSE IF l = level THEN done ELSE 0

\* the state of a flush then
AtBlock(acc, levels, tracked, marks, flushes, level, done) ==
  \A v \in tracked :
    /\ \A l \in 0 .. levels :
         acc.bin_sumsq[l][v] =
           UpTo(SquaresOf(Blocks(marks[v], l)), AddedUp(levels, flushes, level, done, l))
    /\ \A j \in done .. 2 ^ (levels - level) - 1 :
         acc.samples[j][v] = Blocks(marks[v], level)[flushes * 2 ^ (levels - level) + j + 1]
    /\ level < levels =>
         \A j \in Nat : 2 * j < done =>
           acc.samples[j][v] =
             Blocks(marks[v], level + 1)[flushes * 2 ^ (levels - (level + 1)) + j + 1]

LEMMA BlockFlushed ==
  ASSUME NEW levels \in 1 .. 30, NEW tracked, NEW count, NEW flushes \in Nat, NEW marks,
         NEW acc \in Analyses(levels, tracked, count, flushes),
         NEW level \in 0 .. levels, NEW w, w = 2 ^ (levels - level), NEW i \in 0 .. w - 1,
         AtBlock(acc, levels, tracked, marks, flushes, level, i),
         NEW r, r = FlushSample(acc, level, w, i)
  PROVE  AtBlock(r, levels, tracked, marks, flushes, level, i + 1)
<1>1. PICK all \in Nat \ {0} :
        /\ all = 2 ^ levels /\ w \in Nat \ {0} /\ w <= all
        /\ level < levels =>
             \E half \in Nat \ {0} : half = 2 ^ (levels - (level + 1)) /\ w = 2 * half
  <2>1. PICK u \in Nat \ {0}, all \in Nat \ {0} :
          /\ u = 2 ^ (levels - level) /\ all = 2 ^ levels /\ u <= all
          /\ level = levels => u = 1
          /\ level < levels =>
               \E half \in Nat \ {0} : half = 2 ^ (levels - (level + 1)) /\ u = 2 * half
    BY LevelSizes, Zenon
  <2>2. w = u
    BY <2>1
  <2> QED BY <2>1, <2>2, Zenon
<1>2. i \in Nat /\ i < w /\ i + 1 \in Nat
  BY <1>1
<1> SUFFICES ASSUME NEW v \in tracked
             PROVE  /\ \A l \in 0 .. levels :
                         r.bin_sumsq[l][v] =
                           UpTo(SquaresOf(Blocks(marks[v], l)), AddedUp(levels, flushes, level, i + 1, l))
                    /\ \A j \in i + 1 .. 2 ^ (levels - level) - 1 :
                         r.samples[j][v] = Blocks(marks[v], level)[flushes * 2 ^ (levels - level) + j + 1]
                    /\ level < levels =>
                         \A j \in Nat : 2 * j < i + 1 =>
                           r.samples[j][v] =
                             Blocks(marks[v], level + 1)[flushes * 2 ^ (levels - (level + 1)) + j + 1]
  BY DEF AtBlock
<1>3. PICK m : m = marks[v]
  OBVIOUS
<1>4. PICK B \in [Nat -> Nat] : B = Blocks(m, level)
  <2>1. level \in 0 .. 30
    OBVIOUS
  <2> QED BY <2>1, BlocksAre
<1>5. PICK sums, before, after : sums = acc.bin_sumsq /\ before = acc.samples /\ after = r.samples
  OBVIOUS
<1>6. /\ \A l \in 0 .. levels :
           sums[l][v] = UpTo(SquaresOf(Blocks(m, l)), AddedUp(levels, flushes, level, i, l))
      /\ \A j \in i .. w - 1 : before[j][v] = B[flushes * w + j + 1]
      /\ level < levels =>
           \A j \in Nat : 2 * j < i =>
             before[j][v] = Blocks(m, level + 1)[flushes * 2 ^ (levels - (level + 1)) + j + 1]
  BY <1>3, <1>4, <1>5 DEF AtBlock
<1>7. /\ \A l \in 0 .. levels :
           r.bin_sumsq[l][v] = sums[l][v] + IF l = level THEN before[i][v] * before[i][v] ELSE 0
      /\ \A j \in 0 .. all - 1 :
           after[j][v] = IF i % 2 = 0 /\ level < levels /\ j = i \div 2
                         THEN before[i][v] + before[i + 1][v] ELSE before[j][v]
  <2>1. SampleFlushed(r, acc, levels, level, i, v)
    BY FlushSampleIs
  <2> QED BY <1>1, <1>5, <2>1, Zenon DEF SampleFlushed
<1>8. before[i][v] = B[flushes * w + i + 1]
  <2>1. i \in i .. w - 1
    BY <1>2
  <2> QED BY <1>6, <2>1
<1>9. ASSUME NEW l \in 0 .. levels
      PROVE  r.bin_sumsq[l][v] = UpTo(SquaresOf(Blocks(m, l)), AddedUp(levels, flushes, level, i + 1, l))
  <2>1. PICK h : h = SquaresOf(Blocks(m, l))
    OBVIOUS
  <2>2. h \in [Nat -> Int]
    <3>1. l \in 0 .. 30
      OBVIOUS
    <3> QED BY <2>1, <3>1, BlocksAre
  <2>3. CASE l = level
    <3>1. PICK at \in Nat : at = flushes * w + i
      BY <1>1, <1>2
    <3>2. AddedUp(levels, flushes, level, i, l) = at /\ AddedUp(levels, flushes, level, i + 1, l) = at + 1
      <4>1. flushes * w + (i + 1) = at + 1
        <5>1. flushes * w \in Nat
          BY <1>1
        <5> QED BY <1>2, <3>1, <5>1
      <4> QED BY <2>3, <3>1, <4>1 DEF AddedUp
    <3>3. h[at + 1] = B[at + 1] * B[at + 1]
      <4>1. at + 1 \in Nat
        BY <3>1
      <4> QED BY <1>4, <2>1, <2>3, <4>1 DEF SquaresOf
    <3>4. sums[l][v] = UpTo(h, at) /\ r.bin_sumsq[l][v] = sums[l][v] + B[at + 1] * B[at + 1]
      BY <1>6, <1>7, <1>8, <2>1, <2>3, <3>1, <3>2
    <3>5. UpTo(h, at + 1) = UpTo(h, at) + h[at + 1]
      BY <2>2, UpToIs
    <3> QED BY <2>1, <3>2, <3>3, <3>4, <3>5
  <2>4. CASE l # level
    <3>1. PICK at : at = AddedUp(levels, flushes, level, i, l) /\ at = AddedUp(levels, flushes, level, i + 1, l)
      BY <2>4 DEF AddedUp
    <3>2. at \in Nat
      <4>1. levels \in 0 .. 30 /\ levels - l \in 0 .. levels
        OBVIOUS
      <4>2. 2 ^ (levels - l) \in Nat
        BY <4>1, PowersMultiply
      <4> QED BY <2>4, <3>1, <4>2 DEF AddedUp
    <3>3. UpTo(h, at) \in Int
      BY <2>2, <3>2, UpToIs
    <3>4. sums[l][v] = UpTo(h, at) /\ r.bin_sumsq[l][v] = sums[l][v] + 0
      BY <1>6, <1>7, <2>1, <2>4, <3>1
    <3> QED BY <2>1, <3>1, <3>3, <3>4
  <2> QED BY <2>3, <2>4
<1>10. ASSUME NEW j \in i + 1 .. w - 1
       PROVE  after[j][v] = B[flushes * w + j + 1]
  <2>1. j \in 0 .. all - 1 /\ j \in i .. w - 1 /\ j # i \div 2
    BY <1>1, <1>2
  <2> QED BY <1>6, <1>7, <2>1
<1>11. ASSUME level < levels, NEW j \in Nat, 2 * j < i + 1
       PROVE  after[j][v] = Blocks(m, level + 1)[flushes * 2 ^ (levels - (level + 1)) + j + 1]
  <2>1. PICK half \in Nat \ {0} : half = 2 ^ (levels - (level + 1)) /\ w = 2 * half
    BY <1>1, <1>11
  <2>2. j \in 0 .. all - 1
    BY <1>1, <1>2, <1>11
  <2>3. PICK q, rest : q = i \div 2 /\ rest = i % 2
    OBVIOUS
  <2>4. q \in Nat /\ rest \in {0, 1} /\ i = 2 * q + rest
    BY <1>2, <2>3
  <2>5. CASE rest = 0 /\ j = q
    <3>1. i + 1 \in i .. w - 1
      BY <1>2, <2>1, <2>4, <2>5
    <3>2. after[j][v] = before[i][v] + before[i + 1][v]
      BY <1>7, <1>11, <2>2, <2>3, <2>5
    <3>3. before[i + 1][v] = B[flushes * w + (i + 1) + 1]
      BY <1>6, <3>1
    <3>4. PICK b \in Nat \ {0} : b = flushes * half + j + 1
      BY <2>1
    <3>5. flushes * w + i + 1 = 2 * b - 1 /\ flushes * w + (i + 1) + 1 = 2 * b
      <4>1. flushes * w = 2 * (flushes * half) /\ flushes * half \in Nat
        BY <2>1
      <4> QED BY <1>2, <2>4, <2>5, <3>4, <4>1
    <3>6. Blocks(m, level + 1)[b] = B[2 * b - 1] + B[2 * b]
      <4>1. level \in 0 .. 29
        BY <1>11
      <4> QED BY <1>4, <4>1, BlocksJoin
    <3> QED BY <1>8, <2>1, <3>2, <3>3, <3>4, <3>5, <3>6
  <2>6. CASE ~(rest = 0 /\ j = q)
    <3>1. 2 * j < i
      BY <1>2, <1>11, <2>4, <2>6
    <3>2. after[j][v] = before[j][v]
      BY <1>7, <2>2, <2>3, <2>6
    <3> QED BY <1>6, <1>11, <3>1, <3>2
  <2> QED BY <2>5, <2>6
<1> QED BY <1>3, <1>4, <1>5, <1>9, <1>10, <1>11

\* The next level starts where this one ends.
LEMMA LevelFlushed ==
  ASSUME NEW levels \in 1 .. 30, NEW tracked, NEW flushes \in Nat, NEW marks, NEW acc,
         NEW level \in 0 .. levels - 1,
         AtBlock(acc, levels, tracked, marks, flushes, level, 2 ^ (levels - level))
  PROVE  AtBlock(acc, levels, tracked, marks, flushes, level + 1, 0)
<1>1. PICK w \in Nat \ {0}, half \in Nat \ {0} :
        w = 2 ^ (levels - level) /\ half = 2 ^ (levels - (level + 1)) /\ w = 2 * half
  <2>1. PICK u \in Nat \ {0}, all \in Nat \ {0} :
          /\ u = 2 ^ (levels - level) /\ all = 2 ^ levels /\ u <= all
          /\ level = levels => u = 1
          /\ level < levels =>
               \E half \in Nat \ {0} : half = 2 ^ (levels - (level + 1)) /\ u = 2 * half
    <3>1. level \in 0 .. levels
      OBVIOUS
    <3> QED BY <3>1, LevelSizes, Zenon
  <2>2. level < levels
    OBVIOUS
  <2> QED BY <2>1, <2>2, Zenon
<1> SUFFICES ASSUME NEW v \in tracked
             PROVE  /\ \A l \in 0 .. levels :
                         acc.bin_sumsq[l][v] =
                           UpTo(SquaresOf(Blocks(marks[v], l)), AddedUp(levels, flushes, level + 1, 0, l))
                    /\ \A j \in 0 .. half - 1 :
                         acc.samples[j][v] = Blocks(marks[v], level + 1)[flushes * half + j + 1]
                    /\ level + 1 < levels =>
                         \A j \in Nat : 2 * j < 0 =>
                           acc.samples[j][v] =
                             Blocks(marks[v], level + 2)[flushes * 2 ^ (levels - (level + 2)) + j + 1]
  <2>1. level + 1 + 1 = level + 2
    OBVIOUS
  <2> QED BY <1>1, <2>1 DEF AtBlock
<1>2. /\ \A l \in 0 .. levels :
           acc.bin_sumsq[l][v] = UpTo(SquaresOf(Blocks(marks[v], l)), AddedUp(levels, flushes, level, w, l))
      /\ \A j \in Nat : 2 * j < w =>
           acc.samples[j][v] = Blocks(marks[v], level + 1)[flushes * half + j + 1]
  BY <1>1 DEF AtBlock
<1>3. ASSUME NEW l \in 0 .. levels
      PROVE  AddedUp(levels, flushes, level, w, l) = AddedUp(levels, flushes, level + 1, 0, l)
  <2>1. CASE l < level
    BY <2>1 DEF AddedUp
  <2>2. CASE l = level
    BY <1>1, <2>2 DEF AddedUp
  <2>3. CASE l > level
    BY <2>3 DEF AddedUp
  <2> QED BY <2>1, <2>2, <2>3
<1>4. \A j \in 0 .. half - 1 : 2 * j < w /\ j \in Nat
  BY <1>1
<1>5. \A j \in Nat : ~(2 * j < 0)
  OBVIOUS
<1> QED BY <1>2, <1>3, <1>4, <1>5

LevelSteps(p, acc, levels, level) ==
  /\ p[0] = acc /\ FlushLevel(acc, levels, level) = p[2 ^ (levels - level)]
  /\ \A i \in 1 .. 2 ^ (levels - level) :
       p[i] = FlushSample(p[i - 1], level, 2 ^ (levels - level), i - 1)

LEMMA LevelStepsExist ==
  ASSUME NEW levels \in 1 .. 30, NEW tracked, NEW count, NEW flushes \in Nat,
         NEW acc \in Analyses(levels, tracked, count, flushes), NEW level \in 0 .. levels
  PROVE  \E p : LevelSteps(p, acc, levels, level)
<1> DEFINE w == 2 ^ (levels - level)
           Y == Analyses(levels, tracked, count, flushes)
           seq == [i \in DOMAIN [i \in 1 .. w |-> i] |-> i]
           D == DOMAIN seq
           g == [jy \in (1 .. w) \X Y |-> FlushSample(jy[2], level, w, jy[1] - 1)]
           Folds(iter) == iter = [s \in SUBSET D |->
                                    IF s = {} THEN acc
                                    ELSE FlushSample(iter[s \ {Max(s)}], level, w, seq[Max(s)] - 1)]
<1>1. D = 1 .. w /\ \A i \in 1 .. w : seq[i] = i
  OBVIOUS
<1>2. w \in Nat \ {0}
  <2>1. levels - level \in 0 .. 31
    OBVIOUS
  <2> QED BY <2>1, PowersOfTwo
<1>3. \E iter : Folds(iter)
  <2>1. ASSUME NEW i \in 1 .. w, NEW y \in Y PROVE FlushSample(y, level, w, i - 1) \in Y
    <3>1. PICK u, j, r : u = w /\ j = i - 1 /\ r = FlushSample(y, level, u, j)
      OBVIOUS
    <3>2. j \in 0 .. u - 1
      BY <1>2, <3>1
    <3>3. u = 2 ^ (levels - level)
      BY <3>1
    <3> HIDE DEF w
    <3>4. r \in Analyses(levels, tracked, count, flushes)
      BY <3>1, <3>2, <3>3, FlushSampleIs
    <3> QED BY <3>1, <3>4
  <2>2. g \in [(1 .. w) \X Y -> Y]
    BY <2>1
  <2>3. \A i \in 1 .. w, y \in Y : g[<<i, y>>] = FlushSample(y, level, w, i - 1)
    OBVIOUS
  <2>4. acc \in Y
    OBVIOUS
  <2> HIDE DEF g, w, Y
  <2>5. PICK iter \in [SUBSET (1 .. w) -> Y] : FoldsLeft(iter, w, acc, g)
    BY <1>2, <2>2, <2>4, LeftFold
  <2> HIDE DEF seq
  <2>6. ASSUME NEW s \in SUBSET (1 .. w)
        PROVE  iter[s] = IF s = {} THEN acc
                         ELSE FlushSample(iter[s \ {Max(s)}], level, w, seq[Max(s)] - 1)
    <3>1. CASE s = {}
      BY <2>5, <3>1 DEF FoldsLeft
    <3>2. CASE s # {}
      <4>1. PICK x \in 1 .. w : x = Max(s)
        BY <1>2, <3>2, Largest
      <4>2. iter[s] = g[<<x, iter[s \ {x}]>>] /\ iter[s \ {x}] \in Y
        BY <2>5, <3>2, <4>1 DEF FoldsLeft
      <4>3. iter[s] = FlushSample(iter[s \ {x}], level, w, x - 1) /\ seq[x] = x
        BY <1>1, <2>3, <4>2
      <4> QED BY <3>2, <4>1, <4>3
    <3> QED BY <3>1, <3>2
  <2>7. iter = [s \in SUBSET (1 .. w) |->
                  IF s = {} THEN acc
                  ELSE FlushSample(iter[s \ {Max(s)}], level, w, seq[Max(s)] - 1)]
    BY <2>5, <2>6
  <2>8. Folds(iter)
    BY <1>1, <2>7
  <2> HIDE DEF Folds
  <2> QED BY <2>8
<1>4. PICK iter : Folds(iter) /\ FlushLevel(acc, levels, level) = iter[D]
  BY <1>3 DEF FlushLevel, FoldLeftDomain, FoldLeft, MapThenFoldSet
<1> DEFINE p == [i \in 0 .. w |-> iter[1 .. i]]
<1>5. p[0] = acc /\ FlushLevel(acc, levels, level) = p[w]
  <2>1. 1 .. 0 = {} /\ {} \in SUBSET D /\ 0 \in 0 .. w /\ w \in 0 .. w
    BY <1>1, <1>2
  <2> HIDE DEF w, seq
  <2> QED BY <1>1, <1>4, <2>1
<1>6. ASSUME NEW i \in 1 .. w
      PROVE  p[i] = FlushSample(p[i - 1], level, w, i - 1)
  <2>1. (1 .. i) \in SUBSET D /\ i \in Nat \ {0} /\ i - 1 \in 0 .. w
    BY <1>1, <1>2
  <2>2. Max(1 .. i) = i /\ (1 .. i) \ {i} = 1 .. i - 1 /\ (1 .. i) # {}
    BY <2>1, MaxUpTo
  <2>3. seq[i] = i
    BY <1>1
  <2> HIDE DEF w, seq
  <2>4. iter[1 .. i] = FlushSample(iter[(1 .. i) \ {Max(1 .. i)}], level, w, seq[Max(1 .. i)] - 1)
    BY <1>4, <2>1, <2>2
  <2>5. iter[1 .. i] = FlushSample(iter[1 .. i - 1], level, w, i - 1)
    BY <2>2, <2>3, <2>4
  <2>6. p[i] = iter[1 .. i] /\ p[i - 1] = iter[1 .. i - 1]
    BY <2>1
  <2> HIDE DEF p
  <2> QED BY <2>5, <2>6
<1> HIDE DEF p, seq
<1> QED BY <1>5, <1>6 DEF LevelSteps

\* All blocks of a level.
LEMMA FlushLevelIs ==
  ASSUME NEW levels \in 1 .. 30, NEW tracked, NEW count, NEW flushes \in Nat, NEW marks,
         NEW acc \in Analyses(levels, tracked, count, flushes), NEW level \in 0 .. levels
  PROVE  /\ FlushLevel(acc, levels, level) \in Analyses(levels, tracked, count, flushes)
         /\ AtBlock(acc, levels, tracked, marks, flushes, level, 0) =>
              AtBlock(FlushLevel(acc, levels, level), levels, tracked, marks, flushes, level,
                      2 ^ (levels - level))
<1>1. PICK w \in Nat \ {0} : w = 2 ^ (levels - level)
  <2>1. levels - level \in 0 .. 31
    OBVIOUS
  <2> QED BY <2>1, PowersOfTwo
<1>2. PICK p : LevelSteps(p, acc, levels, level)
  BY LevelStepsExist
<1>3. /\ p[0] = acc /\ FlushLevel(acc, levels, level) = p[w]
      /\ \A i \in 1 .. w : p[i] = FlushSample(p[i - 1], level, w, i - 1)
  BY <1>1, <1>2 DEF LevelSteps
<1> DEFINE Y == Analyses(levels, tracked, count, flushes)
           At(i) == AtBlock(p[i], levels, tracked, marks, flushes, level, i)
           S == {i \in 0 .. w : p[i] \in Y /\ (At(0) => At(i))}
<1>4. 0 \in S
  BY <1>1, <1>3
<1>5. ASSUME NEW i \in 1 .. w, i - 1 \in S PROVE i \in S
  <2>1. PICK j \in 0 .. w - 1 : j = i - 1 /\ i = j + 1
    BY <1>1
  <2>2. PICK a, r : a = p[j] /\ r = p[i] /\ a \in Analyses(levels, tracked, count, flushes)
    BY <1>5, <2>1
  <2>3. r = FlushSample(a, level, w, j)
    BY <1>3, <2>1, <2>2
  <2>4. r \in Y
    BY <1>1, <2>2, <2>3, FlushSampleIs
  <2>5. ASSUME At(0) PROVE At(i)
    <3>1. AtBlock(a, levels, tracked, marks, flushes, level, j)
      BY <1>5, <2>1, <2>2, <2>5
    <3>2. AtBlock(r, levels, tracked, marks, flushes, level, j + 1)
      BY <1>1, <2>2, <2>3, <3>1, BlockFlushed
    <3> QED BY <2>1, <2>2, <3>2
  <2> HIDE DEF At, Y
  <2> QED BY <2>2, <2>4, <2>5
<1>6. w \in S
  <2> HIDE DEF S
  <2>1. \A i \in 0 .. w : i \in S
    BY <1>1, <1>4, <1>5, UpSteps
  <2> QED BY <1>1, <2>1
<1> QED BY <1>1, <1>3, <1>6

FlushSteps(p, acc, levels) ==
  /\ p[0] = acc /\ Flush(acc, levels) = [p[levels + 1] EXCEPT !.n_flushes = @ + 1]
  /\ \A i \in 1 .. levels + 1 : p[i] = FlushLevel(p[i - 1], levels, i - 1)

LEMMA FlushStepsExist ==
  ASSUME NEW levels \in 1 .. 30, NEW tracked, NEW count, NEW flushes \in Nat,
         NEW acc \in Analyses(levels, tracked, count, flushes)
  PROVE  \E p : FlushSteps(p, acc, levels)
<1> DEFINE w == levels + 1
           Y == Analyses(levels, tracked, count, flushes)
           seq == [i \in DOMAIN [i \in 1 .. levels + 1 |-> i] |-> i]
           D == DOMAIN seq
           g == [jy \in (1 .. w) \X Y |-> FlushLevel(jy[2], levels, jy[1] - 1)]
           Folds(iter) == iter = [s \in SUBSET D |->
                                    IF s = {} THEN acc
                                    ELSE FlushLevel(iter[s \ {Max(s)}], levels, seq[Max(s)] - 1)]
<1>1. D = 1 .. w /\ \A i \in 1 .. w : seq[i] = i
  OBVIOUS
<1>2. w \in Nat \ {0}
  OBVIOUS
<1>3. \E iter : Folds(iter)
  <2>1. ASSUME NEW i \in 1 .. w, NEW y \in Y PROVE FlushLevel(y, levels, i - 1) \in Y
    <3>1. PICK j \in 0 .. levels : j = i - 1
      OBVIOUS
    <3>2. FlushLevel(y, levels, j) \in Analyses(levels, tracked, count, flushes)
      BY FlushLevelIs
    <3> QED BY <3>1, <3>2
  <2>2. g \in [(1 .. w) \X Y -> Y]
    BY <2>1
  <2>3. \A i \in 1 .. w, y \in Y : g[<<i, y>>] = FlushLevel(y, levels, i - 1)
    OBVIOUS
  <2>4. acc \in Y
    OBVIOUS
  <2> HIDE DEF g, w, Y
  <2>5. PICK iter \in [SUBSET (1 .. w) -> Y] : FoldsLeft(iter, w, acc, g)
    BY <1>2, <2>2, <2>4, LeftFold
  <2> HIDE DEF seq
  <2>6. ASSUME NEW s \in SUBSET (1 .. w)
        PROVE  iter[s] = IF s = {} THEN acc
                         ELSE FlushLevel(iter[s \ {Max(s)}], levels, seq[Max(s)] - 1)
    <3>1. CASE s = {}
      BY <2>5, <3>1 DEF FoldsLeft
    <3>2. CASE s # {}
      <4>1. PICK x \in 1 .. w : x = Max(s)
        BY <1>2, <3>2, Largest
      <4>2. iter[s] = g[<<x, iter[s \ {x}]>>] /\ iter[s \ {x}] \in Y
        BY <2>5, <3>2, <4>1 DEF FoldsLeft
      <4>3. iter[s] = FlushLevel(iter[s \ {x}], levels, x - 1) /\ seq[x] = x
        BY <1>1, <2>3, <4>2
      <4> QED BY <3>2, <4>1, <4>3
    <3> QED BY <3>1, <3>2
  <2>7. iter = [s \in SUBSET (1 .. w) |->
                  IF s = {} THEN acc
                  ELSE FlushLevel(iter[s \ {Max(s)}], levels, seq[Max(s)] - 1)]
    BY <2>5, <2>6
  <2>8. Folds(iter)
    BY <1>1, <2>7
  <2> HIDE DEF Folds
  <2> QED BY <2>8
<1>4. PICK iter : Folds(iter) /\ Flush(acc, levels) = [iter[D] EXCEPT !.n_flushes = @ + 1]
  BY <1>3 DEF Flush, FoldLeftDomain, FoldLeft, MapThenFoldSet
<1> DEFINE p == [i \in 0 .. w |-> iter[1 .. i]]
<1>5. p[0] = acc /\ p[w] = iter[D]
  <2>1. 1 .. 0 = {} /\ {} \in SUBSET D /\ 0 \in 0 .. w /\ w \in 0 .. w
    BY <1>1, <1>2
  <2> HIDE DEF w, seq
  <2> QED BY <1>1, <1>4, <2>1
<1>6. ASSUME NEW i \in 1 .. w
      PROVE  p[i] = FlushLevel(p[i - 1], levels, i - 1)
  <2>1. (1 .. i) \in SUBSET D /\ i \in Nat \ {0} /\ i - 1 \in 0 .. w
    BY <1>1, <1>2
  <2>2. Max(1 .. i) = i /\ (1 .. i) \ {i} = 1 .. i - 1 /\ (1 .. i) # {}
    BY <2>1, MaxUpTo
  <2>3. seq[i] = i
    BY <1>1
  <2> HIDE DEF w, seq
  <2>4. iter[1 .. i] = FlushLevel(iter[(1 .. i) \ {Max(1 .. i)}], levels, seq[Max(1 .. i)] - 1)
    BY <1>4, <2>1, <2>2
  <2>5. iter[1 .. i] = FlushLevel(iter[1 .. i - 1], levels, i - 1)
    BY <2>2, <2>3, <2>4
  <2>6. p[i] = iter[1 .. i] /\ p[i - 1] = iter[1 .. i - 1]
    BY <2>1
  <2> HIDE DEF p
  <2> QED BY <2>5, <2>6
<1> HIDE DEF p, seq
<1> QED BY <1>4, <1>5, <1>6 DEF FlushSteps

\* all levels of so many flushes are added up
SumsAre(ba, levels, tracked, marks, flushes) ==
  \A v \in tracked, l \in 0 .. levels :
    ba.bin_sumsq[l][v] = UpTo(SquaresOf(Blocks(marks[v], l)), flushes * 2 ^ (levels - l))

\* A flush adds up the blocks that are complete, at all levels.
LEMMA FlushIs ==
  ASSUME NEW levels \in 1 .. 30, NEW tracked, NEW count, NEW flushes \in Nat, NEW marks,
         NEW acc \in Analyses(levels, tracked, count, flushes),
         AtBlock(acc, levels, tracked, marks, flushes, 0, 0)
  PROVE  /\ Flush(acc, levels) \in Analyses(levels, tracked, count, flushes + 1)
         /\ SumsAre(Flush(acc, levels), levels, tracked, marks, flushes + 1)
<1>1. PICK p : FlushSteps(p, acc, levels)
  BY FlushStepsExist
<1>2. /\ p[0] = acc /\ Flush(acc, levels) = [p[levels + 1] EXCEPT !.n_flushes = @ + 1]
      /\ \A i \in 1 .. levels + 1 : p[i] = FlushLevel(p[i - 1], levels, i - 1)
  BY <1>1 DEF FlushSteps
<1> DEFINE At(i) == AtBlock(p[i], levels, tracked, marks, flushes, i, 0)
           After(i) == AtBlock(p[i], levels, tracked, marks, flushes, i - 1, 2 ^ (levels - (i - 1)))
           S == {i \in 0 .. levels + 1 :
                  /\ p[i] \in Analyses(levels, tracked, count, flushes)
                  /\ IF i = levels + 1 THEN After(i) ELSE At(i)}
<1>3. 0 \in S
  BY <1>2
<1>4. ASSUME NEW i \in 1 .. levels + 1, i - 1 \in S PROVE i \in S
  <2>1. PICK j \in 0 .. levels : j = i - 1 /\ i = j + 1
    OBVIOUS
  <2>2. PICK a, r : a = p[j] /\ r = p[i]
    OBVIOUS
  <2>3. /\ a \in Analyses(levels, tracked, count, flushes)
        /\ AtBlock(a, levels, tracked, marks, flushes, j, 0)
    BY <1>4, <2>1, <2>2
  <2>4. r = FlushLevel(a, levels, j)
    BY <1>2, <2>1, <2>2
  <2>5. /\ r \in Analyses(levels, tracked, count, flushes)
        /\ AtBlock(r, levels, tracked, marks, flushes, j, 2 ^ (levels - j))
    BY <2>3, <2>4, FlushLevelIs
  <2>6. ASSUME j < levels PROVE AtBlock(r, levels, tracked, marks, flushes, j + 1, 0)
    <3>1. j \in 0 .. levels - 1
      BY <2>6
    <3> QED BY <2>5, <3>1, LevelFlushed
  <2> QED BY <2>1, <2>2, <2>5, <2>6
<1>5. levels + 1 \in S
  <2>1. levels + 1 \in Nat
    OBVIOUS
  <2> HIDE DEF S
  <2>2. \A i \in 0 .. levels + 1 : i \in S
    BY <1>3, <1>4, <2>1, UpSteps
  <2> QED BY <2>2
<1>6. PICK a \in Analyses(levels, tracked, count, flushes) : a = p[levels + 1]
  BY <1>5
<1>7. AtBlock(a, levels, tracked, marks, flushes, levels, 1)
  <2>1. levels + 1 - 1 = levels /\ levels - levels = 0 /\ 2 ^ 0 = 1
    OBVIOUS
  <2> QED BY <1>5, <1>6, <2>1
<1>8. PICK r : r = Flush(acc, levels)
  OBVIOUS
<1>9. r = [a EXCEPT !.n_flushes = @ + 1]
  BY <1>2, <1>6, <1>8
<1>10. r \in Analyses(levels, tracked, count, flushes + 1) /\ r.bin_sumsq = a.bin_sumsq
  BY <1>6, <1>9 DEF Analyses
<1>11. ASSUME NEW v \in tracked, NEW l \in 0 .. levels
       PROVE  r.bin_sumsq[l][v] = UpTo(SquaresOf(Blocks(marks[v], l)), (flushes + 1) * 2 ^ (levels - l))
  <2>1. r.bin_sumsq[l][v] = UpTo(SquaresOf(Blocks(marks[v], l)), AddedUp(levels, flushes, levels, 1, l))
    BY <1>7, <1>10 DEF AtBlock
  <2>2. AddedUp(levels, flushes, levels, 1, l) = (flushes + 1) * 2 ^ (levels - l)
    <3>1. PICK w \in Nat : w = 2 ^ (levels - l)
      <4>1. levels - l \in 0 .. 31
        OBVIOUS
      <4> QED BY <4>1, PowersOfTwo
    <3>2. l = levels => w = 1
      <4>1. l = levels => levels - l = 0
        OBVIOUS
      <4>2. 2 ^ 0 = 1
        OBVIOUS
      <4> QED BY <3>1, <4>1, <4>2
    <3>3. (flushes + 1) * w = flushes * w + w
      BY <3>1
    <3>4. l < levels \/ l = levels
      OBVIOUS
    <3> QED BY <3>1, <3>2, <3>3, <3>4 DEF AddedUp
  <2> QED BY <2>1, <2>2
<1> QED BY <1>8, <1>10, <1>11 DEF SumsAre

\* what an analysis of count samples holds
AnalysisOf(ba, levels, tracked, marks, count) ==
  /\ ba \in Analyses(levels, tracked, count, count \div 2 ^ levels)
  /\ \A v \in tracked : \A j \in 1 .. count % 2 ^ levels :
       ba.samples[j - 1][v] = Blocks(marks[v], 0)[count - (count % 2 ^ levels) + j]
  /\ SumsAre(ba, levels, tracked, marks, count \div 2 ^ levels)

\* One more sample.
LEMMA ProcessNewValuesIs ==
  ASSUME NEW levels \in 1 .. 30, NEW tracked, NEW marks, NEW count \in Nat, NEW ba,
         AnalysisOf(ba, levels, tracked, marks, count), NEW vals \in [tracked -> Int],
         \A v \in tracked : vals[v] = Blocks(marks[v], 0)[count + 1]
  PROVE  AnalysisOf(ProcessNewValues(ba, levels, vals), levels, tracked, marks, count + 1)
<1>1. PICK size \in Nat \ {0} : size = 2 ^ levels
  <2>1. levels \in 0 .. 31
    OBVIOUS
  <2> QED BY <2>1, PowersOfTwo
<1>2. PICK f, r : f = count \div size /\ r = count % size
  OBVIOUS
<1>3. f \in Nat /\ r \in 0 .. size - 1 /\ count = size * f + r
  <2>1. f \in Int /\ r \in 0 .. size - 1 /\ count = size * f + r
    <3>1. count \in Int
      OBVIOUS
    <3> QED BY <1>2, <3>1, Division
  <2>2. f >= 0
    <3>1. f <= -1 => size * f <= size * (-1)
      BY <2>1
    <3> QED BY <2>1, <3>1
  <2> QED BY <2>1, <2>2
<1>4. /\ ba \in Analyses(levels, tracked, count, f)
      /\ \A v \in tracked :
           /\ \A j \in 1 .. r : ba.samples[j - 1][v] = Blocks(marks[v], 0)[count - r + j]
           /\ \A l \in 0 .. levels :
                ba.bin_sumsq[l][v] = UpTo(SquaresOf(Blocks(marks[v], l)), f * 2 ^ (levels - l))
  BY <1>1, <1>2 DEF AnalysisOf, SumsAre
<1>5. PICK A \in [0 .. size - 1 -> [tracked -> Int]], B \in [0 .. levels -> [tracked -> Int]] :
        ba = [n_samples |-> count, n_flushes |-> f, samples |-> A, bin_sumsq |-> B]
  BY <1>1, <1>4 DEF Analyses
<1>6. PICK D : D = [A EXCEPT ![r] = vals]
  OBVIOUS
<1>7. PICK stored :
        stored = [n_samples |-> count + 1, n_flushes |-> f, samples |-> D, bin_sumsq |-> B]
  OBVIOUS
<1>8. ProcessNewValues(ba, levels, vals) = IF r = size - 1 THEN Flush(stored, levels) ELSE stored
  <2>1. ba.n_samples % SamplesSize(levels) = r /\ SamplesSize(levels) = size
    BY <1>1, <1>2, <1>5 DEF SamplesSize
  <2>2. PICK one : one = [n_samples |-> count + 1, n_flushes |-> f, samples |-> A, bin_sumsq |-> B]
    OBVIOUS
  <2>3. [ba EXCEPT !.n_samples = @ + 1] = one
    BY <1>5, <2>2
  <2>4. [one EXCEPT !.samples[r] = vals] = [one EXCEPT !.samples = [one.samples EXCEPT ![r] = vals]]
    BY Zenon
  <2>5. one.samples = A
    BY <2>2
  <2>6. [one EXCEPT !.samples = D] = stored
    BY <1>7, <2>2
  <2>7. [ba EXCEPT !.n_samples = @ + 1, !.samples[r] = vals] = stored
    BY <1>6, <2>3, <2>4, <2>5, <2>6, Zenon
  <2>8. ProcessNewValues(ba, levels, vals)
          = IF ba.n_samples % SamplesSize(levels) = SamplesSize(levels) - 1
            THEN Flush([ba EXCEPT !.n_samples = @ + 1,
                                  !.samples[ba.n_samples % SamplesSize(levels)] = vals], levels)
            ELSE [ba EXCEPT !.n_samples = @ + 1,
                            !.samples[ba.n_samples % SamplesSize(levels)] = vals]
    BY Zenon DEF ProcessNewValues
  <2> QED BY <2>1, <2>7, <2>8, Zenon
<1>9. D \in [0 .. size - 1 -> [tracked -> Int]]
  BY <1>3, <1>6
<1>10. stored \in Analyses(levels, tracked, count + 1, f)
  BY <1>1, <1>7, <1>9 DEF Analyses
<1>11. ASSUME NEW v \in tracked
       PROVE  /\ \A j \in 0 .. r : D[j][v] = Blocks(marks[v], 0)[f * size + j + 1]
              /\ \A l \in 0 .. levels :
                   B[l][v] = UpTo(SquaresOf(Blocks(marks[v], l)), f * 2 ^ (levels - l))
  <2>1. count - r = f * size
    <3>1. size * f = f * size /\ size * f \in Int
      BY <1>3
    <3> QED BY <1>3, <3>1
  <2>2. ASSUME NEW j \in 0 .. r PROVE D[j][v] = Blocks(marks[v], 0)[f * size + j + 1]
    <3>1. CASE j = r
      <4>1. f * size + j + 1 = count + 1
        <5>1. f * size \in Int
          BY <1>3
        <5> QED BY <1>3, <2>1, <3>1, <5>1
      <4> QED BY <1>3, <1>6, <3>1, <4>1
    <3>2. CASE j # r
      <4>1. PICK i \in 1 .. r : i = j + 1 /\ i - 1 = j
        BY <1>3, <3>2
      <4>2. D[j][v] = A[j][v] /\ j \in 0 .. size - 1
        BY <1>3, <1>6, <3>2
      <4>3. A[i - 1][v] = Blocks(marks[v], 0)[count - r + i]
        BY <1>4, <1>5
      <4>4. f * size + j + 1 = f * size + i
        <5>1. f * size \in Int
          BY <1>3
        <5> QED BY <4>1, <5>1
      <4> QED BY <2>1, <4>1, <4>2, <4>3, <4>4
    <3> QED BY <3>1, <3>2
  <2>3. \A l \in 0 .. levels :
          B[l][v] = UpTo(SquaresOf(Blocks(marks[v], l)), f * 2 ^ (levels - l))
    BY <1>4, <1>5
  <2> QED BY <2>2, <2>3
<1>12. CASE r # size - 1
  <2>1. PICK c \in Nat : c = count + 1
    OBVIOUS
  <2>2. c \div size = f /\ c % size = r + 1 /\ c - (c % size) = f * size
    <3>1. size * f <= c /\ c < size * (f + 1)
      <4>1. size * (f + 1) = size * f + size /\ size * f \in Int
        BY <1>3
      <4> QED BY <1>3, <1>12, <2>1, <4>1
    <3>2. c \div size = f
      <4>1. c \in Int /\ f \in Int
        BY <1>3
      <4> QED BY <3>1, <4>1, PartOf
    <3>3. c = size * (c \div size) + (c % size) /\ c % size \in Int
      <4>1. c \in Int
        OBVIOUS
      <4> QED BY <4>1, Division
    <3>4. size * f = f * size /\ size * f \in Int
      BY <1>3
    <3>5. PICK u \in Int : u = size * f
      BY <3>4
    <3>6. PICK x \in Int : x = c % size
      BY <3>3
    <3>7. PICK w \in Int : w = r
      BY <1>3
    <3>8. PICK y \in Int : y = c
      BY <2>1
    <3>9. y = u + x /\ y = u + w + 1
      BY <1>3, <2>1, <3>2, <3>3, <3>5, <3>6, <3>7, <3>8
    <3>10. u \in Int /\ x \in Int /\ w \in Int /\ y \in Int
      OBVIOUS
    <3>11. x = w + 1 /\ y - x = u
      BY <3>9, <3>10
    <3> QED BY <3>2, <3>4, <3>5, <3>6, <3>7, <3>8, <3>11
  <2>3. stored \in Analyses(levels, tracked, c, f) /\ stored.samples = D /\ stored.bin_sumsq = B
    BY <1>7, <1>10, <2>1
  <2>4. ASSUME NEW v \in tracked, NEW j \in 1 .. r + 1
        PROVE  D[j - 1][v] = Blocks(marks[v], 0)[f * size + j]
    <3>1. PICK i \in 0 .. r : i = j - 1 /\ i + 1 = j
      BY <1>3
    <3>2. f * size + i + 1 = f * size + j
      <4>1. f * size \in Int
        BY <1>3
      <4> QED BY <3>1, <4>1
    <3>3. D[i][v] = Blocks(marks[v], 0)[f * size + i + 1]
      BY <1>11
    <3> QED BY <3>1, <3>2, <3>3
  <2>5. AnalysisOf(stored, levels, tracked, marks, c)
    <3>1. c \div 2 ^ levels = f /\ c % 2 ^ levels = r + 1
      BY <1>1, <2>2
    <3>2. SumsAre(stored, levels, tracked, marks, f)
      BY <1>11, <2>3 DEF SumsAre
    <3>3. stored \in Analyses(levels, tracked, c, c \div 2 ^ levels)
      BY <2>3, <3>1
    <3>4. \A v \in tracked : \A j \in 1 .. c % 2 ^ levels :
            stored.samples[j - 1][v] = Blocks(marks[v], 0)[c - (c % 2 ^ levels) + j]
      BY <2>2, <2>3, <2>4, <3>1, <1>1
    <3> QED BY <3>1, <3>2, <3>3, <3>4 DEF AnalysisOf
  <2> QED BY <1>8, <1>12, <2>1, <2>5
<1>13. CASE r = size - 1
  <2>1. PICK c \in Nat : c = count + 1
    OBVIOUS
  <2>2. c \div size = f + 1 /\ c % size = 0
    <3>1. c = size * (f + 1) + 0
      <4>1. size * (f + 1) = size * f + size /\ size * f \in Int
        BY <1>3
      <4> QED BY <1>3, <1>13, <2>1, <4>1
    <3>2. size * (f + 1) <= c /\ c < size * (f + 1 + 1)
      <4>1. size * (f + 1 + 1) = size * (f + 1) + size /\ size * (f + 1) \in Int
        BY <1>3
      <4> QED BY <3>1, <4>1
    <3>3. c \div size = f + 1
      <4>1. PICK e \in Int : e = f + 1
        BY <1>3
      <4>2. size * e <= c /\ c < size * (e + 1) /\ c \in Int
        BY <3>2, <4>1
      <4>3. c \div size = e
        BY <4>1, <4>2, PartOf
      <4> QED BY <4>1, <4>3
    <3>4. c = size * (c \div size) + (c % size) /\ c % size \in Int
      <4>1. c \in Int
        OBVIOUS
      <4> QED BY <4>1, Division
    <3> QED BY <1>3, <3>1, <3>3, <3>4
  <2>3. AtBlock(stored, levels, tracked, marks, f, 0, 0)
    <3>1. ASSUME NEW l \in 0 .. levels PROVE AddedUp(levels, f, 0, 0, l) = f * 2 ^ (levels - l)
      <4>1. f * 2 ^ (levels - l) \in Int
        <5>1. levels - l \in 0 .. 31
          OBVIOUS
        <5>2. 2 ^ (levels - l) \in Nat
          BY <5>1, PowersOfTwo
        <5> QED BY <1>3, <5>2
      <4> QED BY <4>1 DEF AddedUp
    <3>2. stored.samples = D /\ stored.bin_sumsq = B
      BY <1>7
    <3>3. \A j \in Nat : ~(2 * j < 0)
      OBVIOUS
    <3>4. levels - 0 = levels
      OBVIOUS
    <3> QED BY <1>1, <1>11, <1>13, <3>1, <3>2, <3>3, <3>4 DEF AtBlock
  <2>4. PICK g : g = Flush(stored, levels)
    OBVIOUS
  <2>5. stored \in Analyses(levels, tracked, c, f)
    BY <1>10, <2>1
  <2>6. /\ g \in Analyses(levels, tracked, c, f + 1)
        /\ SumsAre(g, levels, tracked, marks, f + 1)
    BY <1>3, <2>3, <2>4, <2>5, FlushIs
  <2>7. AnalysisOf(g, levels, tracked, marks, c)
    <3>1. \A j \in 1 .. 0 : FALSE
      OBVIOUS
    <3> QED BY <1>1, <2>2, <2>6, <3>1 DEF AnalysisOf
  <2> QED BY <1>8, <1>13, <2>1, <2>4, <2>7
<1> QED BY <1>12, <1>13

\* the first samples are the same hits
Agree(marks, more, count) == \A j \in 1 .. count : marks[j] = more[j]

\* Blocks that are complete do not change when samples come after them.
LEMMA SameBlocks ==
  ASSUME NEW level \in 0 .. 30, NEW marks, NEW more, NEW count \in Nat,
         Agree(marks, more, count), NEW m \in Nat, m * 2 ^ level <= count
  PROVE  /\ \A b \in 1 .. m : Blocks(marks, level)[b] = Blocks(more, level)[b]
         /\ UpTo(SquaresOf(Blocks(marks, level)), m) = UpTo(SquaresOf(Blocks(more, level)), m)
<1>1. PICK w \in Nat \ {0} : w = 2 ^ level
  <2>1. level \in 0 .. 31
    OBVIOUS
  <2> QED BY <2>1, PowersOfTwo
<1>2. ASSUME NEW b \in 1 .. m
      PROVE  Blocks(marks, level)[b] = Blocks(more, level)[b]
  <2>1. PICK c \in Int, d \in Int : c = (b - 1) * w + 1 /\ d = b * w
    BY <1>1
  <2>2. c >= 1
    <3>1. (b - 1) * w >= 0
      BY <1>1
    <3> QED BY <1>1, <2>1, <3>1
  <2>3. d <= count
    <3>1. m * w = b * w + (m - b) * w /\ (m - b) * w >= 0 /\ b * w \in Int
      BY <1>1
    <3>2. m * w <= count
      BY <1>1
    <3> QED BY <1>1, <2>1, <3>1, <3>2
  <2>4. {j \in c .. d : marks[j] = 1} = {j \in c .. d : more[j] = 1}
    BY <2>1, <2>2, <2>3 DEF Agree
  <2>5. Ones(marks, c, d) = Ones(more, c, d)
    BY <2>4 DEF Ones
  <2>6. b \in Nat
    OBVIOUS
  <2> QED BY <1>1, <2>1, <2>5, <2>6 DEF Blocks
<1>3. PICK h, g : h = Blocks(marks, level) /\ g = Blocks(more, level)
  OBVIOUS
<1>4. [b \in 1 .. m |-> SquaresOf(h)[b]] = [b \in 1 .. m |-> SquaresOf(g)[b]]
  <2>1. ASSUME NEW b \in 1 .. m PROVE SquaresOf(h)[b] = SquaresOf(g)[b]
    <3>1. b \in Nat
      OBVIOUS
    <3> QED BY <1>2, <1>3, <3>1 DEF SquaresOf
  <2> QED BY <2>1
<1> QED BY <1>2, <1>3, <1>4 DEF UpTo

LEMMA SameSums ==
  ASSUME NEW level \in 0 .. 30, NEW marks, NEW more, NEW count \in Nat,
         Agree(marks, more, count), NEW m \in Nat, m * 2 ^ level <= count
  PROVE  UpTo(SquaresOf(Blocks(marks, level)), m) = UpTo(SquaresOf(Blocks(more, level)), m)
BY SameBlocks

LEMMA SameAnalysis ==
  ASSUME NEW levels \in 1 .. 30, NEW tracked, NEW marks, NEW more, NEW count \in Nat, NEW ba,
         \A v \in tracked : Agree(marks[v], more[v], count),
         AnalysisOf(ba, levels, tracked, marks, count)
  PROVE  AnalysisOf(ba, levels, tracked, more, count)
<1>1. PICK size \in Nat \ {0} : size = 2 ^ levels
  <2>1. levels \in 0 .. 31
    OBVIOUS
  <2> QED BY <2>1, PowersOfTwo
<1>2. PICK f, r : f = count \div size /\ r = count % size
  OBVIOUS
<1>3. f \in Nat /\ r \in 0 .. size - 1 /\ count = size * f + r
  <2>1. f \in Int /\ r \in 0 .. size - 1 /\ count = size * f + r
    <3>1. count \in Int
      OBVIOUS
    <3> QED BY <1>2, <3>1, Division
  <2>2. f >= 0
    <3>1. f <= -1 => size * f <= size * (-1)
      BY <2>1
    <3> QED BY <2>1, <3>1
  <2> QED BY <2>1, <2>2
<1>4. ASSUME NEW v \in tracked, NEW j \in 1 .. r
      PROVE  Blocks(marks[v], 0)[count - r + j] = Blocks(more[v], 0)[count - r + j]
  <2>1. PICK b \in 1 .. count : b = count - r + j
    BY <1>3
  <2>2. 2 ^ 0 = 1 /\ count * 1 <= count /\ 0 \in 0 .. 30
    OBVIOUS
  <2>3. PICK x, y : x = marks[v] /\ y = more[v]
    OBVIOUS
  <2>4. Agree(x, y, count)
    BY <2>3
  <2>5. \A i \in 1 .. count : Blocks(x, 0)[i] = Blocks(y, 0)[i]
    <3>1. count * 2 ^ 0 <= count
      BY <2>2
    <3> QED BY <2>2, <2>4, <3>1, SameBlocks
  <2> QED BY <2>1, <2>3, <2>5
<1>5. ASSUME NEW v \in tracked, NEW l \in 0 .. levels
      PROVE  UpTo(SquaresOf(Blocks(marks[v], l)), f * 2 ^ (levels - l))
               = UpTo(SquaresOf(Blocks(more[v], l)), f * 2 ^ (levels - l))
  <2>1. PICK u, w : u = 2 ^ (levels - l) /\ w = 2 ^ l
    OBVIOUS
  <2>2. u \in Nat \ {0} /\ w \in Nat \ {0} /\ u * w = size
    <3>1. levels \in 0 .. 30
      OBVIOUS
    <3> QED BY <1>1, <2>1, <3>1, PowersMultiply
  <2>3. PICK m \in Nat : m = f * u
    BY <1>3, <2>2
  <2>4. m * w <= count
    <3>1. m * w = f * (u * w)
      BY <1>3, <2>2, <2>3
    <3>2. f * size = size * f /\ size * f \in Int
      BY <1>3
    <3> QED BY <1>3, <2>2, <3>1, <3>2
  <2>5. PICK x, y : x = marks[v] /\ y = more[v]
    OBVIOUS
  <2>6. Agree(x, y, count)
    BY <2>5
  <2>7. PICK e \in 0 .. 30 : e = l
    OBVIOUS
  <2>8. m * 2 ^ e <= count
    BY <2>1, <2>4, <2>7
  <2>9. m \in Nat /\ e \in 0 .. 30
    BY <2>3, <2>7
  <2>10. UpTo(SquaresOf(Blocks(x, e)), m) = UpTo(SquaresOf(Blocks(y, e)), m)
    BY <2>6, <2>8, <2>9, SameSums
  <2> QED BY <2>1, <2>3, <2>5, <2>7, <2>10
<1>6. ba \in Analyses(levels, tracked, count, count \div 2 ^ levels)
  BY DEF AnalysisOf
<1>7. ASSUME NEW v \in tracked, NEW j \in 1 .. count % 2 ^ levels
      PROVE  ba.samples[j - 1][v] = Blocks(more[v], 0)[count - (count % 2 ^ levels) + j]
  <2>1. ba.samples[j - 1][v] = Blocks(marks[v], 0)[count - r + j]
    BY <1>1, <1>2 DEF AnalysisOf
  <2> QED BY <1>1, <1>2, <1>4, <2>1
<1>8. SumsAre(ba, levels, tracked, more, count \div 2 ^ levels)
  <2>1. SumsAre(ba, levels, tracked, marks, f)
    BY <1>1, <1>2 DEF AnalysisOf
  <2>2. SumsAre(ba, levels, tracked, more, f)
    BY <1>5, <2>1 DEF SumsAre
  <2> QED BY <1>1, <1>2, <2>2
<1> QED BY <1>6, <1>7, <1>8 DEF AnalysisOf

-----------------------------------------------------------------------------
\* The analysis of the task at hand, by samples s

LiesAt(p, v, i) ==
  /\ v # NotFinite
  /\ AtLeast(<<v, 1>>, BinLowerValue(p, i)) /\ Less(<<v, 1>>, BinUpperValue(p, i))

HitsIn(p, s, i, from, to) == Cardinality({j \in from .. to : LiesAt(p, s[j], i)})

BlockIn(p, s, i, level, b) == HitsIn(p, s, i, (b - 1) * 2 ^ level + 1, b * 2 ^ level)

SquaresIn(p, s, i, level, blocks) ==
  SumFunction([b \in 1 .. blocks |-> BlockIn(p, s, i, level, b) * BlockIn(p, s, i, level, b)])

\* AnalysisInv, of a collector
Gathered(c, levels, p, s, count) ==
  /\ {"num_levels", "binning_analysis", "result"} \subseteq DOMAIN c
  /\ c.num_levels = levels
  /\ c.binning_analysis \in Analyses(levels, Bins(p), count, count \div 2 ^ levels)
  /\ \A i \in Bins(p) :
       /\ \A j \in 1 .. count % 2 ^ levels :
            c.binning_analysis.samples[j - 1][i] =
              BlockIn(p, s, i, 0, count - (count % 2 ^ levels) + j)
       /\ \A l \in 0 .. levels :
            c.binning_analysis.bin_sumsq[l][i] =
              SquaresIn(p, s, i, l, (count \div 2 ^ levels) * 2 ^ (levels - l))

LEMMA HitsAre ==
  ASSUME NEW t, NEW i, NEW from, NEW to
  PROVE  /\ Hits(t, i, from, to) = HitsIn(case.params, seen[t], i, from, to)
         /\ Hits(t, i, from, to)' = HitsIn(case.params', seen'[t], i, from, to)
BY DEF Hits, HitsIn, LiesIn, LiesAt, Samples, BinLowerValue, BinUpperValue

LEMMA SquaredHitsAre ==
  ASSUME NEW t, NEW i, NEW level, NEW blocks
  PROVE  /\ SquaredHits(t, i, level, blocks) = SquaresIn(case.params, seen[t], i, level, blocks)
         /\ SquaredHits(t, i, level, blocks)' = SquaresIn(case.params', seen'[t], i, level, blocks)
BY DEF SquaredHits, SquaresIn, BlockHits, BlockIn, Hits, HitsIn, LiesIn, LiesAt, Samples, BinLowerValue,
       BinUpperValue

LEMMA AnalysisInvIs ==
  /\ AnalysisInv <=> (pc \in Running /\ case.binning =>
                        Gathered(collectors[1], case.levels, case.params, seen[Len(seen)], n))
  /\ AnalysisInv' <=> (pc' \in Running /\ case'.binning =>
                        Gathered(collectors'[1], case'.levels, case'.params, seen'[Len(seen')], n'))
<1>1. AnalysisInv <=> (pc \in Running /\ case.binning =>
       Gathered(collectors[1], case.levels, case.params, seen[Len(seen)], n))
  <2>1. PICK levels, p, t, m, c :
          /\ levels = case.levels /\ p = case.params /\ t = Len(seen) /\ m = n
          /\ c = collectors[1]
    OBVIOUS
  <2>2. Tracked = Bins(p) /\ Values = c
    BY <2>1 DEF Tracked, Values
  <2>3. \A i, l, b : BlockHits(t, i, l, b) = BlockIn(p, seen[t], i, l, b)
    BY <2>1, HitsAre DEF BlockHits, BlockIn
  <2>4. \A i, l, blocks : SquaredHits(t, i, l, blocks) = SquaresIn(p, seen[t], i, l, blocks)
    BY <2>1, SquaredHitsAre
  <2>5. AnalysisInv <=>
          (pc \in Running /\ case.binning =>
             /\ {"num_levels", "binning_analysis", "result"} \subseteq DOMAIN c
             /\ c.num_levels = levels
             /\ c.binning_analysis \in Analyses(levels, Bins(p), m, m \div 2 ^ levels)
             /\ \A i \in Bins(p) :
                  /\ \A j \in 1 .. m % 2 ^ levels :
                       c.binning_analysis.samples[j - 1][i]
                         = BlockHits(t, i, 0, m - (m % 2 ^ levels) + j)
                  /\ \A l \in 0 .. levels :
                       c.binning_analysis.bin_sumsq[l][i]
                         = SquaredHits(t, i, l, (m \div 2 ^ levels) * 2 ^ (levels - l)))
    BY <2>1, <2>2 DEF AnalysisInv, Analyses, SamplesSize
  <2> QED BY <2>1, <2>3, <2>4, <2>5 DEF Gathered
<1>2. AnalysisInv' <=> (pc' \in Running /\ case'.binning =>
       Gathered(collectors'[1], case'.levels, case'.params, seen'[Len(seen')], n'))
  <2>1. PICK levels, p, t, m, c :
          /\ levels = case'.levels /\ p = case'.params /\ t = Len(seen') /\ m = n'
          /\ c = collectors'[1]
    OBVIOUS
  <2>2. Tracked' = Bins(p) /\ Values' = c
    BY <2>1 DEF Tracked, Values
  <2>3. \A i, l, b : BlockHits(t, i, l, b)' = BlockIn(p, seen'[t], i, l, b)
    BY <2>1, HitsAre DEF BlockHits, BlockIn
  <2>4. \A i, l, blocks : SquaredHits(t, i, l, blocks)' = SquaresIn(p, seen'[t], i, l, blocks)
    BY <2>1, SquaredHitsAre
  <2>5. AnalysisInv' <=>
          (pc' \in Running /\ case'.binning =>
             /\ {"num_levels", "binning_analysis", "result"} \subseteq DOMAIN c
             /\ c.num_levels = levels
             /\ c.binning_analysis \in Analyses(levels, Bins(p), m, m \div 2 ^ levels)
             /\ \A i \in Bins(p) :
                  /\ \A j \in 1 .. m % 2 ^ levels :
                       c.binning_analysis.samples[j - 1][i]
                         = BlockHits(t, i, 0, m - (m % 2 ^ levels) + j)'
                  /\ \A l \in 0 .. levels :
                       c.binning_analysis.bin_sumsq[l][i]
                         = SquaredHits(t, i, l, (m \div 2 ^ levels) * 2 ^ (levels - l))')
    BY <2>1, <2>2 DEF AnalysisInv, Analyses, SamplesSize
  <2> QED BY <2>1, <2>3, <2>4, <2>5 DEF Gathered
<1> QED BY <1>1, <1>2

\* which of the samples are hits, bin by bin
Marks(p, s) ==
  [i \in Bins(p) |-> [j \in Int |-> IF LiesAt(p, s[j], i) THEN 1 ELSE 0]]

LEMMA BlocksOfMarks ==
  ASSUME NEW p, NEW s, NEW i \in Bins(p), NEW level \in 0 .. 30, NEW b \in Nat
  PROVE  BlockIn(p, s, i, level, b) = Blocks(Marks(p, s)[i], level)[b]
<1>1. 2 ^ level \in Nat
  <2>1. level \in 0 .. 31
    OBVIOUS
  <2> QED BY <2>1, PowersOfTwo
<1>2. PICK w \in Nat : w = 2 ^ level
  BY <1>1
<1>3. PICK from \in Int, to \in Int : from = (b - 1) * w + 1 /\ to = b * w
  OBVIOUS
<1>4. PICK marks : marks = Marks(p, s)[i]
  OBVIOUS
<1>5. \A j \in Int : marks[j] = 1 <=> LiesAt(p, s[j], i)
  BY <1>4 DEF Marks
<1>6. {j \in from .. to : LiesAt(p, s[j], i)} = {j \in from .. to : marks[j] = 1}
  BY <1>3, <1>5
<1>7. HitsIn(p, s, i, from, to) = Ones(marks, from, to)
  BY <1>6 DEF HitsIn, Ones
<1> QED BY <1>2, <1>3, <1>4, <1>7 DEF BlockIn, Blocks

LEMMA SquaresOfMarks ==
  ASSUME NEW p, NEW s, NEW i \in Bins(p), NEW level \in 0 .. 30, NEW blocks \in Nat
  PROVE  SquaresIn(p, s, i, level, blocks) = UpTo(SquaresOf(Blocks(Marks(p, s)[i], level)), blocks)
<1>1. PICK h : h = Blocks(Marks(p, s)[i], level)
  OBVIOUS
<1>2. ASSUME NEW b \in 1 .. blocks
      PROVE  BlockIn(p, s, i, level, b) * BlockIn(p, s, i, level, b) = SquaresOf(h)[b]
  <2>1. b \in Nat
    OBVIOUS
  <2> QED BY <1>1, <2>1, BlocksOfMarks DEF SquaresOf
<1>3. [b \in 1 .. blocks |-> BlockIn(p, s, i, level, b) * BlockIn(p, s, i, level, b)]
        = [b \in 1 .. blocks |-> SquaresOf(h)[b]]
  BY <1>2
<1> QED BY <1>1, <1>3 DEF SquaresIn, UpTo

LEMMA GatheredIs ==
  ASSUME NEW c, NEW levels \in 1 .. 30, NEW p, NEW s, NEW count \in Nat
  PROVE  Gathered(c, levels, p, s, count) <=>
           /\ {"num_levels", "binning_analysis", "result"} \subseteq DOMAIN c
           /\ c.num_levels = levels
           /\ AnalysisOf(c.binning_analysis, levels, Bins(p), Marks(p, s), count)
<1>1. PICK size \in Nat \ {0} : size = 2 ^ levels
  <2>1. levels \in 0 .. 31
    OBVIOUS
  <2> QED BY <2>1, PowersOfTwo
<1>2. PICK f, r, ba : f = count \div size /\ r = count % size /\ ba = c.binning_analysis
  OBVIOUS
<1>3. f \in Nat /\ r \in 0 .. size - 1 /\ count = size * f + r
  <2>1. f \in Int /\ r \in 0 .. size - 1 /\ count = size * f + r
    <3>1. count \in Int
      OBVIOUS
    <3> QED BY <1>2, <3>1, Division
  <2>2. f >= 0
    <3>1. f <= -1 => size * f <= size * (-1)
      BY <2>1
    <3> QED BY <2>1, <3>1
  <2> QED BY <2>1, <2>2
<1>4. ASSUME NEW i \in Bins(p), NEW j \in 1 .. r
      PROVE  BlockIn(p, s, i, 0, count - r + j) = Blocks(Marks(p, s)[i], 0)[count - r + j]
  <2>1. PICK b \in Nat : b = count - r + j
    <3>1. PICK u \in Nat : u = size * f
      BY <1>3
    <3> QED BY <1>3, <3>1
  <2>2. 0 \in 0 .. 30
    OBVIOUS
  <2> QED BY <2>1, <2>2, BlocksOfMarks
<1>5. ASSUME NEW i \in Bins(p), NEW l \in 0 .. levels
      PROVE  SquaresIn(p, s, i, l, f * 2 ^ (levels - l))
               = UpTo(SquaresOf(Blocks(Marks(p, s)[i], l)), f * 2 ^ (levels - l))
  <2>1. 2 ^ (levels - l) \in Nat
    <3>1. levels - l \in 0 .. 31
      OBVIOUS
    <3> QED BY <3>1, PowersOfTwo
  <2>2. PICK m \in Nat : m = f * 2 ^ (levels - l)
    BY <1>3, <2>1
  <2>3. PICK e \in 0 .. 30 : e = l
    OBVIOUS
  <2>4. m \in Nat /\ e \in 0 .. 30
    BY <2>2, <2>3
  <2>5. SquaresIn(p, s, i, e, m) = UpTo(SquaresOf(Blocks(Marks(p, s)[i], e)), m)
    BY <2>4, SquaresOfMarks
  <2> QED BY <2>2, <2>3, <2>5
<1>6. Gathered(c, levels, p, s, count) <=>
        /\ {"num_levels", "binning_analysis", "result"} \subseteq DOMAIN c
        /\ c.num_levels = levels
        /\ ba \in Analyses(levels, Bins(p), count, f)
        /\ \A i \in Bins(p) :
             /\ \A j \in 1 .. r : ba.samples[j - 1][i] = BlockIn(p, s, i, 0, count - r + j)
             /\ \A l \in 0 .. levels :
                  ba.bin_sumsq[l][i] = SquaresIn(p, s, i, l, f * 2 ^ (levels - l))
  BY <1>1, <1>2 DEF Gathered
<1>7. AnalysisOf(ba, levels, Bins(p), Marks(p, s), count) <=>
        /\ ba \in Analyses(levels, Bins(p), count, f)
        /\ \A i \in Bins(p) : \A j \in 1 .. r :
             ba.samples[j - 1][i] = Blocks(Marks(p, s)[i], 0)[count - r + j]
        /\ \A i \in Bins(p), l \in 0 .. levels :
             ba.bin_sumsq[l][i] = UpTo(SquaresOf(Blocks(Marks(p, s)[i], l)), f * 2 ^ (levels - l))
  BY <1>1, <1>2 DEF AnalysisOf, SumsAre
<1>8. (\A i \in Bins(p) : \A j \in 1 .. r : ba.samples[j - 1][i] = BlockIn(p, s, i, 0, count - r + j))
        <=> (\A i \in Bins(p) : \A j \in 1 .. r :
               ba.samples[j - 1][i] = Blocks(Marks(p, s)[i], 0)[count - r + j])
  BY <1>4, Zenon
<1>9. (\A i \in Bins(p) : \A l \in 0 .. levels :
         ba.bin_sumsq[l][i] = SquaresIn(p, s, i, l, f * 2 ^ (levels - l)))
        <=> (\A i \in Bins(p) : \A l \in 0 .. levels :
               ba.bin_sumsq[l][i] = UpTo(SquaresOf(Blocks(Marks(p, s)[i], l)), f * 2 ^ (levels - l)))
  BY <1>5, Zenon
<1> QED BY <1>2, <1>6, <1>7, <1>8, <1>9, Zenon

\* A new collector has nothing yet.
LEMMA GatheredInit ==
  ASSUME NEW levels \in 1 .. 30, NEW p, NEW s, NEW c, c = BinningCollector(p, levels)
  PROVE  Gathered(CollectorInit(c), levels, p, s, 0)
<1>1. PICK d : d = CollectorInit(c)
  OBVIOUS
<1>2. /\ c.kind = "binning" /\ c.num_levels = levels /\ c.binning_analysis = Reset(levels, Bins(p))
      /\ {"num_levels", "binning_analysis", "result"} \subseteq DOMAIN c
  BY DEF BinningCollector
<1>3. /\ d.num_levels = levels /\ d.binning_analysis = Reset(levels, Bins(p))
      /\ {"num_levels", "binning_analysis", "result"} \subseteq DOMAIN d
  BY <1>1, <1>2 DEF CollectorInit, HasHistogram
<1>4. PICK size \in Nat \ {0} : size = 2 ^ levels
  <2>1. levels \in 0 .. 31
    OBVIOUS
  <2> QED BY <2>1, PowersOfTwo
<1>5. 0 \div size = 0 /\ 0 % size = 0
  <2>1. 0 = size * (0 \div size) + (0 % size) /\ 0 % size \in 0 .. size - 1 /\ 0 \div size \in Int
    BY Division
  <2>2. 0 \div size = 0
    <3>1. size * 0 <= 0 /\ 0 < size * (0 + 1)
      OBVIOUS
    <3> QED BY <3>1, PartOf
  <2> QED BY <2>1, <2>2
<1>6. PICK ba : ba = Reset(levels, Bins(p))
  OBVIOUS
<1>7. /\ ba \in Analyses(levels, Bins(p), 0, 0)
      /\ \A v \in Bins(p), l \in 0 .. levels : ba.bin_sumsq[l][v] = 0
  <2>1. ba = [n_samples |-> 0, n_flushes |-> 0,
              samples |-> [i \in 0 .. size - 1 |-> [v \in Bins(p) |-> -1]],
              bin_sumsq |-> [l \in 0 .. levels |-> [v \in Bins(p) |-> 0]]]
    BY <1>4, <1>6 DEF Reset, SamplesSize, Uninitialized
  <2>2. [i \in 0 .. size - 1 |-> [v \in Bins(p) |-> -1]] \in [0 .. size - 1 -> [Bins(p) -> Int]]
    OBVIOUS
  <2>3. [l \in 0 .. levels |-> [v \in Bins(p) |-> 0]] \in [0 .. levels -> [Bins(p) -> Int]]
    OBVIOUS
  <2> QED BY <1>4, <2>1, <2>2, <2>3 DEF Analyses
<1>8. PICK marks : marks = Marks(p, s)
  OBVIOUS
<1>9. SumsAre(ba, levels, Bins(p), marks, 0)
  <2>1. ASSUME NEW v \in Bins(p), NEW l \in 0 .. levels
        PROVE  ba.bin_sumsq[l][v] = UpTo(SquaresOf(Blocks(marks[v], l)), 0 * 2 ^ (levels - l))
    <3>1. PICK u \in Nat : u = 2 ^ (levels - l)
      <4>1. levels - l \in 0 .. 31
        OBVIOUS
      <4> QED BY <4>1, PowersOfTwo
    <3>2. 0 * 2 ^ (levels - l) = 0
      BY <3>1
    <3>3. PICK h \in [Nat -> Int] : h = SquaresOf(Blocks(marks[v], l))
      <4>1. l \in 0 .. 30
        OBVIOUS
      <4> QED BY <4>1, BlocksAre
    <3>4. UpTo(h, 0) = 0
      <4>1. 0 \in Nat
        OBVIOUS
      <4> QED BY <4>1, UpToIs
    <3> QED BY <1>7, <3>2, <3>3, <3>4
  <2> QED BY <2>1 DEF SumsAre
<1>10. AnalysisOf(ba, levels, Bins(p), marks, 0)
  <2>1. \A j \in 1 .. 0 : FALSE
    OBVIOUS
  <2> QED BY <1>4, <1>5, <1>7, <1>9, <2>1 DEF AnalysisOf
<1>11. 0 \in Nat
  OBVIOUS
<1> QED BY <1>1, <1>3, <1>6, <1>8, <1>10, <1>11, GatheredIs

\* One more sample is analysed.
LEMMA GatheredSample ==
  ASSUME NEW levels \in 1 .. 30, NEW p, IsParams(p), NEW s \in Seq(SampledValues),
         NEW v \in SampledValues, NEW c, {"kind", "histogram"} \subseteq DOMAIN c,
         c.kind = "binning", c.histogram \in [params : {p}, bins : [Bins(p) -> Nat], off_chart : Nat],
         NEW count, count = Len(s), Gathered(c, levels, p, s, count),
         NEW more, more = Append(s, v), NEW d, d = CollectorProcessSample(c, v)
  PROVE  Gathered(d, levels, p, more, count + 1)
<1>1. count \in Nat
  OBVIOUS
<1>2. /\ {"num_levels", "binning_analysis", "result"} \subseteq DOMAIN c /\ c.num_levels = levels
      /\ AnalysisOf(c.binning_analysis, levels, Bins(p), Marks(p, s), count)
  BY <1>1, GatheredIs
<1>3. PICK ba, marks : ba = c.binning_analysis /\ marks = Marks(p, more)
  OBVIOUS
<1>4. AnalysisOf(ba, levels, Bins(p), marks, count)
  <2>1. PICK old : old = Marks(p, s)
    OBVIOUS
  <2>2. ASSUME NEW i \in Bins(p) PROVE Agree(old[i], marks[i], count)
    <3>1. ASSUME NEW j \in 1 .. count PROVE old[i][j] = marks[i][j]
      <4>1. s[j] = more[j]
        OBVIOUS
      <4>2. j \in Int
        OBVIOUS
      <4> QED BY <1>3, <2>1, <4>1, <4>2 DEF Marks
    <3> QED BY <3>1 DEF Agree
  <2>3. \A i \in Bins(p) : Agree(old[i], marks[i], count)
    BY <2>2
  <2>4. AnalysisOf(ba, levels, Bins(p), old, count)
    BY <1>2, <1>3, <2>1
  <2> QED BY <1>1, <2>3, <2>4, SameAnalysis
<1>5. PICK vals : vals = BasisVector(Bins(p), RecordIndex(p, v))
  OBVIOUS
<1>6. vals \in [Bins(p) -> Int]
  BY <1>5 DEF BasisVector
<1>7. ASSUME NEW i \in Bins(p) PROVE vals[i] = Blocks(marks[i], 0)[count + 1]
  <2>1. vals[i] = IF LiesAt(p, v, i) THEN 1 ELSE 0
    <3>1. RecordIndex(p, v) = i <=> LiesAt(p, v, i)
      BY RecordIndexIs DEF LiesAt
    <3> QED BY <1>5, <3>1 DEF BasisVector
  <2>2. PICK b \in Nat : b = count + 1
    BY <1>1
  <2>3. more[b] = v
    BY <2>2
  <2>4. marks[i][b] = IF LiesAt(p, v, i) THEN 1 ELSE 0
    <3>1. b \in Int
      OBVIOUS
    <3> QED BY <1>3, <2>3, <3>1 DEF Marks
  <2>5. Blocks(marks[i], 0)[b] = IF marks[i][b] = 1 THEN 1 ELSE 0
    BY SingleBlock
  <2> QED BY <2>1, <2>2, <2>4, <2>5
<1>8. AnalysisOf(ProcessNewValues(ba, levels, vals), levels, Bins(p), marks, count + 1)
  <2>1. \A i \in Bins(p) : vals[i] = Blocks(marks[i], 0)[count + 1]
    BY <1>7
  <2> QED BY <1>1, <1>4, <1>6, <2>1, ProcessNewValuesIs
<1>9. /\ DOMAIN d = DOMAIN c /\ d.num_levels = levels
      /\ d.binning_analysis = ProcessNewValues(ba, levels, vals)
  <2>1. PICK e : e = CountSample(c, v)
    OBVIOUS
  <2>2. /\ DOMAIN e = DOMAIN c /\ e.num_levels = levels /\ e.binning_analysis = ba
        /\ e.histogram = Recorded(c.histogram, v)
    BY <1>2, <1>3, <2>1 DEF CountSample
  <2>3. e.histogram.params = p
    <3>1. Recorded(c.histogram, v) \in [params : {p}, bins : [Bins(p) -> Nat], off_chart : Nat]
      BY RecordedIs
    <3> QED BY <2>2, <3>1
  <2>4. d = AnalyseSample(e, v)
    BY <2>1 DEF CollectorProcessSample
  <2> QED BY <1>2, <1>5, <2>2, <2>3, <2>4 DEF AnalyseSample
<1>10. count + 1 \in Nat
  BY <1>1
<1> QED BY <1>2, <1>3, <1>8, <1>9, <1>10, GatheredIs

LEMMA AnalysisRunTask ==
  ASSUME CountsInv, RunTask
  PROVE  AnalysisInv'
<1>1. /\ case' = case /\ n' = 0 /\ collectors' = InitAll(<<ValueStatsCollector, StatusReportCollector>>)
  BY DEF RunTask
<1>2. PICK p, levels : p = case.params /\ levels = case.levels
  OBVIOUS
<1>3. levels \in 1 .. 30
  BY <1>2, CaseFacts DEF CountsInv
<1>4. ASSUME case.binning PROVE Gathered(collectors'[1], levels, p, seen'[Len(seen')], 0)
  <2>1. PICK c : c = BinningCollector(p, levels)
    OBVIOUS
  <2>2. c = ValueStatsCollector
    BY <1>2, <1>4, <2>1 DEF ValueStatsCollector
  <2>3. PICK cs : cs = <<c, StatusReportCollector>>
    OBVIOUS
  <2>4. DOMAIN cs = {1, 2} /\ cs[1] = c
    BY <2>3
  <2>5. collectors'[1] = CollectorInit(c)
    BY <1>1, <2>2, <2>3, <2>4 DEF InitAll
  <2> QED BY <1>3, <2>1, <2>5, GatheredInit
<1> QED BY <1>1, <1>2, <1>4, AnalysisInvIs

LEMMA AnalysisSample ==
  ASSUME CountsInv, AnalysisInv, NEW point, ProcessSample(point),
         point \in case.points[(n % Len(case.points)) + 1],
         pc = "live", pc' = pc, case' = case
  PROVE  AnalysisInv'
<1>1. pc \in Running
  BY DEF Running
<1>2. PICK v : v = Figures[case.figure][point]
  OBVIOUS
<1>3. v \in SampledValues
  <2>1. PICK l \in Nat \ {0} : l = Len(case.points)
    BY CaseFacts DEF CountsInv
  <2>2. n % l \in 0 .. l - 1
    <3>1. n \in Int
      BY DEF CountsInv, CaseInv
    <3> QED BY <2>1, <3>1, Division
  <2>3. (n % l) + 1 \in 1 .. l
    BY <2>1, <2>2
  <2> QED BY <1>2, <2>1, <2>3, CaseFacts DEF CountsInv
<1>4. GetValue(vcalc, point) = v
  BY <1>1, <1>2 DEF CountsInv, CalculatorsInv, GetValue
<1>5. /\ collectors' = ProcessSampleAll(collectors, v) /\ n' = n + 1 /\ n \in Nat
      /\ seen' = [seen EXCEPT ![Len(seen)] = Append(@, v)]
  BY <1>2, <1>4 DEF ProcessSample, CountsInv, CaseInv
<1>6. PICK p, levels, c : p = case.params /\ levels = case.levels /\ c = collectors[1]
  OBVIOUS
<1>7. IsParams(p) /\ levels \in 1 .. 30
  BY <1>6, CaseFacts DEF CountsInv
<1>8. SUFFICES ASSUME case.binning
               PROVE  Gathered(collectors'[1], levels, p, seen'[Len(seen')], n')
  BY <1>6, AnalysisInvIs
<1>9. /\ DOMAIN collectors = {1, 2} /\ {"kind", "histogram"} \subseteq DOMAIN c
      /\ c.kind = "binning"
      /\ c.histogram \in [params : {p}, bins : [Bins(p) -> Nat], off_chart : Nat]
  BY <1>1, <1>6, <1>8 DEF CountsInv, CollectorsInv, Values, histogram, Tracked
<1>10. seen \in Seq(Seq(SampledValues)) /\ seen # <<>>
  BY <1>1 DEF CountsInv, TallyInv
<1>11. PICK l \in Nat : l = Len(seen) /\ l >= 1 /\ l \in DOMAIN seen
  BY <1>10
<1>12. PICK s \in Seq(SampledValues) : s = seen[l]
  BY <1>10, <1>11
<1>13. PICK more : more = Append(s, v)
  OBVIOUS
<1>14. more \in Seq(SampledValues) /\ seen' = [seen EXCEPT ![l] = more]
  BY <1>3, <1>5, <1>11, <1>12, <1>13
<1>15. Len(seen') = l /\ seen'[l] = more
  BY <1>10, <1>11, <1>14
<1>16. n = Len(s)
  BY <1>1, <1>11, <1>12 DEF CountsInv, TallyInv, Samples
<1>17. PICK d : d = CollectorProcessSample(c, v)
  OBVIOUS
<1>18. collectors'[1] = d
  BY <1>5, <1>6, <1>9, <1>17 DEF ProcessSampleAll
<1>19. Gathered(c, levels, p, s, n)
  BY <1>1, <1>6, <1>8, <1>11, <1>12, AnalysisInvIs
<1>20. Gathered(d, levels, p, more, n + 1)
  BY <1>3, <1>7, <1>9, <1>13, <1>16, <1>17, <1>19, GatheredSample
<1> QED BY <1>5, <1>15, <1>18, <1>20

LEMMA AnalysisNext ==
  ASSUME CountsInv, AnalysisInv, [Next]_vars
  PROVE  AnalysisInv'
<1>1. ASSUME pc' \notin Running PROVE AnalysisInv'
  BY <1>1 DEF AnalysisInv
<1>2. ASSUME collectors' = collectors, n' = n, seen' = seen, case' = case,
             pc' \in Running => pc \in Running
      PROVE  AnalysisInv'
  BY <1>2, AnalysisInvIs
<1>3. CASE RunTask
  BY <1>3, AnalysisRunTask
<1>4. CASE ThermIteration
  BY <1>2, <1>4 DEF ThermIteration
<1>5. CASE ThermalizingDone
  BY <1>2, <1>5 DEF ThermalizingDone, Running
<1>6. CASE LiveIteration
  <2>1. CASE UNCHANGED <<collectors, n, seen>>
    BY <1>2, <1>6, <2>1 DEF LiveIteration
  <2>2. CASE \E point \in case.points[(n % Len(case.points)) + 1] : ProcessSample(point)
    BY <1>6, <2>2, AnalysisSample DEF LiveIteration
  <2> QED BY <1>6, <2>1, <2>2 DEF LiveIteration
<1>7. CASE NoSeed \/ Interrupted \/ Done \/ Aggregate \/ PrintFinalReport \/ WriteHistogramCsv
  BY <1>1, <1>7 DEF NoSeed, Interrupted, Done, Aggregate, PrintFinalReport, WriteHistogramCsv, Running
<1>8. CASE UNCHANGED vars
  BY <1>2, <1>8 DEF vars
<1> QED BY <1>3, <1>4, <1>5, <1>6, <1>7, <1>8 DEF Next

-----------------------------------------------------------------------------
\* Results

\* LevelError, of samples s
ErrorIn(p, levels, s, i, level) ==
  LET averages == (Len(s) \div 2 ^ levels) * 2 ^ (levels - level)
      mean == Frac(HitsIn(p, s, i, 1, Len(s)), Len(s))
      spread == Minus(Frac(SquaresIn(p, s, i, level, averages), 2 ^ level * 2 ^ level * averages),
                      Times(mean, mean))
  IN  Over(Clipped(spread), averages - 1)

ResultOf(r, p, levels, s) ==
  /\ {"error_levels", "converged_status"} \subseteq DOMAIN r
  /\ r.error_levels = [l \in 0 .. levels |-> [i \in Bins(p) |-> ErrorIn(p, levels, s, i, l)]]
  /\ r.converged_status = DetermineErrorConvergence(r.error_levels, levels)

LEMMA LevelErrorIs ==
  ASSUME NEW t, NEW i, NEW level
  PROVE  /\ LevelError(t, i, level) = ErrorIn(case.params, case.levels, seen[t], i, level)
         /\ LevelError(t, i, level)' = ErrorIn(case.params', case.levels', seen'[t], i, level)
BY HitsAre, SquaredHitsAre DEF LevelError, ErrorIn, AllHits, Samples, SamplesSize

LEMMA ResultIsOf ==
  ASSUME NEW t
  PROVE  /\ ResultIs(t) <=> ResultOf(stats_results[t], case.params, case.levels, seen[t])
         /\ ResultIs(t)' <=> ResultOf(stats_results'[t], case.params', case.levels', seen'[t])
<1>1. [l \in 0 .. case.levels |-> [i \in Tracked |-> LevelError(t, i, l)]]
        = [l \in 0 .. case.levels |->
             [i \in Bins(case.params) |-> ErrorIn(case.params, case.levels, seen[t], i, l)]]
  BY LevelErrorIs DEF Tracked
<1>2. [l \in 0 .. case.levels' |-> [i \in Tracked' |-> LevelError(t, i, l)']]
        = [l \in 0 .. case.levels' |->
             [i \in Bins(case.params') |-> ErrorIn(case.params', case.levels', seen'[t], i, l)]]
  BY LevelErrorIs DEF Tracked
<1>3. ResultIs(t) <=> ResultOf(stats_results[t], case.params, case.levels, seen[t])
  BY <1>1 DEF ResultIs, ResultOf
<1>4. ResultIs(t)' <=> ResultOf(stats_results'[t], case.params', case.levels', seen'[t])
  BY <1>2 DEF ResultIs, ResultOf
<1> QED BY <1>3, <1>4

\* The final result of a collector that has gathered these samples.
LEMMA ResultOfDone ==
  ASSUME NEW levels \in 1 .. 30, NEW p, NEW s, NEW count, count = Len(s),
         NEW c, {"kind", "histogram", "num_levels", "binning_analysis", "result"} \subseteq DOMAIN c,
         c.kind = "binning", c.histogram.params = p, Gathered(c, levels, p, s, count),
         \A i \in Bins(p) : c.histogram.bins[i] = HitsIn(p, s, i, 1, count),
         TotalCounts(c.histogram) = count
  PROVE  ResultOf(CollectorResult(CollectorDone(c)), p, levels, s)
<1>1. PICK r : r = FinalResult(c)
  OBVIOUS
<1>2. CollectorResult(CollectorDone(c)) = r
  BY <1>1 DEF CollectorDone, CollectorResult
<1>3. c.num_levels = levels
  BY DEF Gathered
<1>4. PICK e : e = ErrorLevels(c)
  OBVIOUS
<1>5. /\ {"error_levels", "converged_status"} \subseteq DOMAIN r /\ r.error_levels = e
      /\ r.converged_status = DetermineErrorConvergence(e, levels)
  BY <1>1, <1>3, <1>4 DEF FinalResult
<1>6. PICK means, ba : means = BinMeans(c) /\ ba = c.binning_analysis
  OBVIOUS
<1>7. DOMAIN means = Bins(p) /\ \A i \in Bins(p) : means[i] = Frac(HitsIn(p, s, i, 1, count), count)
  BY <1>6 DEF BinMeans
<1>8. e = [l \in 0 .. levels |-> [i \in Bins(p) |->
             Over(Clipped(Spread(ba, levels, l, means[i], i)), AveragesAt(ba, levels, l) - 1)]]
  BY <1>3, <1>4, <1>6, <1>7 DEF ErrorLevels, CalcErrorLevels
<1>9. PICK f : f = count \div 2 ^ levels
  OBVIOUS
<1>10. ba.n_flushes = f
  BY <1>6, <1>9 DEF Gathered, Analyses
<1>11. ASSUME NEW l \in 0 .. levels, NEW i \in Bins(p)
       PROVE  Over(Clipped(Spread(ba, levels, l, means[i], i)), AveragesAt(ba, levels, l) - 1)
                = ErrorIn(p, levels, s, i, l)
  <2>1. PICK averages : averages = f * 2 ^ (levels - l)
    OBVIOUS
  <2>2. AveragesAt(ba, levels, l) = averages
    BY <1>10, <2>1 DEF AveragesAt
  <2>3. ba.bin_sumsq[l][i] = SquaresIn(p, s, i, l, averages)
    BY <1>6, <1>9, <2>1 DEF Gathered
  <2>4. PICK mean : mean = means[i]
    OBVIOUS
  <2>5. mean = Frac(HitsIn(p, s, i, 1, count), count)
    BY <1>7, <2>4
  <2>6. Spread(ba, levels, l, mean, i)
          = Minus(Frac(SquaresIn(p, s, i, l, averages), 2 ^ l * 2 ^ l * averages), Times(mean, mean))
    BY <2>2, <2>3 DEF Spread, BinSqmean
  <2> QED BY <1>9, <2>1, <2>2, <2>4, <2>5, <2>6 DEF ErrorIn
<1>12. e = [l \in 0 .. levels |-> [i \in Bins(p) |-> ErrorIn(p, levels, s, i, l)]]
  BY <1>8, <1>11
<1> QED BY <1>2, <1>5, <1>12 DEF ResultOf

\* Steps that leave the results alone, and the samples of tasks that are done.
LEMMA ResultsAlone ==
  ASSUME ResultsInv, case' = case, stats_results' = stats_results,
         Len(seen') = Len(stats_results) + IF pc' \in Running \cup {"interrupted"} THEN 1 ELSE 0,
         \A t \in DOMAIN stats_results : seen'[t] = seen[t]
  PROVE  ResultsInv'
<1>1. \A t \in DOMAIN stats_results : ResultIs(t) => ResultIs(t)'
  <2> SUFFICES ASSUME NEW t \in DOMAIN stats_results, ResultIs(t) PROVE ResultIs(t)'
    OBVIOUS
  <2>1. ResultOf(stats_results[t], case.params, case.levels, seen[t])
    BY ResultIsOf
  <2>2. ResultOf(stats_results'[t], case.params', case.levels', seen'[t])
    BY <2>1
  <2> QED BY <2>2, ResultIsOf
<1> QED BY <1>1 DEF ResultsInv

LEMMA ResultsDone ==
  ASSUME CountsInv, AnalysisInv, ResultsInv, Done
  PROVE  ResultsInv'
<1>1. /\ pc = "live" /\ pc' = "next" /\ case' = case /\ seen' = seen
      /\ collectors' = DoneAll(collectors)
      /\ stats_results' = Append(stats_results, TaskResult(ResultsOfAll(collectors')[1]))
      /\ pc \in Running
  BY DEF Done, Running
<1>2. PICK r : r = TaskResult(ResultsOfAll(collectors')[1])
  OBVIOUS
<1>3. PICK m \in Nat : m = Len(stats_results) /\ DOMAIN stats_results = 1 .. m /\ Len(seen) = m + 1
  BY <1>1 DEF ResultsInv
<1>4. PICK S : S = {stats_results[t] : t \in DOMAIN stats_results} \cup {r}
  OBVIOUS
<1>5. stats_results \in Seq(S) /\ r \in S
  BY <1>4 DEF ResultsInv
<1>6. /\ DOMAIN stats_results' = 1 .. m + 1 /\ Len(stats_results') = m + 1
      /\ stats_results'[m + 1] = r /\ \A t \in 1 .. m : stats_results'[t] = stats_results[t]
      /\ stats_results' \in Seq(S)
  BY <1>1, <1>2, <1>3, <1>5
<1>7. stats_results' \in Seq({stats_results'[t] : t \in DOMAIN stats_results'})
  BY <1>3, <1>4, <1>6
<1>8. Len(seen') = Len(stats_results') + IF pc' \in Running \cup {"interrupted"} THEN 1 ELSE 0
  BY <1>1, <1>3, <1>6 DEF Running
<1>9. ASSUME case.binning, NEW t \in DOMAIN stats_results' PROVE ResultIs(t)'
  <2>1. ASSUME t \in 1 .. m PROVE ResultIs(t)'
    <3>1. ResultOf(stats_results[t], case.params, case.levels, seen[t])
      BY <1>3, <1>9, <2>1, ResultIsOf DEF ResultsInv
    <3>2. ResultOf(stats_results'[t], case.params', case.levels', seen'[t])
      BY <1>1, <1>6, <2>1, <3>1
    <3> QED BY <3>2, ResultIsOf
  <2>2. ASSUME t = m + 1 PROVE ResultIs(t)'
    <3>1. PICK p, levels, c, s :
            p = case.params /\ levels = case.levels /\ c = collectors[1] /\ s = seen[Len(seen)]
      OBVIOUS
    <3>2. levels \in 1 .. 30
      BY <3>1, CaseFacts DEF CountsInv
    <3>3. /\ DOMAIN collectors = {1, 2} /\ {"kind", "histogram"} \subseteq DOMAIN c
          /\ c.kind = "binning"
          /\ c.histogram \in [params : {p}, bins : [Bins(p) -> Nat], off_chart : Nat]
      BY <1>1, <1>9, <3>1 DEF CountsInv, CollectorsInv, Values, histogram, Tracked
    <3>4. Gathered(c, levels, p, s, n)
      BY <1>1, <1>9, <3>1, AnalysisInvIs
    <3>5. n = Len(s) /\ TotalCounts(c.histogram) = n
      BY <1>1, <3>1 DEF CountsInv, TallyInv, Samples, TotalCounts, histogram, Values
    <3>6. \A i \in Bins(p) : c.histogram.bins[i] = HitsIn(p, s, i, 1, n)
      <4>1. \A i \in Bins(p) : c.histogram.bins[i] = AllHits(Len(seen), i)
        BY <1>1, <3>1 DEF CountsInv, TallyInv, histogram, Values, Tracked
      <4>2. \A i : AllHits(Len(seen), i) = HitsIn(p, s, i, 1, n)
        BY <3>1, <3>5, HitsAre DEF AllHits, Samples
      <4> QED BY <4>1, <4>2
    <3>7. r = CollectorResult(CollectorDone(c))
      <4>1. DOMAIN collectors' = {1, 2} /\ collectors'[1] = CollectorDone(c)
        BY <1>1, <3>1, <3>3 DEF DoneAll
      <4>2. ResultsOfAll(collectors')[1] = CollectorResult(CollectorDone(c))
        BY <4>1 DEF ResultsOfAll
      <4> QED BY <1>2, <1>9, <4>2 DEF TaskResult
    <3>8. ResultOf(r, p, levels, s)
      <4>1. {"kind", "histogram", "num_levels", "binning_analysis", "result"} \subseteq DOMAIN c
        BY <3>3, <3>4 DEF Gathered
      <4>2. c.histogram.params = p
        BY <3>3
      <4> QED BY <3>2, <3>3, <3>4, <3>5, <3>6, <3>7, <4>1, <4>2, ResultOfDone
    <3>9. ResultOf(stats_results'[t], case.params', case.levels', seen'[t])
      BY <1>1, <1>3, <1>6, <2>2, <3>1, <3>8
    <3> QED BY <3>9, ResultIsOf
  <2> QED BY <1>6, <2>1, <2>2
<1> QED BY <1>1, <1>7, <1>8, <1>9 DEF ResultsInv

LEMMA ResultsNext ==
  ASSUME CountsInv, AnalysisInv, ResultsInv, [Next]_vars
  PROVE  ResultsInv'
<1>1. PICK m \in Nat : m = Len(stats_results) /\ DOMAIN stats_results = 1 .. m
  BY DEF ResultsInv
<1>2. Len(seen) = m + IF pc \in Running \cup {"interrupted"} THEN 1 ELSE 0
  BY <1>1 DEF ResultsInv
<1>3. seen \in Seq(Seq(SampledValues))
  BY DEF CountsInv, TallyInv
<1>4. ASSUME case' = case, stats_results' = stats_results, seen' = seen,
             pc \in Running \cup {"interrupted"} <=> pc' \in Running \cup {"interrupted"}
      PROVE  ResultsInv'
  BY <1>1, <1>2, <1>4, ResultsAlone
<1>5. CASE RunTask
  <2>1. /\ seen' = Append(seen, <<>>) /\ stats_results' = stats_results /\ case' = case
        /\ pc' \in Running /\ pc \notin Running \cup {"interrupted"}
    BY <1>5 DEF RunTask, Running, outputs
  <2>2. <<>> \in Seq(SampledValues)
    OBVIOUS
  <2>3. Len(seen) = m /\ Len(seen') = m + 1 /\ \A t \in 1 .. m : seen'[t] = seen[t]
    <3>1. Len(seen) = m
      BY <1>2, <2>1
    <3> QED BY <1>3, <2>1, <2>2, <3>1
  <2> QED BY <1>1, <2>1, <2>3, ResultsAlone
<1>6. CASE NoSeed
  BY <1>4, <1>6 DEF NoSeed, Running, outputs
<1>7. CASE ThermIteration
  BY <1>4, <1>7 DEF ThermIteration, outputs
<1>8. CASE ThermalizingDone
  BY <1>4, <1>8 DEF ThermalizingDone, Running, outputs
<1>9. CASE Interrupted
  <2>1. pc \in Running /\ pc' = "interrupted"
    BY <1>9 DEF Interrupted, Polled, Running
  <2> QED BY <1>4, <1>9, <2>1 DEF Interrupted, outputs
<1>10. CASE LiveIteration
  <2>1. case' = case /\ pc' = pc /\ stats_results' = stats_results /\ pc \in Running
    BY <1>10 DEF LiveIteration, outputs, Running
  <2>2. CASE UNCHANGED <<collectors, n, seen>>
    BY <1>4, <2>1, <2>2
  <2>3. CASE \E point \in case.points[(n % Len(case.points)) + 1] : ProcessSample(point)
    <3>1. PICK more : seen' = [seen EXCEPT ![Len(seen)] = more]
      BY <2>3 DEF ProcessSample
    <3>2. Len(seen) = m + 1
      BY <1>2, <2>1
    <3>3. Len(seen') = m + 1 /\ \A t \in 1 .. m : seen'[t] = seen[t]
      BY <1>3, <3>1, <3>2
    <3> QED BY <1>1, <2>1, <3>3, ResultsAlone
  <2> QED BY <1>10, <2>2, <2>3 DEF LiveIteration
<1>11. CASE Done
  BY <1>11, ResultsDone
<1>12. CASE Aggregate \/ PrintFinalReport \/ WriteHistogramCsv
  BY <1>4, <1>12 DEF Aggregate, PrintFinalReport, WriteHistogramCsv, Running
<1>13. CASE UNCHANGED vars
  BY <1>4, <1>13 DEF vars, outputs
<1> QED BY <1>5, <1>6, <1>7, <1>8, <1>9, <1>10, <1>11, <1>12, <1>13 DEF Next

LEMMA ErrorsInit ==
  ASSUME Init
  PROVE  ErrorsInv
<1>1. pc \notin Running \cup {"interrupted"} /\ seen = <<>> /\ stats_results = <<>>
  BY DEF Init, Running
<1>2. AnalysisInv
  BY <1>1 DEF AnalysisInv
<1>3. ResultsInv
  <2>1. <<>> \in Seq({}) /\ DOMAIN <<>> = {} /\ Len(<<>>) = 0
    OBVIOUS
  <2>2. {stats_results[t] : t \in DOMAIN stats_results} = {}
    BY <1>1, <2>1
  <2> QED BY <1>1, <2>1, <2>2 DEF ResultsInv
<1> QED BY <1>2, <1>3, CountsInit DEF ErrorsInv

\* The binning analysis (processNewValues()) holds, at each level, the squares of just
\* those blocks of samples that are flushed, besides the samples that are not; each
\* task that is done has the error bars that follow from its blocks, and the verdicts
\* that follow from these (done() of the stats collector).
THEOREM ErrorsInvariance == Spec => []ErrorsInv
<1>1. ErrorsInv /\ [Next]_vars => ErrorsInv'
  BY CountsNext, AnalysisNext, ResultsNext DEF ErrorsInv
<1> QED BY <1>1, ErrorsInit, PTL DEF Spec

-----------------------------------------------------------------------------
\* The verdict

\* the square of an error bar: finite, without bound, or no number
IsError(f) == \E x \in Nat, y \in Nat : f = <<x, y>> /\ (y = 0 => x \in {0, 1})

\* what Frac can be
Ratio(f, c, d) ==
  \E x \in Int, y \in Nat :
    /\ f = <<x, y>> /\ (y = 0 <=> d = 0) /\ (y = 0 => x \in {0, 1, -1})
    /\ c >= 0 /\ d >= 0 => x >= 0

LEMMA FracOf ==
  ASSUME NEW c \in Int, NEW d \in Int
  PROVE  Ratio(Frac(c, d), c, d)
<1>1. PICK x \in Int, y \in Nat :
        /\ Frac(c, d) = <<x, y>>
        /\ d # 0 => y # 0 /\ x * d = c * y
        /\ d = 0 => y = 0 /\ x = IF c > 0 THEN 1 ELSE IF c < 0 THEN -1 ELSE 0
  BY FracIs, Zenon
<1>2. ASSUME c >= 0, d > 0 PROVE x >= 0
  <2>1. y > 0 /\ x * d = c * y /\ c * y >= 0
    BY <1>1, <1>2
  <2>2. x < 0 => x * d < 0
    BY <1>2
  <2> QED BY <2>1, <2>2
<1> QED BY <1>1, <1>2 DEF Ratio

LEMMA TimesOf ==
  ASSUME NEW x \in Int, NEW y \in Int
  PROVE  \E u \in Int, v \in Nat : Times(<<x, y>>, <<x, y>>) = <<u, v>>
<1>1. PICK f : f = Frac(x, y)
  OBVIOUS
<1>2. PICK u \in Int, v \in Nat : f = <<u, v>>
  BY <1>1, FracOf DEF Ratio
<1>3. Times(<<x, y>>, <<x, y>>) = Frac(u * u, v * v)
  <2>1. PICK a : a = <<x, y>>
    OBVIOUS
  <2>2. a[1] = x /\ a[2] = y /\ f[1] = u /\ f[2] = v
    BY <1>2, <2>1
  <2>3. Times(a, a) = Frac(f[1] * f[1], f[2] * f[2])
    BY <1>1, <2>2, Zenon DEF Times
  <2> QED BY <2>1, <2>2, <2>3
<1>4. PICK c \in Int, d \in Int : c = u * u /\ d = v * v
  OBVIOUS
<1>5. PICK m \in Int, l \in Nat : Frac(c, d) = <<m, l>>
  <2>1. Ratio(Frac(c, d), c, d)
    BY <1>4, FracOf
  <2> QED BY <2>1 DEF Ratio
<1> QED BY <1>3, <1>4, <1>5

LEMMA SquaresTyped ==
  ASSUME NEW p, NEW s, NEW i \in Bins(p), NEW level \in 0 .. 30, NEW blocks \in Nat
  PROVE  SquaresIn(p, s, i, level, blocks) \in Int
<1>1. PICK g \in [Nat -> Int] : g = SquaresOf(Blocks(Marks(p, s)[i], level))
  BY BlocksAre
<1>2. UpTo(g, blocks) \in Int
  BY UpToIs
<1> QED BY <1>1, <1>2, SquaresOfMarks

\* A square is never negative.
LEMMA ErrorInIsError ==
  ASSUME NEW p, NEW levels \in 1 .. 30, NEW s, Len(s) \in Nat, NEW i \in Bins(p),
         NEW level \in 0 .. levels
  PROVE  IsError(ErrorIn(p, levels, s, i, level))
<1>0. PICK m \in Int : m = Len(s)
  OBVIOUS
<1>1. PICK f \in Nat : f = Len(s) \div 2 ^ levels
  <2>1. PICK size \in Nat \ {0} : size = 2 ^ levels
    <3>1. levels \in 0 .. 31
      OBVIOUS
    <3> QED BY <3>1, PowersOfTwo
  <2>2. PICK c \in Nat : c = Len(s)
    OBVIOUS
  <2>3. PICK q, r : q = c \div size /\ r = c % size
    OBVIOUS
  <2>4. q \in Int /\ r \in 0 .. size - 1 /\ c = size * q + r
    <3>1. c \in Int
      OBVIOUS
    <3> QED BY <2>3, <3>1, Division
  <2>5. q >= 0
    <3>1. q <= -1 => size * q <= size * (-1)
      BY <2>4
    <3> QED BY <2>4, <3>1
  <2> QED BY <2>1, <2>2, <2>3, <2>4, <2>5
<1>2. PICK averages \in Nat, w \in Nat : averages = f * 2 ^ (levels - level) /\ w = 2 ^ level
  <2>1. levels - level \in 0 .. 31 /\ level \in 0 .. 31
    OBVIOUS
  <2>2. 2 ^ (levels - level) \in Nat /\ 2 ^ level \in Nat
    BY <2>1, PowersOfTwo
  <2> QED BY <1>1, <2>2
<1>3. PICK h \in Int : h = HitsIn(p, s, i, 1, m)
  <2>1. 1 \in Int
    OBVIOUS
  <2>2. {j \in 1 .. m : LiesAt(p, s[j], i)} \subseteq 1 .. m
    OBVIOUS
  <2>3. IsFiniteSet(1 .. m)
    BY <2>1, FS_Interval
  <2>4. HitsIn(p, s, i, 1, m) \in Nat
    BY <2>2, <2>3, FS_Subset, FS_CardinalityType DEF HitsIn
  <2> QED BY <2>4
<1>4. PICK S \in Int : S = SquaresIn(p, s, i, level, averages)
  <2>1. PICK e \in 0 .. 30 : e = level
    OBVIOUS
  <2>2. averages \in Nat /\ e \in 0 .. 30
    BY <1>2, <2>1
  <2> QED BY <2>1, <2>2, SquaresTyped
<1>5. PICK mx \in Int, my \in Nat : Frac(h, m) = <<mx, my>>
  <2>1. Ratio(Frac(h, m), h, m)
    BY <1>0, <1>3, FracOf
  <2> QED BY <2>1 DEF Ratio
<1>6. PICK sq : sq = Times(<<mx, my>>, <<mx, my>>)
  OBVIOUS
<1>7. PICK ux \in Int, uy \in Nat : sq = <<ux, uy>>
  <2>1. mx \in Int /\ my \in Int
    BY <1>5
  <2> QED BY <1>6, <2>1, TimesOf
<1>8. PICK ax \in Int, ay \in Nat :
        Frac(S, w * w * averages) = <<ax, ay>> /\ (averages = 0 => ay = 0)
  <2>1. PICK d \in Int : d = w * w * averages
    BY <1>2
  <2>2. averages = 0 => d = 0
    BY <1>2, <2>1
  <2>3. Ratio(Frac(S, d), S, d)
    BY <1>4, <2>1, FracOf
  <2> QED BY <2>1, <2>2, <2>3 DEF Ratio
<1>9. PICK spread : spread = Minus(<<ax, ay>>, sq)
  OBVIOUS
<1>10. PICK sx \in Int, sy \in Nat :
         spread = <<sx, sy>> /\ (averages = 0 => sy = 0) /\ (sy = 0 => sx \in {0, 1, -1})
  <2>1. PICK c \in Int, d \in Int : c = ax * uy - ux * ay /\ d = ay * uy
    BY <1>7, <1>8
  <2>2. spread = Frac(c, d)
    BY <1>7, <1>9, <2>1 DEF Minus
  <2>3. averages = 0 => d = 0
    BY <1>7, <1>8, <2>1
  <2>4. Ratio(Frac(c, d), c, d)
    BY FracOf
  <2> QED BY <2>2, <2>3, <2>4 DEF Ratio
<1>11. PICK cx \in Nat, cy \in Nat :
         Clipped(spread) = <<cx, cy>> /\ (averages = 0 => cy = 0 \/ cx = 0)
  <2>1. CASE Less(spread, Zero)
    BY <2>1 DEF Clipped, Zero
  <2>2. CASE ~Less(spread, Zero)
    <3>1. sx >= 0
      <4>1. CASE sy = 0
        <5>1. sx * 1 < 0 * sy => Less(spread, Zero)
          BY <1>10, <4>1 DEF Less, Zero, NaN, IsFinite
        <5> QED BY <1>10, <2>2, <4>1, <5>1
      <4>2. CASE sy # 0
        <5>1. IsRatio(spread, sx, sy) /\ IsRatio(Zero, 0, 1)
          BY <1>10, <4>2 DEF IsRatio, Finite, Zero
        <5>2. Less(spread, Zero) <=> sx * 1 < 0 * sy
          BY <5>1, LessRatios
        <5> QED BY <1>10, <2>2, <5>2
      <4> QED BY <4>1, <4>2
    <3> QED BY <1>10, <2>2, <3>1 DEF Clipped
  <2> QED BY <2>1, <2>2
<1>12. IsError(Over(<<cx, cy>>, averages - 1))
  <2>1. PICK d \in Int : d = cy * (averages - 1)
    BY <1>2, <1>11
  <2>2. Over(<<cx, cy>>, averages - 1) = Frac(cx, d)
    BY <2>1 DEF Over
  <2>3. PICK c \in Int : c = cx
    BY <1>11
  <2>4. Ratio(Frac(c, d), c, d)
    BY FracOf
  <2>5. d >= 0 \/ (d < 0 /\ c = 0)
    <3>1. averages >= 1 => d >= 0
      BY <1>2, <1>11, <2>1
    <3>2. averages = 0 => d = -cy
      BY <1>2, <1>11, <2>1
    <3> QED BY <1>2, <1>11, <2>1, <2>3, <3>1, <3>2
  <2>6. d < 0 /\ c = 0 => Frac(c, d)[1] = 0
    <3> SUFFICES ASSUME d < 0, c = 0 PROVE Frac(c, d)[1] = 0
      OBVIOUS
    <3>1. PICK x \in Int, y \in Nat :
             /\ Frac(c, d) = <<x, y>>
             /\ d # 0 => y # 0 /\ x * d = c * y
             /\ d = 0 => y = 0 /\ x = IF c > 0 THEN 1 ELSE IF c < 0 THEN -1 ELSE 0
      BY <2>1, <2>3, FracIs, Zenon
    <3>2. x * d = 0
      BY <3>1
    <3>3. x > 0 => x * d < 0
      OBVIOUS
    <3>4. x < 0 => x * d > 0
      OBVIOUS
    <3> QED BY <3>1, <3>2, <3>3, <3>4
  <2>7. IsError(Frac(c, d))
    BY <2>3, <2>4, <2>5, <2>6 DEF Ratio, IsError
  <2> QED BY <2>2, <2>3, <2>7
<1> QED BY <1>0, <1>1, <1>2, <1>3, <1>4, <1>5, <1>6, <1>8, <1>9, <1>11, <1>12 DEF ErrorIn

LEMMA ProductRatio ==
  ASSUME NEW x, NEW y, NEW c, NEW d, NEW m, NEW e, IsRatio(x, c, d), IsRatio(y, m, e)
  PROVE  IsRatio(Frac(x[1] * y[1], x[2] * y[2]), c * m, d * e)
<1>1. PICK p \in Int, q \in Nat \ {0}, r \in Int, s \in Nat \ {0} :
        x[1] = p /\ x[2] = q /\ y[1] = r /\ y[2] = s
  BY DEF IsRatio, Finite
<1>2. /\ c \in Int /\ d \in Nat \ {0} /\ m \in Int /\ e \in Nat \ {0}
      /\ p * d = c * q /\ r * e = m * s
  BY <1>1 DEF IsRatio
<1>3. PICK u \in Int, v \in Nat \ {0} : u = p * r /\ v = q * s
  BY <1>1
<1>4. IsRatio(Frac(u, v), u, v)
  BY FracRatio
<1>5. PICK f \in Int, g \in Nat \ {0} : Frac(u, v) = <<f, g>> /\ f * v = u * g
  BY <1>4 DEF IsRatio, Finite
<1>6. f * (d * e) = (c * m) * g
  <2>1. (f * (d * e)) * v = (f * v) * (d * e)
    BY <1>2, <1>5
  <2>2. (f * v) * (d * e) = (u * g) * (d * e)
    BY <1>5
  <2>3. (u * g) * (d * e) = ((p * d) * (r * e)) * g
    BY <1>1, <1>2, <1>3, <1>5
  <2>4. ((p * d) * (r * e)) * g = ((c * q) * (m * s)) * g
    BY <1>2
  <2>5. ((c * q) * (m * s)) * g = ((c * m) * g) * v
    BY <1>1, <1>2, <1>3, <1>5
  <2>6. PICK k1 \in Int, k2 \in Int : k1 = f * (d * e) /\ k2 = (c * m) * g
    BY <1>2, <1>5
  <2>7. k1 * v = k2 * v
    BY <2>1, <2>2, <2>3, <2>4, <2>5, <2>6
  <2>8. v \in Nat \ {0} /\ k1 \in Int /\ k2 \in Int
    BY <1>3, <2>6
  <2>9. k1 = k2
    BY <2>7, <2>8, Positive
  <2> QED BY <2>6, <2>9
<1>7. c * m \in Int /\ d * e \in Nat \ {0}
  BY <1>2
<1> QED BY <1>1, <1>3, <1>5, <1>6, <1>7 DEF IsRatio, Finite

\* Comparison, infinities and what is no number included.
LEMMA LessIs ==
  ASSUME NEW x \in Int, NEW y \in Nat, NEW u \in Int, NEW v \in Nat
  PROVE  Less(<<x, y>>, <<u, v>>) <=> x * v < u * y
<1>1. PICK f, g : f = <<x, y>> /\ g = <<u, v>>
  OBVIOUS
<1>2. CASE y # 0 /\ v # 0
  <2>1. IsRatio(f, x, y) /\ IsRatio(g, u, v)
    BY <1>1, <1>2 DEF IsRatio, Finite
  <2> QED BY <1>1, <2>1, LessRatios
<1>3. CASE y = 0 \/ v = 0
  <2>1. f = NaN \/ g = NaN => ~(x * v < u * y)
    <3>1. f = NaN => x = 0 /\ y = 0
      BY <1>1 DEF NaN
    <3>2. g = NaN => u = 0 /\ v = 0
      BY <1>1 DEF NaN
    <3>3. 0 * v = 0 /\ u * 0 = 0 /\ x * 0 = 0 /\ 0 * y = 0
      OBVIOUS
    <3> QED BY <3>1, <3>2, <3>3
  <2>2. f[1] = x /\ f[2] = y /\ g[1] = u /\ g[2] = v
    BY <1>1
  <2>3. Less(f, g) <=> f # NaN /\ g # NaN /\ x * v < u * y
    BY <1>3, <2>2 DEF Less, IsFinite
  <2> QED BY <1>1, <2>1, <2>3
<1> QED BY <1>2, <1>3

\* The share is compared as a quotient; as a product it is the same.
LEMMA Shares ==
  ASSUME NEW f, NEW g, IsError(f), IsError(g), NEW a \in Nat \ {0}, NEW b \in Nat \ {0}
  PROVE  /\ LessThanShare(f, g, a, b) <=> Less(f, Times(<<a, b>>, g))
         /\ LessThanShare(f, g, a, b) <=> (f[1] * g[2]) * b < a * (g[1] * f[2])
<1>1. PICK fx \in Nat, fy \in Nat : f = <<fx, fy>> /\ (fy = 0 => fx \in {0, 1})
  BY DEF IsError
<1>2. PICK gx \in Nat, gy \in Nat : g = <<gx, gy>> /\ (gy = 0 => gx \in {0, 1})
  BY DEF IsError
<1>0. a \in Int /\ b \in Int /\ gx \in Int /\ gy \in Int
  OBVIOUS
<1>3. PICK share : share = <<a, b>>
  OBVIOUS
<1>4. PICK t : t = Times(share, g)
  OBVIOUS
<1>11. f[1] = fx /\ f[2] = fy /\ g[1] = gx /\ g[2] = gy
  BY <1>1, <1>2
<1>5. t = Frac(Frac(a, gy)[1] * Frac(gx, b)[1], Frac(a, gy)[2] * Frac(gx, b)[2])
  BY <1>2, <1>3, <1>4 DEF Times
<1>6. CASE gy = 0
  <2>1. Ratio(Frac(a, gy), a, gy) /\ Ratio(Frac(gx, b), gx, b)
    BY FracOf
  <2>2. PICK px \in Int, py \in Nat : Frac(a, gy) = <<px, py>> /\ py = 0 /\ px = 1
    <3>1. PICK x \in Int, y \in Nat :
            /\ Frac(a, gy) = <<x, y>>
            /\ gy # 0 => y # 0 /\ x * gy = a * y
            /\ gy = 0 => y = 0 /\ x = IF a > 0 THEN 1 ELSE IF a < 0 THEN -1 ELSE 0
      BY <1>0, FracIs, Zenon
    <3> QED BY <1>6, <3>1
  <2>3. PICK u \in Int, v \in Nat : Frac(gx, b) = <<u, v>> /\ v # 0 /\ u * b = gx * v
    <3>1. PICK x \in Int, y \in Nat :
            /\ Frac(gx, b) = <<x, y>>
            /\ b # 0 => y # 0 /\ x * b = gx * y
            /\ b = 0 => y = 0 /\ x = IF gx > 0 THEN 1 ELSE IF gx < 0 THEN -1 ELSE 0
      BY <1>0, FracIs, Zenon
    <3> QED BY <3>1
  <2>4. t = Frac(u, 0)
    BY <1>5, <2>2, <2>3
  <2>5. gx = 0 => u = 0
    <3>1. gx = 0 => u * b = 0
      BY <2>3
    <3>2. u > 0 => u * b > 0
      OBVIOUS
    <3>3. u < 0 => u * b < 0
      OBVIOUS
    <3> QED BY <3>1, <3>2, <3>3
  <2>6. gx = 1 => u > 0
    <3>1. gx = 1 => u * b > 0
      BY <2>3
    <3>2. u <= 0 => u * b <= 0
      OBVIOUS
    <3> QED BY <3>1, <3>2
  <2>7. t = g
    <3>1. PICK z \in Int : z = 0
      OBVIOUS
    <3>2. PICK x \in Int, y \in Nat :
            /\ Frac(u, z) = <<x, y>>
            /\ z # 0 => y # 0 /\ x * z = u * y
            /\ z = 0 => y = 0 /\ x = IF u > 0 THEN 1 ELSE IF u < 0 THEN -1 ELSE 0
      BY FracIs, Zenon
    <3> QED BY <1>2, <1>6, <2>4, <2>5, <2>6, <3>1, <3>2
  <2>8. LessThanShare(f, g, a, b) <=> Less(f, g)
    <3>1. ~IsFinite(g)
      BY <1>2, <1>6 DEF IsFinite
    <3> QED BY <3>1 DEF LessThanShare, Less
  <2>9. Less(f, g) <=> (fx * gy) * b < a * (gx * fy)
    <3>1. Less(f, g) <=> fx * gy < gx * fy
      BY <1>1, <1>2, LessIs
    <3>2. fx * gy = 0 /\ (fx * gy) * b = 0
      BY <1>1, <1>6
    <3>3. PICK w \in Nat : w = gx * fy
      BY <1>1, <1>2
    <3>4. 0 < w <=> 0 < a * w
      BY <3>3
    <3> QED BY <3>1, <3>2, <3>3, <3>4
  <2> QED BY <1>3, <1>4, <1>11, <2>7, <2>8, <2>9
<1>7. ASSUME gy # 0
      PROVE  /\ IsRatio(t, a * gx, gy * b)
             /\ fy = 0 \/ gx = 0 => ~Less(f, t)
  <2>1. IsRatio(t, a * gx, gy * b)
    <3>1. IsRatio(Frac(a, gy), a, gy) /\ IsRatio(Frac(gx, b), gx, b)
      BY <1>7, FracRatio
    <3> QED BY <1>5, <3>1, ProductRatio
  <2>2. PICK tx \in Int, ty \in Nat \ {0} : t = <<tx, ty>> /\ tx * (gy * b) = (a * gx) * ty
    BY <2>1 DEF IsRatio, Finite
  <2>3. Less(f, t) <=> fx * ty < tx * fy
    BY <1>1, <2>2, LessIs
  <2>4. fx * ty >= 0
    BY <1>1, <2>2
  <2>5. gx = 0 => tx = 0
    <3>1. PICK w \in Nat \ {0} : w = gy * b
      BY <1>2, <1>7
    <3>2. gx = 0 => tx * w = 0
      BY <2>2, <3>1
    <3>3. tx > 0 => tx * w > 0
      BY <2>2, <3>1
    <3>4. tx < 0 => tx * w < 0
      BY <2>2, <3>1
    <3> QED BY <2>2, <3>2, <3>3, <3>4
  <2>6. fy = 0 \/ gx = 0 => tx * fy = 0
    BY <1>1, <2>2, <2>5
  <2> QED BY <1>1, <2>1, <2>2, <2>3, <2>4, <2>6
<1>8. CASE gy # 0 /\ (fy = 0 \/ gx = 0)
  <2>1. PICK x, y : x = Frac(fx, gx) /\ y = Frac(gy, fy)
    OBVIOUS
  <2>2. PICK xx \in Int, xy \in Nat : x = <<xx, xy>> /\ (xy = 0 <=> gx = 0) /\ xx >= 0
    <3>1. PICK c \in Int, d \in Int : c = fx /\ d = gx /\ c >= 0 /\ d >= 0
      OBVIOUS
    <3>2. Ratio(Frac(c, d), c, d)
      BY FracOf
    <3> QED BY <2>1, <3>1, <3>2 DEF Ratio
  <2>3. PICK yx \in Int, yy \in Nat : y = <<yx, yy>> /\ (yy = 0 <=> fy = 0) /\ yx >= 0
    <3>1. PICK c \in Int, d \in Int : c = gy /\ d = fy /\ c >= 0 /\ d >= 0
      OBVIOUS
    <3>2. Ratio(Frac(c, d), c, d)
      BY FracOf
    <3> QED BY <2>1, <3>1, <3>2 DEF Ratio
  <2>4. PICK c \in Int, d \in Int : c = xx * yx /\ d = xy * yy /\ c >= 0 /\ d = 0
    <3>1. xx * yx >= 0 /\ xx * yx \in Int
      BY <2>2, <2>3
    <3>2. xy * yy = 0
      BY <1>8, <2>2, <2>3
    <3> QED BY <3>1, <3>2
  <2>5. Quotient(f, g) = Frac(c, d)
    <3>1. f[1] = fx /\ f[2] = fy /\ g[1] = gx /\ g[2] = gy
      BY <1>1, <1>2
    <3>2. x[1] = xx /\ x[2] = xy /\ y[1] = yx /\ y[2] = yy
      BY <2>2, <2>3
    <3>3. Quotient(f, g) = Frac(x[1] * y[1], x[2] * y[2])
      BY <2>1, <3>1, Zenon DEF Quotient
    <3> QED BY <2>4, <3>2, <3>3
  <2>6. PICK qx \in Int, qy \in Nat : Frac(c, d) = <<qx, qy>> /\ qy = 0 /\ qx >= 0
    <3>1. Ratio(Frac(c, d), c, d)
      BY FracOf
    <3> QED BY <2>4, <3>1 DEF Ratio
  <2>7. ~Less(Quotient(f, g), share)
    <3>1. Less(<<qx, qy>>, <<a, b>>) <=> qx * b < a * qy
      BY LessIs
    <3>2. qx * b >= 0 /\ a * qy = 0
      BY <2>6
    <3> QED BY <1>3, <2>5, <2>6, <3>1, <3>2
  <2>8. ~Less(f, Zero)
    <3>1. Less(<<fx, fy>>, <<0, 1>>) <=> fx * 1 < 0 * fy
      BY LessIs
    <3> QED BY <1>1, <3>1 DEF Zero
  <2>9. ~LessThanShare(f, g, a, b)
    <3>1. IsFinite(g)
      BY <1>2, <1>8 DEF IsFinite
    <3> QED BY <1>3, <2>7, <2>8, <3>1 DEF LessThanShare
  <2>10. ~((fx * gy) * b < a * (gx * fy))
    <3>1. gx * fy = 0 /\ a * (gx * fy) = 0
      BY <1>1, <1>2, <1>8
    <3>2. (fx * gy) * b >= 0
      BY <1>1, <1>2
    <3> QED BY <3>1, <3>2
  <2> QED BY <1>3, <1>4, <1>7, <1>8, <1>11, <2>9, <2>10
<1>9. CASE gy # 0 /\ gx # 0 /\ fy # 0
  <2>1. IsRatio(Quotient(f, g), fx * gy, gx * fy)
    <3>1. IsRatio(Frac(fx, gx), fx, gx) /\ IsRatio(Frac(gy, fy), gy, fy)
      BY <1>9, FracRatio
    <3>2. Quotient(f, g) = Frac(Frac(fx, gx)[1] * Frac(gy, fy)[1], Frac(fx, gx)[2] * Frac(gy, fy)[2])
      BY <1>1, <1>2 DEF Quotient
    <3> QED BY <3>1, <3>2, ProductRatio
  <2>2. IsRatio(t, a * gx, gy * b)
    BY <1>7, <1>9
  <2>3. IsRatio(share, a, b) /\ IsRatio(f, fx, fy)
    BY <1>1, <1>3, <1>9 DEF IsRatio, Finite
  <2>4. Less(Quotient(f, g), share) <=> (fx * gy) * b < a * (gx * fy)
    BY <2>1, <2>3, LessRatios
  <2>5. Less(f, t) <=> fx * (gy * b) < (a * gx) * fy
    BY <2>2, <2>3, LessRatios
  <2>6. (fx * gy) * b = fx * (gy * b) /\ a * (gx * fy) = (a * gx) * fy
    BY <1>1, <1>2
  <2>7. LessThanShare(f, g, a, b) <=> Less(Quotient(f, g), share)
    BY <1>1, <1>2, <1>3, <1>9 DEF LessThanShare, NaN, IsFinite, Zero
  <2> QED BY <1>3, <1>4, <1>11, <2>4, <2>5, <2>6, <2>7
<1> QED BY <1>6, <1>8, <1>9

\* What the verdict on one level depends on: three conditions, of which the first
\* excludes the second and the third entails it.
LEMMA ShareFacts ==
  ASSUME NEW f, NEW g, IsError(f), IsError(g)
  PROVE  /\ AtLeast(f, g) => ~LessThanShare(f, g, 81, 100)
         /\ LessThanShare(f, g, 10609, 15625) => LessThanShare(f, g, 81, 100)
<1>1. PICK fx \in Nat, fy \in Nat, gx \in Nat, gy \in Nat : f = <<fx, fy>> /\ g = <<gx, gy>>
  BY DEF IsError
<1>2. f[1] = fx /\ f[2] = fy /\ g[1] = gx /\ g[2] = gy
  BY <1>1
<1>3. PICK X \in Nat, Y \in Nat : X = fx * gy /\ Y = gx * fy
  BY <1>1
<1>4. LessThanShare(f, g, 81, 100) <=> X * 100 < 81 * Y
  <2>1. 81 \in Nat \ {0} /\ 100 \in Nat \ {0}
    OBVIOUS
  <2>2. LessThanShare(f, g, 81, 100) <=> (f[1] * g[2]) * 100 < 81 * (g[1] * f[2])
    BY <2>1, Shares
  <2> QED BY <1>2, <1>3, <2>2
<1>5. LessThanShare(f, g, 10609, 15625) <=> X * 15625 < 10609 * Y
  <2>1. PICK a \in Nat \ {0}, b \in Nat \ {0} : a = 10609 /\ b = 15625
    OBVIOUS
  <2>2. LessThanShare(f, g, a, b) <=> (f[1] * g[2]) * b < a * (g[1] * f[2])
    BY Shares
  <2> QED BY <1>2, <1>3, <2>1, <2>2
<1>6. AtLeast(f, g) => ~(X < Y)
  <2>1. Less(<<fx, fy>>, <<gx, gy>>) <=> fx * gy < gx * fy
    BY LessIs
  <2> QED BY <1>1, <1>3, <2>1 DEF AtLeast
<1> QED BY <1>3, <1>4, <1>5, <1>6

\* The verdicts on three levels, one after the other.
LEMMA VerdictsAre ==
  ASSUME NEW errors, NEW v, NEW levels \in Nat, levels >= 3, v \in DOMAIN errors[levels]
  PROVE  DetermineErrorConvergence(errors, levels)[v] =
           VerdictAt(VerdictAt(VerdictAt("CONVERGED", errors[levels - 3][v], errors[levels][v]),
                               errors[levels - 2][v], errors[levels][v]),
                     errors[levels - 1][v], errors[levels][v])
<1> DEFINE seq == [i \in 1 .. ConvergenceRange - 1 |-> levels - ConvergenceRange + i]
           Op(verdict, level) == VerdictAt(verdict, errors[level][v], errors[levels][v])
           D == DOMAIN seq
           g == [jy \in (1 .. 3) \X Verdicts |-> Op(jy[2], seq[jy[1]])]
           Folds(iter) == iter = [s \in SUBSET D |->
                                    IF s = {} THEN "CONVERGED"
                                    ELSE VerdictAt(iter[s \ {Max(s)}],
                                                   errors[seq[Max(s)]][v], errors[levels][v])]
<1>1. D = 1 .. 3 /\ seq[1] = levels - 3 /\ seq[2] = levels - 2 /\ seq[3] = levels - 1
  BY DEF ConvergenceRange
<1>2. \A y \in Verdicts : \A level : Op(y, level) \in Verdicts
  BY DEF VerdictAt, Verdicts
<1> HIDE DEF Op
<1>3. \E iter : Folds(iter)
  <2>1. g \in [(1 .. 3) \X Verdicts -> Verdicts]
    <3> HIDE DEF seq
    <3> QED BY <1>2
  <2>2. \A i \in 1 .. 3, y \in Verdicts : g[<<i, y>>] = Op(y, seq[i])
    <3> HIDE DEF seq
    <3> QED OBVIOUS
  <2>3. "CONVERGED" \in Verdicts /\ 3 \in Nat
    BY DEF Verdicts
  <2> HIDE DEF g
  <2>4. PICK iter \in [SUBSET (1 .. 3) -> Verdicts] : FoldsLeft(iter, 3, "CONVERGED", g)
    BY <2>1, <2>3, LeftFold
  <2> HIDE DEF seq
  <2>5. ASSUME NEW s \in SUBSET (1 .. 3)
        PROVE  iter[s] = IF s = {} THEN "CONVERGED" ELSE Op(iter[s \ {Max(s)}], seq[Max(s)])
    <3>1. CASE s = {}
      BY <2>4, <3>1 DEF FoldsLeft
    <3>2. CASE s # {}
      <4>1. PICK x \in 1 .. 3 : x = Max(s)
        BY <2>3, <3>2, Largest
      <4>2. iter[s] = g[<<x, iter[s \ {x}]>>] /\ iter[s \ {x}] \in Verdicts
        BY <2>4, <3>2, <4>1 DEF FoldsLeft
      <4> QED BY <2>2, <3>2, <4>1, <4>2
    <3> QED BY <3>1, <3>2
  <2>6. iter = [s \in SUBSET (1 .. 3) |->
                  IF s = {} THEN "CONVERGED" ELSE Op(iter[s \ {Max(s)}], seq[Max(s)])]
    BY <2>4, <2>5
  <2>7. Folds(iter)
    BY <1>1, <2>6 DEF Op
  <2> HIDE DEF Folds
  <2> QED BY <2>7
<1>4. PICK iter : Folds(iter) /\ DetermineErrorConvergence(errors, levels)[v] = iter[D]
  <2>1. ~(levels < ConvergenceRange - 1)
    BY DEF ConvergenceRange
  <2>2. DetermineErrorConvergence(errors, levels)[v] =
          FoldLeft(LAMBDA verdict, level :
                     VerdictAt(verdict, errors[level][v], errors[levels][v]),
                   "CONVERGED", seq)
    BY <2>1, Zenon DEF DetermineErrorConvergence
  <2> QED BY <1>3, <2>2 DEF FoldLeft, MapThenFoldSet
<1>5. ASSUME NEW i \in 1 .. 3 PROVE iter[1 .. i] = Op(iter[1 .. i - 1], seq[i])
  <2>1. (1 .. i) \in SUBSET D
    BY <1>1
  <2>2. Max(1 .. i) = i /\ (1 .. i) \ {i} = 1 .. i - 1 /\ (1 .. i) # {}
    <3>1. i \in Nat \ {0}
      OBVIOUS
    <3> QED BY <3>1, MaxUpTo
  <2> HIDE DEF seq
  <2> USE DEF Op
  <2>3. iter[1 .. i] = Op(iter[(1 .. i) \ {Max(1 .. i)}], seq[Max(1 .. i)])
    BY <1>4, <2>1, <2>2
  <2> QED BY <2>2, <2>3
<1>6. iter[{}] = "CONVERGED"
  <2>1. {} \in SUBSET D
    OBVIOUS
  <2> HIDE DEF seq
  <2> QED BY <1>4, <2>1
<1> HIDE DEF seq, Folds
<1>7. 1 .. 1 - 1 = {} /\ 2 - 1 = 1 /\ 3 - 1 = 2 /\ 1 \in 1 .. 3 /\ 2 \in 1 .. 3 /\ 3 \in 1 .. 3
  OBVIOUS
<1>8. iter[1 .. 1] = Op("CONVERGED", levels - 3)
  BY <1>1, <1>5, <1>6, <1>7
<1>9. iter[1 .. 2] = Op(iter[1 .. 1], levels - 2)
  BY <1>1, <1>5, <1>7
<1>10. iter[1 .. 3] = Op(iter[1 .. 2], levels - 1)
  BY <1>1, <1>5, <1>7
<1> QED BY <1>1, <1>4, <1>8, <1>9, <1>10 DEF Op

\* The verdict on one level in terms of what VerdictSound asks about it.
FarBelow(f, last) == Less(f, Times(<<10609, 15625>>, last))
IsBelow(f, last) == Less(f, Times(<<81, 100>>, last))

LEMMA VerdictStep ==
  ASSUME NEW f, NEW last, IsError(f), IsError(last), NEW verdict \in Verdicts
  PROVE  /\ VerdictAt(verdict, f, last) =
              IF FarBelow(f, last) \/ verdict = "NOT_CONVERGED" THEN "NOT_CONVERGED"
              ELSE IF IsBelow(f, last) THEN "UNKNOWN"
              ELSE IF AtLeast(f, last) THEN "CONVERGED" ELSE verdict
         /\ ~(AtLeast(f, last) /\ IsBelow(f, last))
         /\ VerdictAt(verdict, f, last) \in Verdicts
<1>1. LessThanShare(f, last, 10609, 15625) <=> FarBelow(f, last)
  <2>1. PICK a \in Nat \ {0}, b \in Nat \ {0} : a = 10609 /\ b = 15625
    OBVIOUS
  <2>2. LessThanShare(f, last, a, b) <=> Less(f, Times(<<a, b>>, last))
    BY Shares
  <2> QED BY <2>1, <2>2 DEF FarBelow
<1>2. LessThanShare(f, last, 81, 100) <=> IsBelow(f, last)
  <2>1. PICK a \in Nat \ {0}, b \in Nat \ {0} : a = 81 /\ b = 100
    OBVIOUS
  <2>2. LessThanShare(f, last, a, b) <=> Less(f, Times(<<a, b>>, last))
    BY Shares
  <2> QED BY <2>1, <2>2 DEF IsBelow
<1>3. /\ AtLeast(f, last) => ~LessThanShare(f, last, 81, 100)
      /\ LessThanShare(f, last, 10609, 15625) => LessThanShare(f, last, 81, 100)
  BY ShareFacts
<1> QED BY <1>1, <1>2, <1>3 DEF VerdictAt, Verdicts

\* Three levels: each line is what one of them makes of the verdict before it.
LEMMA VerdictFollows ==
  ASSUME NEW errors, NEW v, NEW levels \in Nat, levels >= 3, v \in DOMAIN errors[levels],
         \A l \in levels - 3 .. levels : IsError(errors[l][v])
  PROVE  DetermineErrorConvergence(errors, levels)[v] = DueVerdict(errors, levels, v)
<1> DEFINE last == errors[levels][v]
           Far(l) == FarBelow(errors[l][v], last)
           Below(l) == IsBelow(errors[l][v], last)
           Not(l) == AtLeast(errors[l][v], last)
           considered == levels - 3 .. levels - 1
           clear == {l \in considered : Below(l) \/ Not(l)}
           Step(y, l) == IF Far(l) \/ y = "NOT_CONVERGED" THEN "NOT_CONVERGED"
                         ELSE IF Below(l) THEN "UNKNOWN"
                         ELSE IF Not(l) THEN "CONVERGED" ELSE y
<1>1. PICK a, b, c : a = levels - 3 /\ b = levels - 2 /\ c = levels - 1
  OBVIOUS
<1>2. /\ considered = {a, b, c} /\ a \in Nat /\ b \in Nat /\ c \in Nat
      /\ a < b /\ b < c /\ a \in levels - 3 .. levels /\ b \in levels - 3 .. levels
      /\ c \in levels - 3 .. levels /\ levels \in levels - 3 .. levels
  BY <1>1
<1>3. \A l \in considered : IsError(errors[l][v])
  OBVIOUS
<1>4. IsError(last)
  BY <1>2
<1>5. ASSUME NEW l \in considered, NEW y \in Verdicts
      PROVE  /\ VerdictAt(y, errors[l][v], last) = Step(y, l)
             /\ ~(Not(l) /\ Below(l)) /\ Step(y, l) \in Verdicts
  <2>1. IsError(errors[l][v])
    BY <1>3
  <2>2. PICK f, g : f = errors[l][v] /\ g = last
    OBVIOUS
  <2>3. IsError(f) /\ IsError(g)
    BY <1>4, <2>1, <2>2
  <2>4. /\ VerdictAt(y, f, g) =
             IF FarBelow(f, g) \/ y = "NOT_CONVERGED" THEN "NOT_CONVERGED"
             ELSE IF IsBelow(f, g) THEN "UNKNOWN"
             ELSE IF AtLeast(f, g) THEN "CONVERGED" ELSE y
        /\ ~(AtLeast(f, g) /\ IsBelow(f, g))
        /\ VerdictAt(y, f, g) \in Verdicts
    BY <2>3, VerdictStep
  <2> QED BY <2>2, <2>4
<1>6. "CONVERGED" \in Verdicts
  BY DEF Verdicts
<1>7. DetermineErrorConvergence(errors, levels)[v] =
        VerdictAt(VerdictAt(VerdictAt("CONVERGED", errors[a][v], last), errors[b][v], last),
                  errors[c][v], last)
  BY <1>1, VerdictsAre
<1> HIDE DEF last, Far, Below, Not
<1>8. DetermineErrorConvergence(errors, levels)[v] = Step(Step(Step("CONVERGED", a), b), c)
  <2>1. a \in considered /\ b \in considered /\ c \in considered
    BY <1>2
  <2>2. PICK x, y, z : x = Step("CONVERGED", a) /\ y = Step(x, b) /\ z = Step(y, c)
    OBVIOUS
  <2> HIDE DEF Step, considered
  <2>3. x \in Verdicts /\ VerdictAt("CONVERGED", errors[a][v], last) = x
    BY <1>5, <1>6, <2>1, <2>2
  <2>4. y \in Verdicts /\ VerdictAt(x, errors[b][v], last) = y
    BY <1>5, <2>1, <2>2, <2>3
  <2>5. VerdictAt(y, errors[c][v], last) = z
    BY <1>5, <2>1, <2>2, <2>4
  <2> QED BY <1>7, <2>2, <2>3, <2>4, <2>5
<1>9. /\ ~(Not(a) /\ Below(a)) /\ ~(Not(b) /\ Below(b)) /\ ~(Not(c) /\ Below(c))
  BY <1>2, <1>5, <1>6
<1>10. (\E l \in considered : Far(l)) <=> Far(a) \/ Far(b) \/ Far(c)
  BY <1>2
<1>11. clear # {} => /\ Max(clear) \in clear /\ \A l \in clear : l <= Max(clear)
  <2>1. PICK m \in {a, b, c} : clear # {} => m \in clear /\ \A l \in clear : m >= l
    <3>1. CASE c \in clear
      BY <1>2, <3>1
    <3>2. CASE c \notin clear /\ b \in clear
      BY <1>2, <3>2
    <3>3. CASE c \notin clear /\ b \notin clear
      BY <1>2, <3>3
    <3> QED BY <3>1, <3>2, <3>3
  <2>2. clear # {} => Max(clear) \in clear /\ \A l \in clear : Max(clear) >= l
    BY <2>1 DEF Max
  <2> QED BY <1>2, <2>2
<1>12. /\ clear # {} <=> \/ Below(a) \/ Not(a) \/ Below(b) \/ Not(b) \/ Below(c) \/ Not(c)
       /\ Below(c) \/ Not(c) => Max(clear) = c
       /\ ~(Below(c) \/ Not(c)) /\ (Below(b) \/ Not(b)) => Max(clear) = b
       /\ ~(Below(c) \/ Not(c)) /\ ~(Below(b) \/ Not(b)) /\ (Below(a) \/ Not(a)) => Max(clear) = a
  BY <1>2, <1>11
<1>13. Step(Step(Step("CONVERGED", a), b), c) =
         IF Far(a) \/ Far(b) \/ Far(c) THEN "NOT_CONVERGED"
         ELSE IF clear # {} /\ Below(Max(clear)) THEN "UNKNOWN" ELSE "CONVERGED"
  <2>1. PICK m : m = Max(clear)
    OBVIOUS
  <2>2. PICK some \in BOOLEAN : some <=> clear # {}
    OBVIOUS
  <2> HIDE DEF clear
  <2> QED BY <1>9, <1>12
<1> HIDE DEF Step, clear
<1>14. DetermineErrorConvergence(errors, levels)[v] =
         IF \E l \in considered : Far(l) THEN "NOT_CONVERGED"
         ELSE IF clear # {} /\ Below(Max(clear)) THEN "UNKNOWN" ELSE "CONVERGED"
  BY <1>8, <1>10, <1>13
<1>15. DueVerdict(errors, levels, v) =
         IF \E l \in considered : Far(l) THEN "NOT_CONVERGED"
         ELSE IF clear # {} /\ Below(Max(clear)) THEN "UNKNOWN" ELSE "CONVERGED"
  <2>1. ~(levels < 3)
    OBVIOUS
  <2> QED BY <2>1 DEF DueVerdict, clear, Far, Below, Not, last, FarBelow, IsBelow
<1> QED BY <1>14, <1>15

\* What the invariant says of a task that is done.
LEMMA ResultFacts ==
  ASSUME ErrorsInv, case.binning, NEW t \in DOMAIN stats_results
  PROVE  /\ case.levels \in 1 .. 30 /\ Len(seen[t]) \in Nat
         /\ \A level \in 0 .. case.levels, i \in Tracked :
              stats_results[t].error_levels[level][i]
                = ErrorIn(case.params, case.levels, seen[t], i, level)
<1>1. case.levels \in 1 .. 30
  BY CaseFacts DEF ErrorsInv, CountsInv
<1>2. Len(seen[t]) \in Nat
  <2>1. seen \in Seq(Seq(SampledValues)) /\ Len(seen) >= Len(stats_results)
        /\ stats_results \in Seq({stats_results[r] : r \in DOMAIN stats_results})
    BY DEF ErrorsInv, CountsInv, TallyInv, ResultsInv
  <2>2. t \in DOMAIN seen
    BY <2>1
  <2>3. seen[t] \in Seq(SampledValues)
    BY <2>1, <2>2
  <2> QED BY <2>3
<1>3. ResultOf(stats_results[t], case.params, case.levels, seen[t])
  BY ResultIsOf DEF ErrorsInv, ResultsInv
<1>4. \A level \in 0 .. case.levels, i \in Tracked :
        stats_results[t].error_levels[level][i]
          = ErrorIn(case.params, case.levels, seen[t], i, level)
  BY <1>3 DEF ResultOf, Tracked
<1> QED BY <1>1, <1>2, <1>4

\* The verdict on each bin is the one that its error bars ought to give, infinite ones
\* and those that are no number included (determineErrorConvergence()).
THEOREM VerdictSoundAlways == Spec => []VerdictSound
<1>1. ErrorsInv => VerdictSound
  <2> SUFFICES ASSUME ErrorsInv, case.binning, NEW t \in DOMAIN stats_results, NEW i \in Tracked
               PROVE  stats_results[t].converged_status[i] =
                        DueVerdict(stats_results[t].error_levels, case.levels, i)
    BY DEF VerdictSound
  <2>1. PICK levels, p, s, errors :
          /\ levels = case.levels /\ levels \in 1 .. 30 /\ p = case.params /\ s = seen[t]
          /\ errors = stats_results[t].error_levels
    BY CaseFacts DEF ErrorsInv, CountsInv
  <2>0. levels \in 1 .. 30 /\ levels \in Nat /\ levels \in 0 .. levels
    <3>1. levels \in 1 .. 30
      BY <2>1
    <3> QED BY <3>1
  <2>2. ResultOf(stats_results[t], p, levels, s)
    BY <2>1, ResultIsOf DEF ErrorsInv, ResultsInv
  <2>3. Len(s) \in Nat
    BY <2>1, ResultFacts
  <2>4. i \in Bins(p)
    BY <2>1 DEF Tracked
  <2>5. ASSUME NEW l \in 0 .. levels PROVE IsError(errors[l][i]) /\ i \in DOMAIN errors[l]
    <3>1. errors[l] = [j \in Bins(p) |-> ErrorIn(p, levels, s, j, l)]
      BY <2>1, <2>2 DEF ResultOf
    <3>2. IsError(ErrorIn(p, levels, s, i, l))
      BY <2>0, <2>3, <2>4, ErrorInIsError
    <3> QED BY <2>4, <3>1, <3>2
  <2>6. stats_results[t].converged_status = DetermineErrorConvergence(errors, levels)
    BY <2>1, <2>2 DEF ResultOf
  <2>7. CASE levels < 3
    <3>1. levels < ConvergenceRange - 1
      BY <2>7 DEF ConvergenceRange
    <3>2. i \in DOMAIN errors[levels]
      BY <2>0, <2>5
    <3>3. DetermineErrorConvergence(errors, levels)[i] = "UNKNOWN"
      BY <3>1, <3>2, Zenon DEF DetermineErrorConvergence
    <3>4. DueVerdict(errors, levels, i) = "UNKNOWN"
      BY <2>7 DEF DueVerdict
    <3> QED BY <2>1, <2>6, <3>3, <3>4
  <2>8. CASE ~(levels < 3)
    <3>1. levels \in Nat /\ levels >= 3 /\ i \in DOMAIN errors[levels]
      BY <2>0, <2>5, <2>8
    <3>2. \A l \in levels - 3 .. levels : IsError(errors[l][i])
      BY <2>5, <3>1
    <3>3. DetermineErrorConvergence(errors, levels)[i] = DueVerdict(errors, levels, i)
      BY <3>1, <3>2, VerdictFollows
    <3> QED BY <2>1, <2>6, <3>3
  <2> QED BY <2>1, <2>7, <2>8
<1> QED BY <1>1, ErrorsInvariance, PTL

-----------------------------------------------------------------------------
\* Blocks that take up all samples

LEMMA AllNumbers ==
  ASSUME NEW S \in SUBSET Nat, 0 \in S, \A m \in S : m + 1 \in S
  PROVE  \A m \in Nat : m \in S
<1>1. SUFFICES ASSUME NEW x \in Nat, x \notin S PROVE FALSE
  OBVIOUS
<1>2. PICK m \in Nat \ S : \A l \in Nat \ S : m <= l
  <2>1. Nat \ S \in SUBSET Nat /\ Nat \ S # {}
    BY <1>1
  <2> QED BY <2>1, LeastOf
<1>3. m # 0 /\ m - 1 \in Nat /\ ~(m <= m - 1)
  BY <1>2
<1>4. m - 1 \in S
  BY <1>2, <1>3
<1>5. (m - 1) + 1 = m
  OBVIOUS
<1> QED BY <1>2, <1>4, <1>5

\* The hits of the first blocks are the hits of the samples that these have.
LEMMA BlocksAddUp ==
  ASSUME NEW marks, NEW level \in 0 .. 30, NEW m \in Nat
  PROVE  UpTo(Blocks(marks, level), m) = Ones(marks, 1, m * 2 ^ level)
<1>1. PICK w \in Nat \ {0} : w = 2 ^ level
  <2>1. level \in 0 .. 31
    OBVIOUS
  <2> QED BY <2>1, PowersOfTwo
<1>2. PICK h \in [Nat -> Int] : h = Blocks(marks, level)
  <2>1. Blocks(marks, level) \in [Nat -> Nat]
    BY BlocksAre
  <2> QED BY <2>1
<1> DEFINE S == {b \in Nat : UpTo(h, b) = Ones(marks, 1, b * w)}
<1>3. 0 \in S
  <2>1. UpTo(h, 0) = 0
    BY UpToIs
  <2>2. Ones(marks, 1, 0) = 0
    <3>1. {j \in 1 .. 0 : marks[j] = 1} = {}
      OBVIOUS
    <3> QED BY <3>1, FS_EmptySet DEF Ones
  <2>3. 0 * w = 0
    OBVIOUS
  <2> QED BY <2>1, <2>2, <2>3
<1>4. ASSUME NEW b \in S PROVE b + 1 \in S
  <2>1. b \in Nat /\ UpTo(h, b) = Ones(marks, 1, b * w)
    OBVIOUS
  <2>2. UpTo(h, b + 1) = UpTo(h, b) + h[b + 1]
    BY <2>1, UpToIs
  <2>3. PICK one \in Int, mid \in Int, to \in Int :
          one = 1 /\ mid = b * w /\ to = (b + 1) * w /\ one <= mid + 1 /\ mid <= to
    <3>1. (b + 1) * w = b * w + w /\ b * w \in Nat
      BY <2>1
    <3> QED BY <3>1
  <2>4. Ones(marks, one, to) = Ones(marks, one, mid) + Ones(marks, mid + 1, to)
    BY <2>3, OnesJoin
  <2>5. h[b + 1] = Ones(marks, mid + 1, to)
    <3>1. b + 1 \in Nat /\ (b + 1) - 1 = b
      BY <2>1
    <3>2. Blocks(marks, level)[b + 1] = Ones(marks, ((b + 1) - 1) * 2 ^ level + 1, (b + 1) * 2 ^ level)
      BY <3>1 DEF Blocks
    <3> QED BY <1>1, <1>2, <2>3, <3>1, <3>2
  <2> QED BY <2>1, <2>2, <2>3, <2>4, <2>5
<1> HIDE DEF S
<1>5. S \in SUBSET Nat
  BY DEF S
<1>6. m \in S
  BY <1>3, <1>4, <1>5, AllNumbers
<1> QED BY <1>1, <1>2, <1>6 DEF S

\* how far each block is from its share, squared
Deviations(h, blocks, all) ==
  [b \in Nat |-> (blocks * h[b] - all) * (blocks * h[b] - all)]

LEMMA DeviationsTyped ==
  ASSUME NEW h \in [Nat -> Int], NEW blocks \in Int, NEW all \in Int
  PROVE  Deviations(h, blocks, all) \in [Nat -> Int] /\ SquaresOf(h) \in [Nat -> Int]
<1>1. \A b \in Nat : h[b] \in Int
  OBVIOUS
<1>2. \A b \in Nat : (blocks * h[b] - all) * (blocks * h[b] - all) \in Int /\ h[b] * h[b] \in Int
  BY <1>1
<1> QED BY <1>2 DEF Deviations, SquaresOf

\* The squares are multiplied out.
LEMMA DeviationsAre ==
  ASSUME NEW h \in [Nat -> Int], NEW blocks \in Int, NEW all \in Int, NEW m \in Nat
  PROVE  /\ UpTo(Deviations(h, blocks, all), m) >= 0
         /\ UpTo(Deviations(h, blocks, all), m) =
              blocks * (blocks * UpTo(SquaresOf(h), m)) - 2 * (blocks * (all * UpTo(h, m)))
                + m * (all * all)
<1>1. PICK d \in [Nat -> Int], s \in [Nat -> Int] :
        d = Deviations(h, blocks, all) /\ s = SquaresOf(h)
  BY DeviationsTyped
<1> DEFINE Out(b) == blocks * (blocks * UpTo(s, b)) - 2 * (blocks * (all * UpTo(h, b)))
                       + b * (all * all)
           S == {b \in Nat : UpTo(d, b) >= 0 /\ UpTo(d, b) = Out(b)}
<1>2. 0 \in S
  <2>1. UpTo(d, 0) = 0 /\ UpTo(s, 0) = 0 /\ UpTo(h, 0) = 0
    BY UpToIs
  <2> QED BY <2>1
<1>3. ASSUME NEW b \in S PROVE b + 1 \in S
  <2>1. b \in Nat /\ UpTo(d, b) >= 0 /\ UpTo(d, b) = Out(b)
    OBVIOUS
  <2>2. /\ UpTo(d, b + 1) = UpTo(d, b) + d[b + 1] /\ UpTo(s, b + 1) = UpTo(s, b) + s[b + 1]
        /\ UpTo(h, b + 1) = UpTo(h, b) + h[b + 1]
        /\ UpTo(d, b) \in Int /\ UpTo(s, b) \in Int /\ UpTo(h, b) \in Int
    BY <2>1, UpToIs
  <2>3. PICK x \in Int, dd \in Int, ss \in Int, ud \in Int, us \in Int, uh \in Int :
          /\ x = h[b + 1] /\ dd = d[b + 1] /\ ss = s[b + 1]
          /\ ud = UpTo(d, b) /\ us = UpTo(s, b) /\ uh = UpTo(h, b)
    <3>1. b + 1 \in Nat
      BY <2>1
    <3>2. h[b + 1] \in Int /\ d[b + 1] \in Int /\ s[b + 1] \in Int
      BY <3>1
    <3> QED BY <2>2, <3>2
  <2>4. ss = x * x /\ dd = (blocks * x - all) * (blocks * x - all)
    <3>1. b + 1 \in Nat
      BY <2>1
    <3> QED BY <1>1, <2>3, <3>1 DEF Deviations, SquaresOf
  <2>5. dd >= 0
    <3>1. PICK y \in Int : y = blocks * x - all
      OBVIOUS
    <3>2. y * y >= 0
      OBVIOUS
    <3> QED BY <2>4, <3>1, <3>2
  <2>6. dd = blocks * (blocks * ss) - 2 * (blocks * (all * x)) + all * all
    BY <2>4
  <2>7. ud = blocks * (blocks * us) - 2 * (blocks * (all * uh)) + b * (all * all)
    BY <2>1, <2>3
  <2>8. /\ blocks * (blocks * (us + ss)) = blocks * (blocks * us) + blocks * (blocks * ss)
        /\ 2 * (blocks * (all * (uh + x))) = 2 * (blocks * (all * uh)) + 2 * (blocks * (all * x))
        /\ (b + 1) * (all * all) = b * (all * all) + all * all
    BY <2>1
  <2>9. ud + dd = blocks * (blocks * (us + ss)) - 2 * (blocks * (all * (uh + x)))
                    + (b + 1) * (all * all)
    BY <2>1, <2>6, <2>7, <2>8
  <2>10. UpTo(d, b + 1) = ud + dd /\ UpTo(s, b + 1) = us + ss /\ UpTo(h, b + 1) = uh + x
    BY <2>2, <2>3
  <2>11. UpTo(d, b + 1) = Out(b + 1)
    BY <2>9, <2>10
  <2>12. UpTo(d, b + 1) >= 0 /\ b + 1 \in Nat
    BY <2>1, <2>3, <2>5, <2>10
  <2> QED BY <2>11, <2>12
<1> HIDE DEF S
<1>4. S \in SUBSET Nat
  BY DEF S
<1>5. m \in S
  BY <1>2, <1>3, <1>4, AllNumbers
<1> QED BY <1>1, <1>5 DEF S

\* All blocks together: the variance, times what makes it whole.
LEMMA Variance ==
  ASSUME NEW h \in [Nat -> Int], NEW blocks \in Nat \ {0}
  PROVE  LET all == UpTo(h, blocks)
             v == blocks * UpTo(SquaresOf(h), blocks) - all * all
         IN  v \in Nat /\ UpTo(Deviations(h, blocks, all), blocks) = blocks * v
<1>1. PICK all \in Int, s \in Int : all = UpTo(h, blocks) /\ s = UpTo(SquaresOf(h), blocks)
  <2>1. SquaresOf(h) \in [Nat -> Int]
    <3>1. 0 \in Int
      OBVIOUS
    <3> QED BY <3>1, DeviationsTyped
  <2> QED BY <2>1, UpToIs
<1>2. PICK d : d = UpTo(Deviations(h, blocks, all), blocks)
  OBVIOUS
<1>3. blocks \in Int /\ blocks \in Nat
  OBVIOUS
<1>4. /\ UpTo(Deviations(h, blocks, all), blocks) >= 0
      /\ UpTo(Deviations(h, blocks, all), blocks) =
           blocks * (blocks * UpTo(SquaresOf(h), blocks)) - 2 * (blocks * (all * UpTo(h, blocks)))
             + blocks * (all * all)
  BY <1>3, DeviationsAre
<1>5. d >= 0 /\ d = blocks * (blocks * s) - 2 * (blocks * (all * all)) + blocks * (all * all)
  BY <1>1, <1>2, <1>4
<1>6. PICK v \in Int : v = blocks * s - all * all
  OBVIOUS
<1>7. d = blocks * v
  <2>1. blocks * v = blocks * (blocks * s) - blocks * (all * all)
    BY <1>6
  <2>2. d = blocks * (blocks * s) - blocks * (all * all)
    BY <1>5
  <2> QED BY <2>1, <2>2
<1>8. v >= 0
  <2>1. v < 0 => blocks * v < 0
    BY <1>6
  <2> QED BY <1>5, <1>6, <1>7, <2>1
<1> QED BY <1>1, <1>2, <1>6, <1>7, <1>8

-----------------------------------------------------------------------------
\* Fractions of the same value are the same

\* The divisor that GCD finds is a combination of its arguments.
LEMMA GCDCombines ==
  ASSUME NEW a \in Nat, NEW b \in Nat
  PROVE  \E s \in Int, t \in Int : GCD[<<a, b>>] = s * a + t * b
<1> DEFINE Fine(x, y) == \E s \in Int, t \in Int : GCD[<<x, y>>] = s * x + t * y
           Bad == {y \in Nat : \E x \in Nat : ~Fine(x, y)}
<1>1. SUFFICES ASSUME Bad # {} PROVE FALSE
  OBVIOUS
<1>2. PICK y \in Bad : \A z \in Bad : y <= z
  <2>1. Bad \subseteq Nat
    OBVIOUS
  <2> HIDE DEF Bad
  <2> QED BY <1>1, <2>1, LeastOf
<1>3. PICK x \in Nat : y \in Nat /\ ~Fine(x, y)
  OBVIOUS
<1>4. CASE y = 0
  <2>1. GCD[<<x, y>>] = x
    BY <1>3, <1>4, GCDSteps
  <2>2. x = 1 * x + 0 * y /\ 1 \in Int /\ 0 \in Int
    BY <1>3, <1>4
  <2> QED BY <1>3, <2>1, <2>2
<1>5. CASE y # 0
  <2>1. PICK r, q : r = x % y /\ q = x \div y
    OBVIOUS
  <2>2. r \in Nat /\ r < y /\ q \in Int /\ x = y * q + r
    <3>1. x \div y \in Int /\ x % y \in 0 .. y - 1 /\ x = y * (x \div y) + (x % y)
      BY <1>3, <1>5, Division
    <3> QED BY <1>3, <1>5, <2>1, <3>1
  <2>3. r \notin Bad
    <3>1. ~(y <= r)
      BY <1>3, <2>2
    <3> HIDE DEF Bad
    <3> QED BY <1>2, <3>1
  <2>4. Fine(y, r)
    BY <1>3, <2>2, <2>3
  <2>5. PICK s \in Int, t \in Int : GCD[<<y, r>>] = s * y + t * r
    BY <2>4
  <2>6. GCD[<<x, y>>] = GCD[<<y, r>>]
    BY <1>3, <1>5, <2>1, GCDSteps
  <2>7. PICK u \in Int : u = s - t * q
    BY <2>2
  <2>8. s * y + t * r = t * x + u * y
    <3>1. t * x = t * (y * q) + t * r /\ u * y = s * y - (t * q) * y /\ t * (y * q) = (t * q) * y
      BY <1>3, <2>2, <2>7
    <3>2. PICK m \in Int, l \in Int, k1 \in Int :
            m = t * (y * q) /\ l = t * r /\ k1 = s * y
      BY <1>3, <2>2
    <3> QED BY <3>1, <3>2
  <2>9. GCD[<<x, y>>] = t * x + u * y
    BY <2>5, <2>6, <2>8
  <2> QED BY <1>3, <2>9
<1> QED BY <1>3, <1>4, <1>5

\* What Frac gives is reduced: its parts combine to one.
Reduced(f) == \E s \in Int, t \in Int : s * f[1] + t * f[2] = 1

LEMMA FracReduced ==
  ASSUME NEW c \in Int, NEW d \in Nat \ {0}
  PROVE  Reduced(Frac(c, d))
<1>1. Abs(c) \in Nat /\ Abs(d) = d /\ d \in Nat
  BY DEF Abs
<1>2. PICK a \in Nat : a = Abs(c)
  BY <1>1
<1>3. PICK g \in Nat \ {0} : g = GCD[<<a, d>>] /\ Divides(g, a) /\ Divides(g, d)
  BY <1>1, GCDDivides
<1>4. PICK s \in Int, t \in Int : g = s * a + t * d
  BY <1>1, <1>3, GCDCombines
<1>5. PICK x \in Int, y \in Int : a = g * x /\ d = g * y
  BY <1>3 DEF Divides
<1>6. s * x + t * y = 1
  <2>1. s * (g * x) + t * (g * y) = g * (s * x + t * y)
    OBVIOUS
  <2>2. PICK m \in Int : m = s * x + t * y
    OBVIOUS
  <2>3. g * m = g
    BY <1>4, <1>5, <2>1, <2>2
  <2>4. m > 1 => g * m > g
    OBVIOUS
  <2>5. m < 1 => g * m < g
    OBVIOUS
  <2> QED BY <2>2, <2>3, <2>4, <2>5
<1>7. PICK sign \in {1, -1} : c = sign * a /\ a = sign * c
  BY <1>2 DEF Abs
<1>8. c \div g = sign * x /\ d \div g = y
  <2>1. c = g * (sign * x) /\ sign * x \in Int
    BY <1>5, <1>7
  <2> QED BY <1>5, <2>1, WholeQuotient
<1>9. Frac(c, d) = <<sign * x, y>>
  <2>1. ~(c = 0 /\ d = 0) /\ ~(d < 0)
    OBVIOUS
  <2>2. g = GCD[<<Abs(c), Abs(d)>>]
    BY <1>1, <1>2, <1>3
  <2> QED BY <1>8, <2>1, <2>2 DEF Frac
<1>10. (sign * s) * (sign * x) + t * y = 1 /\ sign * s \in Int
  BY <1>6, <1>7
<1>11. Frac(c, d)[1] = sign * x /\ Frac(c, d)[2] = y
  BY <1>9
<1> QED BY <1>10, <1>11 DEF Reduced

\* A reduced fraction has the least denominator.
LEMMA DenominatorDivides ==
  ASSUME NEW x \in Int, NEW y \in Nat \ {0}, NEW u \in Int, NEW v \in Nat \ {0},
         x * v = u * y, Reduced(<<x, y>>)
  PROVE  y <= v
<1>1. PICK s \in Int, t \in Int : s * x + t * y = 1
  BY DEF Reduced
<1>2. PICK m \in Int : m = s * u + t * v
  OBVIOUS
<1>3. v = y * m
  <2>1. v = (s * x + t * y) * v
    BY <1>1
  <2>2. (s * x + t * y) * v = s * (x * v) + t * (y * v)
    OBVIOUS
  <2>3. s * (u * y) + t * (y * v) = y * (s * u + t * v)
    OBVIOUS
  <2> QED BY <1>2, <2>1, <2>2, <2>3
<1>4. m >= 1
  <2>1. m <= 0 => y * m <= 0
    OBVIOUS
  <2> QED BY <1>2, <1>3, <2>1
<1>5. y * m >= y
  BY <1>2, <1>4
<1> QED BY <1>3, <1>5

\* So there is just one of each value.
LEMMA SameFraction ==
  ASSUME NEW c \in Int, NEW d \in Nat \ {0}, NEW f, IsRatio(f, c, d), Reduced(f)
  PROVE  f = Frac(c, d)
<1>1. PICK x \in Int, y \in Nat \ {0} : f = <<x, y>> /\ x * d = c * y
  BY DEF IsRatio, Finite
<1>2. IsRatio(Frac(c, d), c, d) /\ Reduced(Frac(c, d))
  BY FracRatio, FracReduced
<1>3. PICK u \in Int, v \in Nat \ {0} : Frac(c, d) = <<u, v>> /\ u * d = c * v
  BY <1>2 DEF IsRatio, Finite
<1>4. x * v = u * y
  <2>1. (x * v) * d = (x * d) * v
    OBVIOUS
  <2>2. (x * d) * v = (c * y) * v
    BY <1>1
  <2>3. (c * y) * v = (c * v) * y
    OBVIOUS
  <2>4. (c * v) * y = (u * d) * y
    BY <1>3
  <2>5. (u * d) * y = (u * y) * d
    OBVIOUS
  <2>6. PICK m \in Int, l \in Int : m = x * v /\ l = u * y
    OBVIOUS
  <2>7. m * d = l * d
    BY <2>1, <2>2, <2>3, <2>4, <2>5, <2>6
  <2>8. m = l
    BY <2>6, <2>7, Positive
  <2> QED BY <2>6, <2>8
<1>5. y <= v
  BY <1>1, <1>4, DenominatorDivides
<1>6. v <= y
  <2>1. u * y = x * v
    BY <1>4
  <2> QED BY <1>2, <1>3, <2>1, DenominatorDivides
<1>7. y = v
  BY <1>5, <1>6
<1>8. x = u
  <2>1. x * y = u * y
    BY <1>4, <1>7
  <2> QED BY <2>1, Positive
<1> QED BY <1>1, <1>3, <1>7, <1>8

-----------------------------------------------------------------------------
\* Error bars and blocks

LEMMA RatioOf ==
  ASSUME NEW f, NEW c, NEW d, IsRatio(f, c, d), NEW m \in Int, NEW e \in Nat \ {0}, c * e = m * d
  PROVE  IsRatio(f, m, e)
<1>1. PICK x \in Int, y \in Nat \ {0} : f[1] = x /\ f[2] = y
  BY DEF IsRatio, Finite
<1>2. c \in Int /\ d \in Nat \ {0} /\ x * d = c * y
  BY <1>1 DEF IsRatio
<1>3. PICK k1 \in Int, k2 \in Int : k1 = x * e /\ k2 = m * y
  OBVIOUS
<1>4. k1 * d = k2 * d
  <2>1. (x * e) * d = (x * d) * e
    BY <1>2
  <2>2. (x * d) * e = (c * y) * e
    BY <1>2
  <2>3. (c * y) * e = (c * e) * y
    BY <1>2
  <2>4. (c * e) * y = (m * d) * y
    OBVIOUS
  <2>5. (m * d) * y = (m * y) * d
    BY <1>2
  <2> QED BY <1>3, <2>1, <2>2, <2>3, <2>4, <2>5
<1>5. k1 = k2
  BY <1>2, <1>3, <1>4, Positive
<1> QED BY <1>1, <1>3, <1>5 DEF IsRatio

LEMMA MinusRatio ==
  ASSUME NEW f, NEW g, NEW c, NEW d, NEW m, NEW e, IsRatio(f, c, d), IsRatio(g, m, e)
  PROVE  IsRatio(Minus(f, g), c * e - m * d, d * e)
<1>1. PICK p \in Int, q \in Nat \ {0}, r \in Int, s \in Nat \ {0} :
        f[1] = p /\ f[2] = q /\ g[1] = r /\ g[2] = s
  BY DEF IsRatio, Finite
<1>2. /\ c \in Int /\ d \in Nat \ {0} /\ m \in Int /\ e \in Nat \ {0}
      /\ p * d = c * q /\ r * e = m * s
  BY <1>1 DEF IsRatio
<1>3. PICK u \in Int, v \in Nat \ {0} : u = p * s - r * q /\ v = q * s
  BY <1>1
<1>4. IsRatio(Frac(u, v), u, v)
  BY FracRatio
<1>5. PICK mm \in Int, ee \in Nat \ {0} : mm = c * e - m * d /\ ee = d * e
  BY <1>2
<1>6. u * ee = mm * v
  <2>1. u * ee = (p * d) * (s * e) - (r * e) * (q * d)
    BY <1>2, <1>3, <1>5
  <2>2. (p * d) * (s * e) = (c * e) * v
    <3>1. (p * d) * (s * e) = (c * q) * (s * e)
      BY <1>2
    <3>2. (c * q) * (s * e) = (c * e) * (q * s)
      BY <1>2
    <3> QED BY <1>3, <3>1, <3>2
  <2>3. (r * e) * (q * d) = (m * d) * v
    <3>1. (r * e) * (q * d) = (m * s) * (q * d)
      BY <1>2
    <3>2. (m * s) * (q * d) = (m * d) * (q * s)
      BY <1>2
    <3> QED BY <1>3, <3>1, <3>2
  <2>4. mm * v = (c * e) * v - (m * d) * v
    BY <1>2, <1>3, <1>5
  <2> QED BY <2>1, <2>2, <2>3, <2>4
<1>7. IsRatio(Frac(u, v), mm, ee)
  BY <1>4, <1>6, RatioOf
<1> QED BY <1>1, <1>3, <1>5, <1>7 DEF Minus

LEMMA SquareRatio ==
  ASSUME NEW f, NEW c, NEW d, IsRatio(f, c, d)
  PROVE  IsRatio(Times(f, f), c * c, d * d)
<1>1. PICK p \in Int, q \in Nat \ {0} : f[1] = p /\ f[2] = q
  BY DEF IsRatio, Finite
<1>2. c \in Int /\ d \in Nat \ {0} /\ p * d = c * q
  BY <1>1 DEF IsRatio
<1>3. IsRatio(Frac(p, q), p, q)
  BY FracRatio
<1>4. IsRatio(Frac(p, q), c, d)
  <2>1. p * d = c * q
    BY <1>2
  <2> QED BY <1>2, <1>3, <2>1, RatioOf
<1>5. PICK x : x = Frac(p, q)
  OBVIOUS
<1>6. IsRatio(Frac(x[1] * x[1], x[2] * x[2]), c * c, d * d)
  BY <1>4, <1>5, ProductRatio
<1>7. Times(f, f) = Frac(x[1] * x[1], x[2] * x[2])
  BY <1>1, <1>5 DEF Times
<1> QED BY <1>6, <1>7

LEMMA OverRatio ==
  ASSUME NEW f, NEW c, NEW d, IsRatio(f, c, d), NEW n0 \in Nat \ {0}
  PROVE  IsRatio(Over(f, n0), c, d * n0) /\ Reduced(Over(f, n0))
<1>1. PICK p \in Int, q \in Nat \ {0} : f[1] = p /\ f[2] = q
  BY DEF IsRatio, Finite
<1>2. c \in Int /\ d \in Nat \ {0} /\ p * d = c * q
  BY <1>1 DEF IsRatio
<1>3. PICK v \in Nat \ {0}, e \in Nat \ {0} : v = q * n0 /\ e = d * n0
  BY <1>2
<1>4. IsRatio(Frac(p, v), p, v) /\ Reduced(Frac(p, v))
  BY FracRatio, FracReduced
<1>5. p * e = c * v
  <2>1. p * (d * n0) = (p * d) * n0 /\ (c * q) * n0 = c * (q * n0)
    BY <1>2
  <2> QED BY <1>2, <1>3, <2>1
<1>6. IsRatio(Frac(p, v), c, e)
  BY <1>2, <1>4, <1>5, RatioOf
<1> QED BY <1>1, <1>3, <1>4, <1>6 DEF Over

LEMMA ClippedRatio ==
  ASSUME NEW f, NEW c, NEW d, IsRatio(f, c, d)
  PROVE  IsRatio(Clipped(f), IF c < 0 THEN 0 ELSE c, d)
<1>1. c \in Int /\ d \in Nat \ {0}
  BY DEF IsRatio
<1>2. IsRatio(Zero, 0, 1)
  BY DEF IsRatio, Finite, Zero
<1>3. Less(f, Zero) <=> c * 1 < 0 * d
  BY <1>2, LessRatios
<1>4. Less(f, Zero) <=> c < 0
  BY <1>1, <1>3
<1>5. IsRatio(Zero, 0, d)
  <2>1. 0 \in Int /\ 0 * d = 0 * 1
    BY <1>1
  <2> QED BY <1>1, <1>2, <2>1, RatioOf
<1> QED BY <1>4, <1>5 DEF Clipped

\* the formula of the error bar, in numbers
ErrorOf(s, h, len, w, blocks) ==
  Over(Clipped(Minus(Frac(s, w * w * blocks), Times(Frac(h, len), Frac(h, len)))), blocks - 1)

\* what it ought to be
RightError(error, s, h, len, w, blocks, v) ==
  /\ IsFinite(error) /\ AtLeast(error, Zero)
  /\ len = blocks * w /\ v = blocks * s - h * h =>
       error = Frac(blocks * v, w * w * (blocks * blocks * blocks) * (blocks - 1))

LEMMA ErrorRatio ==
  ASSUME NEW s \in Int, NEW h \in Int, NEW len \in Nat \ {0}, NEW w \in Nat \ {0},
         NEW blocks \in Nat \ {0, 1}, NEW v \in Nat
  PROVE  RightError(ErrorOf(s, h, len, w, blocks), s, h, len, w, blocks, v)
<1>1. PICK e1 \in Nat \ {0}, e2 \in Nat \ {0}, n0 \in Nat \ {0} :
        e1 = w * w * blocks /\ e2 = len * len /\ n0 = blocks - 1
  <2>1. w * w * blocks \in Nat \ {0} /\ len * len \in Nat \ {0} /\ blocks - 1 \in Nat \ {0}
    OBVIOUS
  <2> QED BY <2>1
<1>2. PICK f, g : f = Frac(s, e1) /\ g = Times(Frac(h, len), Frac(h, len))
  OBVIOUS
<1>3. IsRatio(f, s, e1) /\ IsRatio(g, h * h, e2)
  <2>1. IsRatio(Frac(h, len), h, len)
    BY FracRatio
  <2>2. IsRatio(Times(Frac(h, len), Frac(h, len)), h * h, len * len)
    BY <2>1, SquareRatio
  <2>3. IsRatio(Frac(s, e1), s, e1)
    BY FracRatio
  <2> QED BY <1>1, <1>2, <2>2, <2>3
<1>4. PICK c \in Int, d \in Nat \ {0} : c = s * e2 - (h * h) * e1 /\ d = e1 * e2
  OBVIOUS
<1>5. IsRatio(Minus(f, g), c, d)
  BY <1>3, <1>4, MinusRatio
<1>6. PICK b \in Nat : b = IF c < 0 THEN 0 ELSE c
  OBVIOUS
<1>7. IsRatio(Clipped(Minus(f, g)), b, d)
  BY <1>5, <1>6, ClippedRatio
<1>8. PICK e : e = ErrorOf(s, h, len, w, blocks)
  OBVIOUS
<1>9. IsRatio(e, b, d * n0) /\ Reduced(e)
  BY <1>1, <1>2, <1>7, <1>8, OverRatio DEF ErrorOf
<1>10. IsFinite(e) /\ AtLeast(e, Zero)
  <2>1. IsRatio(Zero, 0, 1)
    BY DEF IsRatio, Finite, Zero
  <2>2. AtLeast(e, Zero) <=> ~(b * 1 < 0 * (d * n0))
    BY <1>9, <2>1, LessRatios
  <2>3. ~(b * 1 < 0 * (d * n0))
    OBVIOUS
  <2> QED BY <1>9, <2>2, <2>3 DEF IsRatio, Finite, IsFinite
<1>11. ASSUME len = blocks * w, v = blocks * s - h * h
       PROVE  e = Frac(blocks * v, w * w * (blocks * blocks * blocks) * (blocks - 1))
  <2>1. PICK m \in Int, k0 \in Nat \ {0} : m = blocks * v /\ k0 = w * w * (blocks * blocks * blocks) * (blocks - 1)
    <3>1. PICK a1 \in Nat \ {0}, a2 \in Nat \ {0} : a1 = w * w /\ a2 = blocks * blocks * blocks
      <4>1. blocks * blocks \in Nat \ {0}
        OBVIOUS
      <4>2. w * w \in Nat \ {0} /\ blocks * blocks * blocks \in Nat \ {0}
        BY <4>1
      <4> QED BY <4>2
    <3>2. PICK a3 \in Nat \ {0} : a3 = a1 * a2 * (blocks - 1)
      <4>1. a1 * a2 \in Nat \ {0}
        OBVIOUS
      <4>2. a1 * a2 * (blocks - 1) \in Nat \ {0}
        BY <4>1
      <4> QED BY <4>2
    <3>3. blocks * v \in Int
      OBVIOUS
    <3> QED BY <3>1, <3>2, <3>3
  <2>2. PICK y \in Nat \ {0} : y = w * w
    OBVIOUS
  <2>3. e1 = y * blocks /\ e2 = (blocks * blocks) * y
    <3>1. e2 = (blocks * w) * (blocks * w)
      BY <1>1, <1>11
    <3>2. (blocks * w) * (blocks * w) = (blocks * blocks) * (w * w)
      OBVIOUS
    <3> QED BY <1>1, <2>2, <3>1, <3>2
  <2>4. c = (y * blocks) * v
    <3>1. c = s * ((blocks * blocks) * y) - (h * h) * (y * blocks)
      BY <1>4, <2>3
    <3>2. s * ((blocks * blocks) * y) = (y * blocks) * (blocks * s)
      OBVIOUS
    <3>3. (h * h) * (y * blocks) = (y * blocks) * (h * h)
      OBVIOUS
    <3>4. (y * blocks) * (blocks * s) - (y * blocks) * (h * h) = (y * blocks) * v
      BY <1>11
    <3> QED BY <3>1, <3>2, <3>3, <3>4
  <2>5. b = c
    <3>1. (y * blocks) * v >= 0
      OBVIOUS
    <3> QED BY <1>6, <2>4, <3>1
  <2>6. b * k0 = m * (d * n0)
    <3>1. PICK u \in Int : u = blocks * blocks
      OBVIOUS
    <3>2. k0 = y * (u * blocks) * n0
      BY <1>1, <2>1, <2>2, <3>1
    <3>3. d = (y * blocks) * (u * y)
      BY <1>4, <2>3, <3>1
    <3>4. ((y * blocks) * v) * (y * (u * blocks) * n0) = (blocks * v) * (((y * blocks) * (u * y)) * n0)
      OBVIOUS
    <3> QED BY <2>1, <2>4, <2>5, <3>2, <3>3, <3>4
  <2>7. IsRatio(e, m, k0)
    BY <1>9, <2>1, <2>6, RatioOf
  <2>8. e = Frac(m, k0)
    BY <1>9, <2>7, SameFraction
  <2> QED BY <2>1, <2>8
<1> QED BY <1>8, <1>10, <1>11 DEF RightError

\* How many blocks are flushed, if not all samples are left over.
LEMMA BlocksFlushed ==
  ASSUME NEW levels \in 1 .. 30, NEW level \in 0 .. levels, NEW len \in Nat,
         len >= 2 ^ levels, len \div 2 ^ level > 1
  PROVE  LET averages == (len \div 2 ^ levels) * 2 ^ (levels - level)
         IN  /\ averages \in Nat /\ averages > 1
             /\ len % 2 ^ levels = 0 => len \div 2 ^ level = averages /\ len = averages * 2 ^ level
<1>1. PICK up \in Nat \ {0}, full \in Nat \ {0} :
        /\ up = 2 ^ (levels - level) /\ full = 2 ^ levels
        /\ level = levels => up = 1
        /\ level < levels => \E half \in Nat \ {0} : half = 2 ^ (levels - (level + 1)) /\ up = 2 * half
  <2>1. PICK a \in Nat \ {0}, b \in Nat \ {0} :
          /\ a = 2 ^ (levels - level) /\ b = 2 ^ levels /\ a <= b
          /\ level = levels => a = 1
          /\ level < levels => \E half \in Nat \ {0} : half = 2 ^ (levels - (level + 1)) /\ a = 2 * half
    BY LevelSizes, Zenon
  <2> QED BY <2>1
<1>2. PICK w \in Nat \ {0} : w = 2 ^ level /\ up * w = full
  <2>1. levels \in 0 .. 30 /\ level \in 0 .. levels
    OBVIOUS
  <2>2. 2 ^ level \in Nat \ {0} /\ 2 ^ (levels - level) * 2 ^ level = 2 ^ levels
    BY <2>1, PowersMultiply
  <2> QED BY <1>1, <2>2
<1>3. PICK q \in Int, r \in 0 .. full - 1 : q = len \div full /\ r = len % full /\ len = full * q + r
  <2>1. len \in Int
    OBVIOUS
  <2>2. len \div full \in Int /\ len % full \in 0 .. full - 1
          /\ len = full * (len \div full) + (len % full)
    BY <2>1, Division
  <2> QED BY <2>2
<1>4. len >= full /\ len \div w > 1
  BY <1>1, <1>2
<1>5. q >= 1
  <2>1. q <= 0 => full * q <= 0
    BY <1>3
  <2> QED BY <1>3, <1>4, <2>1
<1>6. PICK averages \in Nat : averages = q * up
  <2>1. q * up >= 0 /\ q * up \in Int
    BY <1>5
  <2> QED BY <2>1
<1>7. averages > 1
  <2>1. CASE level < levels
    <3>1. up >= 2
      <4>1. PICK half \in Nat \ {0} : up = 2 * half
        BY <1>1, <2>1
      <4> QED BY <4>1
    <3>2. q * up >= up
      BY <1>5
    <3> QED BY <1>6, <3>1, <3>2
  <2>2. CASE level = levels
    <3>1. up = 1 /\ w = full
      BY <1>1, <1>2, <2>2
    <3>2. q > 1
      BY <1>3, <1>4, <3>1
    <3> QED BY <1>6, <3>1, <3>2
  <2> QED BY <2>1, <2>2
<1>8. r = 0 => len \div w = averages /\ len = averages * w
  <2> SUFFICES ASSUME r = 0 PROVE len \div w = averages /\ len = averages * w
    OBVIOUS
  <2>1. len = w * averages
    <3>1. (up * w) * q = w * (q * up)
      OBVIOUS
    <3> QED BY <1>2, <1>3, <1>6, <3>1
  <2>2. averages \in Int
    OBVIOUS
  <2>3. (w * averages) \div w = averages
    BY <2>2, WholeQuotient
  <2>4. w * averages = averages * w
    OBVIOUS
  <2> QED BY <2>1, <2>3, <2>4
<1> QED BY <1>1, <1>2, <1>3, <1>6, <1>7, <1>8

LEMMA HitsOfMarks ==
  ASSUME NEW p, NEW s, NEW i \in Bins(p), NEW from \in Int, NEW to \in Int
  PROVE  HitsIn(p, s, i, from, to) = Ones(Marks(p, s)[i], from, to)
<1>1. PICK marks : marks = Marks(p, s)[i]
  OBVIOUS
<1>2. \A j \in Int : marks[j] = 1 <=> LiesAt(p, s[j], i)
  BY <1>1 DEF Marks
<1>3. {j \in from .. to : LiesAt(p, s[j], i)} = {j \in from .. to : marks[j] = 1}
  BY <1>2
<1> QED BY <1>1, <1>3 DEF HitsIn, Ones

\* the blocks of one level, their squares and their sum
BlocksFit(h, p, s, i, level, blocks) ==
  /\ h \in [Nat -> Int]
  /\ \A b \in Nat : BlockIn(p, s, i, level, b) = h[b]
  /\ SquaresIn(p, s, i, level, blocks) = UpTo(SquaresOf(h), blocks)
  /\ Ones(Marks(p, s)[i], 1, blocks * 2 ^ level) = UpTo(h, blocks)

LEMMA BlocksIn ==
  ASSUME NEW p, NEW s, NEW i \in Bins(p), NEW level \in 0 .. 30, NEW blocks \in Nat
  PROVE  \E h : BlocksFit(h, p, s, i, level, blocks)
<1>1. PICK h \in [Nat -> Int] : h = Blocks(Marks(p, s)[i], level)
  <2>1. Blocks(Marks(p, s)[i], level) \in [Nat -> Nat]
    BY BlocksAre
  <2> QED BY <2>1
<1>2. \A b \in Nat : BlockIn(p, s, i, level, b) = h[b]
  BY <1>1, BlocksOfMarks
<1>3. SquaresIn(p, s, i, level, blocks) = UpTo(SquaresOf(h), blocks)
  BY <1>1, SquaresOfMarks
<1>4. UpTo(Blocks(Marks(p, s)[i], level), blocks) = Ones(Marks(p, s)[i], 1, blocks * 2 ^ level)
  BY BlocksAddUp
<1>5. BlocksFit(h, p, s, i, level, blocks)
  BY <1>1, <1>2, <1>3, <1>4 DEF BlocksFit
<1> QED BY <1>5

\* BlockError, of the samples themselves
BlockErrorIn(p, s, i, level) ==
  LET blocks == Len(s) \div 2 ^ level
      deviation(b) == blocks * BlockIn(p, s, i, level, b) - HitsIn(p, s, i, 1, Len(s))
  IN  Frac(SumFunction([b \in 1 .. blocks |-> deviation(b) * deviation(b)]),
           2 ^ level * 2 ^ level * (blocks * blocks * blocks) * (blocks - 1))

SoundError(error, p, s, i, level, blocks, len, w) ==
  /\ IsFinite(error) /\ AtLeast(error, Zero)
  /\ len = Len(s) /\ len = blocks * w /\ Len(s) \div w = blocks =>
       error = BlockErrorIn(p, s, i, level)

LEMMA ErrorOfBlocks ==
  ASSUME NEW p, NEW s, NEW i \in Bins(p), NEW level \in 0 .. 30, NEW blocks \in Nat \ {0, 1},
         NEW len \in Nat \ {0}, NEW w \in Nat \ {0}, w = 2 ^ level,
         NEW error, error = ErrorOf(SquaresIn(p, s, i, level, blocks), HitsIn(p, s, i, 1, len),
                                    len, w, blocks)
  PROVE  SoundError(error, p, s, i, level, blocks, len, w)
<1>1. PICK h \in [Nat -> Int] :
        /\ \A b \in Nat : BlockIn(p, s, i, level, b) = h[b]
        /\ SquaresIn(p, s, i, level, blocks) = UpTo(SquaresOf(h), blocks)
        /\ Ones(Marks(p, s)[i], 1, blocks * 2 ^ level) = UpTo(h, blocks)
  <2>1. PICK h : BlocksFit(h, p, s, i, level, blocks)
    BY BlocksIn
  <2> QED BY <2>1 DEF BlocksFit
<1>2. PICK squares \in Int : squares = SquaresIn(p, s, i, level, blocks)
  BY SquaresTyped
<1>3. PICK all \in Int : all = HitsIn(p, s, i, 1, len) /\ all = Ones(Marks(p, s)[i], 1, len)
  <2>1. PICK one \in Int, to \in Int : one = 1 /\ to = len /\ one <= to + 1 /\ to <= to
    OBVIOUS
  <2>2. HitsIn(p, s, i, one, to) = Ones(Marks(p, s)[i], one, to)
    BY HitsOfMarks
  <2>3. Ones(Marks(p, s)[i], one, to) \in Nat
    BY <2>1, OnesJoin
  <2> QED BY <2>1, <2>2, <2>3
<1>4. ASSUME NEW v \in Nat
      PROVE  /\ IsFinite(error) /\ AtLeast(error, Zero)
             /\ len = blocks * w /\ v = blocks * squares - all * all =>
                  error = Frac(blocks * v, w * w * (blocks * blocks * blocks) * (blocks - 1))
  <2>1. error = ErrorOf(squares, all, len, w, blocks)
    BY <1>2, <1>3
  <2>2. squares \in Int /\ all \in Int /\ blocks \in Nat \ {0, 1}
    BY <1>2, <1>3
  <2>3. RightError(ErrorOf(squares, all, len, w, blocks), squares, all, len, w, blocks, v)
    BY <2>2, ErrorRatio
  <2> QED BY <2>1, <2>3 DEF RightError
<1>5. ASSUME len = Len(s), len = blocks * w, Len(s) \div w = blocks
      PROVE  error = BlockErrorIn(p, s, i, level)
  <2>1. all = UpTo(h, blocks) /\ squares = UpTo(SquaresOf(h), blocks)
    BY <1>1, <1>2, <1>3, <1>5
  <2>2. PICK v \in Nat : /\ v = blocks * squares - all * all
                         /\ UpTo(Deviations(h, blocks, all), blocks) = blocks * v
    <3>1. blocks \in Nat \ {0}
      OBVIOUS
    <3>2. PICK a, sq : a = UpTo(h, blocks) /\ sq = UpTo(SquaresOf(h), blocks)
      OBVIOUS
    <3>3. /\ blocks * sq - a * a \in Nat
          /\ UpTo(Deviations(h, blocks, a), blocks) = blocks * (blocks * sq - a * a)
      BY <3>1, <3>2, Variance
    <3> QED BY <2>1, <3>2, <3>3
  <2>3. error = Frac(blocks * v, w * w * (blocks * blocks * blocks) * (blocks - 1))
    BY <1>4, <1>5, <2>2
  <2>4. \A b \in 1 .. blocks :
          (blocks * BlockIn(p, s, i, level, b) - all) * (blocks * BlockIn(p, s, i, level, b) - all)
            = Deviations(h, blocks, all)[b]
    <3> SUFFICES ASSUME NEW b \in 1 .. blocks
                 PROVE  (blocks * BlockIn(p, s, i, level, b) - all)
                          * (blocks * BlockIn(p, s, i, level, b) - all)
                          = Deviations(h, blocks, all)[b]
      OBVIOUS
    <3>1. b \in Nat
      OBVIOUS
    <3>2. BlockIn(p, s, i, level, b) = h[b]
      BY <1>1, <3>1
    <3> QED BY <3>1, <3>2 DEF Deviations
  <2>5. [b \in 1 .. blocks |->
           (blocks * BlockIn(p, s, i, level, b) - all) * (blocks * BlockIn(p, s, i, level, b) - all)]
          = [b \in 1 .. blocks |-> Deviations(h, blocks, all)[b]]
    BY <2>4
  <2>6. BlockErrorIn(p, s, i, level)
          = Frac(UpTo(Deviations(h, blocks, all), blocks),
                 w * w * (blocks * blocks * blocks) * (blocks - 1))
    BY <1>3, <1>5, <2>5 DEF BlockErrorIn, UpTo
  <2> QED BY <2>2, <2>3, <2>6
<1>6. 0 \in Nat
  OBVIOUS
<1> QED BY <1>4, <1>5, <1>6 DEF SoundError

LEMMA ErrorsOfBlocks ==
  ASSUME NEW p, NEW levels \in 1 .. 30, NEW s, Len(s) \in Nat, NEW i \in Bins(p),
         NEW level \in 0 .. levels, Len(s) >= 2 ^ levels, Len(s) \div 2 ^ level > 1
  PROVE  /\ IsFinite(ErrorIn(p, levels, s, i, level))
         /\ AtLeast(ErrorIn(p, levels, s, i, level), Zero)
         /\ Len(s) % 2 ^ levels = 0 => ErrorIn(p, levels, s, i, level) = BlockErrorIn(p, s, i, level)
<1>1. PICK len \in Nat : len = Len(s)
  OBVIOUS
<1>2. PICK averages \in Nat :
        /\ averages = (len \div 2 ^ levels) * 2 ^ (levels - level) /\ averages > 1
        /\ len % 2 ^ levels = 0 => len \div 2 ^ level = averages /\ len = averages * 2 ^ level
  <2>1. len >= 2 ^ levels /\ len \div 2 ^ level > 1
    BY <1>1
  <2> QED BY <2>1, BlocksFlushed
<1>3. PICK w \in Nat \ {0} : w = 2 ^ level
  <2>1. level \in 0 .. 31
    OBVIOUS
  <2> QED BY <2>1, PowersOfTwo
<1>4. len \in Nat \ {0}
  <2>1. 2 ^ levels \in Nat \ {0}
    <3>1. levels \in 0 .. 31
      OBVIOUS
    <3> QED BY <3>1, PowersOfTwo
  <2> QED BY <1>1, <2>1
<1>5. PICK error : error = ErrorIn(p, levels, s, i, level)
  OBVIOUS
<1>6. error = ErrorOf(SquaresIn(p, s, i, level, averages), HitsIn(p, s, i, 1, len),
                      len, w, averages)
  BY <1>1, <1>2, <1>3, <1>5 DEF ErrorIn, ErrorOf
<1>7. level \in 0 .. 30 /\ averages \in Nat \ {0, 1}
  BY <1>2
<1>8. SoundError(error, p, s, i, level, averages, len, w)
  BY <1>3, <1>4, <1>6, <1>7, ErrorOfBlocks
<1> QED BY <1>1, <1>2, <1>3, <1>5, <1>8 DEF SoundError

LEMMA BlockErrorIs ==
  ASSUME NEW t, NEW i, NEW level
  PROVE  BlockError(t, i, level) = BlockErrorIn(case.params, seen[t], i, level)
BY HitsAre DEF BlockError, BlockErrorIn, BlockHits, BlockIn, AllHits, Samples

\* If all samples make whole blocks, the error bars are the standard errors that the
\* blocks give, by the identity of the variance for which calcErrorLevels() needs one
\* pass only; else they are still finite and never squares of less than zero.
THEOREM ErrorsAreBlockErrorsAlways == Spec => []ErrorsAreBlockErrors
<1>1. ErrorsInv => ErrorsAreBlockErrors
  <2> SUFFICES ASSUME ErrorsInv, case.binning, NEW t \in DOMAIN stats_results,
                      NEW level \in 0 .. case.levels, NEW i \in Tracked,
                      Len(seen[t]) >= 2 ^ case.levels, Len(seen[t]) \div 2 ^ level > 1
               PROVE  /\ IsFinite(stats_results[t].error_levels[level][i])
                      /\ AtLeast(stats_results[t].error_levels[level][i], Zero)
                      /\ Len(seen[t]) % 2 ^ case.levels = 0 =>
                           stats_results[t].error_levels[level][i] = BlockError(t, i, level)
    BY Zenon DEF ErrorsAreBlockErrors, Samples, SamplesSize
  <2>1. PICK levels, p, s : levels = case.levels /\ p = case.params /\ s = seen[t]
    OBVIOUS
  <2>2. levels \in 1 .. 30 /\ Len(s) \in Nat /\ i \in Bins(p) /\ level \in 0 .. levels
    BY <2>1, ResultFacts DEF Tracked
  <2>3. stats_results[t].error_levels[level][i] = ErrorIn(p, levels, s, i, level)
    BY <2>1, ResultFacts
  <2>4. BlockError(t, i, level) = BlockErrorIn(p, s, i, level)
    BY <2>1, BlockErrorIs
  <2>5. Len(s) >= 2 ^ levels /\ Len(s) \div 2 ^ level > 1
    BY <2>1
  <2>6. /\ IsFinite(ErrorIn(p, levels, s, i, level))
        /\ AtLeast(ErrorIn(p, levels, s, i, level), Zero)
        /\ Len(s) % 2 ^ levels = 0 => ErrorIn(p, levels, s, i, level) = BlockErrorIn(p, s, i, level)
    BY <2>2, <2>5, ErrorsOfBlocks
  <2> QED BY <2>1, <2>3, <2>4, <2>6
<1> QED BY <1>1, ErrorsInvariance, PTL

=============================================================================
