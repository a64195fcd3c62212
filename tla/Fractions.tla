------------------------------ MODULE Fractions ------------------------------
(***************************************************************************)
(* Exact fractions for what the code computes in floating point: <<n, d>>  *)
(* with d >= 0, reduced.  As there, a division by zero gives an infinity,  *)
(* <<1, 0>>, or no number, <<0, 0>>, with which every comparison is false. *)
(***************************************************************************)
LOCAL INSTANCE Integers

Abs(n) == IF n < 0 THEN 0 - n ELSE n

GCD[p \in Nat \X Nat] == IF p[2] = 0 THEN p[1] ELSE GCD[<<p[2], p[1] % p[2]>>]

Frac(n, d) ==
  IF n = 0 /\ d = 0
  THEN <<0, 0>>
  ELSE LET g == GCD[<<Abs(n), Abs(d)>>]
       IN  IF d < 0 THEN <<(0 - n) \div g, (0 - d) \div g>>
                    ELSE <<n \div g, d \div g>>

NaN == <<0, 0>>
Zero == <<0, 1>>
One == <<1, 1>>

IsFinite(a) == a[2] # 0

Plus(a, b) == Frac(a[1] * b[2] + b[1] * a[2], a[2] * b[2])
Minus(a, b) == Frac(a[1] * b[2] - b[1] * a[2], a[2] * b[2])
Times(a, b) == LET x == Frac(a[1], b[2])
                   y == Frac(b[1], a[2])
               IN  Frac(x[1] * y[1], x[2] * y[2])
Over(a, n) == Frac(a[1], a[2] * n)
Quotient(a, b) == LET x == Frac(a[1], b[1])
                      y == Frac(b[2], a[2])
                  IN  Frac(x[1] * y[1], x[2] * y[2])

\* comparison of finite ones by whole parts, then of the inverses of what is left,
\* so that no product gets large
Finite == Int \X (Nat \ {0})

Precedes[ab \in Finite \X Finite] ==
  LET a == ab[1]
      b == ab[2]
      rest(f) == f[1] % f[2]
  IN  \/ a[1] \div a[2] < b[1] \div b[2]
      \/ /\ a[1] \div a[2] = b[1] \div b[2]
         /\ rest(b) # 0
         /\ rest(a) = 0 \/ Precedes[<< <<b[2], rest(b)>>, <<a[2], rest(a)>> >>]

Less(a, b) ==
  /\ a # NaN /\ b # NaN
  /\ IF IsFinite(a) /\ IsFinite(b)
     THEN Precedes[<<a, b>>]
     ELSE a[1] * b[2] < b[1] * a[2]

AtLeast(a, b) == a # NaN /\ b # NaN /\ ~Less(a, b)

=============================================================================
