------------------------------ MODULE TSpaceWalk ------------------------------
(***************************************************************************)
(* The points of a random walk: where it starts and jumps to, on the       *)
(* sphere of the T-matrices (LLHMHWalker and LLHMHWalkerLight, chosen by   *)
(* LLH_MHWalker in Python), and which jumps MHRandomWalk accepts.          *)
(* Angles of rotations are right ones or zero, so that matrices of         *)
(* Gaussian integers stay what they are; the random number generator has   *)
(* RngMax + 1 outputs.  A faulty twin of an operator stands just before    *)
(* it, as in ThreadCommon.                                                 *)
(***************************************************************************)
EXTENDS DensityMatrices

CONSTANTS
  TPoints,     \* the T-matrices a full jump, or a random start, may come to
  RngMax       \* _rng.max() - _rng.min()

ASSUME RngAssumption == RngMax \in Nat \ {0}

VARIABLES
  which,                  \* "full" or "light"
  UseFnSyntaxType,        \* "value", "log" or "relative"; "log" for these walkers
  llh,                    \* the measurement data
  startpt,                \* of the walker; None: to be chosen at random
  curpt, curptval,        \* where the walk is, and the value there
  num_accepted, num_live_points

walker == <<which, UseFnSyntaxType, llh>>
points == <<walker, startpt, curpt, curptval, num_accepted, num_live_points>>

NoPoint == <<>>

-----------------------------------------------------------------------------
\* The walkers

\* one rotation of a light jump, in the plane of the entries k1 < k2, about the
\* axis xyz, by an angle with the sine sina
LightChoices ==
  {c \in [k1 : Entries, k2 : Entries, xyz : 0 .. 2, sina : {-1, 0, 1}] : c.k1 # c.k2}

Rotation(xyz, sina) ==
  LET cosa == <<1 - sina * sina, 0>>
      i_sina == <<0, sina>>
  IN  CASE xyz = 0 -> <<<<cosa, i_sina>>, <<i_sina, cosa>>>>
        [] xyz = 1 -> <<<<cosa, <<sina, 0>>>>, <<<<0 - sina, 0>>, cosa>>>>
        [] xyz = 2 -> <<<<CPlus(cosa, i_sina), <<0, 0>>>>,
                        <<<<0, 0>>, CPlus(cosa, CConj(i_sina))>>>>

Applied(row, a, b) == CPlus(CTimes(row[1], a), CTimes(row[2], b))

RotatedInPlace(T, c) ==
  LET k1 == IF c.k1 < c.k2 THEN c.k1 ELSE c.k2
      k2 == IF c.k1 < c.k2 THEN c.k2 ELSE c.k1
      tr2d == Rotation(c.xyz, c.sina)
      x == Applied(tr2d[1], T[k1], T[k2])
  IN  [T EXCEPT ![k1] = x, ![k2] = Applied(tr2d[2], x, T[k2])]

Rotated(T, c) ==
  LET k1 == IF c.k1 < c.k2 THEN c.k1 ELSE c.k2
      k2 == IF c.k1 < c.k2 THEN c.k2 ELSE c.k1
      tr2d == Rotation(c.xyz, c.sina)
  IN  [T EXCEPT ![k1] = Applied(tr2d[1], T[k1], T[k2]),
                ![k2] = Applied(tr2d[2], T[k1], T[k2])]

\* a light jump is Dim rotations
LightJumps(T) ==
  LET After[j \in 0 .. Dim] ==
        IF j = 0 THEN {T}
        ELSE {Rotated(S, c) : S \in After[j - 1], c \in LightChoices}
  IN  After[Dim]

\* a full jump adds a random matrix: it may come to any point
FullJumps(T) == TPoints

JumpFn(T) == IF which = "full" THEN FullJumps(T) ELSE LightJumps(T)

\* the point the walker is given, if it is not (nearly) zero; or a random one,
\* which it keeps
StartPoints == IF startpt # NoPoint THEN {startpt} ELSE TPoints

-----------------------------------------------------------------------------
\* MHRandomWalk

\* the function is a power of two, with the given logarithm
FnVal(T) ==
  LET l == FnLogVal(llh, T)
  IN  IF l = MinusInfinity THEN Zero
      ELSE IF l[1] < 0 THEN Frac(1, 2 ^ (0 - l[1])) ELSE Frac(2 ^ l[1], 1)

FnRelVal(newT, T) == Quotient(FnVal(newT), FnVal(T))

PtVal(T) == CASE UseFnSyntaxType = "value" -> FnVal(T)
              [] UseFnSyntaxType = "log" -> FnLogVal(llh, T)
              [] UseFnSyntaxType = "relative" -> Zero

Exp2(l) == CASE l = NaN -> NaN
             [] l = MinusInfinity -> Zero
             [] OTHER -> IF l[1] < 0 THEN Frac(1, 2 ^ (0 - l[1])) ELSE Frac(2 ^ l[1], 1)

AValue(newpt, newptval, pt, ptval) ==
  CASE UseFnSyntaxType = "value" -> Quotient(newptval, ptval)
    [] UseFnSyntaxType = "log" -> IF Less(ptval, newptval) THEN One
                                  ELSE Exp2(Minus(newptval, ptval))
    [] UseFnSyntaxType = "relative" -> FnRelVal(newpt, pt)

\* for the output u of the random number generator
Accepts(a, u) == AtLeast(a, One) \/ AtLeast(Times(a, <<RngMax, 1>>), <<u, 1>>)

\* _init(), as to points
InitPoint ==
  /\ num_accepted' = 0 /\ num_live_points' = 0
  /\ curpt' \in StartPoints
  /\ startpt' = curpt'
  /\ curptval' = PtVal(curpt')
  /\ UNCHANGED walker

GoToUnvalued(pt, ptval) == curpt' = pt /\ UNCHANGED curptval

GoTo(pt, ptval) == curpt' = pt /\ curptval' = ptval

MovePoint(IsThermalizing) ==
  \E newpt \in JumpFn(curpt) : \E newptval \in {PtVal(newpt)} :
    \E a \in {AValue(newpt, newptval, curpt, curptval)} :
      \E accept \in {Accepts(a, u) : u \in 0 .. RngMax} :
        /\ IF IsThermalizing
           THEN UNCHANGED <<num_accepted, num_live_points>>
           ELSE /\ num_accepted' = num_accepted + IF accept THEN 1 ELSE 0
                /\ num_live_points' = num_live_points + 1
        /\ IF accept THEN GoTo(newpt, newptval) ELSE UNCHANGED <<curpt, curptval>>
        /\ UNCHANGED <<walker, startpt>>

-----------------------------------------------------------------------------
\* Terms for the property

\* the ways for one rotation to lead from T to U
Ways(T, U) == Cardinality({c \in LightChoices : Rotated(T, c) = U})

Outputs(a) == Cardinality({u \in 0 .. RngMax : Accepts(a, u)})

\* Jumps between two points balance, for a function with values v and w there:
\* as many outputs of the generator allow each, in the long run, but for one.
Balanced(v, w, there, back) ==
  LET gain == Minus(Times(v, <<Outputs(there), 1>>), Times(w, <<Outputs(back), 1>>))
      most == IF Less(v, w) THEN w ELSE v
  IN  AtLeast(most, gain) /\ AtLeast(gain, Minus(Zero, most))

\* the probability of an outcome, from its effect
Probability(E, rho) ==
  FoldFunction(Plus, Zero,
    [e \in Entries |-> LET f == Entry(Column(e), Row(e))
                       IN  Minus(Times(E[e][1], rho[f][1]), Times(E[e][2], rho[f][2]))])

=============================================================================
