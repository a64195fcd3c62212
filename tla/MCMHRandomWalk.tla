--------------------------- MODULE MCMHRandomWalk ---------------------------
(***************************************************************************)
(* The walks of tomorun: without controllers, with each of them, with      *)
(* both.  Points are followed in walks with fixed parameters, of a state   *)
(* of one qubit.                                                           *)
(***************************************************************************)
EXTENDS MHRandomWalk, TSpaceWalk

Combinations == {<<>>, <<"step">>, <<"converged">>, <<"step", "converged">>}

\* Two entries that are not zero; the first is 1 where full jumps lead.
Units == {<<1, 0>>, <<0, 1>>, <<-1, 0>>, <<0, -1>>}
MCPoints ==
  {T \in [0 .. 3 -> Units \cup {<<0, 0>>}] :
     \E e, f \in 0 .. 3 : /\ e < f /\ T[e] = <<1, 0>> /\ T[f] # <<0, 0>>
                          /\ \A g \in 0 .. 3 \ {e, f} : T[g] = <<0, 0>>}

StartT == [e \in 0 .. 3 |-> IF e \in {0, 3} THEN <<1, 0>> ELSE <<0, 0>>]

\* projectors, on the first vector of the basis, and on sums of both
Half == <<1, 2>>
ProjZ == [e \in 0 .. 3 |-> <<IF e = 0 THEN One ELSE Zero, Zero>>]
ProjX == [e \in 0 .. 3 |-> <<Half, Zero>>]
ProjY == [e \in 0 .. 3 |-> CASE e = 1 -> <<Zero, <<-1, 2>>>>
                             [] e = 2 -> <<Zero, Half>>
                             [] OTHER -> <<Half, Zero>>]
Effects == <<ProjZ, ProjX, ProjY>>
EffectsX == [j \in 1 .. 3 |-> HermToX(Effects[j])]

\* counts; outcomes that were not observed among them
Counts == {<<1, 2, 1>>, <<0, 1, 2>>, <<2, 0, 0>>}

DataFrom(Nx, factor) == SetMeas(NoMeas(factor), EffectsX, Nx)

\* as tomorun does: matrix by matrix
DataAdded(Nx) ==
  FoldLeftDomain(LAMBDA data, j : AddMeasMatrix(data, Effects[j], Nx[j]), NoMeas(1), Nx)

FollowPoints ==
  /\ controllers = <<>> /\ n_sweep = 1 /\ n_therm = 1 /\ n_run = 1
  /\ \/ /\ which = "full" /\ startpt = StartT
        /\ UseFnSyntaxType \in {"value", "log", "relative"}
        /\ \E Nx \in Counts, factor \in {1, 2} : llh = DataFrom(Nx, factor)
     \/ /\ \/ which = "full" /\ startpt = NoPoint
           \/ which = "light" /\ startpt = StartT
        /\ UseFnSyntaxType = "log"
        /\ llh = DataAdded(<<0, 1, 2>>)

NotFollowed ==
  which = "none" /\ UseFnSyntaxType = "log" /\ llh = NoMeas(1) /\ startpt = NoPoint

MCInit ==
  /\ Init
  /\ FollowPoints \/ NotFollowed
  /\ curpt = NoPoint /\ curptval = Zero
  /\ num_accepted = 0 /\ num_live_points = 0

\* each action with what becomes of the points
MCNext ==
  /\ Next
  /\ CASE which = "none" -> UNCHANGED points
       [] pc = "new" -> InitPoint
       [] pc' = pc /\ k' = k + 1 -> MovePoint(pc = "therm")
       [] OTHER -> UNCHANGED points

MCSpec == MCInit /\ [][MCNext]_<<vars, points>> /\ WF_vars(Next)

-----------------------------------------------------------------------------
\* what the data say of a state: each outcome counts as often as it was observed
LikelihoodIs(T, v) ==
  \A Nx \in Counts, factor \in {1, 2} :
    llh = DataFrom(Nx, factor) =>
      v = FoldFunction(Times, One,
            [j \in 1 .. 3 |->
               LET p == Probability(Effects[j], Rho(T))
               IN  IF Nx[j] = 0 THEN One
                   ELSE Frac(p[1] ^ (factor * Nx[j]), p[2] ^ (factor * Nx[j]))])

\* The walk has the likelihood of the data as its limit: wherever it is, it goes
\* from there to any point as often as it comes back, weighted with the likelihood,
\* for jumps of both kinds (jumpFn()), all ways to tell the function (_get_a_value()),
\* impossible states and outcomes never observed, and data that were sent to another
\* process (serialize()) or pickled; the value of the current point is kept up to
\* date with it, and the acceptance ratio counts the live run (_move()).
ReversibleWalk ==
  pc \in {"therm", "live"} /\ which # "none" =>
    /\ curptval = PtVal(curpt)
    /\ num_live_points = IF pc = "live" THEN k ELSE 0
    /\ num_accepted \in 0 .. num_live_points
    /\ LikelihoodIs(curpt, FnVal(curpt))
    /\ ReceivedLLH(llh) = llh
    /\ llh.NMeasAmplifyFactor = 1 =>
         FnLogVal(LLHUnpickled(LLHPickle(llh)), curpt) = FnLogVal(llh, curpt)
    /\ XToHerm(HermToX(Rho(curpt))) = Rho(curpt)
    /\ AToRho(RhoToA(Rho(curpt)), One) = Rho(curpt)
    /\ ObservableValue(ReceivedObservable(EffectsX[3]), curpt) =
         Probability(Effects[3], Rho(curpt))
    /\ which = "light" =>
         \A T \in {Rotated(curpt, c) : c \in LightChoices} : Ways(curpt, T) = Ways(T, curpt)
    /\ pc = "therm" =>
         \A T \in TPoints : \E v \in {PtVal(T)} :
           \E there \in {AValue(T, v, curpt, curptval)}, back \in {AValue(curpt, curptval, T, v)} :
             Balanced(FnVal(curpt), FnVal(T), there, back)

=============================================================================
