--------------------------- MODULE DensityMatrices ---------------------------
(***************************************************************************)
(* The likelihood of measurement data as a function of the density matrix. *)
(* The states are T-matrices of norm 1, for rho = T T^*; here, matrices of *)
(* Gaussian integers, functions from 0 .. Dim * Dim - 1, row by row, which *)
(* stand for themselves divided by their norm.                             *)
(* Hermitian matrices are functions to <<re, im>>, pairs of Fractions.     *)
(* The X-parameters of one are its diagonal and, times the root of two,    *)
(* its entries below; the latter are kept here without the root.  Their    *)
(* products come in pairs, so that the roots make a factor of two.         *)
(* Likelihoods are powers of two, or zero, and logarithms are to this base.*)
(* A faulty twin of an operator stands just before it, as in ThreadCommon. *)
(***************************************************************************)
EXTENDS Fractions, Archives

CONSTANT Dim     \* dimension of the Hilbert space

ASSUME DimensionAssumption == Dim \in Nat \ {0}

Dim2 == Dim * Dim
Entries == 0 .. Dim2 - 1
Row(k) == k \div Dim
Column(k) == k % Dim
Entry(i, j) == i * Dim + j

\* Gaussian integers
CPlus(a, b) == <<a[1] + b[1], a[2] + b[2]>>
CTimes(a, b) == <<a[1] * b[1] - a[2] * b[2], a[1] * b[2] + a[2] * b[1]>>
CConj(a) == <<a[1], 0 - a[2]>>

NormSquared(T) == MapThenSumSet(LAMBDA k : CTimes(T[k], CConj(T[k]))[1], Entries)

\* the density matrix of T
Rho(T) ==
  LET norm2 == NormSquared(T)
      Product(k, j) == CTimes(T[Entry(Row(k), j)], CConj(T[Entry(Column(k), j)]))
      Part(k, p) == Frac(MapThenSumSet(LAMBDA j : Product(k, j)[p], 0 .. Dim - 1), norm2)
  IN  [k \in Entries |-> <<Part(k, 1), Part(k, 2)>>]

-----------------------------------------------------------------------------
\* ParamX: the entries below the diagonal, row by row, real parts before
\* imaginary ones

DimTri == (Dim2 - Dim) \div 2

\* which entry the real parameter number k is about
BelowDiagonal ==
  [k \in Dim .. Dim + DimTri - 1 |->
     CHOOSE e \in Entries :
       /\ Column(e) < Row(e)
       /\ k = Dim + (Row(e) * (Row(e) - 1)) \div 2 + Column(e)]

HermToXUpper(Herm) ==
  [k \in Entries |->
     CASE k < Dim -> Herm[Entry(k, k)][1]
       [] k \in Dim .. Dim + DimTri - 1 -> Herm[BelowDiagonal[k]][1]
       [] OTHER -> LET e == BelowDiagonal[k - DimTri]
                   IN  Herm[Entry(Column(e), Row(e))][2]]

HermToX(Herm) ==
  [k \in Entries |->
     CASE k < Dim -> Herm[Entry(k, k)][1]
       [] k \in Dim .. Dim + DimTri - 1 -> Herm[BelowDiagonal[k]][1]
       [] OTHER -> Herm[BelowDiagonal[k - DimTri]][2]]

XToHerm(x) ==
  LET at(i, j) == CHOOSE k \in Dim .. Dim + DimTri - 1 : BelowDiagonal[k] = Entry(i, j)
  IN  [e \in Entries |->
         LET i == Row(e)
             j == Column(e)
         IN  CASE i = j -> <<x[i], Zero>>
               [] j < i -> <<x[at(i, j)], x[at(i, j) + DimTri]>>
               [] OTHER -> <<x[at(j, i)], Minus(Zero, x[at(j, i) + DimTri])>>]

\* the inner product of X-parameters
Inner(x, y) ==
  LET Term(k) == LET p == Times(x[k], y[k]) IN IF k < Dim THEN p ELSE Plus(p, p)
  IN  FoldFunction(Plus, Zero, [k \in Entries |-> Term(k)])

\* ObservableValueCalculator, for the observable with X-parameters A_x
ObservableValue(A_x, T) == Inner(A_x, HermToX(Rho(T)))

-----------------------------------------------------------------------------
\* ParamA: the generators of su(Dim), each a matrix of Gaussian integers that is to
\* be multiplied with the root of norm2.  Parameters are kept without these roots,
\* and without half the root of two.

\* one above the diagonal, and its mirror image below
GellMann12(e, coeffJK, coeffKJ) ==
  [norm2 |-> One,
   at |-> [f \in Entries |-> CASE f = e -> coeffJK
                               [] f = Entry(Column(e), Row(e)) -> coeffKJ
                               [] OTHER -> <<0, 0>>]]

GellMann3(l) ==
  [norm2 |-> Frac(2, (l + 1) * (l + 2)),
   at |-> [f \in Entries |-> CASE Row(f) # Column(f) \/ Row(f) > l + 1 -> <<0, 0>>
                               [] Row(f) = l + 1 -> <<0 - (l + 1), 0>>
                               [] OTHER -> <<1, 0>>]]

Lambda ==
  LET above == SetToSortSeq({e \in Entries : Row(e) < Column(e)}, <)
  IN  [n \in DOMAIN above |-> GellMann12(above[n], <<1, 0>>, <<1, 0>>)]
        \o [n \in DOMAIN above |-> GellMann12(above[n], <<0, -1>>, <<0, 1>>)]
        \o [l \in 1 .. Dim - 1 |-> GellMann3(l - 1)]

RhoToA(rho) ==
  LET Term(n, e) == LET c == Lambda[n].at[Entry(Column(e), Row(e))]
                    IN  Minus(Times(rho[e][1], <<c[1], 1>>), Times(rho[e][2], <<c[2], 1>>))
  IN  [n \in DOMAIN Lambda |-> FoldFunction(Plus, Zero, [e \in Entries |-> Term(n, e)])]

AToRho(a, trace) ==
  LET Part(e, p) ==
        FoldLeftDomain(LAMBDA sum, n :
                         Plus(sum, Times(Times(Over(a[n], 2), Lambda[n].norm2),
                                         <<Lambda[n].at[e][p], 1>>)),
                       IF p = 1 /\ Row(e) = Column(e) THEN Over(trace, Dim) ELSE Zero, a)
  IN  [e \in Entries |-> <<Part(e, 1), Part(e, 2)>>]

-----------------------------------------------------------------------------
\* IndepMeasLLH: measurement data [Exn, Nx, NMeasAmplifyFactor], the first two
\* sequences of effects, as X-parameters, and of their counts

NoMeas(factor) == [Exn |-> <<>>, Nx |-> <<>>, NMeasAmplifyFactor |-> factor]

ResetMeas(llh) == NoMeas(llh.NMeasAmplifyFactor)

\* an outcome never observed is left out
AddMeasEffectAlways(llh, E_x, count) ==
  [llh EXCEPT !.Exn = Append(@, E_x), !.Nx = Append(@, count)]

AddMeasEffect(llh, E_x, count) ==
  IF count = 0 THEN llh
  ELSE [llh EXCEPT !.Exn = Append(@, E_x), !.Nx = Append(@, count)]

AddMeasMatrix(llh, E_m, count) == AddMeasEffect(llh, HermToX(E_m), count)

\* all at once, or one by one when there are counts to be left out
SetMeas(llh, Exn, Nx) ==
  IF \A k \in DOMAIN Nx : Nx[k] > 0
  THEN [llh EXCEPT !.Exn = Exn, !.Nx = Nx]
  ELSE FoldLeftDomain(LAMBDA data, k : AddMeasEffect(data, Exn[k], Nx[k]),
                      ResetMeas(llh), Exn)

MinusInfinity == <<-1, 0>>

\* of one over a power of two
Log2(p) == IF p = Zero THEN MinusInfinity
           ELSE <<0 - (CHOOSE l \in 0 .. 30 : p[2] = 2 ^ l), 1>>

\* two infinities of one sign have a sum
LogPlus(l, m) == IF MinusInfinity \in {l, m} /\ NaN \notin {l, m} THEN MinusInfinity ELSE Plus(l, m)

LogLikelihoodX(llh, x) ==
  LET Term(k) == Times(<<llh.Nx[k], 1>>, Log2(Inner(llh.Exn[k], x)))
  IN  Times(<<llh.NMeasAmplifyFactor, 1>>,
            FoldLeftDomain(LAMBDA sum, k : LogPlus(sum, Term(k)), Zero, llh.Nx))

FnLogVal(llh, T) == LogLikelihoodX(llh, HermToX(Rho(T)))

-----------------------------------------------------------------------------
\* Sent over MPI, the data are an object behind a pointer, its dimension first

ReceivedLLH(llh) ==
  LET effects == 0 .. Len(llh.Nx) - 1
      there == Received(IndepMeasLLHType,
                 [dim |-> Dim, NMeasAmplifyFactor |-> llh.NMeasAmplifyFactor,
                  Exn |-> [k \in Entries |-> [e \in effects |-> llh.Exn[e + 1][k]]],
                  Nx |-> [e \in effects |-> llh.Nx[e + 1]]])
      numbers == DOMAIN there.Nx
  IN  [Exn |-> [e \in 1 .. Cardinality(numbers) |->
                  [k \in 0 .. there.dim * there.dim - 1 |-> there.Exn[k][e - 1]]],
       Nx |-> [e \in 1 .. Cardinality(numbers) |-> there.Nx[e - 1]],
       NMeasAmplifyFactor |-> there.NMeasAmplifyFactor]

ReceivedObservable(A_x) ==
  Received(ObservableValueType, [param_x |-> [dim |-> Dim], A_x |-> A_x]).A_x

\* The Python class has no factor.  Its setMeas() adds the effects one by one,
\* and refuses lists of different length only after the old data are gone.
PySetMeas(llh, Exn, Nx) ==
  IF Len(Exn) # Len(Nx) THEN ResetMeas(llh)
  ELSE FoldLeftDomain(LAMBDA data, k : AddMeasEffect(data, Exn[k], Nx[k]),
                      ResetMeas(llh), Exn)

LLHPickle(llh) == <<Dim, llh.Exn, llh.Nx>>

LLHUnpickled(state) == PySetMeas(NoMeas(1), state[2], state[3])

=============================================================================
