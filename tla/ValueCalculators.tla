--------------------------- MODULE ValueCalculators ---------------------------
(***************************************************************************)
(* MultiplexorValueCalculator: one figure of merit out of several, chosen  *)
(* when the program runs.  It holds a pointer without a type to the one    *)
(* calculator it has had created, and the number that says which it is.    *)
(* Calculators live in a heap, a function from addresses to numbers of     *)
(* figures; a multiplexor is a record [i, valcalc].                        *)
(* A faulty twin of an operator stands just before it, as in ThreadCommon. *)
(***************************************************************************)
EXTENDS Integers, FiniteSetsExt, Functions

CONSTANT Figures     \* a sequence: the figures of merit, functions on points

EmptyHeap == [a \in {} |-> 0]

FreeAddress(heap) == Min((1 .. Cardinality(DOMAIN heap) + 1) \ DOMAIN heap)

\* the heap and the multiplexor after the constructor, given the number of
\* the figure; i is in the range of Figures
CreateIth(heap, i) ==
  LET a == FreeAddress(heap)
  IN  [heap |-> [b \in DOMAIN heap \cup {a} |-> IF b = a THEN i ELSE heap[b]],
       multiplexor |-> [i |-> i, valcalc |-> a]]

\* after the copy constructor, which clones what the other one holds
CopySharing(heap, other) == [heap |-> heap, multiplexor |-> other]

CopyOf(heap, other) == CreateIth(heap, other.i)

\* after the destructor
Destroyed(heap, multiplexor) == Restrict(heap, DOMAIN heap \ {multiplexor.valcalc})

\* may its calculator be called?
Usable(heap, multiplexor) ==
  /\ multiplexor.valcalc \in DOMAIN heap
  /\ heap[multiplexor.valcalc] = multiplexor.i

\* of a multiplexor that is usable
GetValue(multiplexor, point) == Figures[multiplexor.i][point]

\* holders of multiplexors keep out of each other's way, and together own all
\* calculators there are
OwnAll(heap, multiplexors) ==
  /\ \A i \in DOMAIN multiplexors : Usable(heap, multiplexors[i])
  /\ DOMAIN heap = {multiplexors[i].valcalc : i \in DOMAIN multiplexors}
  /\ Cardinality(DOMAIN heap) = Cardinality(DOMAIN multiplexors)

=============================================================================
