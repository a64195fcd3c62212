------------------------------ MODULE DataFile ------------------------------
(***************************************************************************)
(* MATLAB data files as tools/ezmatio.h reads them: which variables may be *)
(* read as a number, a matrix or a list of matrices, and what is read.     *)
(*                                                                         *)
(* A variable is a record: dims, the sequence of its dimensions; data_type;*)
(* is_complex; and data, the elements from 0 on as <<real, imaginary>>, in *)
(* the order of the file (first index fastest).  A file is a function from *)
(* the names of its variables.  Reading is modelled by the condition under *)
(* which no exception is thrown, and the value; the values are whole       *)
(* numbers, which the conversions of types keep.                           *)
(***************************************************************************)
EXTENDS Integers, Sequences, SequencesExt, FiniteSetsExt

NumEl(dims) == FoldLeft(LAMBDA n, d : n * d, 1, dims)

\* a dimension that is wanted as Dynamic may have any value
Dynamic == -1

MatchesWanted(dims, wanted) ==
  /\ Len(dims) = Len(wanted)
  /\ \A k \in DOMAIN dims : wanted[k] >= 0 => dims[k] = wanted[k]

-----------------------------------------------------------------------------
\* IndexList: subscripts, from 0 on

Subscripts(dims) == {i \in [DOMAIN dims -> 0 .. Max({0} \cup Range(dims))] :
                       \A k \in DOMAIN dims : i[k] < dims[k]}

\* how far two elements are apart that differ by one in the subscript k
Stride(dims, k) == NumEl(SubSeq(dims, 1, k - 1))

LinearIndex(dims, index) ==
  FoldLeft(LAMBDA lin, k : lin + index[k] * Stride(dims, k), 0,
           [k \in DOMAIN dims |-> k])

\* VarMatDataAccessor
Element(var, index) == var.data[LinearIndex(var.dims, index)]

-----------------------------------------------------------------------------
\* Types and shapes

RealTypes == {"double", "single", "int64", "int32", "int16", "int8",
              "uint64", "uint32", "uint16", "uint8"}

\* MAT_SWITCH_TYPE knows what to do
KnownType(var) ==
  var.data_type \in IF var.is_complex THEN {"double", "single"} ELSE RealTypes

VarShape(is_complex, dims, is_square) ==
  [is_complex |-> is_complex, dims |-> dims, is_square |-> is_square]

CheckShape(shape, other) ==
  /\ other.is_complex => shape.is_complex
  /\ shape.dims # <<>> => MatchesWanted(other.dims, shape.dims)
  /\ shape.is_square => Len(other.dims) = 2 /\ other.dims[1] = other.dims[2]

Square(dims) == dims[1] # Dynamic /\ dims[1] = dims[2]

-----------------------------------------------------------------------------
\* A number

CanReadReal(var) == ~var.is_complex /\ NumEl(var.dims) = 1 /\ KnownType(var)

RealValue(var) == var.data[0][1]

-----------------------------------------------------------------------------
\* A matrix, from the elements after the first `offset'

DimsStackedCols(dims) ==
  IF Len(dims) = 2 THEN dims ELSE <<NumEl(Front(dims)), Last(dims)>>

InitEigenMatrix(var, dims, offset) ==
  LET rows == DimsStackedCols(dims)[1]
      cols == DimsStackedCols(dims)[2]
  IN  [rows |-> rows, cols |-> cols,
       at |-> [ij \in (0 .. rows - 1) \X (0 .. cols - 1) |->
                 var.data[offset + ij[1] + rows * ij[2]]]]

\* rows and cols are numbers, or Dynamic for matrices of any size
CanReadMatrix(var, complex_scalar, rows, cols) ==
  LET wanted == <<rows, cols>>
      dims == DimsStackedCols(var.dims)
  IN  /\ CheckShape(VarShape(complex_scalar, wanted, Square(wanted)),
                    VarShape(var.is_complex, dims, Square(dims)))
      /\ KnownType(var)

MatrixValue(var) == InitEigenMatrix(var, var.dims, 0)

\* with its square root, of which only what can be read is modelled
CanReadPosSemidef(var, rows, cols) ==
  /\ CanReadMatrix(var, TRUE, rows, cols)
  /\ Len(var.dims) = 2 /\ var.dims[1] = var.dims[2]

-----------------------------------------------------------------------------
\* A list of matrices: the third dimension, and what follows it, counts them

OuterDim(dims) == NumEl(SubSeq(dims, 3, Len(dims)))

CanReadMatrices(var, complex_scalar, rows, cols) ==
  /\ CheckShape(VarShape(complex_scalar, <<rows, cols, Dynamic>>, FALSE),
                VarShape(var.is_complex, <<var.dims[1], var.dims[2], OuterDim(var.dims)>>,
                         FALSE))
  /\ KnownType(var)

OffsetPacked(dims, j) == j * dims[1]

OffsetOf(dims, j) == j * dims[1] * dims[2]

MatricesValue(var) ==
  [k \in 1 .. OuterDim(var.dims) |->
     InitEigenMatrix(var, SubSeq(var.dims, 1, 2), OffsetOf(var.dims, k - 1))]

=============================================================================
