---------------------------- MODULE MatVariables ----------------------------
(***************************************************************************)
(* A program that opens MATLAB data files and reads variables with         *)
(* tools/ezmatio.h: the objects File and Var own what matio gave them, a   *)
(* File alone and a Var together with its copies, until they are           *)
(* destroyed, moved from or assigned to; and the elements of a variable    *)
(* are read into a vector, by rows or by columns, with an iterator over    *)
(* its subscripts.                                                         *)
(***************************************************************************)
EXTENDS DataFile

CONSTANTS
  Contents,    \* the variables of the file
  Files, Vars, \* objects that the program may have
  MaxOpens,    \* bound: files opened
  MaxReads,    \* bound: variables read
  MaxRefs      \* bound: references counted

ASSUME ContentsAssumption ==
  /\ IsFiniteSet(Vars) /\ IsFiniteSet(Files) /\ IsFiniteSet(DOMAIN Contents)
  /\ \A name \in DOMAIN Contents : Contents[name].dims \in Seq(Nat)

VARIABLES
  p_matfp,     \* what each File holds
  p_vardata,   \* what each Var holds
  opened,      \* the files that matio opened: "open" or "closed"
  vardata,     \* the data of variables: VarData, freed once refcount is 0
  it,          \* the iterator of the vector that is being read
  val,         \* that vector
  error,       \* the exception thrown last
  forgotten    \* history: what an object held that was assigned to

matio_vars == <<p_matfp, p_vardata, opened, vardata, it, val, error, forgotten>>

Absent == -1
NULL == 0
NoIterator == <<>>
NoError == <<>>

FileOpenError(fname) == [kind |-> "FileOpenError", about |-> fname]
VarReadError(varname) == [kind |-> "VarReadError", about |-> varname]
VarTypeError(varname) == [kind |-> "VarTypeError", about |-> varname]
VarMatTypeError == [kind |-> "VarMatTypeError", about |-> "type"]
InvalidIndexError == [kind |-> "InvalidIndexError", about |-> "dimensions"]

MatVariablesInit ==
  /\ p_matfp = [f \in Files |-> Absent]
  /\ p_vardata = [v \in Vars |-> Absent]
  /\ opened = <<>> /\ vardata = <<>>
  /\ it = NoIterator /\ val = <<>>
  /\ error = NoError
  /\ forgotten = {}

Throw(exception) == error' = exception
Succeed == error' = NoError

file_vars == <<p_matfp, opened>>
var_vars == <<p_vardata, vardata>>
reading_vars == <<it, val>>

Idle == it = NoIterator

-----------------------------------------------------------------------------
\* File

Holds(x) == x \notin {Absent, NULL}

Forgets(what, x) == forgotten' = forgotten \cup {<<what, y>> : y \in {x} \ {NULL}}

OpenFile(f) ==
  /\ p_matfp[f] = Absent /\ Len(opened) < MaxOpens
  /\ \/ /\ opened' = Append(opened, "open")
        /\ p_matfp' = [p_matfp EXCEPT ![f] = Len(opened')]
        /\ Succeed
     \/ Throw(FileOpenError("file")) /\ UNCHANGED file_vars
  /\ UNCHANGED <<var_vars, reading_vars, forgotten>>

MoveFile(f, other) ==
  /\ p_matfp[f] = Absent /\ p_matfp[other] # Absent
  /\ p_matfp' = [p_matfp EXCEPT ![f] = p_matfp[other], ![other] = NULL]
  /\ Succeed
  /\ UNCHANGED <<opened, var_vars, reading_vars, forgotten>>

\* the file held before stays open
AssignFile(f, other) ==
  /\ p_matfp[f] # Absent /\ p_matfp[other] # Absent
  /\ p_matfp' = [[p_matfp EXCEPT ![f] = p_matfp[other]] EXCEPT ![other] = NULL]
  /\ Forgets("file", p_matfp[f])
  /\ Succeed
  /\ UNCHANGED <<opened, var_vars, reading_vars>>

DestroyFile(f) ==
  /\ p_matfp[f] # Absent
  /\ opened' = IF p_matfp[f] = NULL THEN opened ELSE [opened EXCEPT ![p_matfp[f]] = "closed"]
  /\ p_matfp' = [p_matfp EXCEPT ![f] = Absent]
  /\ Succeed
  /\ UNCHANGED <<var_vars, reading_vars, forgotten>>

-----------------------------------------------------------------------------
\* Var

VarData(varname, loaded) == [refcount |-> 1, varname |-> varname, loaded |-> loaded]

ReadVar(v, f) ==
  /\ p_vardata[v] = Absent /\ Holds(p_matfp[f]) /\ Len(vardata) < MaxReads
  /\ \E varname \in DOMAIN Contents \cup {"missing"}, load_data \in BOOLEAN :
       IF varname \in DOMAIN Contents
       THEN /\ vardata' = Append(vardata, VarData(varname, load_data))
            /\ p_vardata' = [p_vardata EXCEPT ![v] = Len(vardata')]
            /\ Succeed
       ELSE Throw(VarReadError(varname)) /\ UNCHANGED var_vars
  /\ UNCHANGED <<file_vars, reading_vars, forgotten>>

\* takes over what matio lists, without the elements
GetVarInfoList(f) ==
  LET names == SetToSeq(DOMAIN Contents)
  IN  /\ Holds(p_matfp[f]) /\ Len(vardata) + Len(names) <= MaxReads
      /\ \E list \in Injection(DOMAIN names, {v \in Vars : p_vardata[v] = Absent}) :
           p_vardata' = [v \in Vars |-> IF v \in Range(list)
                                        THEN Len(vardata) + AntiFunction(list)[v]
                                        ELSE p_vardata[v]]
      /\ vardata' = vardata \o [i \in DOMAIN names |-> VarData(names[i], FALSE)]
      /\ Succeed
      /\ UNCHANGED <<file_vars, reading_vars, forgotten>>

RefLess(d) == [vardata EXCEPT ![d].refcount = @ - 1]

RefMoreUncounted(d) == vardata

RefMore(d) == [vardata EXCEPT ![d].refcount = @ + 1]

Countable(d) == vardata[d].refcount < MaxRefs

CopyVar(v, copy) ==
  /\ p_vardata[v] = Absent /\ Holds(p_vardata[copy]) /\ Countable(p_vardata[copy])
  /\ p_vardata' = [p_vardata EXCEPT ![v] = p_vardata[copy]]
  /\ vardata' = RefMore(p_vardata[copy])
  /\ Succeed
  /\ UNCHANGED <<file_vars, reading_vars, forgotten>>

MoveVar(v, other) ==
  /\ p_vardata[v] = Absent /\ p_vardata[other] # Absent
  /\ p_vardata' = [p_vardata EXCEPT ![v] = p_vardata[other], ![other] = NULL]
  /\ Succeed
  /\ UNCHANGED <<file_vars, vardata, reading_vars, forgotten>>

\* operator=: the data held before keep their count, also if they are the same
AssignCopy(v, copy) ==
  /\ p_vardata[v] # Absent /\ Holds(p_vardata[copy]) /\ Countable(p_vardata[copy])
  /\ p_vardata' = [p_vardata EXCEPT ![v] = p_vardata[copy]]
  /\ vardata' = RefMore(p_vardata[copy])
  /\ Forgets("data", p_vardata[v])
  /\ Succeed
  /\ UNCHANGED <<file_vars, reading_vars>>

AssignMove(v, other) ==
  /\ p_vardata[v] # Absent /\ p_vardata[other] # Absent
  /\ p_vardata' = [[p_vardata EXCEPT ![v] = p_vardata[other]] EXCEPT ![other] = NULL]
  /\ Forgets("data", p_vardata[v])
  /\ Succeed
  /\ UNCHANGED <<file_vars, vardata, reading_vars>>

DestroyVar(v) ==
  /\ p_vardata[v] # Absent
  /\ vardata' = IF p_vardata[v] = NULL THEN vardata ELSE RefLess(p_vardata[v])
  /\ p_vardata' = [p_vardata EXCEPT ![v] = Absent]
  /\ Succeed
  /\ UNCHANGED <<file_vars, reading_vars, forgotten>>

-----------------------------------------------------------------------------
\* IndexList and IndexListIterator

\* in the order in which subscripts count: the fastest first
Fastest(dims, row_major) ==
  IF row_major THEN Reverse([k \in DOMAIN dims |-> k]) ELSE [k \in DOMAIN dims |-> k]

LinearIndexIn(dims, index, row_major) ==
  FoldRight(LAMBDA k, lin : lin * dims[k] + index[k], Fastest(dims, row_major), 0)

SetLinearIndex(dims, linearindex, row_major) ==
  LET set == FoldLeft(LAMBDA s, k : [rest |-> s.rest \div dims[k],
                                     index |-> [s.index EXCEPT ![k] = s.rest % dims[k]]],
                      [rest |-> linearindex, index |-> [k \in DOMAIN dims |-> 0]],
                      Fastest(dims, row_major))
  IN  set.index

StartOf(v, row_major) ==
  LET dims == Contents[vardata[p_vardata[v]].varname].dims
  IN  [var |-> v, row_major |-> row_major, dims |-> dims,
       index |-> [k \in DOMAIN dims |-> 0], linearIndex |-> 0]

ValidIfPositive(i) == i.linearIndex > 0 /\ i.linearIndex < NumEl(i.dims)

Valid(i) == i.linearIndex < NumEl(i.dims)

\* steps the fastest subscript that has room, and those before it start again
Increment(i) ==
  LET order == Fastest(i.dims, i.row_major)
      room(n) == i.index[order[n]] + 1 < i.dims[order[n]]
      full == SelectInSeq([n \in DOMAIN order |-> room(n)], LAMBDA r : r)
      stepped(n) == IF n = full THEN i.index[order[n]] + 1
                    ELSE IF full = 0 \/ n < full THEN 0 ELSE i.index[order[n]]
  IN  [i EXCEPT !.index = [k \in DOMAIN @ |-> stepped(SelectInSeq(order, LAMBDA o : o = k))],
                !.linearIndex = @ + 1]

-----------------------------------------------------------------------------
\* Reading into vectors of numbers, real ones or complex ones

ZeroElement == <<0, 0>>

VarOf(v) == Contents[vardata[p_vardata[v]].varname]

\* what has no data, only the header, must not be decoded
Decode(v, complex, row_major) ==
  LET var == VarOf(v)
      varname == vardata[p_vardata[v]].varname
  IN  /\ Holds(p_vardata[v]) /\ vardata[p_vardata[v]].loaded
      /\ LET wrong == IF var.is_complex /\ ~complex THEN VarTypeError(varname)
                      ELSE IF ~KnownType(var) THEN VarMatTypeError
                      ELSE IF NumEl(var.dims) <= 0 THEN InvalidIndexError
                      ELSE NoError
         IN  /\ Throw(wrong)
             /\ IF wrong = NoError
                THEN /\ it' = StartOf(v, row_major)
                     /\ val' = [lin \in 0 .. NumEl(var.dims) - 1 |-> ZeroElement]
                ELSE UNCHANGED reading_vars
      /\ UNCHANGED <<file_vars, var_vars, forgotten>>

DecodeNext ==
  /\ it # NoIterator
  /\ IF Valid(it)
     THEN /\ val' = [val EXCEPT ![it.linearIndex] = Element(VarOf(it.var), it.index)]
          /\ it' = Increment(it)
     ELSE it' = NoIterator /\ val' = <<>>   \* returned
  /\ UNCHANGED <<file_vars, var_vars, error, forgotten>>

MatVariablesNext ==
  \/ /\ Idle
     /\ \/ \E f \in Files :
             \/ OpenFile(f) \/ DestroyFile(f) \/ GetVarInfoList(f)
             \/ \E g \in Files : MoveFile(f, g) \/ AssignFile(f, g)
             \/ \E v \in Vars : ReadVar(v, f)
        \/ \E v \in Vars :
             \/ DestroyVar(v)
             \/ \E w \in Vars : CopyVar(v, w) \/ MoveVar(v, w) \/ AssignCopy(v, w) \/ AssignMove(v, w)
             \/ \E complex, row_major \in BOOLEAN : Decode(v, complex, row_major)
  \/ DecodeNext

-----------------------------------------------------------------------------
\* What matio gave is released exactly when the last object that holds it goes, in
\* whatever order objects are copied, moved, assigned and destroyed; but what an
\* object held when it was assigned to may stay for ever.
ReleasedWithLastHolder ==
  /\ \A d \in DOMAIN vardata :
       LET holders == {v \in Vars : p_vardata[v] = d}
       IN  /\ holders # {} => vardata[d].refcount > 0
           /\ holders = {} /\ <<"data", d>> \notin forgotten => vardata[d].refcount = 0
  /\ \A n \in DOMAIN opened :
       LET holders == {f \in Files : p_matfp[f] = n}
       IN  /\ Cardinality(holders) <= 1
           /\ holders # {} => opened[n] = "open"
           /\ holders = {} /\ <<"file", n>> \notin forgotten => opened[n] = "closed"

\* The three ways to number the elements agree: subscripts that are counted up, those
\* computed from the number, and the number computed from the subscripts.  The vector
\* read by rows has the elements that the file has by columns, each in its place.
VectorsInOrder ==
  it # NoIterator =>
    /\ Valid(it) =>
         /\ SetLinearIndex(it.dims, it.linearIndex, it.row_major) = it.index
         /\ LinearIndexIn(it.dims, it.index, it.row_major) = it.linearIndex
    /\ ~Valid(it) =>
         \A index \in Subscripts(it.dims) :
           LET lin == LinearIndexIn(it.dims, index, it.row_major)
           IN  lin \in DOMAIN val /\ val[lin] = Element(VarOf(it.var), index)

\* The variables of a data file can be used wherever they have gone.
VariablesUsable == ReleasedWithLastHolder /\ VectorsInOrder

MatVariablesSpec == MatVariablesInit /\ [][MatVariablesNext]_matio_vars

-----------------------------------------------------------------------------
\* The inductive invariant: an open file has one holder; data are counted once for
\* each holder, and perhaps for what was assigned to.
Holders(held, x) == {object \in DOMAIN held : held[object] = x}

FilesInv ==
  /\ opened \in Seq({"open", "closed"})
  /\ p_matfp \in [Files -> Absent .. Len(opened)]
  /\ \A f, g \in Files : Holds(p_matfp[f]) /\ p_matfp[f] = p_matfp[g] => f = g
  /\ \A n \in DOMAIN opened :
       /\ Holders(p_matfp, n) # {} => opened[n] = "open"
       /\ Holders(p_matfp, n) = {} /\ <<"file", n>> \notin forgotten => opened[n] = "closed"

\* the elements that the iterator has passed, each in its place
ReadUpTo(i, vector, var) ==
  /\ i \in [var : Vars, row_major : BOOLEAN, dims : Seq(Nat), index : Seq(Nat), linearIndex : Nat]
  /\ NumEl(i.dims) > 0 /\ Len(i.index) = Len(i.dims)
  /\ Valid(i) => /\ \A k \in DOMAIN i.dims : i.index[k] < i.dims[k]
                 /\ LinearIndexIn(i.dims, i.index, i.row_major) = i.linearIndex
  /\ DOMAIN vector = 0 .. NumEl(i.dims) - 1
  /\ \A index \in Subscripts(i.dims) :
       LET lin == LinearIndexIn(i.dims, index, i.row_major)
       IN  lin < i.linearIndex => vector[lin] = Element(var, index)

ReadInv == IF Idle THEN val = <<>> ELSE ReadUpTo(it, val, VarOf(it.var))

VarsInv ==
  /\ vardata \in Seq([refcount : Int, varname : DOMAIN Contents, loaded : BOOLEAN])
  /\ p_vardata \in [Vars -> Absent .. Len(vardata)]
  /\ \A d \in DOMAIN vardata :
       /\ vardata[d].refcount >= Cardinality(Holders(p_vardata, d))
       /\ <<"data", d>> \notin forgotten =>
            vardata[d].refcount = Cardinality(Holders(p_vardata, d))

=============================================================================
