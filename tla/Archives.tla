------------------------------ MODULE Archives ------------------------------
(***************************************************************************)
(* What the processes of MPI send each other goes through archives of      *)
(* Boost.Serialization: an object is written down as the sequence of its   *)
(* members, and read back in the same order by the same serialize().       *)
(* A class is described here by the members that its serialize() names, in *)
(* their order; a member left out would be missing in what is read back.   *)
(* A faulty twin of an operator stands just before it, as in ThreadCommon. *)
(***************************************************************************)
EXTENDS Integers, Sequences, SequencesExt, FiniteSets, TLC

\* types of what is written: a number, a name, or any other plain value
Plain == [kind |-> "plain"]

\* Eigen arrays: functions from 0 .. n - 1, to such functions (the columns) for
\* a matrix
Vector == [kind |-> "vector"]
Matrix == [kind |-> "matrix"]

List(type) == [kind |-> "list", items |-> type]
Pointer(type) == [kind |-> "pointer", to |-> type]
Null == <<>>

\* members is a sequence of pairs, of a name and a type
Object(members) == [kind |-> "object", members |-> members]

\* the members of the base object come first
WithBase(base, members) == Object(base.members \o members)

Tuple(types) == Object([i \in DOMAIN types |-> <<i, types[i]>>])

-----------------------------------------------------------------------------
\* Arrays: rows, columns, then the entries row by row

Size(v) == Cardinality(DOMAIN v)

SavedArray(m) ==
  LET rows == Size(m[0])
      cols == Size(m)
  IN  <<rows, cols>> \o [e \in 1 .. rows * cols |-> m[(e - 1) % cols][(e - 1) \div cols]]

\* What is read from archive a: the value, and the rest of a
Read(value, a, used) == [value |-> value, rest |-> SubSeq(a, used + 1, Len(a))]

LoadedArrayByColumns(a) ==
  Read([j \in 0 .. a[2] - 1 |-> [i \in 0 .. a[1] - 1 |-> a[3 + j * a[1] + i]]],
       a, 2 + a[1] * a[2])

LoadedArray(a) ==
  Read([j \in 0 .. a[2] - 1 |-> [i \in 0 .. a[1] - 1 |-> a[3 + i * a[2] + j]]],
       a, 2 + a[1] * a[2])

-----------------------------------------------------------------------------
RECURSIVE Saved(_, _)
Saved(type, x) ==
  CASE type.kind = "plain" -> <<x>>
    [] type.kind = "vector" -> SavedArray([j \in {0} |-> x])
    [] type.kind = "matrix" -> SavedArray(x)
    [] type.kind = "list" ->
         <<Len(x)>> \o FlattenSeq([i \in DOMAIN x |-> Saved(type.items, x[i])])
    [] type.kind = "pointer" ->
         IF x = Null THEN <<FALSE>> ELSE <<TRUE>> \o Saved(type.to, x)
    [] type.kind = "object" ->
         FlattenSeq([i \in DOMAIN type.members |->
                       Saved(type.members[i][2], x[type.members[i][1]])])

RECURSIVE Restored(_, _)
Restored(type, a) ==
  LET Then(so_far, name, member) ==
        LET next == Restored(member, so_far.rest)
        IN  [value |-> so_far.value @@ (name :> next.value), rest |-> next.rest]
  IN  CASE type.kind = "plain" -> Read(a[1], a, 1)
        [] type.kind = "vector" -> [LoadedArray(a) EXCEPT !.value = @[0]]
        [] type.kind = "matrix" -> LoadedArray(a)
        [] type.kind = "list" ->
             FoldLeft(LAMBDA l, i : Then(l, i, type.items), Read(<<>>, a, 1),
                      [i \in 1 .. a[1] |-> i])
        [] type.kind = "pointer" ->
             IF a[1] THEN Restored(type.to, Tail(a)) ELSE Read(Null, a, 1)
        [] type.kind = "object" ->
             FoldLeft(LAMBDA o, m : Then(o, m[1], m[2]), Read(<<>>, a, 0), type.members)

\* x as it arrives
Received(type, x) == Restored(type, Saved(type, x)).value

-----------------------------------------------------------------------------
\* Histograms

HistogramParamsType ==
  Object(<< <<"min", Plain>>, <<"max", Plain>>, <<"num_bins", Plain>> >>)

HistogramType ==
  Object(<< <<"params", HistogramParamsType>>, <<"bins", Vector>>, <<"off_chart", Plain>> >>)

HistogramWithErrorBarsType == WithBase(HistogramType, << <<"delta", Vector>> >>)

AveragedHistogramType == WithBase(HistogramWithErrorBarsType, << <<"num_histograms", Plain>> >>)

AggregatedSimpleType == Object(<< <<"final_histogram", AveragedHistogramType>> >>)

AggregatedWithErrorBarsType ==
  WithBase(AggregatedSimpleType, << <<"simple_final_histogram", AveragedHistogramType>> >>)

-----------------------------------------------------------------------------
\* Random walks: the results of the stats collectors, and of a task

NoResultType == Object(<<>>)

BinningResultType ==
  Object(<< <<"histogram", HistogramWithErrorBarsType>>, <<"error_levels", Matrix>>,
            <<"converged_status", Vector>> >>)

StepSizeType == Object(<< <<"step_size", Plain>> >>)

MHRWParamsType ==
  Object(<< <<"mhwalker_params", StepSizeType>>, <<"n_sweep", Plain>>,
            <<"n_therm", Plain>>, <<"n_run", Plain>> >>)

TaskResultType(stats_results) ==
  Object(<< <<"stats_results", stats_results>>, <<"mhrw_params", MHRWParamsType>>,
            <<"acceptance_ratio", Plain>> >>)

\* and the data of the tasks
CDataBaseType ==
  Object(<< <<"mhrw_params", MHRWParamsType>>, <<"base_seed", Plain>>,
            <<"task_seeds", List(Plain)>> >>)

ValueCDataType(valcalc, binning) ==
  WithBase(CDataBaseType,
    << <<"valcalc", valcalc>>, <<"histogram_params", HistogramParamsType>> >>
      \o (IF binning THEN << <<"binningNumLevels", Plain>> >> ELSE <<>>))

\* Calculators of values, and the likelihood, of which the dimension is
\* written first since the reader constructs the object with it
ParamXType == Object(<< <<"dim", Plain>> >>)

ObservableValueType == Object(<< <<"param_x", ParamXType>>, <<"A_x", Vector>> >>)

IndepMeasLLHType ==
  Pointer(Object(<< <<"dim", Plain>>, <<"Exn", Matrix>>, <<"Nx", Vector>>,
                    <<"NMeasAmplifyFactor", Plain>> >>))

-----------------------------------------------------------------------------
\* Messages of the dispatcher

TaskStatusReportType == Object(<< <<"fraction_done", Plain>>, <<"msg", Plain>> >>)

FullTaskResultType(result) ==
  Object(<< <<"task_id", Plain>>, <<"task_result", Pointer(result)>>,
            <<"error_msg", Plain>> >>)

=============================================================================
