----------------------------- MODULE PyHistogram -----------------------------
(***************************************************************************)
(* The Python classes Histogram and HistogramWithErrorBars.  They keep     *)
(* their counts in NumPy arrays, which are objects of their own: what the  *)
(* caller stores in a histogram it goes on sharing, and what the class     *)
(* computes it puts in arrays of its own, or in place.                     *)
(*                                                                         *)
(* One action is one call.  A call that is refused raises, and may have    *)
(* done part of its work.  Next to each object stands the C++ histogram    *)
(* that the same calls give.                                               *)
(***************************************************************************)
EXTENDS HistogramPrint

CONSTANTS
  Handles,       \* names of the caller for histograms
  PyParams,      \* HistogramParams
  Results,       \* histograms with error bars that come from C++
  GivenArrays,   \* a sequence: arrays that the caller has made
  Recordable,    \* values to record
  Weights,       \* numbers: weights, and counts off the chart
  NotScalar,     \* an object that np.isscalar() refuses
  Rooms,         \* characters left for the bars that prettyPrint() draws
  MaxCalls       \* bound: calls that are followed

VARIABLES
  objects,       \* the histogram of each handle: references to its arrays
  arrays,        \* NumPy arrays, in the order they were made
  refused,       \* whether the last call raised
  calls,         \* number of calls so far
  cxx,           \* history: the C++ histogram for each handle
  entangled      \* history: handles whose arrays the caller made shared, or
                 \*          whose load() the caller got refused half-way

py_histogram_vars == <<objects, arrays, refused, calls, cxx, entangled>>

NoArray == 0
NoObject == <<>>

Live == {h \in Handles : objects[h] # NoObject}

\* an array is [dtype, dims, items], dims being the length of its shape
FloatArray(items) == [dtype |-> "float", dims |-> 1, items |-> items]

\* what toCxxHistogram() reads
Content(h) ==
  LET o == objects[h]
  IN  [params |-> o.params, bins |-> arrays[o.bins].items,
       delta |-> IF o.delta = NoArray THEN NoErrorBars ELSE arrays[o.delta].items,
       off_chart |-> o.off_chart]

\* only reads
PyPrettyPrint(h, room) == PrettyPrint(Content(h), room)

Holds(o, a) == o # NoObject /\ a \in {o.bins, o.delta} \ {NoArray}

HistogramsInit ==
  /\ objects = [h \in Handles |-> NoObject]
  /\ arrays = GivenArrays
  /\ refused = FALSE /\ calls = 0
  /\ cxx = objects
  /\ entangled = {}

Call == calls < MaxCalls /\ calls' = calls + 1

Raises == refused' = TRUE /\ UNCHANGED <<objects, arrays, cxx, entangled>>

-----------------------------------------------------------------------------
\* Objects with arrays of their own

\* handle h becomes an object with the contents of the C++ histogram c
Cast(h, c) ==
  LET bins == Len(arrays) + 1
      delta == IF c.delta = NoErrorBars THEN NoArray ELSE bins + 1
  IN  /\ arrays' = arrays \o <<FloatArray(c.bins)>>
                   \o (IF delta = NoArray THEN <<>> ELSE <<FloatArray(c.delta)>>)
      /\ objects' = [objects EXCEPT ![h] =
           [params |-> c.params, bins |-> bins, delta |-> delta,
            off_chart |-> c.off_chart]]
      /\ refused' = FALSE

New(h, p, error_bars) ==
  /\ Call
  /\ Cast(h, RealHistogram(p, error_bars))
  /\ cxx' = [cxx EXCEPT ![h] = RealHistogram(p, error_bars)]
  /\ entangled' = entangled \ {h}

FromCxx(h, result) ==
  /\ Call
  /\ Cast(h, result)
  /\ cxx' = [cxx EXCEPT ![h] = result]
  /\ entangled' = entangled \ {h}

\* handle g is given an object computed from that of h
Derived(g, h) == entangled' = (entangled \ {g}) \cup (IF h \in entangled THEN {g} ELSE {})

Normalize(g, h) ==
  /\ Call
  /\ Cast(g, RealNormalized(Content(h)))
  /\ cxx' = [cxx EXCEPT ![g] = RealNormalized(cxx[h])]
  /\ Derived(g, h)

NormalizeCounts(g, h) ==
  /\ Call
  /\ Cast(g, RealNormalizedCounts(Content(h)))
  /\ cxx' = [cxx EXCEPT ![g] = RealNormalizedCounts(cxx[h])]
  /\ Derived(g, h)

-----------------------------------------------------------------------------
\* Arrays taken over from the caller

Fits(o, a) ==
  arrays[a].dims = 1 /\ Cardinality(DOMAIN arrays[a].items) = o.params.num_bins

\* Object o after the assignments of load(): bins, then delta (NoArray: not
\* one of the arguments), then off_chart; the first that is refused ends it.
Assigned(o, bins, delta, off_chart) ==
  LET first == Fits(o, bins)
      second == first /\ (delta = NoArray \/ Fits(o, delta))
  IN  [o EXCEPT !.bins = IF first THEN bins ELSE @,
                !.delta = IF second /\ delta # NoArray THEN delta ELSE @,
                !.off_chart = IF second /\ off_chart # NotScalar THEN off_chart ELSE @]

AllAccepted(o, bins, delta, off_chart) ==
  /\ Fits(o, bins)
  /\ delta = NoArray \/ Fits(o, delta)
  /\ off_chart # NotScalar

\* handles that share an array once h has object o
Shared(h, o) ==
  LET with == {g \in Live \ {h} : \E a \in {o.bins, o.delta} : Holds(objects[g], a)}
  IN  with \cup (IF with # {} \/ o.bins = o.delta THEN {h} ELSE {})

Load(h, bins, delta, off_chart) ==
  LET o == objects[h]
      loaded == Assigned(o, bins, delta, off_chart)
      accepted == AllAccepted(o, bins, delta, off_chart)
  IN  /\ Call
      /\ (delta = NoArray) <=> (o.delta = NoArray)
      /\ objects' = [objects EXCEPT ![h] = loaded]
      /\ refused' = ~accepted
      /\ cxx' = IF accepted
                THEN [cxx EXCEPT ![h] =
                        Loaded(@, arrays[bins].items,
                               IF delta = NoArray THEN NoErrorBars ELSE arrays[delta].items,
                               off_chart)]
                ELSE cxx
      /\ entangled' = entangled \cup Shared(h, loaded)
                      \cup (IF ~accepted /\ loaded # o THEN {h} ELSE {})
      /\ UNCHANGED arrays

SetBins(h, a) ==
  /\ Call
  /\ IF Fits(objects[h], a)
     THEN /\ objects' = [objects EXCEPT ![h].bins = a]
          /\ cxx' = [cxx EXCEPT ![h].bins = arrays[a].items]
          /\ entangled' = entangled \cup Shared(h, [objects[h] EXCEPT !.bins = a])
          /\ refused' = FALSE /\ UNCHANGED arrays
     ELSE Raises

SetDelta(h, a) ==
  /\ Call
  /\ objects[h].delta # NoArray
  /\ IF Fits(objects[h], a)
     THEN /\ objects' = [objects EXCEPT ![h].delta = a]
          /\ cxx' = [cxx EXCEPT ![h].delta = arrays[a].items]
          /\ entangled' = entangled \cup Shared(h, [objects[h] EXCEPT !.delta = a])
          /\ refused' = FALSE /\ UNCHANGED arrays
     ELSE Raises

SetOffChart(h, x) ==
  /\ Call
  /\ IF x = NotScalar
     THEN Raises
     ELSE /\ objects' = [objects EXCEPT ![h].off_chart = x]
          /\ cxx' = [cxx EXCEPT ![h].off_chart = x]
          /\ refused' = FALSE /\ UNCHANGED <<arrays, entangled>>

-----------------------------------------------------------------------------
\* Changes in place

\* what NumPy lets one add to an array in place: nothing of another length but
\* a single number, and no fractions to whole numbers
DType(x) == IF x[2] = 1 THEN "int" ELSE "float"

AddsInPlace(a, dtype) == a.dtype = "float" \/ dtype = "int"

Broadcasts(a, x) ==
  x.dims = 1 /\ Cardinality(DOMAIN x.items) \in {1, Cardinality(DOMAIN a.items)}

Broadcast(a, x) ==
  [i \in DOMAIN a.items |-> x.items[IF i \in DOMAIN x.items THEN i ELSE 0]]

Add(h, x, off_chart) ==
  LET a == arrays[objects[h].bins]
      added == Broadcast(a, arrays[x])
  IN  /\ Call
      /\ IF /\ objects[h].delta = NoArray
            /\ Broadcasts(a, arrays[x]) /\ AddsInPlace(a, arrays[x].dtype)
         THEN /\ arrays' = [arrays EXCEPT ![objects[h].bins].items =
                              [i \in DOMAIN @ |-> Plus(@[i], added[i])]]
              /\ objects' = [objects EXCEPT ![h].off_chart = Plus(@, off_chart)]
              /\ cxx' = [cxx EXCEPT ![h] = CountsAdded(@, added, off_chart)]
              /\ refused' = FALSE /\ UNCHANGED entangled
         ELSE Raises

Record(h, value, weight) ==
  LET i == RecordIndex(objects[h].params, value)
      bins == objects[h].bins
  IN  /\ Call
      /\ IF objects[h].delta # NoArray
              \/ (i # -1 /\ ~AddsInPlace(arrays[bins], DType(weight)))
         THEN Raises
         ELSE /\ IF i = -1
                 THEN /\ objects' = [objects EXCEPT ![h].off_chart = Plus(@, weight)]
                      /\ UNCHANGED arrays
                 ELSE /\ arrays' = [arrays EXCEPT ![bins].items[i] = Plus(@, weight)]
                      /\ UNCHANGED objects
              /\ cxx' = [cxx EXCEPT ![h] = RecordedWithWeight(@, value, weight)]
              /\ refused' = FALSE /\ UNCHANGED entangled

ZeroArray(a) == [a EXCEPT !.items = [i \in DOMAIN @ |-> Zero]]

ResetOfBins(h) ==
  /\ Call
  /\ arrays' = [a \in DOMAIN arrays |->
                  IF a = objects[h].bins THEN ZeroArray(arrays[a]) ELSE arrays[a]]
  /\ objects' = [objects EXCEPT ![h].off_chart = Zero]
  /\ cxx' = [cxx EXCEPT ![h] = ResetCounts(@)]
  /\ refused' = FALSE /\ UNCHANGED entangled

ResetHistogram(h) ==
  /\ Call
  /\ arrays' = [a \in DOMAIN arrays |->
                  IF Holds(objects[h], a) THEN ZeroArray(arrays[a]) ELSE arrays[a]]
  /\ objects' = [objects EXCEPT ![h].off_chart = Zero]
  /\ cxx' = [cxx EXCEPT ![h] = ResetCounts(@)]
  /\ refused' = FALSE /\ UNCHANGED entangled

-----------------------------------------------------------------------------
\* Pickling: the state of an object holds its arrays, not their contents, and
\* is taken over as it is.  pickle writes the contents of an array out, once,
\* copy.copy() hands the state on.

SetState(g, state) == objects' = [objects EXCEPT ![g] = state]

Pickle(g, h) ==
  LET o == objects[h]
      bins == Len(arrays) + 1
      delta == IF o.delta \in {NoArray, o.bins} THEN bins ELSE bins + 1
  IN  /\ Call
      /\ arrays' = arrays \o <<arrays[o.bins]>>
                   \o (IF delta = bins THEN <<>> ELSE <<arrays[o.delta]>>)
      /\ SetState(g, [o EXCEPT !.bins = bins,
                               !.delta = IF @ = NoArray THEN @ ELSE delta])
      /\ cxx' = [cxx EXCEPT ![g] = cxx[h]]
      /\ refused' = FALSE /\ Derived(g, h)

Copy(g, h) ==
  /\ Call
  /\ g # h
  /\ SetState(g, objects[h])
  /\ cxx' = [cxx EXCEPT ![g] = cxx[h]]
  /\ entangled' = entangled \cup {g, h}
  /\ refused' = FALSE /\ UNCHANGED arrays

-----------------------------------------------------------------------------
HistogramsNext ==
  \/ \E h \in Handles, p \in PyParams, error_bars \in BOOLEAN : New(h, p, error_bars)
  \/ \E h \in Handles, result \in Results : FromCxx(h, result)
  \/ \E g \in Handles, h \in Live : Normalize(g, h)
  \/ \E g \in Handles, h \in Live : NormalizeCounts(g, h)
  \/ \E h \in Live, a \in DOMAIN arrays, e \in {NoArray} \cup DOMAIN arrays,
        x \in Weights \cup {NotScalar} : Load(h, a, e, x)
  \/ \E h \in Live, a \in DOMAIN arrays : SetBins(h, a)
  \/ \E h \in Live, a \in DOMAIN arrays : SetDelta(h, a)
  \/ \E h \in Live, x \in Weights \cup {NotScalar} : SetOffChart(h, x)
  \/ \E h \in Live, a \in DOMAIN arrays, x \in Weights : Add(h, a, x)
  \/ \E h \in Live, value \in Recordable, weight \in Weights : Record(h, value, weight)
  \/ \E h \in Live : ResetHistogram(h)
  \/ \E g \in Handles, h \in Live : Pickle(g, h)
  \/ \E g \in Handles, h \in Live : Copy(g, h)

-----------------------------------------------------------------------------
\* The Python classes mirror the C++ ones, as their documentation says: an object
\* has the counts that the same calls give in C++, refused ones changing nothing,
\* unless the caller made two objects share an array (load(), the setters and
\* copy.copy() do not copy) or load() was refused half-way.  In any case its arrays
\* fit its bins, and prettyPrint() draws what it holds.
MirrorsCxx ==
  \A h \in Live :
    /\ h \notin entangled => Content(h) = cxx[h]
    /\ \A a \in {objects[h].bins, objects[h].delta} \ {NoArray} : Fits(objects[h], a)
    /\ \A room \in Rooms : PrintedTrue(PyPrettyPrint(h, room), Content(h), room)

=============================================================================
