----------------------------- MODULE Histograms -----------------------------
(***************************************************************************)
(* Histograms as values: HistogramParams, Histogram, HistogramWithErrorBars*)
(* and AveragedHistogram, with the operations that fill and combine them.  *)
(* Values lie on a grid of integers, or are NotFinite.  Counts are whole   *)
(* numbers; what results from a division is an exact fraction, and an      *)
(* error bar (delta) is kept as its square.                                *)
(* A faulty twin of an operator stands just before it, as in ThreadCommon. *)
(***************************************************************************)
EXTENDS Integers, Sequences, Functions, FiniteSetsExt, Fractions

CONSTANT NotFinite      \* an infinity, or not a number

-----------------------------------------------------------------------------
\* HistogramParams: p is [min, max, num_bins]

Bins(p) == 0 .. p.num_bins - 1

IsWithinBoundsInclusive(p, v) == v # NotFinite /\ p.min <= v /\ v <= p.max

IsWithinBounds(p, v) == v # NotFinite /\ p.min <= v /\ v < p.max

BinIndexUnsafe(p, v) == ((v - p.min) * p.num_bins) \div (p.max - p.min)

BinResolution(p) == Frac(p.max - p.min, p.num_bins)

BinLowerValue(p, i) == Frac(p.min * p.num_bins + i * (p.max - p.min), p.num_bins)

BinUpperValue(p, i) == BinLowerValue(p, i + 1)

-----------------------------------------------------------------------------
\* Histogram: [params, bins, off_chart]

NewHistogram(p) ==
  [params |-> p, bins |-> [i \in Bins(p) |-> 0], off_chart |-> 0]

\* what record() returns: the bin it counted the value in, or -1
RecordIndex(p, v) == IF IsWithinBounds(p, v) THEN BinIndexUnsafe(p, v) ELSE -1

Recorded(h, v) ==
  LET i == RecordIndex(h.params, v)
  IN  IF i = -1 THEN [h EXCEPT !.off_chart = @ + 1]
                ELSE [h EXCEPT !.bins[i] = @ + 1]

TotalCountsOnChart(h) == SumFunction(h.bins)

TotalCounts(h) == SumFunction(h.bins) + h.off_chart

\* counts divided by f: load() of the scaled bins into a new histogram
Scaled(h, f) ==
  [params |-> h.params,
   bins |-> [i \in Bins(h.params) |-> Quotient(<<h.bins[i], 1>>, f)],
   off_chart |-> Quotient(<<h.off_chart, 1>>, f)]

\* normalizedCounts(), and what MHRWStatsResultsBaseSimple does
NormalizedCounts(h) == Scaled(h, <<TotalCounts(h), 1>>)

Normalization(h) ==
  Plus(<<h.off_chart, 1>>, Times(BinResolution(h.params), <<SumFunction(h.bins), 1>>))

Normalized(h) == Scaled(h, Normalization(h))

-----------------------------------------------------------------------------
\* HistogramWithErrorBars, whose counts and error bars are fractions here, each
\* error bar by itself; delta = <<>> is a Histogram with real counts

NoErrorBars == <<>>

Constant(p, x) == [i \in Bins(p) |-> x]

RealHistogram(p, error_bars) ==
  [params |-> p, bins |-> Constant(p, Zero),
   delta |-> IF error_bars THEN Constant(p, Zero) ELSE NoErrorBars,
   off_chart |-> Zero]

ResetCounts(h) == RealHistogram(h.params, h.delta # NoErrorBars)

Loaded(h, x, err, off_chart) ==
  [h EXCEPT !.bins = x, !.delta = err, !.off_chart = off_chart]

CountsAdded(h, x, off_chart) ==
  [h EXCEPT !.bins = [i \in DOMAIN @ |-> Plus(@[i], x[i])],
            !.off_chart = Plus(@, off_chart)]

RecordedWithWeight(h, v, weight) ==
  LET i == RecordIndex(h.params, v)
  IN  IF i = -1 THEN [h EXCEPT !.off_chart = Plus(@, weight)]
                ELSE [h EXCEPT !.bins[i] = Plus(@, weight)]

Sum(x) == FoldFunction(Plus, Zero, x)

DividedBy(h, f) ==
  LET Share(x) == [i \in DOMAIN x |-> Quotient(x[i], f)]
  IN  Loaded(h, Share(h.bins), Share(h.delta), Quotient(h.off_chart, f))

RealNormalized(h) ==
  DividedBy(h, Plus(h.off_chart, Times(BinResolution(h.params), Sum(h.bins))))

RealNormalizedCounts(h) == DividedBy(h, Plus(h.off_chart, Sum(h.bins)))

-----------------------------------------------------------------------------
\* AveragedHistogram, over histograms without error bars (whose spread gives
\* the error bars) or with (which are averages themselves)

NewAverage(p) ==
  [params |-> p, bins |-> [i \in Bins(p) |-> Zero],
   delta |-> [i \in Bins(p) |-> Zero], off_chart |-> Zero,
   num_histograms |-> 0]

\* avg with h added, which contributes square[i] to the error of bin i
Added(avg, h, square) ==
  [avg EXCEPT !.bins = [i \in DOMAIN @ |-> Plus(@[i], h.bins[i])],
              !.delta = [i \in DOMAIN @ |-> Plus(@[i], square[i])],
              !.off_chart = Plus(@, h.off_chart),
              !.num_histograms = @ + 1]

AddSimple(avg, h) == Added(avg, h, [i \in DOMAIN h.bins |-> Times(h.bins[i], h.bins[i])])

AddWithErrorBars(avg, h) == Added(avg, h, h.delta)

Finalized(avg, delta) ==
  [avg EXCEPT !.bins = [i \in DOMAIN @ |-> Over(@[i], avg.num_histograms)],
              !.delta = delta,
              !.off_chart = Over(@, avg.num_histograms)]

FinalizeSimple(avg) ==
  LET n == avg.num_histograms
      mean(i) == Over(avg.bins[i], n)
  IN  Finalized(avg, [i \in DOMAIN avg.delta |->
        Over(Minus(Over(avg.delta[i], n), Times(mean(i), mean(i))), n - 1)])

FinalizeWithErrorBarsUnsquared(avg) ==
  Finalized(avg, [i \in DOMAIN avg.delta |-> Over(avg.delta[i], avg.num_histograms)])

FinalizeWithErrorBars(avg) ==
  Finalized(avg, [i \in DOMAIN avg.delta |->
    Over(Over(avg.delta[i], avg.num_histograms), avg.num_histograms)])

-----------------------------------------------------------------------------
\* histogramShortBar(): one character for some neighbouring bins each

CeilDiv(a, b) == (a + b - 1) \div b

\* bins under one character
NumDivFloor(num_bins, maxbarwidth) == Max({1, num_bins \div maxbarwidth})

NumDiv(num_bins, maxbarwidth) == CeilDiv(num_bins, maxbarwidth)

Blank == -1

Shades == 7

\* the sums of the bins under each character
BarSums(h, maxbarwidth) ==
  LET num_bins == h.params.num_bins
      numdiv == NumDiv(num_bins, maxbarwidth)
  IN  [k \in 0 .. CeilDiv(num_bins, numdiv) - 1 |->
         FoldFunctionOnSet(Plus, Zero, h.bins,
                           numdiv * k .. Min({numdiv * (k + 1), num_bins}) - 1)]

\* for a linear scale.  The least value starts from 0 if the first character
\* is blank.  A value on the border of two shades gets the lighter one, since
\* the largest value is taken a little larger than it is.
ShortBar(h, maxbarwidth) ==
  LET vec == BarSums(h, maxbarwidth)
      shown == {vec[k] : k \in {k \in DOMAIN vec : Less(Zero, vec[k])}}
               \cup {vec[0]}
      minval == CHOOSE v \in shown : \A w \in shown : AtLeast(w, v)
      maxval == CHOOSE v \in shown : \A w \in shown : AtLeast(v, w)
      share(k) == Quotient(Minus(vec[k], minval), Minus(maxval, minval))
  IN  [k \in DOMAIN vec |->
         CASE ~Less(Zero, vec[k]) -> Blank
           [] vec[k] = minval -> 0
           [] OTHER -> (Shades * share(k)[1] - 1) \div share(k)[2]]

\* for any scale: whether a character is shown
BarShown(h, maxbarwidth) ==
  [k \in DOMAIN BarSums(h, maxbarwidth) |-> Less(Zero, BarSums(h, maxbarwidth)[k])]

-----------------------------------------------------------------------------
\* printHistogramCsv(), of an aggregate [final_histogram, simple_final_histogram]

CsvRow(final, i) ==
  <<BinLowerValue(final.params, i), final.bins[i], final.delta[i]>>

\* the rows without the error bars of the simple average, and with them
CsvSimple(aggregated) ==
  LET final == aggregated.final_histogram
  IN  [i \in Bins(final.params) |-> CsvRow(final, i)]

CsvWithErrorBars(aggregated) ==
  LET final == aggregated.final_histogram
  IN  [i \in Bins(final.params) |->
         CsvRow(final, i) \o <<aggregated.simple_final_histogram.delta[i]>>]

=============================================================================
