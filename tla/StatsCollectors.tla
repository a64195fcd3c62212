--------------------------- MODULE StatsCollectors ---------------------------
(***************************************************************************)
(* The stats collectors of a random walk, as values: the one that fills a  *)
(* histogram, the one that does so with a binning analysis, and the one    *)
(* that polls for status reports; and several of them, a sequence, which   *)
(* the walk is given as one (MultipleMHRWStatsCollectors).                 *)
(* Each has a status line; a line here is a record of what it shows.       *)
(***************************************************************************)
EXTENDS Histograms, BinningAnalysis

\* ValueHistogramMHRWStatsCollector; its result is its histogram
ValueHistogramCollector(params) ==
  [kind |-> "histogram", histogram |-> NewHistogram(params)]

\* the result until done(), but for error levels, which are not set
UnknownResult(params) ==
  [histogram |-> RealHistogram(params, TRUE),
   converged_status |-> [i \in Bins(params) |-> "UNKNOWN"]]

\* ValueHistogramWithBinningMHRWStatsCollector
BinningCollector(params, num_levels) ==
  [kind |-> "binning", histogram |-> NewHistogram(params),
   num_levels |-> num_levels, binning_analysis |-> Reset(num_levels, Bins(params)),
   result |-> UnknownResult(params)]

\* PredStatusReportMHRWStatsCollector, which keeps nothing
StatusReportCollector == [kind |-> "report"]

HasHistogram(c) == c.kind \in {"histogram", "binning"}

-----------------------------------------------------------------------------
\* What the walk calls.  thermalizingDone() does nothing in any of them, and
\* rawMove() only in the last.

\* init() resets the histogram, and not the binning analysis
CollectorInit(c) ==
  IF HasHistogram(c) THEN [c EXCEPT !.histogram = NewHistogram(@.params)] ELSE c

PolledAt(c, k, n_sweep) == c.kind = "report" /\ k % n_sweep = 0

CountSample(c, v) == [c EXCEPT !.histogram = Recorded(@, v)]

AnalyseSample(c, v) ==
  [c EXCEPT !.binning_analysis =
     ProcessNewValues(@, c.num_levels,
       BasisVector(Bins(c.histogram.params), RecordIndex(c.histogram.params, v)))]

CollectorProcessSample(c, v) ==
  CASE c.kind = "histogram" -> CountSample(c, v)
    [] c.kind = "binning" -> AnalyseSample(CountSample(c, v), v)
    [] OTHER -> c

\* counts as shares of all samples, those off the chart included
BinMeans(c) ==
  [i \in Bins(c.histogram.params) |-> Frac(c.histogram.bins[i], TotalCounts(c.histogram))]

ErrorLevels(c) == CalcErrorLevels(c.binning_analysis, c.num_levels, BinMeans(c))

FinalResult(c) ==
  LET levels == ErrorLevels(c)
  IN  [histogram |->
         [params |-> c.histogram.params, bins |-> BinMeans(c),
          delta |-> levels[c.num_levels],
          off_chart |-> Frac(c.histogram.off_chart, TotalCounts(c.histogram))],
       error_levels |-> levels,
       converged_status |-> DetermineErrorConvergence(levels, c.num_levels)]

CollectorDone(c) ==
  IF c.kind = "binning" THEN [c EXCEPT !.result = FinalResult(c)] ELSE c

NoResult == <<>>

CollectorResult(c) ==
  CASE c.kind = "histogram" -> c.histogram
    [] c.kind = "binning" -> c.result
    [] OTHER -> NoResult

-----------------------------------------------------------------------------
\* Status lines

\* the bar, on a scale of logarithms; the shades of its characters are left out
HistogramLine(c, columns) == [bar |-> BarShown(Scaled(c.histogram, One), columns)]

\* with the verdicts on the samples so far
BinningLine(c, columns) ==
  [bar |-> BarShown(Scaled(c.histogram, One), columns),
   error_bars |-> ConvergenceSummary(DetermineErrorConvergence(ErrorLevels(c), c.num_levels))]

CollectorStatusLine(c, columns) ==
  CASE c.kind = "histogram" -> <<HistogramLine(c, columns)>>
    [] c.kind = "binning" -> <<BinningLine(c, columns)>>
    [] OTHER -> <<>>

-----------------------------------------------------------------------------
\* Several collectors, one after the other

InitAll(cs) == [i \in DOMAIN cs |-> CollectorInit(cs[i])]

RawMovePolls(cs, k, n_sweep) == \E i \in DOMAIN cs : PolledAt(cs[i], k, n_sweep)

ProcessSampleAll(cs, v) == [i \in DOMAIN cs |-> CollectorProcessSample(cs[i], v)]

DoneAll(cs) == [i \in DOMAIN cs |-> CollectorDone(cs[i])]

ResultsOfAll(cs) == [i \in DOMAIN cs |-> CollectorResult(cs[i])]

\* the lines of those that have one
StatusLines(cs, columns) ==
  FlattenSeq([i \in DOMAIN cs |-> CollectorStatusLine(cs[i], columns)])

=============================================================================
