------------------------ MODULE ValueHistogramTasks ------------------------
(***************************************************************************)
(* What becomes of the samples: random walk tasks (MHRandomWalkTask) one   *)
(* after the other, each with a walk at fixed parameters (no controller)   *)
(* that fills a histogram of a value, with a binning analysis or without;  *)
(* then the aggregate of the tasks' results, and the final report.         *)
(*                                                                         *)
(* One action is one turn of a loop of the walk's run().  The values that  *)
(* the walk comes to are choices.  A poll for status reports can end the   *)
(* task by an exception.                                                   *)
(***************************************************************************)
EXTENDS StatsCollectors, ValueCalculators

CONSTANT Cases    \* the runs that are followed, each a record of
                  \*   params          histogram_params
                  \*   binning         UseBinningAnalysis
                  \*   levels          binningNumLevels
                  \*   tasks           num_total_runs
                  \*   seeds           the length of task_seeds, 0: not given
                  \*   n_sweep, n_therm, n_run
                  \*   figure          the figure of merit
                  \*   points          where the walk may be at a sample, by its
                  \*                   number modulo the length of this sequence
                  \*   columns         room for the bar in the report

\* Limits of histograms are on the grid of the values.  The number of levels is one that
\* 2 ^ levels samples can be held in memory for, counted by int.
ASSUME CasesAssumption ==
  \A c \in Cases :
    /\ c.params.num_bins \in Nat \ {0} /\ c.params.min \in Int /\ c.params.max \in Int
    /\ c.params.min < c.params.max
    /\ c.binning \in BOOLEAN /\ c.levels \in 1 .. 30 /\ c.tasks \in Nat /\ c.seeds \in Nat
    /\ c.n_sweep \in Nat \ {0} /\ c.n_therm \in Nat /\ c.n_run \in Nat \ {0}
    /\ c.columns \in Nat \ {0} /\ c.figure \in DOMAIN Figures
    /\ Len(c.points) \in Nat \ {0} /\ DOMAIN c.points = 1 .. Len(c.points)
    /\ \A i \in DOMAIN c.points : \A point \in c.points[i] :
         Figures[c.figure][point] \in Int \cup {NotFinite}

VARIABLES
  case,            \* the run at hand
  pc,              \* where the task at hand is
  k, n,            \* iterations of this stage, samples processed
  collectors,      \* the stats collectors of the walk: ours, and the one that polls
  stats_results,   \* the results of the tasks so far
  aggregated,      \* the aggregated histogram
  printed,         \* the bars of the final report, task by task
  csv,             \* the rows of the CSV file
  heap,            \* value calculators
  valcalc,         \* the multiplexor of the data of all tasks
  vcalc,           \* the one of the stats collector of the task at hand
  seen             \* history: the values sampled, task by task

outputs == <<stats_results, aggregated, printed, csv>>
calculators == <<heap, valcalc, vcalc>>
vars == <<case, pc, k, n, collectors, outputs, calculators, seen>>

Tracked == Bins(case.params)
None == <<>>

\* createValueStatsCollector()
ValueStatsCollector ==
  IF case.binning THEN BinningCollector(case.params, case.levels)
                  ELSE ValueHistogramCollector(case.params)

Values == collectors[1]
histogram == Values.histogram

Init ==
  /\ case \in Cases
  /\ pc = "next"
  /\ k = 0 /\ n = 0
  /\ collectors = <<>>
  /\ stats_results = <<>>
  /\ aggregated = None /\ printed = None /\ csv = None
  /\ heap = CreateIth(EmptyHeap, case.figure).heap
  /\ valcalc = CreateIth(EmptyHeap, case.figure).multiplexor
  /\ vcalc = None
  /\ seen = <<>>

-----------------------------------------------------------------------------
\* A task

\* does getTaskInput() have a seed for the next task?  (a base seed will do)
HasTaskInput == case.seeds = 0 \/ Len(stats_results) < case.seeds

\* the task with its stats collector, a new one, and _init()
RunTask ==
  /\ pc = "next" /\ Len(stats_results) < case.tasks
  /\ HasTaskInput
  /\ pc' = "therm"
  /\ k' = 0 /\ n' = 0
  /\ collectors' = InitAll(<<ValueStatsCollector, StatusReportCollector>>)
  /\ heap' = CopyOf(heap, valcalc).heap
  /\ vcalc' = CopyOf(heap, valcalc).multiplexor
  /\ seen' = Append(seen, <<>>)
  /\ UNCHANGED <<case, outputs, valcalc>>

\* the list of seeds is too short: an exception
NoSeed ==
  /\ pc = "next" /\ Len(stats_results) < case.tasks
  /\ ~HasTaskInput
  /\ pc' = "failed"
  /\ UNCHANGED <<case, k, n, collectors, outputs, calculators, seen>>

MoreTherm == k < case.n_sweep * case.n_therm
MoreRuns == k < case.n_sweep * case.n_run

ThermIteration ==
  /\ pc = "therm" /\ MoreTherm
  /\ k' = k + 1
  /\ UNCHANGED <<case, pc, n, collectors, outputs, calculators, seen>>

ThermalizingDone ==
  /\ pc = "therm" /\ ~MoreTherm
  /\ pc' = "live" /\ k' = 0
  /\ UNCHANGED <<case, n, collectors, outputs, calculators, seen>>

\* the end of its scope
DestroyCollector ==
  /\ heap' = Destroyed(heap, vcalc)
  /\ vcalc' = None
  /\ UNCHANGED valcalc

Polled ==
  /\ \/ pc = "therm" /\ MoreTherm
     \/ pc = "live" /\ MoreRuns
  /\ RawMovePolls(collectors, k, case.n_sweep)

\* rawMove() of the status report collector polls at the start of a sweep,
\* which throws when the tasks are interrupted
Interrupted ==
  /\ Polled
  /\ pc' = "interrupted"
  /\ DestroyCollector
  /\ UNCHANGED <<case, k, n, collectors, outputs, seen>>

ProcessSample(point) ==
  LET v == GetValue(vcalc, point)
  IN  /\ collectors' = ProcessSampleAll(collectors, v)
      /\ n' = n + 1
      /\ seen' = [seen EXCEPT ![Len(seen)] = Append(@, Figures[case.figure][point])]

LiveIteration ==
  /\ pc = "live" /\ MoreRuns
  /\ IF (k + 1) % case.n_sweep = 0
     THEN \E point \in case.points[(n % Len(case.points)) + 1] : ProcessSample(point)
     ELSE UNCHANGED <<collectors, n, seen>>
  /\ k' = k + 1
  /\ UNCHANGED <<case, pc, outputs, calculators>>

\* the result of a task, from the one of its collector: without binning
\* analysis the histogram as it is and scaled
TaskResult(value_result) ==
  IF case.binning
  THEN value_result
  ELSE [raw_histogram |-> value_result, histogram |-> NormalizedCounts(value_result)]

Done ==
  /\ pc = "live" /\ ~MoreRuns
  /\ collectors' = DoneAll(collectors)
  /\ stats_results' = Append(stats_results, TaskResult(ResultsOfAll(collectors')[1]))
  /\ pc' = "next"
  /\ DestroyCollector
  /\ UNCHANGED <<case, k, n, aggregated, printed, csv, seen>>

-----------------------------------------------------------------------------
\* All tasks done

TaskHistograms == [t \in DOMAIN stats_results |-> stats_results[t].histogram]

AggregateSimple ==
  FinalizeSimple(FoldLeft(AddSimple, NewAverage(case.params), TaskHistograms))

AggregateWithErrorBars ==
  FinalizeWithErrorBars(
    FoldLeft(AddWithErrorBars, NewAverage(case.params), TaskHistograms))

Aggregate ==
  /\ pc = "next" /\ Len(stats_results) = case.tasks
  /\ aggregated' =
       [final_histogram |->
          IF case.binning THEN AggregateWithErrorBars ELSE AggregateSimple,
        simple_final_histogram |-> AggregateSimple]
  /\ pc' = "aggregated"
  /\ UNCHANGED <<case, k, n, collectors, calculators, stats_results, printed, csv, seen>>

ReportLine(result) ==
  [bar |-> ShortBar(result.histogram, case.columns),
   error_bars |-> IF case.binning THEN ConvergenceSummary(result.converged_status)
                                  ELSE None]

PrintFinalReport ==
  /\ pc = "aggregated"
  /\ printed' = [t \in DOMAIN stats_results |-> ReportLine(stats_results[t])]
  /\ pc' = "printed"
  /\ UNCHANGED <<case, k, n, collectors, calculators, stats_results, aggregated, csv, seen>>

WriteHistogramCsv ==
  /\ pc = "printed"
  /\ csv' = IF case.binning THEN CsvWithErrorBars(aggregated) ELSE CsvSimple(aggregated)
  /\ pc' = "written"
  /\ UNCHANGED <<case, k, n, collectors, calculators, stats_results, aggregated, printed, seen>>

Next ==
  \/ RunTask \/ NoSeed \/ ThermIteration \/ ThermalizingDone \/ Interrupted
  \/ LiveIteration \/ Done \/ Aggregate \/ PrintFinalReport \/ WriteHistogramCsv

Spec == Init /\ [][Next]_vars

-----------------------------------------------------------------------------
\* Terms for the properties

Samples(t) == seen[t]

\* does a value lie between the limits of bin i?
LiesIn(v, i) ==
  /\ v # NotFinite
  /\ AtLeast(<<v, 1>>, BinLowerValue(case.params, i))
  /\ Less(<<v, 1>>, BinUpperValue(case.params, i))

\* samples number from .. to of a task that fell in bin i
Hits(t, i, from, to) == Cardinality({j \in from .. to : LiesIn(Samples(t)[j], i)})

AllHits(t, i) == Hits(t, i, 1, Len(Samples(t)))

\* hits in the b-th block of 2^level samples, and the squares of those of some blocks
BlockHits(t, i, level, b) == Hits(t, i, (b - 1) * 2 ^ level + 1, b * 2 ^ level)

SquaredHits(t, i, level, blocks) ==
  SumFunction([b \in 1 .. blocks |-> BlockHits(t, i, level, b) * BlockHits(t, i, level, b)])

\* multiplexors alive
Multiplexors == IF vcalc = None THEN <<valcalc>> ELSE <<valcalc, vcalc>>

\* The histogram counts the figure of merit of every sample once: in the bin whose
\* limits it lies between, or off the chart (record(), the edges of bins and of the
\* chart).  The task takes it from a calculator of its own, and one that is gone is
\* never called, nor one left behind (MultiplexorValueCalculator).
HistogramTally ==
  /\ pc = "live" =>
       /\ \A i \in Tracked : histogram.bins[i] = AllHits(Len(seen), i)
       /\ SumFunction(histogram.bins) + histogram.off_chart = n
  /\ pc # "elsewhere" => OwnAll(heap, Multiplexors)

\* the square of the standard error of the mean that the averages of n
\* samples in blocks of 2^level give
BlockError(t, i, level) ==
  LET blocks == Len(Samples(t)) \div 2 ^ level
      all == AllHits(t, i)
      deviation(b) == blocks * BlockHits(t, i, level, b) - all
  IN  Frac(SumFunction([b \in 1 .. blocks |-> deviation(b) * deviation(b)]),
           2 ^ level * 2 ^ level * (blocks * blocks * blocks) * (blocks - 1))

\* If all samples make whole blocks, the error bar of each level is the
\* standard error given by the averages of blocks of its size, although one pass
\* over the samples adds up all levels, overwriting its own buffer with the averages
\* of neighbours (processNewValues()).  Samples left over spoil this, but never give
\* a negative square (calcErrorLevels()).
ErrorsAreBlockErrors ==
  case.binning =>
    \A t \in DOMAIN stats_results, level \in 0 .. case.levels, i \in Tracked :
      LET blocks == Len(Samples(t)) \div 2 ^ level
          error == stats_results[t].error_levels[level][i]
      IN  Len(Samples(t)) >= SamplesSize(case.levels) /\ blocks > 1 =>
            /\ IsFinite(error) /\ AtLeast(error, Zero)
            /\ Len(Samples(t)) % SamplesSize(case.levels) = 0 =>
                 error = BlockError(t, i, level)

\* the verdict on bin i that these error bars ought to give: no level under
\* consideration may have an error bar far below the last one's; else the last
\* level that is clearly on one side decides
DueVerdict(errors, levels, i) ==
  LET last == errors[levels][i]
      Below(level, share) == Less(errors[level][i], Times(share, last))
      considered == levels - 3 .. levels - 1
      clear == {l \in considered :
                  Below(l, <<81, 100>>) \/ AtLeast(errors[l][i], last)}
  IN  IF levels < 3 THEN "UNKNOWN"
      ELSE IF \E l \in considered : Below(l, <<10609, 15625>>) THEN "NOT_CONVERGED"
      ELSE IF clear # {} /\ Below(Max(clear), <<81, 100>>) THEN "UNKNOWN"
      ELSE "CONVERGED"

\* The verdict on each bin is the one that its error bars ought to give, although it
\* is found in one pass over the levels that forgets all but the verdict so far
\* (determineErrorConvergence()).
VerdictSound ==
  case.binning =>
    \A t \in DOMAIN stats_results, i \in Tracked :
      stats_results[t].converged_status[i] =
        DueVerdict(stats_results[t].error_levels, case.levels, i)

-----------------------------------------------------------------------------
\* Inductive invariants

Running == {"therm", "live"}

CaseInv == case \in Cases /\ n \in Nat /\ k \in Nat

\* one calculator for all tasks, and one of its own for the task at hand
CalculatorsInv ==
  /\ valcalc = [i |-> case.figure, valcalc |-> 1]
  /\ IF pc \in Running
     THEN heap = [a \in 1 .. 2 |-> case.figure] /\ vcalc = [i |-> case.figure, valcalc |-> 2]
     ELSE heap = [a \in {1} |-> case.figure] /\ vcalc = None

SampledValues == Int \cup {NotFinite}

CollectorsInv ==
  pc \in Running =>
    /\ DOMAIN collectors = {1, 2} /\ collectors[2] = StatusReportCollector
    /\ {"kind", "histogram"} \subseteq DOMAIN Values
    /\ Values.kind = IF case.binning THEN "binning" ELSE "histogram"
    /\ histogram \in [params : {case.params}, bins : [Tracked -> Nat], off_chart : Nat]

\* what the samples of the task at hand add up to
TallyInv ==
  /\ seen \in Seq(Seq(SampledValues))
  /\ pc = "therm" => n = 0
  /\ pc \in Running =>
       /\ seen # <<>> /\ Len(Samples(Len(seen))) = n
       /\ \A i \in Tracked : histogram.bins[i] = AllHits(Len(seen), i)
       /\ SumFunction(histogram.bins) + histogram.off_chart = n

CountsInv == CaseInv /\ CalculatorsInv /\ CollectorsInv /\ TallyInv

\* what the binning analysis has gathered: samples that are not flushed yet, and at
\* each level the squares of the blocks that are
AnalysisInv ==
  pc \in Running /\ case.binning =>
    LET levels == case.levels
        size == SamplesSize(levels)
        analysis == Values.binning_analysis
    IN  /\ {"num_levels", "binning_analysis", "result"} \subseteq DOMAIN Values
        /\ Values.num_levels = levels
        /\ analysis \in [n_samples : {n}, n_flushes : {n \div size},
                         samples : [0 .. size - 1 -> [Tracked -> Int]],
                         bin_sumsq : [0 .. levels -> [Tracked -> Int]]]
        /\ \A i \in Tracked :
             /\ \A j \in 1 .. n % size :
                  analysis.samples[j - 1][i] = BlockHits(Len(seen), i, 0, n - (n % size) + j)
             /\ \A l \in 0 .. levels :
                  analysis.bin_sumsq[l][i] =
                    SquaredHits(Len(seen), i, l, (n \div size) * 2 ^ (levels - l))

\* the square of the error bar that follows from the blocks that are flushed
LevelError(t, i, level) ==
  LET averages == (Len(Samples(t)) \div SamplesSize(case.levels)) * 2 ^ (case.levels - level)
      mean == Frac(AllHits(t, i), Len(Samples(t)))
      spread == Minus(Frac(SquaredHits(t, i, level, averages), 2 ^ level * 2 ^ level * averages),
                      Times(mean, mean))
  IN  Over(Clipped(spread), averages - 1)

\* a result with these error bars, and the verdicts that follow from them
ResultIs(t) ==
  /\ {"error_levels", "converged_status"} \subseteq DOMAIN stats_results[t]
  /\ stats_results[t].error_levels =
       [l \in 0 .. case.levels |-> [i \in Tracked |-> LevelError(t, i, l)]]
  /\ stats_results[t].converged_status =
       DetermineErrorConvergence(stats_results[t].error_levels, case.levels)

\* one for each task that is done
ResultsInv ==
  /\ stats_results \in Seq({stats_results[t] : t \in DOMAIN stats_results})
  /\ Len(seen) = Len(stats_results) + IF pc \in Running \cup {"interrupted"} THEN 1 ELSE 0
  /\ case.binning => \A t \in DOMAIN stats_results : ResultIs(t)

ErrorsInv == CountsInv /\ AnalysisInv /\ ResultsInv

=============================================================================
