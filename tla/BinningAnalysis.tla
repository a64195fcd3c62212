--------------------------- MODULE BinningAnalysis ---------------------------
(***************************************************************************)
(* The binning analysis of the samples of a random walk, and its verdict   *)
(* on the error bars.  It keeps the sums of the squares of the samples     *)
(* (level 0), of the averages of two neighbours (level 1), of four...      *)
(*                                                                         *)
(* An analysis is a record [n_samples, n_flushes, samples, bin_sumsq].     *)
(* What it tracks are the bins of a histogram: a sample is the index of    *)
(* the bin it fell in, or -1, and stands for the vector that is 1 there    *)
(* and 0 elsewhere.  Averages of 2^l samples are kept times 2^l, and error *)
(* levels as the squares of the error bars, so that all is exact.          *)
(* A faulty twin of an operator stands just before it, as in ThreadCommon. *)
(***************************************************************************)
EXTENDS Integers, Sequences, SequencesExt, Fractions

\* content of a buffer that nobody has written yet
Uninitialized == -1

SamplesSize(levels) == 2 ^ levels

Reset(levels, tracked) ==
  [n_samples |-> 0, n_flushes |-> 0,
   samples |-> [i \in 0 .. SamplesSize(levels) - 1 |->
                  [v \in tracked |-> Uninitialized]],
   bin_sumsq |-> [l \in 0 .. levels |-> [v \in tracked |-> 0]]]

\* canonicalBasisVec(index, ...): all zeros for -1
BasisVector(tracked, index) == [v \in tracked |-> IF v = index THEN 1 ELSE 0]

Squared(acc, level, ksample) ==
  [acc EXCEPT !.bin_sumsq[level] =
     [v \in DOMAIN @ |-> @[v] + acc.samples[ksample][v] * acc.samples[ksample][v]]]

\* an even sample and its neighbour make a sample of the next level, which
\* takes the place of one that is not needed any more
Halved(acc, binnedsize, ksample) ==
  IF ksample % 2 = 0 /\ binnedsize > 1
  THEN [acc EXCEPT !.samples[ksample \div 2] =
          [v \in DOMAIN @ |-> acc.samples[ksample][v] + acc.samples[ksample + 1][v]]]
  ELSE acc

FlushSampleHalvedFirst(acc, level, binnedsize, ksample) ==
  Squared(Halved(acc, binnedsize, ksample), level, ksample)

FlushSample(acc, level, binnedsize, ksample) ==
  Halved(Squared(acc, level, ksample), binnedsize, ksample)

FlushLevel(acc, levels, level) ==
  LET binnedsize == 2 ^ (levels - level)
  IN  FoldLeftDomain(LAMBDA a, i : FlushSample(a, level, binnedsize, i - 1),
                     acc, [i \in 1 .. binnedsize |-> i])

Flush(acc, levels) ==
  LET flushed == FoldLeftDomain(LAMBDA a, i : FlushLevel(a, levels, i - 1),
                                acc, [i \in 1 .. levels + 1 |-> i])
  IN  [flushed EXCEPT !.n_flushes = @ + 1]

ProcessNewValues(ba, levels, vals) ==
  LET ninbin == ba.n_samples % SamplesSize(levels)
      stored == [ba EXCEPT !.n_samples = @ + 1, !.samples[ninbin] = vals]
  IN  IF ninbin = SamplesSize(levels) - 1 THEN Flush(stored, levels) ELSE stored

-----------------------------------------------------------------------------
\* Error levels

\* number of averages at a level
AveragesAt(ba, levels, level) == ba.n_flushes * 2 ^ (levels - level)

BinSqmean(ba, levels, level, v) ==
  Frac(ba.bin_sumsq[level][v], 2 ^ level * 2 ^ level * AveragesAt(ba, levels, level))

\* mean of the squares less the square of the mean; the means come from the
\* histogram, which counts samples not flushed yet as well
Spread(ba, levels, level, mean, v) ==
  Minus(BinSqmean(ba, levels, level, v), Times(mean, mean))

\* rounding, and samples not flushed yet, can make it negative
Clipped(spread) == IF Less(spread, Zero) THEN Zero ELSE spread

CalcErrorLevels(ba, levels, means) ==
  [level \in 0 .. levels |-> [v \in DOMAIN means |->
     Over(Clipped(Spread(ba, levels, level, means[v], v)),
          AveragesAt(ba, levels, level) - 1)]]

-----------------------------------------------------------------------------
\* The verdict

Verdicts == {"UNKNOWN", "CONVERGED", "NOT_CONVERGED"}

\* is the error bar smaller than num/den of the last one?  (squares: the
\* ratio is compared with num^2/den^2)
LessThanShare(this, last, num2, den2) ==
  /\ this # NaN /\ last # NaN
  /\ IF IsFinite(last) /\ last # Zero
     THEN Less(Quotient(this, last), <<num2, den2>>)
     ELSE Less(this, last)

VerdictAtForgetful(verdict, this, last) ==
  IF AtLeast(this, last) THEN "CONVERGED"
  ELSE IF LessThanShare(this, last, 10609, 15625) THEN "NOT_CONVERGED"
  ELSE IF LessThanShare(this, last, 81, 100) THEN "UNKNOWN"
  ELSE verdict

VerdictAt(verdict, this, last) ==
  IF AtLeast(this, last) /\ verdict # "NOT_CONVERGED" THEN "CONVERGED"
  ELSE IF LessThanShare(this, last, 10609, 15625) THEN "NOT_CONVERGED"
  ELSE IF LessThanShare(this, last, 81, 100) /\ verdict # "NOT_CONVERGED" THEN "UNKNOWN"
  ELSE verdict

\* how many levels the verdict looks at, the last one included
ConvergenceRange == 4

DetermineErrorConvergence(errors, levels) ==
  [v \in DOMAIN errors[levels] |->
     IF levels < ConvergenceRange - 1
     THEN "UNKNOWN"
     ELSE FoldLeft(LAMBDA verdict, level :
                     VerdictAt(verdict, errors[level][v], errors[levels][v]),
                   "CONVERGED",
                   [i \in 1 .. ConvergenceRange - 1 |-> levels - ConvergenceRange + i])]

\* BinningErrorBarConvergenceSummary::fromConvergedStatus(), for status a
\* function on 0 .. n_bins - 1 with n_bins > 1
ConvergenceSummary(status) ==
  LET last == Cardinality(DOMAIN status) - 1
      Is(i, verdict) == status[i] = verdict
      Count(verdict) == Cardinality({i \in 0 .. last : Is(i, verdict)})
      Both(i, j) == IF Is(i, "UNKNOWN") /\ Is(j, "CONVERGED") THEN 1 ELSE 0
  IN  [n_bins |-> last + 1,
       n_converged |-> Count("CONVERGED"),
       n_unknown |-> Count("UNKNOWN"),
       n_not_converged |-> Count("NOT_CONVERGED"),
       n_unknown_isolated |->
         Cardinality({i \in 1 .. last - 1 :
           Is(i, "UNKNOWN") /\ Is(i - 1, "CONVERGED") /\ Is(i + 1, "CONVERGED")})
         + Both(0, 1) + Both(last, last - 1)]

=============================================================================
