---------------------------- MODULE BinningLevels ----------------------------
(***************************************************************************)
(* How many levels a binning analysis takes: sanitizeBinningLevels().      *)
(***************************************************************************)
EXTENDS Integers

\* the largest int, the type of the numbers of samples
MaxInt == 2147483647

\* of less than 2^30
WholeLog2(n) == CHOOSE l \in 0 .. 29 : 2 ^ l <= n /\ n < 2 ^ (l + 1)

\* so that there are samples_last_level samples at the last level, if possible.
\* A quotient of zero has no logarithm; what is computed for it gives one level.
ChosenAutomatically(n_run, samples_last_level) ==
  LET quotient == n_run \div samples_last_level
  IN  IF quotient < 2 THEN 1 ELSE WholeLog2(quotient)

SanitizeBinningLevels(binning_num_levels, n_run, samples_last_level) ==
  IF binning_num_levels > 0 THEN binning_num_levels
  ELSE ChosenAutomatically(n_run, samples_last_level)

FewLevels(levels) == levels < 4

LastLevelNumSamples(levels, n_run) == n_run \div 2 ^ levels

FewSamples(levels, n_run, samples_last_level) ==
  LastLevelNumSamples(levels, n_run) < samples_last_level

=============================================================================
