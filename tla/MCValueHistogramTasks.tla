----------------------- MODULE MCValueHistogramTasks -----------------------
(***************************************************************************)
(* The runs for which ValueHistogramTasks is checked; and, besides them,   *)
(* Python programs that work on their own with histograms, of which one    *)
(* may have come out of a run.                                             *)
(***************************************************************************)
EXTENDS ValueHistogramReports, PyHistogram

\* two bins, with an edge between them and one at each end
TwoBins == [min |-> 0, max |-> 4, num_bins |-> 2]

\* limits of the bins off the grid of the values
FiveBins == [min |-> 0, max |-> 4, num_bins |-> 5]

\* Points are numbered by their value.  For the other figure of merit it is
\* the other way round.
Points == -1 .. 5
MCFigures ==
  <<[p \in Points \cup {NotFinite} |-> p],
    [p \in Points \cup {NotFinite} |-> IF p = NotFinite THEN p ELSE 4 - p]>>

\* two short walks; every kind of value comes up
Simple ==
  [params |-> TwoBins, binning |-> FALSE, levels |-> 1, tasks |-> 2, seeds |-> 0,
   n_sweep |-> 2, n_therm |-> 1, n_run |-> 3, columns |-> 1,
   figure |-> 1, points |-> <<{0, 2, 3}, {-1, 1, 4}, {NotFinite, 1, 2}>>]

\* with the binning analysis, and a sample that is never flushed
ShortBinning ==
  [Simple EXCEPT !.binning = TRUE, !.n_sweep = 1, !.n_run = 5,
                 !.points = <<{0, 4}, {0, 3}>>]

\* more bins than characters, and no thermalization
Coarse ==
  [Simple EXCEPT !.params = FiveBins, !.tasks = 1, !.n_therm = 0, !.n_run = 4, !.figure = 2,
                 !.columns = 3, !.points = <<0 .. 3, {1, 4}>>]

\* two levels, two flushes
TwoLevels ==
  [ShortBinning EXCEPT !.levels = 2, !.tasks = 1, !.n_run = 8,
                       !.points = <<{0, 2, 4}, {0, 2}>>]

\* Enough levels for a verdict, and three flushes.  Nine samples are free, in
\* a walk chosen so that the errors of the levels come in almost every order.
Verdict ==
  LET free == {2, 3, 5, 6, 10, 14, 18, 21, 24}
      second == {1, 5, 6, 7, 8, 9, 13, 14, 15, 21, 22}
  IN  [ShortBinning EXCEPT !.levels = 3, !.tasks = 1, !.n_run = 24,
         !.points = [i \in 1 .. 24 |-> IF i \in free THEN {0, 2}
                                       ELSE IF i \in second THEN {2} ELSE {0}]]

\* as many seeds as tasks, or fewer; no tasks at all
Seeded == {[Simple EXCEPT !.n_run = 1, !.seeds = s] : s \in {1, 2}}
NoTasks == [Simple EXCEPT !.tasks = 0]

MCCases ==
  {Simple, ShortBinning, Coarse, TwoLevels, Verdict, NoTasks} \cup Seeded

-----------------------------------------------------------------------------
\* Python programs

NumPyArray(dtype, dims, size) ==
  [dtype |-> dtype, dims |-> dims, items |-> [i \in 0 .. size - 1 |-> <<i + 1, 1>>]]

\* one that fits two bins, and others that differ in length or shape
MCGiven ==
  <<NumPyArray("int", 1, 2), NumPyArray("float", 1, 3),
    NumPyArray("float", 2, 2), NumPyArray("float", 1, 1)>>

MCPyParams == {TwoBins}

MCResults ==
  {[params |-> TwoBins, bins |-> [i \in 0 .. 1 |-> <<1, 2 + i>>],
    delta |-> [i \in 0 .. 1 |-> <<1, 8>>], off_chart |-> <<1, 6>>]}

\* a whole number, and one that is none
MCWeights == {One, <<1, 2>>}

TasksInit ==
  \/ Init /\ HistogramsInit
  \/ /\ case = NoTasks /\ pc = "elsewhere" /\ k = 0 /\ n = 0
     /\ collectors = <<>> /\ seen = <<>>
     /\ heap = EmptyHeap /\ valcalc = None /\ vcalc = None
     /\ stats_results = <<>> /\ aggregated = None /\ printed = None /\ csv = None
     /\ HistogramsInit

TasksNext ==
  \/ Next /\ UNCHANGED py_histogram_vars
  \/ pc = "elsewhere" /\ HistogramsNext /\ UNCHANGED vars

TasksSpec == TasksInit /\ [][TasksNext]_<<vars, py_histogram_vars>>

=============================================================================
