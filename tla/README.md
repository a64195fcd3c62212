# Tomographer in TLA+

Tomographer runs many Metropolis-Hastings random walks over quantum states and
gathers a histogram of a figure of merit. Most of its lines are templates and
linear algebra. What can go wrong unnoticed is elsewhere, and is modelled here:

* the **task dispatchers**, which run the walks in parallel (sequentially, on
  C++11 threads, with OpenMP, or on MPI processes), collect their results, put
  status reports together while tasks run, and stop on request;
* the **random walk** and its controllers, which change its parameters while it
  runs and decide when it may end, and the moves that make it sample the
  distribution asked for;
* the **statistics**: histograms, binning analysis, the pooled result with its
  error bars, and what is reported and sent between processes;
* the two **programs** on top: `tomorun`, with its options, loggers, data file
  and Ctrl+C, and the Python function `tomorun()`, with the GIL.

All paths below are relative to `tomographer/` unless they begin elsewhere.

## 1. The system

| Component | State | Operations | Works with |
|---|---|---|---|
| Common part of the thread dispatchers, `multiprocthreadcommon.h` | schedule (tasks launched and completed, active threads, interrupt, exceptions), result vector, report under preparation (threads waited for, flags, slots, event counters) | enter and exit of a worker, run a task, poll, submit a report, begin and send a report, monitoring loop, epilog | tasks (poll/submit), user callback, signal handlers |
| C++11 threads, `multiprocthreads.h` | three mutexes, thread objects | worker function, `run()`, the requests, the setters, logging | the common part |
| OpenMP, `multiprocomp.h` | the parallel loop | the loop body, `run()`, requests, logging under one `omp critical` | the common part, the OpenMP runtime |
| MPI, `mpi/multiprocmpi.h` | on the master: books of tasks, of workers and of a report; on each process: flags | request and delivery of tasks, results, report orders and reports, interrupt orders, farewells, waiting loop | messages in eight tags; archives |
| Sequential, `multiproc.h` | task number, flags | run, poll, submit, requests; fields of the reports | callback called from within the task |
| Random walk, `mhrw.h` | parameters, point and its value, counters | `run()`: thermalization loop, live loop; the move | walker, collectors, controllers |
| Step size controller, `mhrwacceptratiowalkerparamscontroller.h`, `mhrwstepsizecontroller.h` | original `n_therm`, iteration of the last correction | adjust parameters, allow the end of the thermalization | moving average |
| Error bars controller, `mhrwvalueerrorbinsconvergedcontroller.h` | last refusal, check frequency | allow the end of the live run | binning analysis |
| Statistics collectors, `mhrwstatscollectors.h` | moving average, histogram, binning analysis, polling for reports | raw move, processed sample, status line | walk, dispatcher |
| Binning analysis, `mhrw_bin_err.h` | samples, sums per level | process values, flush, error levels, convergence, number of levels | collectors, options |
| Histograms, `histogram.h` | counts, error bars, count off the chart | record, normalise, average, CSV, printed bars | collectors, tasks, reports |
| Walk tasks and results, `mhrwtasks.h`, `mhrw_valuehist_tools.h` | task data, results, aggregate | input, run, status report, collect, final report, serialization | dispatcher, walk |
| Value calculators, `valuecalculator.h` | the calculator chosen, on the heap | create, copy, destroy, evaluate | walk, options |
| Density matrices, `densedm/` | measurement data, walker | set and check data, likelihood, jumps, parameterizations | walk |
| Signal handling, `tools/signal_handler.h`, `tools/signal_status_report.h` | time of the last signal | first and second Ctrl+C | dispatcher requests |
| Loggers, `tools/loggers.h` | level, filters, sink | emit, change levels | everything |
| Data files, `tools/ezmatio.h` | files, variables and who holds them | open, read, copy, move, decode | `tomorun` |
| `tomorun/` | options, loggers, data | from the command line to the exit | everything |
| Python bindings, `py/cxx/` | GIL, Python objects, exceptions | logger, `tomorun()`, histogram classes, pickling | C++11 threads |
| `mathtools/`, Python package, scripts, build | numerics, display | | |

What is hard here: threads that enter, leave, throw and answer while a report is
being put together; a report, an interrupt and an exception at the same poll;
messages of different tags that are taken in the order of the tags; signal
handlers; the GIL taken with mutexes in hand; loops whose bound is changed by
their body; ends that need two parties to agree at the right iteration; numbers
that are plausible and wrong, from a value that is stale, a member that is not
serialized, an element out of place, an average divided twice.

What makes the components correct:

* dispatcher: no task runs twice or is lost; the counters agree with the results;
  `run()` ends, after all workers, in the way that fits what happened; a report is
  handed out whole, and is completed; a request to stop is enough to stop;
* locks: data written in different kinds of sections has one writer, pairs of
  mutexes and the GIL do not deadlock, the logger has one user;
* walk: sampling begins after enough sweeps at final parameters; one sample per
  sweep, as many as asked for, and each of them seen by the error analysis; an
  end at the first check past the limit set; moves that are reversible with the right limit;
* statistics: every sample is counted where it belongs, error bars are those of
  the blocks of samples, verdicts follow the error levels, pooling keeps what was
  sampled, reports show it;
* programs: they work on the data given, in the way asked; messages and errors
  come through; Ctrl+C is answered.

## 2. Modules

| Module | Stands for | Extends |
|---|---|---|
| `DispatcherContract` | the promises of `run()`: abstract specification of a dispatcher | |
| `ThreadCommon` | the common part of the thread dispatchers | |
| `CxxThreads` | C++11 threads | `ThreadCommon`; implements `DispatcherContract` |
| `OMPThreads` | OpenMP | `ThreadCommon`; implements `DispatcherContract` |
| `MPIDispatcher`, `MCMPIDispatcher` | MPI processes; symmetry for TLC | implements `DispatcherContract` |
| `MCOtherDispatchers` | a program that runs on OpenMP or on MPI | `OMPThreads`, `MPIDispatcher` |
| `SequentialDispatcher` | no threads | implements `DispatcherContract` |
| `MCSequentialDispatcher` | the same with a history of the requests that nothing has answered | `SequentialDispatcher` |
| `DispatcherLocks` | critical sections and the GIL as mutexes | |
| `CxxThreadsProofs`, `OMPThreadsProofs`, `MPIDispatcherProofs`, `MHRandomWalkProofs`, `ValueHistogramTasksProofs` | theorems about the module that each is named after | that module, `TLAPS` |
| `TomorunProofs` | theorems about `Tomorun`, `LoggerChains` and `MatVariables` | these three |
| `PyTomorunProofs` | theorems about `PyTomorun`, and about `DispatcherLocks` that it uses | `PyTomorun` |
| `CommonLemmas` | what several of these proofs rest on: powers of two, division, least and greatest elements, folds | `TLAPS` |
| `MHRandomWalk` | the walk with its controllers | |
| `DensityMatrices` | measurement data, likelihood, parameterizations X and A, observables | `Fractions`, `Archives` |
| `TSpaceWalk` | points, jumps and acceptance | `DensityMatrices` |
| `MCMHRandomWalk` | composes the walk with its points | both |
| `Fractions` | exact fractions, with infinities and "not a number" as floating point has them | |
| `Histograms`, `HistogramPrint` | histograms, their averages and CSV; the printed bars | `Fractions` |
| `BinningAnalysis`, `BinningLevels` | blocks, flushes, error levels, verdict; how many levels are taken | `Fractions` |
| `StatsCollectors`, `StatusReports` | the collectors; what status lines and reports show | the two above |
| `ValueCalculators` | the calculator chosen when the program runs | |
| `Archives` | what comes out of `serialize()` at the other end | |
| `PyResults` | what Python is given of results and reports, and their pickles | `StatusReports` |
| `ValueHistogramTasks` | tasks from their input to the aggregate and its report | `StatsCollectors`, `ValueCalculators` |
| `ValueHistogramReports` | what is told of the tasks: status reports, archives, Python | `ValueHistogramTasks`, `PyResults`, `Archives` |
| `PyHistogram` | Python's histogram classes, next to the C++ ones | `HistogramPrint` |
| `MCValueHistogramTasks` | cases, and Python programs beside them | `ValueHistogramReports`, `PyHistogram` |
| `Loggers`, `LoggerChains` | layers of loggers, as functions; a program that builds and changes chains of them | |
| `DataFile`, `MatVariables` | decoding of variables; files and variables as objects with owners | |
| `Tomorun` | the program, from the command line to the exit | `SequentialDispatcher`, `Loggers`, `DataFile`, `BinningLevels` |
| `MCTomorun` | invocations, and other programs beside it | `Tomorun`, `LoggerChains`, `MatVariables` |
| `PyTomorun`, `MCPyTomorun` | the Python function; its calls | `DispatcherLocks`, `BinningLevels`; uses `DispatcherContract` |
| `MCPyModule` | the programs of `MCPyTomorun` and of `MCValueHistogramTasks`, one or the other | both |

A definition is named after the code it stands for: `RunWorkerEnter` is
`run_worker_enter()`, `InitiateStatusReport` is `_master_initiate_status_report()`,
variables have the names of the fields. Data is left out where no property tells it
apart. Where results depend on it, it is exact: counts are integers, averages are
`Fractions`, error bars are kept as their squares, states are matrices of Gaussian
integers.

Some operators have a twin just before them
(`CountOneUnlocked` before `CountOne`): a plausible mistake. No specification
uses them. Put in the place of the operator, each makes the property it is paired
with in `PROJECT.json` fail; this is how we know that the property says something
about the code.

### Threads: what one step is

One step of a thread is one critical section, or one access to shared state
outside of any; what happens in between touches only the thread's own data.
`DispatcherLocks` shows that sections which write the same data have a mutex in
common, so that one of them is indeed one step to the others.
Reads outside of sections that the code does make have steps of their own: the
interrupt flag and the event counter in `statusReportRequested()` (`WorkerPoll`),
the event counter in `submitStatusReport()` (`SubmitStatusReport`) before the section that books the answer (`TreatReport`), and
the store into the result vector (`CollectResult`) before the section that counts it
(`CountCompleted`).

A task polls any number of times, then ends, throws, or stops at an interrupt. The
callback may throw at any call. The handler and the interval may change at any time,
a request for a report or an interrupt may come at any time (signal handlers,
other threads).

The threads of `run()` are `0 .. NumThreads - 1`, thread 0 being the caller. With `NumThreads = 0`
(unknown number of cores) `run()` still works as thread 0, and so does the model.

OpenMP differs in how tasks are dealt out (the runtime gives chunks
of `n_chunk` iterations to whoever asks: `TakeChunk`, external), in that the
loop cannot be left early (an interrupted thread runs through the rest of its
iterations, and the others, without starting them), and in that an exception of the callback ends
the program, since it cannot leave the critical region (`"terminated"`).

In `DispatcherLocks` a thread is inside a section, between two, or waiting; `std::lock` holds one
of two mutexes and gives it back. Its kind is `cxx`, `omp` or `python`; in the last, tasks, the logger and
the callback take the GIL as well, the logger only if `requireGilAcquisition()` said so.

### MPI: what one step is

A process goes from one probe, send or look at a flag set by a signal handler to
the next. Messages of one tag and sender keep their order. A message that
arrives late cannot be told from one that was sent late, since a sender
that does not block shows itself in no other way; so a message arrives with its send.
This keeps the case that matters: a pass over the messages looks at the tags one
by one (requests, results, reports, farewells), so that a result and the farewell
behind it can both arrive after results were looked at.

`Archives` describes each class by the members its `serialize()` names, in their order, and gives what the
other process reads: a member left out comes back as its default.

### The walk: what one step is

One turn of a loop of `run()`: condition, move, statistics, callbacks of the
controllers in the order the code calls them. It is one thread, so nothing can come in between.
In walks with controllers, whether a move is accepted and whether the error bars have converged are choices; the
sweep size, `(int)(orig_step_times_sweep / new_step_size + 1)`, shrinks (or stays) when the acceptance
ratio is too high and grows (or stays) when it is too low. Ratios are compared
as numbers of accepted moves in the buffer of the moving average, which is modelled slot by slot.
`max_add_run_iters` may be set or disabled.

In walks without controllers the points are followed as well. A point is a T-matrix whose entries are Gaussian
integers, and stands for itself divided by its norm; a full jump leads to any of `TPoints`, a light jump
rotates two entries by a right angle, and the generator has `RngMax + 1` outputs. The data are three projectors with
counts, zeros among them. Likelihoods are then powers of two, so that logarithms are exact too.

### Statistics: what one step is

One turn of a loop of the walk, at fixed parameters; the values it comes to are choices, on a grid with points on the edges
of bins, off the chart and not finite. What could be said at that point by a status report or a status line is a
state function, compared in `ReportShowsAll`. When a task has ended its result is stored, directly and after a passage
through archives and into Python and its pickles (whose constructors take members by position: `PythonGetsAll`, in
`AggregateIsPooled`), and the last one is followed by the aggregate, its CSV file and the printed bars.
`PyHistogram` runs beside it: one action is one call, with NumPy arrays as objects that several histograms may share.

### Programs: what one step is

`Tomorun` takes one step for each part of `main()` (options, logging, switches, checks, parameters, data file, dispatch), then
those of `SequentialDispatcher`, with Ctrl+C and the clock at any time while it runs. The same module lets a program other than
`tomorun` use the dispatcher directly, so that requests of every kind come up. `PyTomorun` takes one step for
each part of `py_tomorun()`; its dispatcher is represented by `DispatcherContract`, and its threads by `DispatcherLocks`.
`LoggerChains` and `MatVariables` are programs that call one operation of a logger, a file or a variable after the other.

## 3. What is checked

| Run | Bounds | What it shows |
|---|---|---|
| `CxxThreads_run` | 2 threads, 2 tasks, 1 request or elapsed interval besides the first; 231,756 states | `TaskOwnership`, `CompletedAccounting`, `MasterLeavesLast`, `ReportCountsSound`; `ImplementsContract`; `RunEnds`, `InterruptStops`, `ReportCompletes` |
| `OtherDispatchers_run` | OpenMP: 2 threads, 3 iterations in chunks of 2, reports from the first interval only; or MPI: master and 2 workers, 2 tasks, periodic reports and 1 request, nothing failing; 195,120 states | `Partition` (the loop is dealt out without gaps and overlaps, skipped iterations included), `ImplementsContract`, `OMPRunEnds` of OpenMP; `MPIImplementsContract`, `MPIRunEnds` |
| `MPIDispatcher_safety` | master, 2 interchangeable workers, 3 tasks, 1 request, at most 2 interrupt orders waiting, failing tasks; 1,165,753 states | `EachTaskInOnePlace`, `RequestReply`, `ReportAccounting`, `MasterLeavesLast` |
| `PyModule_run` | 64 calls of the function and the two other kinds of dispatcher; 2 interchangeable workers and the master, 1 or 2 repeats, seeds of 3 bits instead of 32; or up to 2 tasks of 1 to 24 samples, 2 or 5 bins, up to 3 levels, 2 figures of merit, bars of 2 and 5 characters; 3 calls on 2 Python objects with 4 arrays; 445,795 states | `TasksAsAsked`, `ErrorReachesCaller`, `PythonUnderGil`, `OneUserAtATime`, `SomebodyGoesOn`; `HistogramTally`, `ErrorsAreBlockErrors`, `VerdictSound`, `AggregateIsPooled`, `ReportShowsAll`, `MirrorsCxx` |
| `Tomorun_run` | 208 invocations, 3 tasks, up to 3 hits of Ctrl+C within 6 half seconds; chains of 3 loggers; 2 file and 2 variable objects; 117,037 states | `DataAsGiven`, `MessagesReachTheLog`, `RunsAsAsked`, `LoneSignalHarmless`, `MessagesComeThrough`, `VariablesUsable`; `ImplementsContract`, `RequestsServed` |
| `MHRandomWalk_run` | sweeps of 1 to 3, up to 4 thermalization and 5 live sweeps, buffer of 2, free acceptance in the first 9 moves; 24 points of a qubit, a generator with 8 outputs, 3 sets of counts; 294,538 states | `FixedParamsBeforeLive`, `LiveRunComplete`, `ReversibleWalk`; `WalkEnds` |

`OtherDispatchers_run` and `PyModule_run` follow one of two programs, which share nothing: the other one stays where it is.
Each property is stated, with the code it is about, in the comment above its
definition. `ReportCountsSound` and `OneUserAtATime` are conjunctions of
properties that the proofs take one by one (`WaitingBounded` and
`ProgressAtMostOne`, `WritersExclusive` and `LoggerUsedByOne`). Type invariants (`TypeOK`) are
proved, or were checked once; no run repeats them.

Why the bounds are enough.

*Dispatchers.* Two threads give every pair of roles (master and worker, last and not last to leave, one working while the other is
late); the third thread, where the counts could go wrong in a new way, was run
during development for the safety properties of `CxxThreads` with the same result and
takes too long for a regular run. A second request adds nothing a first one and an elapsed interval do not
have: two reports, one after the other; over MPI the interval elapses again and again. Two tasks let a thread work again after
one task and let one thread find none. Three iterations in chunks of two leave a short last
chunk. In MPI three tasks on three processes let each process be the one that gets none.

*Walk.* Three corrections fit into the first nine moves, at every
remainder of the sweep size; every loop of the run is passed several times. The cap on
iterations, 60, is never reached. For the points the dimension is 2, the smallest with entries off the diagonal, and the one
where the normalization of the generators of parameterization A needs no root; counts include zeros, and the factor that
amplifies them is 1 or 2. The points are 24 T-matrices with two unit entries; some of the states are impossible for some outcomes.

*Statistics.* Values lie on the edges of bins, between them, below, above, and are infinite. The walk with 24 samples has three
levels and three flushes, as many as a verdict needs, and nine of its samples are free, chosen so that the
errors of the levels come in almost every order. Two tasks are what pooling needs, besides none and one. Two handles let arrays be shared.

*Programs.* Invocations give every switch, every pair of switches, and every switch on the command line against every one in
the file; every kind of log, histogram and data file, well formed and not; figures of merit, with and without a reference.
Three hits are a first, a repeated and a late one. Python calls leave out, spoil or vary every argument in turn.

Fairness. A thread of `CxxThreads` and `OMPThreads` goes on as long as it can
(`WF` of `Advance(t)`: the operating system schedules every thread and a mutex
is handed out some day). That a *task* ends is not assumed but is the premise of
`RunEnds` (`TasksEnd`); it is `SF` since polls come between. `InterruptStops` and
`ReportCompletes` do without it: tasks that keep polling are enough. In MPI the
same is stated in `RunSpec`; `MCOtherDispatchers` asks either of the one that runs. `RequestsServed` of `Tomorun` assumes that `run()` goes on and that the
task at hand keeps polling (`RunGoesOn`), not that it ends; it promises a call of the handler after a request, but for a request that is
made while the handler runs, which `SequentialDispatcher_request` shows to be lost. The walk is one loop
(`WF` of `Next`); that it ends needs an acceptance ratio that settles, the bound `Restless`.
`CHECK_DEADLOCK FALSE` appears for the walk, which simply stops at its end; that deadlocks are looked for in `PyModule_run` concerns the threads, as the
tasks followed there may stop at any time.

## 4. Where the code and its documentation disagree

Each is a run that TLC must find violated.

* `CxxThreads_stuck_report`: a thread that leaves without having answered, and is not
  the last one waited for, stays in `num_waiting_reports` (`multiprocthreadcommon.h:541-554`). The report
  is then never handed over, and no later one is begun until the run ends.
* `MPIDispatcher_hang`: an interrupted master orders the interrupt and throws before it receives
  anything, also in the loop that waits for farewells (`mpi/multiprocmpi.h:504`, `451`).
* `MPIDispatcher_crash`: a farewell taken in a pass that did not yet see the result in front of it
  ends the waiting loop, and the missing result is read (`:464`).
* `DispatcherLocks_logger`: on C++11 threads the master logs within `status_report_mutex`, the
  others within `user_mutex` (`multiprocthreadcommon.h:362`).
* `SequentialDispatcher_request`: a request made while the callback runs, by a signal or by the callback itself, is wiped out
  when the callback returns (`multiproc.h:372`), and no poll is told of it; "each time that `requestStatusReport()`
  is called at any later point, then this callback will be invoked" (`:447-449`).
* `MHRandomWalk_limit`: the limit of a walk that is prolonged is looked at every `check_frequency_sweeps` sweeps only, and the walk ends
  strictly beyond it (`mhrwvalueerrorbinsconvergedcontroller.h:165`, `179`): 4 sweeps with a limit of 1.5, checked every 2, become 8. "A value of
  1.5 prolongs the random walk by at most 50% of the run sweeps" (`tomorun/tomorun_opts.h:371`, `py/cxx/pytomorun.cxx:1121`);
  a test expects the overrun. `LiveRunComplete` says what the code keeps to: the first check past the limit.

Further observations, made with these models or while writing them, without a run of their own.

Dispatchers (the first four have their property in the section "What the code says of itself, and does not keep" of the module):

* `NoInternalInconsistency`: a thread that enters while a report is under way may answer after the report has gone, and
  "Internal inconsistency" is printed (`multiprocthreadcommon.h:462`, `526`).
* `FailureIsReported`: a task fails on a worker, all farewells arrive in the same pass, and `run()` on the master
  returns normally (`mpi/multiprocmpi.h:846`).
* `RunningIsFlagged`: a request is taken before the result in front of it, which then marks a working worker as idle
  (`:833`); orders pass it by.
* `ReportIsAnswerable`: a report is begun for nobody, or for a worker that leaves without answering (`:636`).
* With `NumThreads = 0` the report has no slot for thread 0 and is never handed over (`multiprocthreads.h:363`);
  `totalFractionDone()` without tasks is 0/0 (`multiproc.h:160`).
* `setStatusReportHandler()` and `requestPeriodicStatusReport()` lock `status_report_mutex`, which the master holds
  while it calls the callback (`multiprocthreads.h:527`).
* A master without workers that is interrupted reads the result of a task that never ran (`mpi/multiprocmpi.h:464`); a callback
  that throws does so in the middle of a pass over the messages (`:880`).
* `MHRWStatusReport` has no `serialize()` of its own and inherits that of `TaskStatusReport` (`mhrw.h:1136`): over MPI only the fraction and the
  message arrive, the rest has default values. `MHRWStatsResultsBaseSimple` (`mhrw_valuehist_tools.h:71`) has none either, so that
  tasks without binning analysis cannot run over MPI.

Walk:

* The fraction of thermalization sweeps "at constant parameters" (`mhrwacceptratiowalkerparamscontroller.h:113`, `231`) is
  rounded down to whole sweeps (`mhrwstepsizecontroller.h:218`).
* The thermalization may end on a moving average whose buffer is not full: `allowDoneThermalization()` does not ask
  `hasMovingAverageAcceptanceRatio()`, and slots not written count as rejections, so that a ratio that is too high can pass
  (`mhrwacceptratiowalkerparamscontroller.h:221`).
* The overflow check of `run()` precedes the loops; controllers may raise the number of iterations beyond it (`mhrw.h:1058`).
* When a controller prolongs a walk its status report shows more than 100 percent (`mhrw.h:1194`, against
  `py/cxx/pymultiproc.cxx:109`), and the fraction falls when `n_therm` is raised; `ProgressAtMostOne`
  holds of counts of tasks, not of what a task says of itself. At iteration 0 ratios are 0/0 (`mhrw.h:1194`, `1214`).
* The `<=` at `mhrw.h:903` lets one output of the generator accept a move to a point of probability zero; `ReversibleWalk`
  compares what the other outputs do. Light jumps in dimension 1 never find a second index (`densedm/tspacellhwalker.h:498`).
* `IndepMeasLLH::setMeas()` keeps the new data when `checkAllMeas()` then throws (`densedm/indepmeasllh.h:279-301`); the
  Python method resets the old data before it compares lengths (`py/cxx/pydensedm.cxx:242-247`).

Statistics:

* `init()` resets the histogram but not the binning analysis (`mhrwstatscollectors.h:906`): a second run of one walk
  object would mix samples.
* With no or one flush the error levels are 0/0, every comparison is false, and the bin counts as converged
  (`mhrw_bin_err.h:868`); the status line shows it so while the walk thermalizes (`mhrwstatscollectors.h:1254`). `VerdictSound`
  says what the code makes of levels that are infinite or no numbers, and cannot say that it is what one would want.
* `sanitizeBinningLevels()` may convert the logarithm of zero to an integer (`mhrw_bin_err.h:951`). `fromConvergedStatus()` takes a
  segment of negative length when there is one bin (`:148-150`).
* The collector for reports polls only when `k % n_sweep == 0`, with a sweep size that changes
  (`mhrwstatscollectors.h:1064`); the periodic one reads `last_status_report` before it is set (`1103-1111`).
* An average of no histogram, or of one, has error bars that are not numbers (`histogram.h:953`, `959`); printed bars of width zero or
  less (`1690-1694`), an empty logarithmic scale (`1727`); two ends of an error interval that coincide are both `|`, so
  that the branch that tells them apart never matters (`1622`). The final report takes the logarithm of a count that may be zero
  (`mhrw_valuehist_tools.h:588`).

Programs and tools:

* `matched_length()` (`tools/loggers.h:1387`) takes a common beginning for a match, and reads past the end of equal strings, while the
  documentation says "starts with this string" (`1417-1419`, `1458-1460`). An `OriginPrefixedLogger` filters by the origin
  without its prefix; a `MinimumSeverityLogger` on top of another overrides its limit.
* The handler of Ctrl+C stays installed after `tomorun()` has returned, with what it refers to gone (`tools/signal_handler.h:192`). The clock
  has whole seconds, so that two hits within two seconds need not end the program (`159`).
* A histogram file that cannot be opened is reported as written (`tomorun/tomorun_dispatch.h:360-362`). A switch in
  the file and its opposite on the command line are refused, although the file "will not overwrite
  options already given on the command line" (`tomorun/tomorun_opts.h:572`). A negative frequency is caught by an assertion only.
* Python: an exception leaves `requireGilAcquisition()` set (`py/cxx/pytomorun.cxx:931`); Ctrl+C while the master logs
  outside of a task escapes `run()` with threads still joinable; with no periodic reports it is noticed at the end. `n_run` may be 0, and unknown keys of
  `ctrl_*_params` are ignored. `Histogram` shares the NumPy array it is given; a `load()` that fails has already
  replaced the counts; `count()` raises NumPy's `IndexError` where its documentation has `TomographerCxxError`, and negative indices wrap.
* `Var` assignment does not release what it held (`tools/ezmatio.h:1150-1163`), nor does move assignment of `File`
  (`263-269`); a copy of a moved-from `Var` dereferences a null pointer (`969-973`).

## 5. What is proved

The theorems hold for every value of the constants that satisfies the assumptions of the modules: numbers are natural (threads,
tasks, repetitions) or positive (chunks, sweeps, checks), the workers of MPI are a finite set without the master, command lines give numbers where
the code parses numbers. Bounds that only keep TLC's state space finite are arbitrary natural numbers (`MaxOrders` a positive one).
`TeamAssumption` (`NumThreads >= 1`) is OpenMP's own promise.

Each of the state machines below has an inductive invariant of its own:

| Module | Theorems | States (property of a run) |
|---|---|---|
| `CxxThreadsProofs` | `Invariance`, `TypeCorrect`, `OutcomeIsSound`, `ReadyReportsDeliverable` | `IInv`, `TypeOK`, `OutcomeSound`, `ReadyIsDeliverable` |
| | `OwnershipHolds`, `CompletedCountExact`, `MasterIsLast` | `TaskOwnership`, `CompletedAccounting`, `MasterLeavesLast` |
| | `WaitingIsBounded`, `ProgressIsAtMostOne`, `ReportCountsRight` | the two halves of `ReportCountsSound`, and the whole |
| | `Refinement` | `ImplementsContract` |
| `OMPThreadsProofs` | `Invariance`, `LoopIsPartitioned`, `Refinement` | `IInv`, `Partition`, `ImplementsContract` |
| `MPIDispatcherProofs` | `Invariance`, `TypeCorrect`, `CrashNeedsInterrupt` | `IInv`, `TypeOK`, `CrashIsInterrupted` |
| | `TasksInOnePlace`, `RequestsMatchReplies`, `ReportsAccounted`, `MasterIsLast` | `EachTaskInOnePlace`, `RequestReply`, `ReportAccounting`, `MasterLeavesLast` |
| | `Refinement` | `ImplementsContract`, if no task fails and nobody interrupts |
| `PyTomorunProofs` | `HoldersUnique`, `NothingLeftLocked`, `WritersNeverMeet`, `LoggerSafe`, `OneUserHolds`, `NoMutualWait` | `LocksInv`, `TypeOK`, the two halves of `OneUserAtATime` and the whole, `SomebodyGoesOn`, of `DispatcherLocks` |
| | `PyInvariance`, `FirstErrorReachesCaller`, `PythonOnlyUnderGil`, `OneUserInPython`, `NoMutualWaitInPython` | `IInv`, `ErrorReachesCaller`, `PythonUnderGil`, `OneUserAtATime`, `SomebodyGoesOn` |
| | `PyArgumentsInvariance`, `PyTasksAsAsked` | `ArgumentsInv`, `TasksAsAsked` |
| `TomorunProofs` | `DispatcherRefinement`, `Refinement` | `ImplementsContract`, of the dispatcher alone and within the program |
| | `OnlyRepeatedSignalsEnd`, `LogAsDue`, `MessagesAsAsked` | `LoneSignalHarmless`, `LogInv`, `MessagesReachTheLog` |
| | `ChoicesInvariance`, `RunsAsAskedAlways` | `ChoiceInv`, `RunsAsAsked` |
| | `DataInvariance`, `DataAsGivenAlways` | `DataInv`, `DataAsGiven` |
| | `ChainsInvariance`, `MessagesComeThroughAlways` | `ChainInv`, `MessagesComeThrough`, of `LoggerChains` |
| | `VariablesInvariance`, `VariablesUsableAlways` | `FilesInv`, `VarsInv` and `ReadInv`, `VariablesUsable`, of `MatVariables` |
| `MHRandomWalkProofs` | `Invariance`, `TypeCorrect`, `ParamsFixedBeforeLive`, `RunComplete` | `IInv`, `TypeOK`, `FixedParamsBeforeLive`, `LiveRunComplete` |
| `ValueHistogramTasksProofs` | `CountsInvariance`, `HistogramTallyAlways` | `CountsInv`, `HistogramTally` |
| | `ErrorsInvariance`, `ErrorsAreBlockErrorsAlways`, `VerdictSoundAlways` | `ErrorsInv`, `ErrorsAreBlockErrors`, `VerdictSound` |

So every run of a dispatcher that is expected to pass has its safety properties and its refinement proved. The invariants stand at the end of the module that
they are about, and TLC checked each of them before it was proved.

### C++11 threads

None of the properties is inductive by itself, and `IInv` is their strengthening:

* `HoldersLaunched`, `results \subseteq Launched`: a task in a thread's hands or with a result has a number below
  `num_launched`, so that the number handed out next is nobody's: `TaskOwnership`.
* `NothingDropped`: a launched task has a result, or a thread holds it, or the run is being
  interrupted; `LeaveForAReason`: a thread out of its loop has seen an interrupt or all tasks
  launched. When all threads are gone and nobody interrupted, nobody holds a task, so all
  results are there: `OutcomeSound`.
* `OutcomeLast`: an outcome exists only when every thread is done, which makes it final.
* `VectorsInPlace`: the vectors of a report exist exactly while it is in preparation: `ReadyIsDeliverable`.

The proof splits `[Next]_vars` once (`NextCases`), proves the types first (`TypeOKStep`), then the part about
tasks (`Core`) and the part about reports by one lemma for each kind of step: a thread that keeps its task, one that has none,
a launch, a stored result, the epilog. The refinement reuses the invariant and maps each action to one
action of the contract or to a stutter.

Parts two and three of the module add, on top of `IInv`, the properties that count threads:

| Theorem | Argument |
|---|---|
| `CompletedCountExact` | a result is stored for a task that had none (`TaskOwnership`) and puts its thread at `"count"`; counting takes it away |
| `MasterIsLast` | `ActiveAccounting`: `num_active_working_threads` is the number of threads in the active region. At 0 nobody holds a task, so `NothingDropped` gives all the results and `CompletedAccounting` the count; a thread that enters later finds all tasks launched |
| `WaitingIsBounded` | a report begins with `ActiveAccounting` and no slot filled; an answer fills at most one slot and takes one off |
| `ProgressIsAtMostOne` | `ReportBound`: the tasks counted at the beginning and the threads that have answered *or hold a task* are together at most `num_launched`. An answer does not change that sum, a launch moves both sides; `LaunchedBound` gives it when the report begins |

`ProgressAtMostOne` is not inductive: an answer raises its left side, and only `ReportBound`, in
which the thread that answers is already counted, says why there is room.
The proofs first sort the steps by what they do to the counted sets (`CountsOrQuiet`, `HoldersStep`, `AccountingStep`).

### OpenMP

`Partition` equates a union of sets with the tasks, and no step of the proof could reason about it as it stands. `IInv` says the
same iteration by iteration: `DealtOnce` (what is in a chunk was dealt out, has no result, is in no hand and in no other chunk) and
`NothingDropped` (what was dealt out has a result, or is in a chunk or a hand, unless there was an interrupt). A thread takes the
least iteration of its chunk, and a chunk that is not empty has a least one: this is the one place that needs the natural numbers to be well ordered.
`LoopDone` (past the loop nothing is left, with the runtime or in a chunk) gives the results of all tasks when nobody interrupted, which is
what the refinement needs.

### MPI

The module has first the types, who is where, messages and reports, and then the tasks and the refinement.

* Tasks. `Holds(kind, p, i, k)` names the places where a task can be: at work in a process, or at position `i` of the messages
  to or from it. `HeldOnce` says there is one such place at most, `HeldIsPending` that its result is not stored, `PendingIsHeld` that a
  task handed out without a result has one. Together with `StoredWereLaunched` they are `EachTaskInOnePlace`, and each step either moves one task from
  one place to the next or leaves all of them where they are (`InPlaceNew`, `InPlaceMoves`, `InPlaceEnds`).
* `RequestReply` is inductive once the places of workers are known (`LocationsOK`).
* `PresentCounted`: the master counts the workers that have not left or whose farewell is under way, and itself until its work is
  done. `FarewellOnce` makes the farewell the last thing of a worker: `MasterLeavesLast`.
* `OneReport`: of the orders, answers and idle answers of one worker there is one at most: `ReportsCounted`, which is `ReportAccounting`.
* `CrashIsInterrupted` says why the fault that `MPIDispatcher_crash` shows needs a failure or an interrupt. A pass over the messages takes
  `CommSize` messages of each tag at most. Were more results than that under way when the farewells behind them are taken,
  the master would read a result that is not there. `OutBounded` is the budget: the tasks handed out whose results are not in
  (`Out`) are at most the workers that have not been told to leave (`Served`) and what the pass at hand has handed out already
  and not yet taken in (`PassDebt`). When the master is through, nobody is `Served` any more and there is no debt, so nothing is `Out`.
* The refinement is proved where `OtherDispatchers_run` checks it (`MPIImplementsContract`), without failures and interrupts: with them the contract is
  not kept, which is the point of `MPIDispatcher_hang` and `FailureIsReported`. `OnlyResults` says that results are then all there is.

### Locks and Python

A mutex has one holder at most, also while `std::lock` holds one of two, and the GIL is held only by who is inside its section
(`LocksInv`); two sections that write the same data share a mutex (`WritersShareMutex`). A thread that cannot get its first mutex waits for one
that holds it, and that one is inside, can take what it lacks, or gives back what it has. The conclusions are lemmas over the invariant
(`ExclusiveWriters`, `AlwaysSomebody`, `OneLogger`), which `PyTomorunProofs` uses again: there threads also leave a section by an exception,
the main thread holds the GIL from the first argument on, lets go of it for the run, and takes it back (`LocksSound`). The part about errors is `CaughtHaveSource`: every
exception caught has a cause in the call or in Ctrl+C, Ctrl+C that was raised is among those caught, and the run
`failed` exactly if something was caught; `HowItEnded` ties this to the outcome that the dispatcher's contract allows.

`TasksAsAsked` is about what reaches the tasks from the call. The arguments are taken one after the other, and each may raise, so
`TakenSoFar` says of each place on the way what has been taken and what has not. The range of an automatic histogram, the number of levels and the
figure of merit follow from the call by arithmetic (`WholeLog2Is` in `CommonLemmas`, for 32 bits), and seeds are distinct because two numbers with the same
remainder modulo `2^SeedWidth` that lie less than that apart are equal (`SameRemainder`), as long as there are no more tasks than seeds.

### tomorun

`InOrder` of `SequentialDispatcher` (the results stored are those of the tasks before the one at hand) gives the refinement. It is stated for
the dispatcher with every request and setting, and for the program, whose other steps leave the dispatcher alone.

`HitsInOrder` remembers that the time of the last hit handled is that of the last hit, so that the seconds compared by
`signal_dispatch_fn()` are those of two consecutive hits. The assertion is about half seconds: from
"less than two whole seconds" follows "less than four half seconds" (`CloseSeconds`).

`LogInv` says what is in the streams: for each message issued the lines that are due (`DueTo`), no others, and that the file logger is the one
asked for once it is set up (`LogSetUp`). The chains of layers that the program logs through are few: a local logger or none, a maximum level or
none, and the file logger (`GoodShapes`, `GoodChains`). For any chain of that kind, for any level asked for and any compiled in,
`WhenEmitted` computes from the definitions in `Loggers` when a message passes, and `WhereEmitted` what it writes.
Each step of the program then logs a set of messages through good chains (`LogsDue`, `DueTogether`), whatever the options and the data.

`RunsAsAsked` compares the variant that runs with the command line and the configuration file, which are read in an order of their own, displayed,
warned about and dispatched on. `ChoiceInv` says at each place on the way which options have the values asked for and which still have their
defaults (`SwitchesAtDefault`, `ValuesAsAsked`, `SwitchesAsAsked`), that what was displayed is what will run, and that no warning came before.
The number of levels is at least one, and leaves 128 samples of the last level (`LevelsLeaveEnough`) if it was chosen automatically.

`DataAsGiven` holds by `DataInv` as soon as the data are read. Effects are cut out of one array by offsets, while elements are addressed by all
subscripts at once: the index of an element is that of its place in a matrix, plus the size of a matrix times the index given by the subscripts from the
third on (`LinearParts`), since the strides are products of dimensions (`Strides`). Frequencies are read as a matrix of one column, from any
number of dimensions, in their order (`ColumnRead`). Effects not observed are passed over by a fold that appends the others: what it has appended after `i` effects is
found at their rank (`GatheredInTurn`).

`MessagesComeThrough` is about chains that any program builds, changes and takes apart. The invariant is only that every logger above
the last has one below (`IsChain`), and that the level of `PyLogger` is Python's as long as it follows; the
rest is a fact about functions. What is written is found by a fold over the layers, which adds up origins on the way down. The
steps of this fold for a chain and for the chain below its first layer are the same, shifted by one (`EndBelow`): so
a local logger, wherever it is, changes nothing but the origin.

### Data files

* Who holds what. `FilesInv` and `VarsInv`: a file is open exactly while an object holds it, a variable's count is that of its holders,
  except where the code forgets one (`forgotten`, section 4). Each step takes at most one holder away and gives at most one
  (`Surplus`, `Balanced`).
* Reading. `ReadInv` follows the iterator over a variable: all elements that it has passed are in their place, by rows or by
  columns. `LinearIndexIn` is a fold, Horner's scheme; that it numbers the subscripts one to one, up to the number of elements, is proved by
  giving the subscripts back by division, dimension by dimension, and `Increment` adds one to it since it carries.

### The walk

Both properties look back over the walk, and neither is inductive.

* `FixedParamsBeforeLive` speaks of `steady`, the iterations since the parameters last changed. `ThermProlonged`: while the walk thermalizes
  after a correction, what `n_therm` still prescribes makes up for what the promised sweeps lack (`k + n_sweep * FixedTherm <= n_sweep * n_therm + steady`).
  A correction sets `steady` to 0 and raises `n_therm` to `NThermMin`, which is one sweep more than `k \div n_sweep` and so covers
  the sweep that was begun (`DivMod`); the sweep size may change at the same step, and the quotient is taken by the new one.
* `LiveRunComplete` bounds what controllers add. `LastCheck`: a run that is longer than asked for has passed a check not more than
  `CheckLength` iterations ago which was within the limit, so it ends at the first check past it (and not within the limit, `MHRandomWalk_limit`); `RefusedBefore` places the refused check at a multiple of `CheckLength`, and two multiples
  that differ are at least that far apart (`MultiplesApart`).
  `ChecksAfterFlush`: the check frequency is a multiple of the samples of a block, so that the end leaves none unflushed.

### Statistics

The limits and the number of bins, the figure of merit, the number of samples and of levels (up to 30, so that `1 << num_levels` fits into an `int`) are arbitrary here, and so are
the values that the walk comes to.

* Counts. `CountsInv`: a task at work has its own calculator and the common one as it was made (`CalculatorsInv`), its collectors hold one count for
  each sample, in the bin where the sample lies or off the chart (`CollectorsInv`), and so do the results (`TallyInv`). The bin is
  found by a division (`RecordIndexIs`), so this needs what `Fractions` computes. Its greatest common divisor and its comparison, which goes by whole
  parts as a continued fraction does, are recursive functions; that they have the value their recursion says, and that this value is a
  divisor and the comparison of the cross products, is shown by the least number for which it would not be so.
* Blocks. `ErrorsInv` adds `AnalysisInv`: at each level the sums are those of the squares of the blocks that have been flushed, and the
  samples that have not are in the buffer in their order. A flush (`FlushIs`) goes level by level, sample by sample, and overwrites the
  buffer with the averages of neighbours while it reads it. At each of its steps the buffer is part averages of two blocks
  of this level, part blocks of the level before (`LevelFlushed`). Two blocks make one of the next level (`BlocksJoin`). `ResultsInv`: a result
  that is stored follows from the samples of its task.
* `ErrorsAreBlockErrors` asks for the variance of the blocks' averages. The code has squares and the average of all
  samples instead, and with a common denominator the two agree (`Variance`): the deviations of `A` numbers `h` from their
  mean `H / A`, squared and added, are `A` times `A * sum(h^2) - H^2`. This needs the blocks of a level to take up all the samples there are (`BlocksAddUp`).
  Both sides are then reduced fractions, and two of these with the same value are the same: the divisor found is a
  combination of the two numbers (`GCDCombines`), so what is left when it is divided out has no divisor in common (`FracReduced`, `SameFraction`).
* `VerdictSound`: the code goes over three levels and remembers a verdict only. On each level three conditions
  matter, of which the first two exclude the third (`ShareFacts`). Taken three times (`VerdictFollows`) this
  is what `DueVerdict` says of the largest level that is clear, for infinite error bars and for those that are no numbers too (`LessIs`).

### What proving changed in the models

* `LiveRunComplete` said that a prolonged run stays within `max_add_run_iters`, by one check at most. For `max_add_run_iters` below 1 that is
  false (`n_run` sweeps are done in any case); TLC had only seen 1 and more. It now bounds what is beyond both (`WithinLimit`). That it
  takes one check more is the code's doing, and not what tomorun's options promise (`ProlongedAsAsked`).
* `ErrorReachesCaller` now speaks of all calls that cannot fail otherwise when it says that Ctrl+C raises `KeyboardInterrupt`, not only of those in
  which Ctrl+C is expected.
* `MessagesReachTheLog` compared messages with lines by their text. It compares the level too, since two messages may read alike.
* Assumptions on the calls, invocations, contents of files and levels of loggers that the proofs need (`CallsAssumption`,
  `InvocationsAssumption`, `ContentsAssumption`, `ChainsAssumption`) were left unsaid. TLC evaluates them now.
* A vector that is read starts as zeros of its full size, as in the code, and is filled in place (`ZeroElement`); it used to grow.
* Sorted sequences of sets are functions that pick the next least element (`Nth`), instead of an operator that the prover cannot expand.
* `TypeOK` of `MPIDispatcher` bounded all queues, as TLC needs it; only the number of interrupt orders has a bound that the specification
  imposes. `Partition`, `Stored` and some sets are written in another form, with the same meaning.
* `ValueHistogramTasks` is what tasks do; what is told of them went to `ValueHistogramReports`, since `Archives` has a recursive operator.
* `VerdictSound` spoke only of error bars that are finite. It turned out to hold of the others as well, as it stands.
* `DataAsGiven` took the first dimension of the frequencies for their number and addressed them by row and column, which fails when they are
  given as a table of more than two dimensions; the code accepts that and takes them in their order. The property now speaks of the order, and an
  invocation with such a table is among those that TLC follows. Data are gathered by a fold, effect by effect, as in the code; it used to be
  a sorted set.
* `CasesAssumption` was incomplete: limits of histograms in the right order, 1 to 30 levels, values on the grid or not finite.
* Powers in `BinningAnalysis` are products, `Fractions`' recursive functions take pairs, conditions that overlapped in a `CASE`
  (`VerdictAt`, `Decode`) are alternatives in their order, and some subexpressions have names (`LiesIn`, `SquaredHits`, `DueVerdict`).

### What is only model-checked

* Liveness (`RunEnds`, `OMPRunEnds`, `MPIRunEnds`, `InterruptStops`, `ReportCompletes`, `RequestsServed`, `WalkEnds`): the prover has no means for fairness and `ENABLED`.
* `AggregateIsPooled`, `ReportShowsAll` and `ReversibleWalk`: they are above `Archives`, which declares a recursive operator, and
  the prover has no arithmetic in modules that reach one. A recursive *function* or a fold can be reasoned about, by a
  counterexample that is least or by a fold over one element more, and that is how sums, blocks and divisors are treated here.
* `MirrorsCxx`: programs of any length with Python's histograms and arrays.

## 6. Not modelled

* **Numerics**: fidelity, trace and purified distance, `mathtools/`, and everything that depends on the rounding of
  floating point numbers. Square roots of matrices and continuous distributions are out of TLC's reach; where a result
  does not need them it is computed exactly.
* **Random numbers**: outputs of the generator are choices; their distribution is not a matter of states.
* **Time**: intervals have elapsed or not; only `Tomorun` counts half seconds. The collector that prints a line every so often
  (`PeriodicStatusReportMHRWStatsCollector`) reads a clock and is left out.
* **Wording and layout** of help, reports and log messages; colours.
* **MPI**: a callback that throws, and a second `run()` on the same object. Other errors of MPI calls end the program.
* **Walk**: a second `run()` of the same object.
* **`tomorun`**: most numerical options, which are only passed on; references whose dimension does not fit when it is
  only known at run time (an assertion). The build with threads is `CxxThreads`.
* **Python**: the functions that only convert arguments; the values of controller settings; negative counts; the package on top (curve
  fitting, progress widgets).
* **Data files**: structures and cells, and the matching of numeric types at compile time.
* The rest of the lines are declarations of templates and types, accessors, documentation strings, formatting, tests and
  build scripts: nothing in them that a model checker could say more about than a test.

## 7. Plan

Done, in this order: the dispatcher's contract, C++11 threads and their proofs; OpenMP and locks; MPI; the
sequential dispatcher; the walk with its controllers; histograms, binning analysis, tasks and reports; `tomorun` with loggers,
data files and signals; the Python function and classes with the GIL; archives; points and likelihood.

Proved: every safety property and the refinement of the dispatchers, the locks, the walk with its controllers; the histograms, error
bars and verdicts of the tasks; the two programs, with the loggers and files beside them.

Left:

1. Proofs: `MirrorsCxx`; and `AggregateIsPooled`, `ReportShowsAll` and `ReversibleWalk`, which need `Archives` without its
   recursive operator first.
2. MPI with a callback that throws and with a second run.
