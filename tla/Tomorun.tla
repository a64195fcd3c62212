------------------------------- MODULE Tomorun -------------------------------
(***************************************************************************)
(* The program tomorun, in its build without threads, from its command     *)
(* line to its exit: options, logging, the data file, the run of the tasks *)
(* (by the dispatcher of SequentialDispatcher), the histogram file; and    *)
(* Ctrl+C at any time.  What the tasks compute is in MHRandomWalk and      *)
(* ValueHistogramTasks.  A program other than tomorun may use the          *)
(* dispatcher directly, and then makes every kind of request.              *)
(*                                                                         *)
(* Time is counted in half seconds.  A faulty twin of an operator stands   *)
(* just before it, as in ThreadCommon.                                     *)
(***************************************************************************)
EXTENDS SequentialDispatcher, Loggers, DataFile, BinningLevels

CONSTANTS
  Invocations,      \* the invocations that are followed, each a record of
                    \*   host            "tomorun" or "library"
                    \*   max_log_level   TOMORUN_MAX_LOG_LEVEL
                    \*   cmd, config     values given to options on the
                    \*                   command line and in the file it
                    \*                   names ("config": where that file is)
                    \*   log_opens, csv_opens, data_opens
                    \*                   whether these files can be opened
                    \*   nice_works
                    \*   data            the variables of the data file
                    \*   max_hits        how often Ctrl+C is hit
  MaxTicks          \* time that passes after the first hit

Switches ==
  {"light-jumps", "binning-analysis-error-bars", "control-step-size",
   "control-binning-converged", "no-light-jumps", "no-binning-analysis-error-bars",
   "no-control-step-size", "no-control-binning-converged"}

\* what the option parser makes of the values given, and a text is
\* cut at the colons
IsOption(name, value) ==
  /\ name \in {"verbose", "n-run", "binning-analysis-num-levels"} => value \in Int
  /\ name = "n-run" => value <= MaxInt
  /\ name \in Switches => value \in BOOLEAN
  /\ name = "value-type" => value \in Seq(Range(value)) \ {<<>>}

\* a variable of a MATLAB file has two dimensions at least
IsVariable(var) == var.dims \in Seq(Nat) /\ Len(var.dims) >= 2

ASSUME InvocationsAssumption ==
  \A i \in Invocations :
    /\ i.max_hits \in Nat /\ i.max_log_level \in Int
    /\ \A name \in DOMAIN i.data : IsVariable(i.data[name])
    /\ \A given \in {i.cmd, i.config} : \A name \in DOMAIN given : IsOption(name, given[name])

VARIABLES
  inv,              \* the invocation at hand
  phase,            \* where main() is
  vm,               \* the options given, by name
  opt,              \* ProgOptions
  filelogger,
  written,          \* lines written to the streams
  issued,           \* history: messages that were logged
  llh,              \* the measurement data
  used,             \* the variant of tomorun() that runs
  csv,              \* the histogram file
  exit_status,
  now, hit_times,   \* history: when Ctrl+C was hit
  last_sig_hit_time,
  signal_handler

progress == <<phase, exit_status>>
options == <<vm, opt>>
log == <<filelogger, written, issued>>
data == <<llh, used, csv>>
clock == <<now, hit_times, last_sig_hit_time>>
program == <<inv, progress, options, log, data, clock, signal_handler>>
tomorun_vars == <<vars, program>>

None == <<>>

\* Ctrl+C delays: seconds after which a hit is not taken for a repetition
RepeatExitDelay == 2

\* TomorunFiguresOfMerit
Figures == <<"obs-value", "tr-dist", "fidelity", "purif-dist">>

\* in a text that is cut at the colons those after the first are part of the name
Blank == ""

NoName == <<Blank>>

FigureOfMeritSpec(pieces) ==
  [valtype |-> CHOOSE j \in DOMAIN Figures : Figures[j] = Head(pieces),
   ref_obj_name |-> IF Len(pieces) = 1 THEN NoName ELSE Tail(pieces)]

FigureText(spec) ==
  <<Figures[spec.valtype]>> \o IF spec.ref_obj_name = NoName THEN <<>> ELSE spec.ref_obj_name

Defaults ==
  [nice_level |-> 14, valtype |-> FigureOfMeritSpec(<<"fidelity">>),
   val_hist |-> <<90, 100, 50>>, light_jumps |-> FALSE,
   binning_analysis_error_bars |-> TRUE, control_step_size |-> TRUE,
   control_binning_converged |-> TRUE, n_chunk |-> 1, loglevel |-> INFO,
   n_run |-> 32768, binning_analysis_num_levels |-> -1,
   verbose_log_info |-> FALSE, write_histogram |-> "", data_file_name |-> "",
   periodic_status_report_ms |-> -1]

TomorunInit ==
  /\ Init
  /\ inv \in Invocations
  /\ phase = IF inv.host = "tomorun" THEN "start" ELSE "library"
  /\ vm = None /\ opt = Defaults
  /\ filelogger = FileLogger("stdout", INFO, FALSE)
  /\ written = {} /\ issued = {}
  /\ llh = None /\ used = None /\ csv = "none"
  /\ exit_status = "none"
  /\ now \in IF inv.max_hits > 0 THEN {0, 1} ELSE {0}
  /\ hit_times = <<>>
  /\ last_sig_hit_time = -100
  /\ signal_handler = "default"

Exit(status) == exit_status' = status /\ phase' = "over"

Goto(next) == phase' = next /\ UNCHANGED exit_status

BadOptions == "exit 127"

-----------------------------------------------------------------------------
\* Logging

BaseLogger ==
  IF inv.max_log_level = LOWEST_SEVERITY_LEVEL THEN <<filelogger>>
  ELSE <<MinimumSeverityLogger(inv.max_log_level), filelogger>>

In(function) == <<LocalLogger(Named(function))>> \o BaseLogger

Lines(logger, messages) == UNION {Log(logger, m) : m \in messages}

Writes(lines, messages) ==
  /\ written' = written \cup lines
  /\ issued' = issued \cup messages

\* what is logged, in an action that leaves the logger alone
LogsTo(logger, messages) == Writes(Lines(logger, messages), messages) /\ UNCHANGED filelogger

When(condition, messages) == IF condition THEN messages ELSE {}

-----------------------------------------------------------------------------
\* parse_options()

Options ==
  {"help", "version", "config", "data-file-name", "value-type", "value-hist",
   "light-jumps", "no-light-jumps",
   "binning-analysis-error-bars", "no-binning-analysis-error-bars",
   "control-step-size", "no-control-step-size",
   "control-binning-converged", "no-control-binning-converged",
   "n-run", "binning-analysis-num-levels", "n-chunk", "write-histogram", "write-histogram-from-config-file-name",
   "verbose", "verbose-log-info", "nice", "log", "log-from-config-file-name",
   "periodic-status-report-ms"}

IsGiven(name) == name \in DOMAIN vm

Value(name, default) == IF IsGiven(name) THEN vm[name] ELSE default

\* bool_switch
IsSet(name) == Value(name, FALSE)

\* the file does not overwrite what is given on the command line
Stored ==
  [name \in DOMAIN inv.cmd \cup DOMAIN inv.config |->
     IF name \in DOMAIN inv.cmd THEN inv.cmd[name] ELSE inv.config[name]]

\* the options that notify() stores directly
Notified(given) ==
  LET value(name, default) == IF name \in DOMAIN given THEN given[name] ELSE default
  IN  [opt EXCEPT !.nice_level = value("nice", @),
                  !.valtype = IF "value-type" \in DOMAIN given
                              THEN FigureOfMeritSpec(given["value-type"]) ELSE @,
                  !.n_chunk = value("n-chunk", @),
                  !.n_run = value("n-run", @),
                  !.binning_analysis_num_levels = value("binning-analysis-num-levels", @),
                  !.loglevel = value("verbose", @),
                  !.verbose_log_info = value("verbose-log-info", @),
                  !.write_histogram = value("write-histogram", @),
                  !.data_file_name = value("data-file-name", @),
                  !.periodic_status_report_ms = value("periodic-status-report-ms", @)]

\* store() converts the values that it keeps
Validates(given) ==
  "value-type" \in DOMAIN given => Head(given["value-type"]) \in Range(Figures)

\* the help text and the version go to the standard output
StoreOptions ==
  LET with_config == "config" \in DOMAIN inv.cmd
      accepted == DOMAIN inv.cmd \subseteq Options /\ Validates(inv.cmd)
  IN  /\ phase = "start"
      /\ \/ /\ ~accepted
            /\ Exit(BadOptions) /\ UNCHANGED options
         \/ /\ accepted /\ "help" \in DOMAIN inv.cmd
            /\ Exit("exit 1") /\ UNCHANGED options
         \/ /\ accepted /\ "help" \notin DOMAIN inv.cmd
            /\ "version" \in DOMAIN inv.cmd
            /\ Exit("exit 2") /\ UNCHANGED options
         \/ /\ accepted /\ {"help", "version"} \cap DOMAIN inv.cmd = {}
            /\ IF with_config => /\ inv.cmd["config"] = "here"
                                 /\ DOMAIN inv.config \subseteq Options
                                 /\ Validates(Stored)
               THEN /\ vm' = IF with_config THEN Stored ELSE inv.cmd
                    /\ opt' = Notified(vm')
                    /\ Goto("logging")
               ELSE Exit(BadOptions) /\ UNCHANGED options
      /\ UNCHANGED <<inv, log, data, clock, signal_handler>>

\* --log, or the name made from that of the configuration file
Redirected == IsSet("log-from-config-file-name") \/ Value("log", "-") # "-"

SetUpLogging ==
  /\ phase = "logging"
  /\ IF \/ IsSet("log-from-config-file-name") /\ (~IsGiven("config") \/ IsGiven("log"))
        \/ Redirected /\ ~inv.log_opens
     THEN Exit(BadOptions) /\ UNCHANGED log
     ELSE LET set_up == FileLogger(IF Redirected THEN "logfile" ELSE "stdout",
                                   opt.loglevel, opt.verbose_log_info)
              logger == <<LocalLogger(Named("parse_options()"))>> \o Front(BaseLogger)
                        \o <<set_up>>
              messages == When(Redirected, {Says(INFO, "output is redirected")})
                          \cup When(IsGiven("config"), {Says(DEBUG, "options loaded")})
          IN  /\ filelogger' = set_up
              /\ Writes(Lines(logger, messages), messages)
              /\ Goto("switches")
  /\ UNCHANGED <<inv, options, data, clock, signal_handler>>

NoSwitch ==
  [s \in {"light-jumps", "binning-analysis-error-bars", "control-step-size",
          "control-binning-converged"} |->
     CASE s = "light-jumps" -> "no-light-jumps"
       [] s = "binning-analysis-error-bars" -> "no-binning-analysis-error-bars"
       [] s = "control-step-size" -> "no-control-step-size"
       [] s = "control-binning-converged" -> "no-control-binning-converged"]

Switched(s, default) == (default \/ IsSet(s)) /\ ~IsSet(NoSwitch[s])

\* without error bars their convergence is not controlled, unless asked for
ControlConvergedAlways ==
  Switched("control-binning-converged", opt.control_binning_converged)

ControlConverged ==
  Switched("control-binning-converged",
           opt.control_binning_converged /\ ~IsSet("no-binning-analysis-error-bars"))

SetSwitches ==
  /\ phase = "switches"
  /\ IF \E s \in DOMAIN NoSwitch : IsSet(s) /\ IsSet(NoSwitch[s])
     THEN Exit(BadOptions) /\ UNCHANGED opt
     ELSE /\ opt' = [opt EXCEPT
               !.light_jumps = Switched("light-jumps", @),
               !.binning_analysis_error_bars = Switched("binning-analysis-error-bars", @),
               !.control_step_size = Switched("control-step-size", @),
               !.control_binning_converged = ControlConverged]
          /\ Goto("checks")
  /\ UNCHANGED <<inv, vm, log, data, clock, signal_handler>>

HistogramFromConfig == IsSet("write-histogram-from-config-file-name")

\* the histogram is given as <<min, max>>, perhaps with a number of bins, in
\* hundredths
CheckOptions ==
  LET val_hist == Value("value-hist", opt.val_hist)
      refused == HistogramFromConfig /\ (~IsGiven("config") \/ opt.write_histogram # "")
  IN  /\ phase = "checks"
      /\ CASE refused ->
                Exit(BadOptions) /\ UNCHANGED <<opt, log>>
           [] ~refused /\ opt.data_file_name = "" ->
                /\ LogsTo(In("parse_options()"), {Says(ERROR, "no data file specified")})
                /\ Exit("exit 3") /\ UNCHANGED opt
           [] ~refused /\ opt.data_file_name # "" /\ Len(val_hist) < 2 ->
                Exit(BadOptions) /\ UNCHANGED <<opt, log>>
           [] OTHER ->
                /\ opt' = [opt EXCEPT
                     !.write_histogram = IF HistogramFromConfig THEN "from config" ELSE @,
                     !.val_hist = IF Len(val_hist) = 2 THEN Append(val_hist, 100)
                                  ELSE val_hist]
                /\ LogsTo(In("parse_options()"),
                          When(IsGiven("value-hist"),
                               {Says(DEBUG, "histogram parameters parsed")}))
                /\ Goto("main")
      /\ UNCHANGED <<inv, vm, data, clock, signal_handler>>

-----------------------------------------------------------------------------
\* main(), up to the data

NiceMessage ==
  When(opt.nice_level # 0,
       {IF inv.nice_works THEN Says(DEBUG, "niced") ELSE Says(WARNING, "failed to nice")})

\* control of convergence without error bars is ignored
ConvergenceIgnored ==
  opt.control_binning_converged /\ ~opt.binning_analysis_error_bars

SamplesLastLevel == 128

NumLevels ==
  SanitizeBinningLevels(opt.binning_analysis_num_levels, opt.n_run, SamplesLastLevel)

PreliminaryChecks ==
  When(~StaticallyEnabledFor(ParentLogger(In("main()")), opt.loglevel),
       {Says(WARNING, "log level not compiled in")})
  \cup When(FewLevels(NumLevels), {Says(WARNING, "few binning levels")})
  \cup When(FewSamples(NumLevels, opt.n_run, SamplesLastLevel), {Says(WARNING, "few samples")})
  \cup {Says(DEBUG, "binning levels")}
  \cup When(ConvergenceIgnored, {Says(WARNING, "control of convergence ignored")})
  \cup When(opt.n_chunk # 1, {Says(WARNING, "obsolete option")})

\* display_parameters(), by then with the number of levels set
Displayed ==
  [light_jumps |-> opt.light_jumps, value_type |-> FigureText(opt.valtype),
   levels |-> IF opt.binning_analysis_error_bars THEN NumLevels ELSE 0,
   control_step_size |-> opt.control_step_size,
   control_converged |-> opt.control_binning_converged, val_hist |-> opt.val_hist]

Parameters == Info(<<"display_parameters()">>, <<"parameters", Displayed>>)

ShowParameters ==
  /\ phase = "main"
  /\ LET messages == {Says(INFO, "welcome"), Says(DEBUG, "features")}
                     \cup NiceMessage \cup PreliminaryChecks
     IN  Writes(Lines(In("main()"), messages)
                  \cup Log(ParentLogger(In("main()")), Parameters),
                messages \cup {Parameters})
  /\ UNCHANGED filelogger
  /\ opt' = [opt EXCEPT !.binning_analysis_num_levels = NumLevels]
  /\ Goto("open")
  /\ UNCHANGED <<inv, vm, data, clock, signal_handler>>

Has(name) == name \in DOMAIN inv.data

\* the file, the dimension, and the number of frequencies
OpenDataFile ==
  /\ phase = "open"
  /\ IF inv.data_opens /\ Has("dim") /\ CanReadReal(inv.data["dim"]) /\ Has("Nm")
     THEN LogsTo(In("main()"), {Says(DEBUG, "data file opened")}) /\ Goto("dispatch")
     ELSE LogsTo(In("main()"), {Says(ERROR, "failed to read data")}) /\ Exit("exit 1")
  /\ UNCHANGED <<inv, options, data, clock, signal_handler>>

-----------------------------------------------------------------------------
\* tomorun_dispatch()

Dim == RealValue(inv.data["dim"])

\* the size that the matrices have at compile time
FixedDim == IF Dim \in {2, 4} THEN Dim ELSE Dynamic

Effects == MatricesValue(inv.data["Emn"])

Frequency(k) == MatrixValue(inv.data["Nm"]).at[<<k - 1, 0>>][1]

CanReadData ==
  /\ Has("Emn") /\ CanReadMatrices(inv.data["Emn"], TRUE, FixedDim, FixedDim)
  /\ CanReadMatrix(inv.data["Nm"], FALSE, Dynamic, 1)

ValidInput ==
  /\ Len(Effects) = MatrixValue(inv.data["Nm"]).rows
  /\ Effects # <<>> => Effects[1].rows = Dim /\ Effects[1].cols = Dim

Indices == 0 .. Dim - 1

IsHermitian(E) ==
  \A i, j \in Indices : E.at[<<i, j>>][1] = E.at[<<j, i>>][1]
                        /\ E.at[<<i, j>>][2] = 0 - E.at[<<j, i>>][2]

\* by the minors up to two by two, which decide it for one qubit and for
\* diagonal matrices
IsPosSemidef(E) ==
  \A i, j \in Indices :
    /\ E.at[<<i, i>>][1] >= 0
    /\ i # j => LET e == E.at[<<i, j>>]
                IN  e[1] * e[1] + e[2] * e[2] <= E.at[<<i, i>>][1] * E.at[<<j, j>>][1]

IsZero(E) == \A i, j \in Indices : E.at[<<i, j>>] = <<0, 0>>

CheckEffect(E) == IsHermitian(E) /\ IsPosSemidef(E) /\ ~IsZero(E)

\* effects that were never observed are left out, unchecked
Observed == {k \in DOMAIN Effects : Frequency(k) # 0}

MeasurementData ==
  FoldLeft(LAMBDA meas, k : IF Frequency(k) = 0 THEN meas
                            ELSE Append(meas, [E |-> Effects[k], n |-> Frequency(k)]),
           <<>>, [k \in DOMAIN Effects |-> k])

\* the figures of merit: a reference state, or an observable, is read; no variable
\* has a name with a colon
CanReadRefState(ref) ==
  LET name == IF ref = NoName THEN <<"rho_ref">> ELSE ref
  IN  Len(name) = 1 /\ Has(name[1]) /\ CanReadPosSemidef(inv.data[name[1]], FixedDim, FixedDim)

CanReadObservable(ref) ==
  LET name == IF ref = NoName THEN <<"Observable">> ELSE ref
  IN  Len(name) = 1 /\ Has(name[1]) /\ CanReadMatrix(inv.data[name[1]], TRUE, FixedDim, FixedDim)

CanCreateValueCalculator ==
  IF Figures[opt.valtype.valtype] = "obs-value"
  THEN CanReadObservable(opt.valtype.ref_obj_name)
  ELSE CanReadRefState(opt.valtype.ref_obj_name)

DataRead ==
  /\ CanReadData /\ ValidInput
  /\ \A k \in Observed : CheckEffect(Effects[k])

\* an assertion fails, in a build with assertions
AssertionFails ==
  /\ CanReadData /\ ValidInput
  /\ \E k \in Observed : /\ Frequency(k) < 0
                         /\ \A j \in Observed : j < k => CheckEffect(Effects[j])

\* Exceptions are reported, and thrown on out of main().  References that are not
\* Dim x Dim, which assertions catch, do not come up.
Abort(messages, what) ==
  /\ Writes(Lines(In("tomorun_dispatch()"), messages) \cup Log(In("main()"), Says(ERROR, what)),
            messages \cup {Says(ERROR, what)})
  /\ UNCHANGED filelogger
  /\ Exit("abort")

\* the variant of tomorun() among those compiled in
Variant ==
  [light_jumps |-> opt.light_jumps, value_type |-> FigureText(opt.valtype),
   levels |-> IF opt.binning_analysis_error_bars THEN opt.binning_analysis_num_levels ELSE 0,
   control_step_size |-> opt.control_step_size,
   control_converged |-> opt.binning_analysis_error_bars /\ opt.control_binning_converged,
   val_hist |-> opt.val_hist]

Dispatch ==
  LET preparing == {Says(DEBUG, "preparing to dispatch")}
      reading == preparing \cup When(DataRead, {Says(DEBUG, "data read"),
                                               Says(DEBUG, "value calculator")})
  IN  /\ phase = "dispatch"
      /\ \/ /\ DataRead /\ CanCreateValueCalculator
            /\ llh' = MeasurementData
            /\ used' = Variant
            /\ LogsTo(In("tomorun_dispatch()"), reading)
            /\ Goto("tomorun") /\ UNCHANGED csv
         \/ /\ ~(DataRead /\ CanCreateValueCalculator)
            /\ Abort(reading, "exception") /\ UNCHANGED data
         \/ /\ AssertionFails
            /\ LogsTo(In("tomorun_dispatch()"), preparing)
            /\ Exit("abort") /\ UNCHANGED data
      /\ UNCHANGED <<inv, options, clock, signal_handler>>

-----------------------------------------------------------------------------
\* tomorun()

\* makeSigHandlerTaskDispatcherStatusReporter() and installSignalHandler()
InstallStatusReporter == user_fn' = TRUE /\ signal_handler' = "status reporter"

\* the seed, the dispatcher, the handler of signals and the periodic reports
SetUpRun ==
  /\ phase = "tomorun"
  /\ InstallStatusReporter
  /\ periodic' = (opt.periodic_status_report_ms > 0)
  /\ LogsTo(ParentLogger(In("tomorun()")),
            {Debug(<<"tomorun()">>, <<"base seed">>),
             Debug(<<"status reporter">>, <<"setting up signal handler">>),
             Debug(<<"run()">>, <<"preparing for sequential runs">>)})
  /\ Goto("run")
  /\ UNCHANGED <<inv, options, data, clock, task_k, results, flags, pc, outcome>>

\* what the walks log is left out
RunTasks ==
  /\ phase = "run"
  /\ Advance \/ FinishTask
  /\ LogsTo(BaseLogger,
       When(pc = "next" /\ pc' = "setup", {Debug(<<"run()">>, <<"running task", task_k>>)})
       \cup When(results' # results, {Longdebug(<<"run()">>, <<"collecting result">>)})
       \cup When(outcome' = "ok", {Debug(<<"run()">>, <<"all done">>)}))
  /\ UNCHANGED <<inv, progress, options, data, clock, signal_handler>>

ReportIntervalElapses ==
  /\ phase = "run" /\ periodic
  /\ IntervalElapses
  /\ UNCHANGED program

\* The report and the histogram file follow.  When tomorun() has returned the
\* pointer to its signal handler is left behind.
FinishRun ==
  /\ phase = "run" /\ outcome # "none"
  /\ IF outcome = "ok"
     THEN /\ csv' = IF opt.write_histogram = "" THEN "none"
                    ELSE IF inv.csv_opens THEN "written" ELSE "not written"
          /\ LogsTo(In("tomorun()"),
               {Says(DEBUG, "random walks done"), Says(INFO, "final report"),
                Says(INFO, "computation time")}
               \cup When(opt.write_histogram # "", {Says(INFO, "wrote histogram")}))
          /\ Goto("return")
     ELSE Abort({}, "exception") /\ UNCHANGED csv
  /\ signal_handler' = "gone"
  /\ UNCHANGED <<inv, options, llh, used, clock, vars>>

Return ==
  /\ phase = "return"
  /\ LogsTo(In("main()"), {Says(DEBUG, "freeing input file resource")})
  /\ Exit("exit 0")
  /\ UNCHANGED <<inv, options, data, clock, signal_handler>>

-----------------------------------------------------------------------------
\* Ctrl+C

Seconds(t) == t \div 2

RepeatedInclusive == Seconds(now) - Seconds(last_sig_hit_time) <= RepeatExitDelay

\* signal_dispatch_fn() has the time in whole seconds
Repeated == Seconds(now) - Seconds(last_sig_hit_time) < RepeatExitDelay

\* after the run no task looks at the request any more
HandleSignal == RequestStatusReport \/ (outcome # "none" /\ UNCHANGED vars)

\* Without a handler the program is killed.  A handler that is gone is called
\* all the same, and may do anything.
Hit ==
  /\ exit_status = "none" /\ Len(hit_times) < inv.max_hits
  /\ hit_times' = Append(hit_times, now)
  /\ CASE signal_handler = "default" ->
            Exit("killed") /\ UNCHANGED <<last_sig_hit_time, vars>>
       [] signal_handler # "default" /\ Repeated ->
            Exit("repeated signal") /\ UNCHANGED <<last_sig_hit_time, vars>>
       [] OTHER ->
            /\ last_sig_hit_time' = now
            /\ IF signal_handler = "gone"
               THEN (UNCHANGED progress \/ Exit("undefined")) /\ UNCHANGED vars
               ELSE UNCHANGED progress /\ HandleSignal
  /\ UNCHANGED <<inv, options, log, data, now, signal_handler>>

Tick ==
  /\ exit_status = "none"
  /\ Len(hit_times) \in 1 .. inv.max_hits - 1
  /\ now < MaxTicks
  /\ now' = now + 1
  /\ UNCHANGED <<inv, progress, options, log, data, hit_times, last_sig_hit_time,
                 signal_handler, vars>>

-----------------------------------------------------------------------------
UsedDirectly ==
  /\ phase = "library"
  /\ Advance \/ FinishTask \/ Environment
  /\ UNCHANGED program

Main ==
  /\ \/ StoreOptions \/ SetUpLogging \/ SetSwitches \/ CheckOptions
     \/ ShowParameters \/ OpenDataFile \/ Dispatch
     \/ Return
  /\ UNCHANGED vars

Over ==
  /\ \/ phase = "over"
     \/ phase = "library" /\ outcome # "none"
  /\ UNCHANGED tomorun_vars

TomorunNext ==
  \/ Main \/ SetUpRun \/ RunTasks \/ FinishRun \/ UsedDirectly
  \/ ReportIntervalElapses \/ Hit \/ Tick
  \/ Over

\* run() goes on, and a task keeps polling; it need not end
RunGoesOn ==
  /\ phase \in {"run", "library"}
  /\ Advance
  /\ UNCHANGED <<inv, progress, options, data, clock, signal_handler>>

TomorunSpec ==
  /\ TomorunInit /\ [][TomorunNext]_tomorun_vars
  /\ WF_tomorun_vars(RunGoesOn /\ TomorunNext)

-----------------------------------------------------------------------------
\* What tomorun promises

\* what is asked for: the command line comes before the file
Asked(name, default) ==
  IF name \in DOMAIN inv.cmd THEN inv.cmd[name]
  ELSE IF "config" \in DOMAIN inv.cmd /\ name \in DOMAIN inv.config
       THEN inv.config[name] ELSE default

\* Effects and frequencies are counted in the order of the file, whatever the number
\* of dimensions of either.
DataOf(Emn, Nm, meas) ==
  LET outer == SubSeq(Emn.dims, 3, Len(Emn.dims))
      n(k) == Nm.data[k - 1][1]
      observed == {k \in 1 .. NumEl(Nm.dims) : n(k) # 0}
      rank(k) == Cardinality({j \in observed : j <= k})
  IN  /\ Len(meas) = Cardinality(observed)
      /\ \A index \in Subscripts(Emn.dims) :
           LET k == 1 + LinearIndex(outer, SubSeq(index, 3, Len(index)))
           IN  k \in observed =>
                 /\ meas[rank(k)].n = n(k)
                 /\ meas[rank(k)].E.at[<<index[1], index[2]>>] = Element(Emn, index)

\* The measurement data that the walks use are those of the file.  The effects
\* observed are taken in order, each with its own frequency and with every one
\* of its elements in place.
DataAsGiven == llh # None => DataOf(inv.data["Emn"], inv.data["Nm"], llh)

\* where messages of a level should be
Redirection == Asked("log", "-") # "-" \/ Asked("log-from-config-file-name", FALSE)

Destination == IF Redirection THEN "logfile" ELSE "stdout"

DueTo(m) ==
  IF m.level > Asked("verbose", INFO) \/ m.level > inv.max_log_level THEN {}
  ELSE {Destination} \cup IF Redirection /\ m.level <= WARNING THEN {"stderr"} ELSE {}

Shows(w, m) == w.line.level = m.level /\ w.line.what = m.what

\* Every message up to the verbosity asked for, and to the maximum compiled in,
\* is in the log, and no other message is.  Errors and warnings that go into a
\* file are shown on the terminal too.
MessagesReachTheLog ==
  \A m \in issued : {w.stream : w \in {w \in written : Shows(w, m)}} = DueTo(m)

\* what the switches ask for; who asks for no error bars gets no control of them
\* either, unless it is asked for
AskedOn(s) == Asked(s, FALSE)
AskedOff(s) == Asked(NoSwitch[s], FALSE)

ErrorBarsAsked == ~AskedOff("binning-analysis-error-bars")

ControlConvergedAsked ==
  /\ ~AskedOff("control-binning-converged")
  /\ ErrorBarsAsked \/ AskedOn("control-binning-converged")

\* a colon without a name after it changes nothing
FigureAsked ==
  LET text == Asked("value-type", <<"fidelity">>)
  IN  IF text = <<text[1], Blank>> THEN <<text[1]>> ELSE text

DisplayAsked(levels, val_hist) ==
  [light_jumps |-> AskedOn("light-jumps"), value_type |-> FigureAsked, levels |-> levels,
   control_step_size |-> ~AskedOff("control-step-size"),
   control_converged |-> ControlConvergedAsked, val_hist |-> val_hist]

IsDisplayed(parameters) ==
  Info(<<"display_parameters()">>, <<"parameters", parameters>>) \in issued

\* The variant of the program that runs, among those compiled in, is the one that
\* the switches ask for, and that was displayed to the user; if convergence is
\* displayed as controlled, and is not, there has been a warning.  Unless asked for
\* otherwise the binning analysis has as many levels as leave enough samples at the
\* last one, and if there are too few there has been a warning.
RunsAsAsked ==
  used # None =>
    LET n_run == Asked("n-run", Defaults.n_run)
        levels == used.levels
        displayed == DisplayAsked(levels, used.val_hist)
        ignored == ControlConvergedAsked /\ ~ErrorBarsAsked
    IN  /\ IsDisplayed(displayed)
        /\ used = [displayed EXCEPT !.control_converged = ControlConvergedAsked /\ ErrorBarsAsked]
        /\ Says(WARNING, "control of convergence ignored") \in issued <=> ignored
        /\ IF ~ErrorBarsAsked THEN levels = 0
           ELSE IF Asked("binning-analysis-num-levels", -1) > 0
           THEN levels = Asked("binning-analysis-num-levels", -1)
           ELSE \/ levels = 1 /\ n_run < 4 * SamplesLastLevel
                \/ n_run \div 2 ^ levels \in SamplesLastLevel .. 2 * SamplesLastLevel - 1
        /\ ErrorBarsAsked /\ (n_run \div 2 ^ levels < SamplesLastLevel) =>
             Says(WARNING, "few samples") \in issued

\* Ctrl+C ends the program that handles it only if it is hit twice within two
\* seconds.
LoneSignalHarmless ==
  exit_status = "repeated signal" =>
    LET n == Len(hit_times)
    IN  n >= 2 /\ hit_times[n] - hit_times[n - 1] < 2 * RepeatExitDelay

\* What is asked of a run that goes on is done although no task ends by itself: an
\* interrupt stops it; and a request for a report, by Ctrl+C or else, has the handler
\* called after it, unless the run or the program ends.  Not so a request made while
\* the handler runs: submitStatusReport() takes the flag down when the handler returns,
\* and with it the request, as RequestNoticed in MCSequentialDispatcher shows.
RequestsServed ==
  /\ InterruptStops
  /\ status_report_requested /\ pc # "callback" ~>
       pc = "callback" \/ outcome # "none" \/ exit_status # "none"

-----------------------------------------------------------------------------
\* The inductive invariants, in parts.

\* the last hit that was handled is remembered
HitsInOrder ==
  /\ inv \in Invocations
  /\ now \in Nat /\ hit_times \in Seq(Nat)
  /\ IF hit_times = <<>> THEN now \in {0, 1} /\ last_sig_hit_time = -100
     ELSE exit_status = "none" => last_sig_hit_time = hit_times[Len(hit_times)]
  /\ LoneSignalHarmless

\* the options that logging depends on, before it is set up and after
LogSetUp ==
  /\ phase = "start" => opt = Defaults
  /\ phase = "logging" =>
       /\ Value("log", "-") = Asked("log", "-")
       /\ IsSet("log-from-config-file-name") = Asked("log-from-config-file-name", FALSE)
       /\ opt.loglevel = Asked("verbose", INFO)
  /\ phase \notin {"start", "logging", "library", "over"} =>
       filelogger = FileLogger(Destination, Asked("verbose", INFO), filelogger.display_origin)

IsMessage(m) == m = Message(m.level, m.origin, m.what) /\ m.level \in LogLevels

LogSound ==
  /\ \A m \in issued : IsMessage(m)
  /\ \A w \in written : \E m \in issued : Shows(w, m) /\ w.stream \in DueTo(m)
  /\ \A m \in issued : \A s \in DueTo(m) : \E w \in written : Shows(w, m) /\ w.stream = s

LogInv ==
  /\ inv \in Invocations
  /\ LogSetUp
  /\ LogSound

\* What is chosen, and shown to the user, on the way to the run.
BeforeSwitches == {"logging", "switches"}
BeforeDisplay == BeforeSwitches \cup {"checks", "main"}
AfterDisplay == {"open", "dispatch", "tomorun", "run", "return"}

ChosenOptions ==
  {"light_jumps", "binning_analysis_error_bars", "control_step_size",
   "control_binning_converged", "n_run", "binning_analysis_num_levels", "valtype"}

SwitchesAtDefault ==
  /\ opt.light_jumps = FALSE /\ opt.binning_analysis_error_bars = TRUE
  /\ opt.control_step_size = TRUE /\ opt.control_binning_converged = TRUE

SwitchesAsAsked ==
  /\ opt.light_jumps = AskedOn("light-jumps")
  /\ opt.binning_analysis_error_bars = ErrorBarsAsked
  /\ opt.control_step_size = ~AskedOff("control-step-size")
  /\ opt.control_binning_converged = ControlConvergedAsked

ValuesAsAsked ==
  LET text == Asked("value-type", <<"fidelity">>)
  IN  /\ opt.n_run = Asked("n-run", Defaults.n_run)
      /\ opt.valtype = FigureOfMeritSpec(text) /\ Head(text) \in Range(Figures)

LevelsAsked ==
  SanitizeBinningLevels(Asked("binning-analysis-num-levels", -1),
                        Asked("n-run", Defaults.n_run), SamplesLastLevel)

WarnedAsDue ==
  /\ Says(WARNING, "control of convergence ignored") \in issued
       <=> ControlConvergedAsked /\ ~ErrorBarsAsked
  /\ FewSamples(LevelsAsked, Asked("n-run", Defaults.n_run), SamplesLastLevel) =>
       Says(WARNING, "few samples") \in issued

ChoiceInv ==
  /\ inv \in Invocations /\ ChosenOptions \subseteq DOMAIN opt
  /\ phase = "start" => opt = Defaults
  /\ phase \in BeforeSwitches =>
       /\ SwitchesAtDefault
       /\ \A s \in Switches : IsSet(s) = Asked(s, FALSE)
  /\ phase \in BeforeDisplay =>
       opt.binning_analysis_num_levels = Asked("binning-analysis-num-levels", -1)
  /\ phase \in BeforeDisplay \cup AfterDisplay => ValuesAsAsked
  /\ phase \in {"checks", "main"} \cup AfterDisplay => SwitchesAsAsked
  /\ phase \in {"start"} \cup BeforeDisplay => \A m \in issued : m.level # WARNING
  /\ phase \in AfterDisplay =>
       /\ opt.binning_analysis_num_levels = LevelsAsked
       /\ IsDisplayed(DisplayAsked(IF ErrorBarsAsked THEN LevelsAsked ELSE 0, opt.val_hist))
       /\ WarnedAsDue
  /\ RunsAsAsked /\ (used # None => phase \in AfterDisplay \cup {"over"})

\* The frequencies are known to be in the file when it is read.
DataInv ==
  /\ inv \in Invocations
  /\ phase = "dispatch" => Has("Nm")
  /\ DataAsGiven

=============================================================================
