---------------------------- MODULE LoggerChains ----------------------------
(***************************************************************************)
(* A program that builds up a logger layer by layer, takes layers away     *)
(* again, and changes their settings meanwhile; it may log through any of  *)
(* them at any time, which changes nothing.                                *)
(* Loggers refer to the ones below, so that settings take effect at once;  *)
(* but for the loggers of threads, which keep the level they were made     *)
(* with.  At the end of the chain there may be Python's logging, which has *)
(* a level of its own.                                                     *)
(***************************************************************************)
EXTENDS Loggers

CONSTANTS
  Sinks,          \* the loggers at the end that are followed, but for PyLogger
  OriginSpecs,    \* for local loggers
  Origins,       \* for loggers that prefix, and for rules of filters
  Levels,         \* levels that are set, and logged at
  PythonLevels,   \* levels that Python's logger is set to
  MaxLayers       \* bound: layers at a time

\* loggers that write, and those above them
IsSink(layer) ==
  \/ layer.kind = "file" /\ layer = FileLogger(layer.fp, layer.level, layer.display_origin)
  \/ layer.kind = "buffer" /\ layer = BufferLogger(layer.level)
  \/ layer.kind = "vacuum" /\ layer = VacuumLogger
  \/ layer.kind = "python" /\ layer = PyLogger(layer.level)

IsLayer(layer) ==
  \/ /\ layer.kind = "local"
     /\ layer.origin_prefix \in Seq(Range(Pieces)) /\ layer.glue \in Range(Pieces)
  \/ layer.kind = "prefixed" /\ layer.prefix \in Seq(Range(Pieces))
  \/ layer.kind \in {"minimum severity", "filtered", "frozen"}

ASSUME ChainsAssumption ==
  /\ \A sink \in Sinks : IsSink(sink) /\ sink.kind # "python"
  /\ Origins \subseteq Seq(Range(Pieces))
  /\ \A spec \in OriginSpecs : IsLayer(LocalLogger(spec))
  /\ Levels \subseteq LogLevels /\ PythonLevels \subseteq Int

VARIABLES
  logger,         \* the chain, from the top
  python_level,   \* the effective level of Python's logger
  in_step,        \* history: the level of PyLogger was set from python_level
  shown           \* what the last operation wrote

logger_vars == <<logger, python_level, in_step, shown>>

Nothing == <<>>

HasSink(kinds) == Last(logger).kind \in kinds

\* Python's levels for ERROR, WARNING, INFO, DEBUG, LONGDEBUG
ToPythonLevel(level) ==
  CASE level = ERROR -> 40 [] level = WARNING -> 30 [] level = INFO -> 20
    [] level = DEBUG -> 10 [] OTHER -> 1

FromPythonLevelByName(pylvl) ==
  CASE pylvl < 20 -> DEBUG [] pylvl \in 20 .. 29 -> INFO
    [] pylvl \in 30 .. 39 -> WARNING [] OTHER -> ERROR

FromPythonLevel(pylvl) ==
  CASE pylvl < 10 -> LONGDEBUG [] pylvl \in 10 .. 19 -> DEBUG
    [] pylvl \in 20 .. 29 -> INFO [] pylvl \in 30 .. 39 -> WARNING [] OTHER -> ERROR

-----------------------------------------------------------------------------
\* setLevel() of PyLogger warns if Python is not going to show LONGDEBUG messages
SetPyLoggerLevel(sink, level) ==
  LET set == [sink EXCEPT !.level = level]
  IN  /\ logger' = Front(logger) \o <<set>>
      /\ in_step' = (level = FromPythonLevel(python_level))
      /\ shown' = IF level = LONGDEBUG /\ FromPythonLevel(python_level) # LONGDEBUG
                  THEN Log(<<set>>, Warning(<<"PyLogger::setLevel">>, <<"level not displayed">>))
                  ELSE {}

\* any logger at the end; PyLogger as initPythonLogger() leaves it
LoggersInit ==
  /\ python_level \in PythonLevels
  /\ \/ \E sink \in Sinks : logger = <<sink>>
     \/ logger = <<PyLogger(FromPythonLevel(python_level))>>
  /\ in_step = HasSink({"python"})
  /\ shown = IF in_step
             THEN Log(logger, Debug(<<"PyLogger::initPythonLogger">>, <<"initialized">>))
             ELSE {}

\* a local logger logs its beginning and its end
Bracket(chain, what) == Log(chain, Says(LONGDEBUG, what))

Put(layer) ==
  /\ Len(logger) < MaxLayers
  /\ logger' = <<layer>> \o logger
  /\ shown' = IF layer.kind = "local" THEN Bracket(logger', "[begin]") ELSE {}
  /\ UNCHANGED <<python_level, in_step>>

AddLayer ==
  \/ \E spec \in OriginSpecs : Put(LocalLogger(spec))
  \/ \E prefix \in Origins : Put(OriginPrefixedLogger(prefix))
  \/ \E level \in Levels : Put(MinimumSeverityLogger(level))
  \/ Put(OriginFilteredLogger(Nothing))
  \/ Put(FrozenLogger(logger))

DropLayer ==
  /\ Len(logger) > 1
  /\ logger' = Tail(logger)
  /\ shown' = IF logger[1].kind = "local" THEN Bracket(logger, "[done]") ELSE {}
  /\ UNCHANGED <<python_level, in_step>>

\* a setting of layer i becomes what it is in `layer'
Settle(i, layer) ==
  /\ logger' = [logger EXCEPT ![i] = layer]
  /\ UNCHANGED <<python_level, in_step>>

SetLevel ==
  /\ HasSink({"file", "buffer"})
  /\ \E level \in Levels : Settle(Len(logger), [Last(logger) EXCEPT !.level = level])
  /\ shown' = {}

\* setFp() and setDisplayOrigin()
SetOutput ==
  /\ HasSink({"file"})
  /\ \E fp \in {"stdout", "logfile"}, display_origin \in BOOLEAN :
       Settle(Len(logger), FileLogger(fp, Last(logger).level, display_origin))
  /\ shown' = {}

\* the property `level' of cxxlogger
SetLevelFromPython ==
  /\ HasSink({"python"})
  /\ \E newlevel \in PythonLevels : SetPyLoggerLevel(Last(logger), FromPythonLevel(newlevel))
  /\ UNCHANGED python_level

\* Python's logger is set, of which PyLogger hears nothing
SetPythonLevel ==
  /\ HasSink({"python"})
  /\ python_level' \in PythonLevels
  /\ in_step' = FALSE
  /\ shown' = {}
  /\ UNCHANGED logger

SetPrefix(i) ==
  /\ logger[i].kind = "prefixed"
  /\ \E prefix \in Origins : Settle(i, OriginPrefixedLogger(prefix))
  /\ shown' = {}

SetDomainLevel(i) ==
  /\ logger[i].kind = "filtered"
  /\ \E pattern \in Origins, level \in Levels :
       Settle(i, OriginFilteredLogger((pattern :> level) @@ logger[i].levels_set))
  /\ shown' = {}

\* warns if there is no such rule
RemoveDomainSetting(i) ==
  /\ logger[i].kind = "filtered"
  /\ \E pattern \in Origins :
       LET set == logger[i].levels_set
           chain == SubSeq(logger, i, Len(logger))
       IN  /\ Settle(i, OriginFilteredLogger([p \in DOMAIN set \ {pattern} |-> set[p]]))
           /\ shown' = IF pattern \in DOMAIN set THEN {}
                       ELSE Log(chain, Warning(<<"removeDomainSetting">>, <<"domain not set">>))

LoggersNext ==
  \/ AddLayer \/ DropLayer \/ SetLevel \/ SetOutput \/ SetLevelFromPython \/ SetPythonLevel
  \/ \E i \in DOMAIN logger :
       SetPrefix(i) \/ SetDomainLevel(i) \/ RemoveDomainSetting(i)

LoggersSpec == LoggersInit /\ [][LoggersNext]_logger_vars

-----------------------------------------------------------------------------
\* what may be logged
Messages == [level : Levels, origin : Origins \cup {<<>>}, what : {<<"hello">>}]

\* Local loggers only spare the origin: what is logged through one is treated as
\* if it had been logged through the logger below with the full origin, whatever
\* lies below and however it has been set since, filters by origin included.
LocalLoggersTransparent ==
  \A i \in DOMAIN logger, m \in Messages :
    LET chain == SubSeq(logger, i, Len(logger))
        full == logger[i].origin_prefix
                \o IF m.origin = <<>> THEN <<>> ELSE <<logger[i].glue>> \o m.origin
    IN  logger[i].kind = "local" =>
          Log(chain, m) = Log(Tail(chain), [m EXCEPT !.origin = full])

\* As long as the level of PyLogger follows Python's, no message is held back
\* that Python would show.
PythonShowsAll ==
  /\ in_step
  /\ \A layer \in Range(Front(logger)) : layer.kind \in {"local", "prefixed"}
  => \A m \in Messages : ToPythonLevel(m.level) >= python_level => Log(logger, m) # {}

\* What is logged comes through, whatever layers are put on top, as at the end of
\* the chain.
MessagesComeThrough == LocalLoggersTransparent /\ PythonShowsAll

-----------------------------------------------------------------------------
\* The inductive invariant: loggers above one that writes, and the level of PyLogger
\* if it is in step.
IsChain(chain) ==
  /\ chain \in Seq(Range(chain)) /\ chain # <<>>
  /\ IsSink(chain[Len(chain)])
  /\ \A i \in 1 .. Len(chain) - 1 : IsLayer(chain[i])

ChainInv ==
  /\ IsChain(logger) /\ python_level \in Int
  /\ in_step => logger[Len(logger)] = PyLogger(FromPythonLevel(python_level))

=============================================================================
