------------------------------- MODULE Loggers -------------------------------
(***************************************************************************)
(* Loggers, of tools/loggers.h, the threads' loggers of the dispatchers    *)
(* and the loggers of the Python module.  A logger is a chain of layers,   *)
(* from the one that is called to the one that writes.  The layer that is  *)
(* called decides whether a message is emitted; from there on it is only   *)
(* passed down.  A faulty twin of an operator stands just before it.       *)
(***************************************************************************)
EXTENDS Integers, Sequences, SequencesExt, FiniteSetsExt

CONSTANT
  Pieces     \* the parts of which origins consist, in lexicographic order

\* severities: the smaller, the more severe
ERROR == 0
WARNING == 1
INFO == 2
DEBUG == 3
LONGDEBUG == 4
LOWEST_SEVERITY_LEVEL == 2147483647

\* what a LogLevel may be set to
LogLevels == ERROR .. LONGDEBUG

IsAtLeastOfSeverity(level, baselevel) == level <= baselevel

-----------------------------------------------------------------------------
\* Layers

FileLogger(fp, level, display_origin) ==
  [kind |-> "file", fp |-> fp, level |-> level, display_origin |-> display_origin]

BufferLogger(level) == [kind |-> "buffer", level |-> level]

VacuumLogger == [kind |-> "vacuum", level |-> INFO]

\* PyLogger hands messages to Python's logging
PyLogger(level) == [kind |-> "python", level |-> level]

MinimumSeverityLogger(level) == [kind |-> "minimum severity", level |-> level]

OriginPrefixedLogger(prefix) == [kind |-> "prefixed", prefix |-> prefix]

\* levels_set maps the beginnings of origins to levels
OriginFilteredLogger(levels_set) == [kind |-> "filtered", levels_set |-> levels_set]

\* TOMO_ORIGIN, from the name of a function with its scopes
TomoOrigin(scopes) ==
  IF Len(scopes) > 1 /\ Last(Front(scopes)) = Last(scopes)
  THEN [origin_prefix |-> <<Last(scopes)>>, glue |-> "::"]
  ELSE [origin_prefix |-> <<Last(scopes), "()">>, glue |-> "/"]

\* a function that is named in words
Named(function) == [origin_prefix |-> <<function>>, glue |-> "::"]

LocalLogger(spec) ==
  [kind |-> "local", origin_prefix |-> spec.origin_prefix, glue |-> spec.glue]

-----------------------------------------------------------------------------
\* Chains

\* the part of a chain from its first layer of one of some kinds
From(logger, kinds) ==
  LET found == {i \in DOMAIN logger : logger[i].kind \in kinds}
  IN  IF found = {} THEN <<>> ELSE SubSeq(logger, Min(found), Len(logger))

\* level(): a layer without a level of its own asks the next one
Level(logger) ==
  LET own == From(logger, {"file", "buffer", "vacuum", "python", "frozen", "filtered"})[1]
  IN  IF own.kind = "filtered" THEN LOWEST_SEVERITY_LEVEL ELSE own.level

\* ThreadSanitizerLogger and GilProtectedPyLogger keep the level of the moment
FrozenLogger(base) == [kind |-> "frozen", level |-> Level(base)]

\* the traits of a layer are those of the next one, but for the maximum set
StaticMinimumSeverityLevel(logger) ==
  LET limited == From(logger, {"minimum severity", "vacuum"})
  IN  IF limited = <<>> THEN LOWEST_SEVERITY_LEVEL
      ELSE IF limited[1].kind = "vacuum" THEN -1 ELSE limited[1].level

StaticallyEnabledFor(logger, level) ==
  IsAtLeastOfSeverity(level, StaticMinimumSeverityLevel(logger))

EnabledForAtRunTime(logger, level) == IsAtLeastOfSeverity(level, Level(logger))

EnabledFor(logger, level) ==
  /\ StaticallyEnabledFor(logger, level)
  /\ IsAtLeastOfSeverity(level, Level(logger))

\* parentLogger(): below the local loggers on top of each other
ParentLogger(logger) ==
  LET others == {i \in DOMAIN logger : logger[i].kind # "local"}
  IN  SubSeq(logger, Min(others), Len(logger))

-----------------------------------------------------------------------------
\* Origins, which are sequences of pieces

GetSubOrigin(layer, origin) ==
  IF origin = <<>> THEN layer.origin_prefix
  ELSE layer.origin_prefix \o <<layer.glue>> \o origin

\* what a layer passes down as the origin of a message
OriginBelow(layer, origin) ==
  CASE layer.kind = "local" -> GetSubOrigin(layer, origin)
    [] layer.kind = "prefixed" -> layer.prefix \o origin
    [] OTHER -> origin

OriginTestedAsGiven(layer, origin) == origin

\* what it passes down for the filter to look at
OriginTested(layer, origin) ==
  IF layer.kind = "local" THEN GetSubOrigin(layer, origin) ELSE origin

\* the origins of messages at the end of a chain, and at a filter below some layers
OriginAtEnd(logger, origin) ==
  FoldLeft(LAMBDA o, layer : OriginBelow(layer, o), origin, logger)

OriginAtFilter(above, origin) ==
  FoldLeft(LAMBDA o, layer : OriginTested(layer, o), origin, above)

\* the order of std::map
Before(s, t) ==
  LET common == Len(LongestCommonPrefix({s, t}))
      rank(piece) == SelectInSeq(Pieces, LAMBDA p : p = piece)
  IN  IF common = Len(s) THEN s # t
      ELSE common < Len(t) /\ rank(s[common + 1]) < rank(t[common + 1])

\* of two equal strings it also compares what follows their ends
MatchedLength(s, pattern) ==
  IF s = pattern THEN Len(s) + 1 ELSE Len(LongestCommonPrefix({s, pattern}))

\* the first of the rules that match longest, if any matches at all
LevelByRules(levels_set, origin, level) ==
  LET length(p) == MatchedLength(p, origin)
      best == {p \in DOMAIN levels_set :
                 /\ length(p) > 0
                 /\ \A q \in DOMAIN levels_set \ {p} :
                      length(q) < length(p) \/ (length(q) = length(p) /\ Before(p, q))}
  IN  IF best = {} THEN level ELSE levels_set[CHOOSE p \in best : TRUE]

\* filterByOrigin() of the first filter, where there is one
FilterByOrigin(logger, level, origin) ==
  LET filter == From(logger, {"filtered"})
      above == SubSeq(logger, 1, Len(logger) - Len(filter))
  IN  filter # <<>> =>
        IsAtLeastOfSeverity(level,
          LevelByRules(filter[1].levels_set,
                       OriginAtFilter(above, origin), Level(Tail(filter))))

-----------------------------------------------------------------------------
\* Messages

Message(level, origin, what) == [level |-> level, origin |-> origin, what |-> what]

\* the calls for each level
Error(origin, what) == Message(ERROR, origin, what)
Warning(origin, what) == Message(WARNING, origin, what)
Info(origin, what) == Message(INFO, origin, what)
Debug(origin, what) == Message(DEBUG, origin, what)
Longdebug(origin, what) == Message(LONGDEBUG, origin, what)

\* and those of local loggers, whose origin is their own
Says(level, what) == Message(level, <<>>, <<what>>)

\* emitLog() of the last layer: what it writes, and where
EmitLog(sink, m) ==
  LET line == [level |-> m.level, what |-> m.what,
               origin |-> IF sink.kind = "file" /\ ~sink.display_origin THEN <<>> ELSE m.origin]
      stream == IF sink.kind = "file" THEN sink.fp ELSE sink.kind
  IN  CASE sink.kind = "vacuum" -> {}
        [] /\ sink.kind = "file" /\ sink.fp \notin {"stdout", "stderr"}
           /\ IsAtLeastOfSeverity(m.level, WARNING) ->
             {[stream |-> s, line |-> line] : s \in {stream, "stderr"}}
        [] OTHER -> {[stream |-> stream, line |-> line]}

\* emitLog() of the layers above it
Emitted(logger, m) ==
  EmitLog(Last(logger), [m EXCEPT !.origin = OriginAtEnd(logger, @)])

ShouldEmit(logger, m) ==
  EnabledFor(logger, m.level) /\ FilterByOrigin(logger, m.level, m.origin)

\* _do_log()
Log(logger, m) == IF ShouldEmit(logger, m) THEN Emitted(logger, m) ELSE {}

=============================================================================
