----------------------------- MODULE MCTomorun -----------------------------
(***************************************************************************)
(* The invocations for which Tomorun is checked; and, besides them, other  *)
(* programs, that build up chains of loggers, or read data files.          *)
(***************************************************************************)
EXTENDS Tomorun, LoggerChains, MatVariables

\* elements are given as whole numbers, or as pairs
Var(dims, type, elements) ==
  [dims |-> dims, data_type |-> type, is_complex |-> FALSE,
   data |-> [i \in 0 .. Len(elements) - 1 |-> <<elements[i + 1], 0>>]]

ComplexVar(dims, elements) ==
  [dims |-> dims, data_type |-> "double", is_complex |-> TRUE,
   data |-> [i \in 0 .. Len(elements) - 1 |-> elements[i + 1]]]

Number(n) == Var(<<1, 1>>, "double", <<n>>)

Column(elements) == Var(<<Len(elements), 1>>, "int32", elements)

\* effects of a qubit, by columns
Up == <<<<4, 0>>, <<0, 0>>, <<0, 0>>, <<0, 0>>>>
Mixed == <<<<3, 0>>, <<1, 1>>, <<1, -1>>, <<2, 0>>>>
Tilted == <<<<5, 0>>, <<0, -2>>, <<0, 2>>, <<1, 0>>>>
NotHermitian == <<<<5, 0>>, <<1, 0>>, <<0, 0>>, <<1, 0>>>>
NotPositive == <<<<1, 0>>, <<3, 0>>, <<3, 0>>, <<1, 0>>>>
Zero == <<<<0, 0>>, <<0, 0>>, <<0, 0>>, <<0, 0>>>>

Effects2(list) == ComplexVar(<<2, 2, Len(list)>>, FlattenSeq(list))

\* a diagonal effect of real elements
Diagonal(d, entries) ==
  [i \in 1 .. d * d |-> IF ((i - 1) % d) = (i - 1) \div d THEN entries[1 + ((i - 1) % d)] ELSE 0]

Ref(d) == Var(<<d, d>>, "double", Diagonal(d, [i \in 1 .. d |-> i]))

\* the second effect was not observed, and is not checked
Qubit ==
  [dim |-> Number(2), Emn |-> Effects2(<<Mixed, NotPositive, Tilted>>),
   Nm |-> Column(<<3, 0, 5>>), rho_ref |-> Ref(2)]

\* the effects in a table of two by two
Table ==
  [Qubit EXCEPT !.Emn = ComplexVar(<<2, 2, 2, 2>>, Up \o Mixed \o Tilted \o Zero),
                !.Nm = Column(<<1, 2, 3, 0>>)]

\* the frequencies too
Tables == [Table EXCEPT !.Nm = Var(<<2, 2, 1>>, "int32", <<1, 0, 3, 2>>),
                        !.Emn = ComplexVar(<<2, 2, 2, 2>>, Up \o Mixed \o Tilted \o Up)]

Single == [Qubit EXCEPT !.Emn = ComplexVar(<<2, 2>>, Tilted), !.Nm = Column(<<7>>)]

Qutrit ==
  [dim |-> Number(3), rho_ref |-> Ref(3), Observable |-> Ref(3), Nm |-> Column(<<2, 6>>),
   Emn |-> Var(<<3, 3, 2>>, "double", Diagonal(3, <<1, 2, 3>>) \o Diagonal(3, <<0, 5, 4>>))]

TwoQubits ==
  [dim |-> Number(4), rho_ref |-> Ref(4), Nm |-> Column(<<0, 4>>),
   Emn |-> Var(<<4, 4, 2>>, "single",
               Diagonal(4, <<1, 2, 3, 4>>) \o Diagonal(4, <<5, 0, 6, 7>>))]

Without(file, name) == [n \in DOMAIN file \ {name} |-> file[n]]

\* most of them are refused
OddFiles ==
  {Without(Qubit, n) : n \in DOMAIN Qubit}
  \cup {[Qubit EXCEPT !.Emn = Effects2(<<Mixed, Up, E>>)] :
          E \in {NotHermitian, NotPositive, Zero}}
  \cup {[Qubit EXCEPT !.Nm = v] :
          v \in {Column(<<3, 5>>), Column(<<3, -1, 5>>), Column(<<-3, 0, 5>>), Var(<<1, 3>>, "int32", <<3, 0, 5>>),
                 [Column(<<3, 0, 5>>) EXCEPT !.is_complex = TRUE],
                 [Column(<<3, 0, 5>>) EXCEPT !.data_type = "cell"]}}
  \cup {[Qubit EXCEPT !.dim = v] :
          v \in {Number(3), Column(<<2, 2>>), [Number(2) EXCEPT !.is_complex = TRUE]}}
  \cup {[Qubit EXCEPT !.rho_ref = Var(<<4, 1>>, "double", <<1, 0, 0, 1>>)]}

-----------------------------------------------------------------------------
Plain ==
  [host |-> "tomorun", max_log_level |-> LOWEST_SEVERITY_LEVEL,
   cmd |-> ("data-file-name" :> "measurements"), config |-> None,
   log_opens |-> TRUE, csv_opens |-> TRUE, data_opens |-> TRUE, nice_works |-> TRUE,
   data |-> Qubit, max_hits |-> 0]

Given(more) == [Plain EXCEPT !.cmd = more @@ @]

On(switches) == [s \in switches |-> TRUE]

\* the same, by means of the file
FromFile(more) ==
  [Plain EXCEPT !.cmd = ("config" :> "here"), !.config = more @@ Plain.cmd]

MCFigures ==
  {<<name>> \o ref : name \in {"obs-value", "purif-dist"},
                    ref \in {<<>>, <<"">>, <<"rho_ref">>, <<"rho_ref", "missing">>}}
  \cup {<<"other">>, <<"", "rho_ref">>}

MCInvocations ==
  LET switched == {Given(On(S)) : S \in kSubset(1, Switches) \cup kSubset(2, Switches)}
                  \cup {FromFile(On({s})) : s \in Switches}
      \* the command line against the file
      mixed == {[FromFile(On({s})) EXCEPT !.cmd = On({t}) @@ @] : s, t \in Switches}
      logging == {[i EXCEPT !.max_log_level = max, !.nice_works = FALSE] :
                    max \in {WARNING, INFO, LOWEST_SEVERITY_LEVEL},
                    i \in {Given("verbose" :> level) : level \in {WARNING, DEBUG, LONGDEBUG}}
                          \cup {Given("log" :> "file" @@ "verbose" :> DEBUG),
                                [FromFile("log" :> "file" @@ "verbose" :> DEBUG)
                                   EXCEPT !.cmd = "verbose" :> ERROR @@ @],
                                FromFile("log-from-config-file-name" :> TRUE)}}
                 \cup {Given("log" :> "-" @@ "verbose-log-info" :> TRUE),
                       [Given("log" :> "file") EXCEPT !.log_opens = FALSE],
                       Given(On({"log-from-config-file-name"})),
                       FromFile(On({"log-from-config-file-name"}) @@ "log" :> "-")}
      histogram == {Given("write-histogram" :> "out"),
                    [Given("write-histogram" :> "out") EXCEPT !.csv_opens = FALSE],
                    FromFile(On({"write-histogram-from-config-file-name"})),
                    FromFile(On({"write-histogram-from-config-file-name"})
                             @@ "write-histogram" :> "out"),
                    Given(On({"write-histogram-from-config-file-name"})),
                    Given("value-hist" :> <<0, 100>>), Given("value-hist" :> <<0, 100, 20>>),
                    Given("value-hist" :> <<0>>)}
      early == {Given(On({o})) : o \in {"help", "version", "unknown"}}
               \cup {FromFile(On({o})) : o \in {"help", "unknown"}}
               \cup {[FromFile(None) EXCEPT !.cmd = ("config" :> c)] : c \in {"elsewhere", "missing"}}
               \cup {[Plain EXCEPT !.cmd = None], Given("n-chunk" :> 2), Given("nice" :> 0)}
      walks == {Given("n-run" :> n) : n \in {0, 200, 256, 511, 512, 2000}}
               \cup {Given("binning-analysis-num-levels" :> n @@ "n-run" :> 1024) : n \in {0, 2, 5}}
      files == {[Plain EXCEPT !.data = d] : d \in OddFiles \cup {Table, Tables, Single, Qutrit, TwoQubits}}
               \cup {[Plain EXCEPT !.data_opens = FALSE]}
               \cup {[Given("value-type" :> figure) EXCEPT !.data = Qutrit] : figure \in MCFigures}
               \cup {FromFile("value-type" :> <<"other">>),
                     [FromFile("value-type" :> <<"other">>) EXCEPT
                        !.cmd = "value-type" :> <<"tr-dist">> @@ @]}
      interrupted == {[i EXCEPT !.max_hits = 3] :
                        i \in {Plain, Given("periodic-status-report-ms" :> 1000)}}
  IN  switched \cup mixed \cup logging \cup histogram \cup early \cup walks \cup files \cup interrupted
      \cup {[Plain EXCEPT !.host = "library"]}

-----------------------------------------------------------------------------
\* Chains of loggers

MCPieces == <<"()", "/", "::", "b", "c">>

MCSinks == {FileLogger("stdout", LONGDEBUG, TRUE), BufferLogger(WARNING), VacuumLogger}

MCOriginSpecs == {TomoOrigin(<<"b", "b">>), TomoOrigin(<<"b", "c">>)}

\* one goes on where the other ends
MCOrigins == {<<"b">>, <<"b", "::", "c">>}

-----------------------------------------------------------------------------
\* Data files: a real variable in three dimensions and a complex one

MCContents ==
  [a |-> Var(<<2, 1, 2>>, "double", <<1, 2, 3, 4>>), b |-> ComplexVar(<<1, 2>>, <<<<1, 2>>, <<3, 4>>>>)]

-----------------------------------------------------------------------------
\* What runs instead of tomorun

Logging == [Plain EXCEPT !.host = "logging"]
Reading == [Plain EXCEPT !.host = "reading"]
Others == {Logging, Reading}

AllInvocations == MCInvocations \cup Others

NoLoggers ==
  /\ logger = <<VacuumLogger>> /\ python_level = 0 /\ in_step = FALSE
  /\ shown = {}

MCInit ==
  /\ TomorunInit /\ MatVariablesInit
  /\ IF inv = Logging THEN LoggersInit ELSE NoLoggers

MCNext ==
  \/ inv \notin Others /\ TomorunNext /\ UNCHANGED <<logger_vars, matio_vars>>
  \/ inv = Logging /\ LoggersNext /\ UNCHANGED <<tomorun_vars, matio_vars>>
  \/ inv = Reading /\ MatVariablesNext /\ UNCHANGED <<tomorun_vars, logger_vars>>
  \* which need not go on
  \/ inv = Reading /\ Idle /\ UNCHANGED <<tomorun_vars, logger_vars, matio_vars>>

MCSpec ==
  /\ MCInit /\ [][MCNext]_<<tomorun_vars, logger_vars, matio_vars>>
  /\ WF_tomorun_vars(inv \notin Others /\ RunGoesOn /\ TomorunNext)

=============================================================================
