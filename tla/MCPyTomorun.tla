---------------------------- MODULE MCPyTomorun ----------------------------
(***************************************************************************)
(* The calls for which PyTomorun is checked; and, besides the Python       *)
(* module, programs that run their tasks on either dispatcher, which are   *)
(* those of DispatcherLocks alone.                                         *)
(***************************************************************************)
EXTENDS PyTomorun

Effect(name) == [is |-> name, valid |-> name # "not positive"]

Qubit == <<2, 2>>

\* the second effect was not observed, and is not checked
Args ==
  [dim |-> 2, Nm |-> <<3, 0, 5>>,
   Emn |-> <<Effect("up"), Effect("not positive"), Effect("tilted")>>,
   fig_of_merit |-> "fidelity", ref_state |-> Qubit,
   mhrw_params |-> [n_sweep |-> 5, n_therm |-> 10, n_run |-> 1024],
   hist_params |-> [num_bins |-> 4], num_repeats |-> 2,
   rng_base_seed |-> [type |-> "int", is |-> 3],
   progress_fn |-> "fn", progress_interval_ms |-> 100]

Exn(cols) == [cols |-> cols, rows |-> Args.Emn]

Asking(args) ==
  [args |-> args, uncastable |-> {}, cores |-> 2, fails |-> {}, ctrl_c |-> FALSE]

With(args, name, value) == name :> value @@ args

Without(args, name) == [n \in DOMAIN args \ {name} |-> args[n]]

Callable == With(Args, "fig_of_merit", "callable")

\* calls whose tasks can fail or be interrupted
Troubled ==
  {[Asking(Callable) EXCEPT !.fails = {"figure of merit", "progress_fn"}],
   [Asking(Callable) EXCEPT !.ctrl_c = TRUE],
   [Asking(With(With(Callable, "progress_interval_ms", 0), "num_repeats", 1))
      EXCEPT !.fails = {"figure of merit"}, !.ctrl_c = TRUE],
   [Asking(With(Without(Args, "progress_fn"), "num_repeats", 1)) EXCEPT !.ctrl_c = TRUE],
   Asking(With(Args, "ctrl_step_size_params",
               [enabled |-> TRUE, bad |-> {"desired_accept_ratio_min"}])),
   Asking(With(Args, "ctrl_converged_params", [enabled |-> FALSE, bad |-> {"enabled"}]))}

\* calls that are refused, or taken with warnings and defaults
Once(args) == With(args, "num_repeats", 1)

ByArguments ==
  {Without(Args, name) : name \in {"Emn", "Nm", "ref_state", "mhrw_params"}}
  \cup {With(Args, name, 0) : name \in {"num_repeats", "unknown"}}
  \cup {With(Args, "fig_of_merit", f) : f \in {"obs-value", "nonsense"}}
  \cup {With(Args, "mhrw_params", [n_sweep |-> s, n_therm |-> t, n_run |-> 1024]) :
          s \in {0, 5}, t \in {-1, 10}}
  \cup {Once(With(Args, "mhrw_params", [n_sweep |-> 5, n_therm |-> 10, n_run |-> n])) :
          n \in {0, 1, 255, 256, 1000, 2049}}
  \cup {Once(With(Args, "binning_num_levels", n)) : n \in {0, 3, 4, 5}}
  \cup {With(Args, "jumps_method", "nonsense"), Once(With(Args, "jumps_method", "light")),
        With(Args, "Emn", Tail(Args.Emn)), With(Args, "Nm", <<3, 1, 5>>),
        With(Args, "Exn", Exn(4)), With(Without(Args, "Emn"), "Exn", Exn(3)),
        Once(With(Without(Args, "Emn"), "Exn", Exn(4))),
        With(Args, "hist_params", [num_bins |-> 0]), Once(Without(Args, "hist_params")),
        With(Args, "ref_state", <<3, 3>>), Once(With(Args, "observable", Qubit)),
        Once(With(With(Args, "fig_of_merit", "obs-value"), "observable", Qubit)),
        Once(With(Without(Args, "fig_of_merit"), "observable", Qubit)),
        Once(With(Callable, "observable", Qubit)),
        Once(With(Args, "ctrl_step_size_params",
                 [enabled |-> FALSE, bad |-> {"desired_accept_ratio_min", "unknown"}]))}

SeededCalls ==
  {Once(Without(Args, "rng_base_seed"))}
  \cup {With(Once(Args), "rng_base_seed", [type |-> "str", is |-> s]) :
          s \in {"random-device", "random-device-all", "nonsense"}}
  \cup {With(Args, "rng_base_seed", [type |-> "int", is |-> n]) : n \in {-1, 0, 6}}

MCCalls ==
  {Asking(args) : args \in ByArguments \cup SeededCalls}
  \cup {[Asking(Args) EXCEPT !.uncastable = {name}] : name \in DOMAIN Args}
  \cup {[Asking(Without(Args, "num_repeats")) EXCEPT !.cores = n] : n \in 0 .. 2}
  \cup Troubled

CallsInit ==
  \/ PyInit
  \/ /\ LocksInit /\ kind # "python"
     /\ call = Asking(Args) /\ stage = "elsewhere" /\ left = {} /\ warned = {}
     /\ setup = Empty /\ require_gil = FALSE
     /\ task = [t \in AllThreads |-> -1] /\ caught = <<>> /\ ctrl_c = "none"
     /\ raised = "none" /\ num_results = -1
     /\ Dispatcher(1)!Init

CallsNext ==
  \/ PyNext
  \/ /\ kind # "python" /\ LocksNext
     /\ UNCHANGED <<stage, arguments, setup, require_gil, running, returning, dispatch>>

CallsSpec == CallsInit /\ [][CallsNext]_py_vars

Symmetry == Permutations(Threads)

=============================================================================
