----------------------------- MODULE MCPyModule -----------------------------
(***************************************************************************)
(* The programs for which the Python module and the tasks behind it are    *)
(* checked: those of MCPyTomorun, which call tomorun() and run its tasks   *)
(* on threads, and those of MCValueHistogramTasks, which follow the data   *)
(* of the tasks into histograms, down to those that Python works with.     *)
(* The two share nothing, and the one that does not go stays as it is.     *)
(***************************************************************************)
EXTENDS MCPyTomorun, MCValueHistogramTasks

VARIABLE program     \* "threads" or "histograms"

module_vars == <<program, py_vars, vars, py_histogram_vars>>

MCInit ==
  \/ /\ program = "threads"
     /\ CallsInit
     /\ TasksInit /\ pc = "elsewhere"
  \/ /\ program = "histograms"
     /\ TasksInit
     /\ CallsInit /\ kind = "python" /\ call = Asking(Args)

\* a program that works on histograms may end at any time
MCNext ==
  \/ program = "threads" /\ CallsNext /\ UNCHANGED <<program, vars, py_histogram_vars>>
  \/ program = "histograms" /\ TasksNext /\ UNCHANGED <<program, py_vars>>
  \/ program = "histograms" /\ UNCHANGED module_vars

MCSpec == MCInit /\ [][MCNext]_module_vars

=============================================================================
