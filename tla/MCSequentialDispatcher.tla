------------------------ MODULE MCSequentialDispatcher ------------------------
(***************************************************************************)
(* SequentialDispatcher for model checking, with a history variable that   *)
(* remembers the requests for a report which no call of the handler has    *)
(* followed yet: the dispatcher itself has one flag for all of them, and   *)
(* takes it down when the handler returns.                                 *)
(***************************************************************************)
EXTENDS SequentialDispatcher

VARIABLE unanswered

HInit == Init /\ unanswered = FALSE

\* Several requests may share an answer, which begins with the call.
HNext ==
  \/ RequestStatusReport /\ unanswered' = TRUE
  \/ /\ SubmitStatusReport
     /\ unanswered' = (unanswered /\ pc' # "callback")
  \/ /\ Next /\ ~RequestStatusReport /\ ~SubmitStatusReport
     /\ UNCHANGED unanswered

HSpec == HInit /\ [][HNext]_<<vars, unanswered>>

\* "each time that requestStatusReport() is called at any later point, then
\* this callback will be invoked", says setStatusReportHandler(); "the
\* currently running task should notice it (provided it regularly queries
\* [...])", says requestStatusReport().  So a task that polls is told of any
\* request which the callback has not followed.
RequestNoticed == unanswered /\ pc = "task" => ReportDue

=============================================================================
