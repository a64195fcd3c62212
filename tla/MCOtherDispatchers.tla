------------------------- MODULE MCOtherDispatchers -------------------------
(***************************************************************************)
(* The dispatchers on OpenMP threads and on MPI processes, as a program    *)
(* chooses between them: one of the two runs, and the other stays as it is *)
(* at first.  Nothing fails on MPI here, and nobody interrupts; all else   *)
(* about MPI is in MCMPIDispatcher.                                        *)
(***************************************************************************)
EXTENDS OMPThreads

CONSTANTS MPIWorkers, MPIMaster, NumMPIRuns, MaxUserRequests, MaxOrders

VARIABLES
  dispatcher,          \* which of them runs: "omp" or "mpi"
  \* those of MPIDispatcher
  num_tasks_completed, num_tasks_launched, num_workers_running,
  mpi_workers_running, mpi_interrupt_requested, full_task_results,
  event_counter, reacted_event_counter, mpi_in_preparation,
  num_reports_waiting, channel, mpi_pc, mpi_task_id, interrupted, check_from,
  requested, budget, mpi_outcome

MPI == INSTANCE MPIDispatcher WITH
  Workers <- MPIWorkers, Master <- MPIMaster, NumTotalRuns <- NumMPIRuns,
  Periodic <- TRUE, MayInterrupt <- FALSE, MayFail <- FALSE,
  workers_running <- mpi_workers_running,
  interrupt_requested <- mpi_interrupt_requested,
  in_preparation <- mpi_in_preparation,
  pc <- mpi_pc, task_id <- mpi_task_id, outcome <- mpi_outcome

mpivars ==
  <<num_tasks_completed, num_tasks_launched, num_workers_running,
    mpi_workers_running, mpi_interrupt_requested, full_task_results,
    event_counter, reacted_event_counter, mpi_in_preparation,
    num_reports_waiting, channel, mpi_pc, mpi_task_id, interrupted, check_from,
    requested, budget, mpi_outcome>>

MCInit ==
  /\ dispatcher \in {"omp", "mpi"}
  /\ OMPInit
  /\ MPI!Init

MCNext ==
  \/ dispatcher = "omp" /\ Next /\ UNCHANGED <<dispatcher, mpivars>>
  \/ dispatcher = "mpi" /\ MPI!Next /\ UNCHANGED <<dispatcher, ompvars>>

\* The one that runs is scheduled as its own module has it, FairSpec of
\* OMPThreads and RunSpec of MPIDispatcher.
MCSpec ==
  /\ MCInit /\ [][MCNext]_<<dispatcher, ompvars, mpivars>>
  /\ \A t \in Workers : WF_ompvars(dispatcher = "omp" /\ Advance(t))
  /\ WF_mpivars(dispatcher = "mpi" /\ MPI!MasterStep)
  /\ \A w \in MPIWorkers : WF_mpivars(dispatcher = "mpi" /\ MPI!WorkerStep(w))
  /\ \A p \in MPI!Procs : SF_mpivars(dispatcher = "mpi" /\ MPI!FinishTask(p))

-----------------------------------------------------------------------------
\* With OpenMP, run() ends if the tasks end, unless the callback throws.
OMPRunEnds == dispatcher = "omp" => RunEnds

\* Over MPI it keeps the promises of the dispatcher interface: the tasks are
\* handed out once each, and it ends normally with all their results.
MPIImplementsContract == MPI!ImplementsContract

\* Over MPI run() returns on the master and on every worker.
MPIRunEnds == dispatcher = "mpi" => MPI!RunEnds

=============================================================================
