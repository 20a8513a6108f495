--------------------------- MODULE RunnerContract ---------------------------
(***************************************************************************)
(* What the runner of an active service promises to the code around it:    *)
(* the life of the field iSvcRunner::State, and of the one thread that     *)
(* executes the service, as a state machine whose transitions are atomic.  *)
(*                                                                         *)
(* SvcRunner is the detailed specification: every access to a shared field *)
(* is a step there, and SvcRunner!Spec is checked, and proved, to          *)
(* implement Spec under the mapping live <- "some thread exists".          *)
(***************************************************************************)

VARIABLES
  State,  \* iSvcRunner::State (Runner.hpp:18-30)
  live    \* a thread created for this runner has not returned yet

vars == <<State, live>>

State_t ==
  {"CREATED", "INITIALIZED", "STARTING", "ACTIVE", "STOP_REQUESTED",
   "STOPPING", "STOPPED", "EXITED", "ERROR"}

\* The states from which start() launches the service.
Launchable == {"CREATED", "INITIALIZED", "EXITED", "STOPPED", "ERROR"}

TypeOK ==
  /\ State \in State_t
  /\ live \in BOOLEAN

Init ==
  /\ State = "CREATED"
  /\ live = FALSE

-----------------------------------------------------------------------------

\* The owner of the service asks for a run. The thread of the last run may
\* still be on its way out.
Launch ==
  /\ State \in Launchable
  /\ State' = "STARTING"
  /\ UNCHANGED live

\* A thread is created only when the last one is gone.
Spawn ==
  /\ State = "STARTING"
  /\ ~live
  /\ live' = TRUE
  /\ UNCHANGED State

LaunchFails ==
  /\ State = "STARTING"
  /\ State' = "ERROR"
  /\ UNCHANGED live

Initialise ==
  /\ live
  /\ State = "STARTING"
  /\ State' \in {"ACTIVE", "EXITED", "ERROR"}
  /\ UNCHANGED live

\* The run ends by itself; that may overtake a stop request.
Leave ==
  /\ live
  /\ State \in {"ACTIVE", "STOP_REQUESTED"}
  /\ State' \in {"EXITED", "ERROR"}
  /\ UNCHANGED live

\* A stop request is meant for an active runner, but the runner may have left
\* ACTIVE, and the thread may even be gone, by the time it is written.
RequestStop ==
  /\ State \in {"ACTIVE", "EXITED", "ERROR"}
  /\ State' = "STOP_REQUESTED"
  /\ UNCHANGED live

WindDown ==
  /\ live
  /\ \/ /\ State = "STOP_REQUESTED"
        /\ State' = "STOPPING"
     \/ /\ State = "STOPPING"
        /\ State' \in {"STOPPED", "ERROR"}
  /\ UNCHANGED live

\* The thread returns, and never out of the middle of a run.
Return ==
  /\ live
  /\ State \notin {"ACTIVE", "STOPPING"}
  /\ live' = FALSE
  /\ UNCHANGED State

Next ==
  \/ Launch
  \/ Spawn
  \/ LaunchFails
  \/ Initialise
  \/ Leave
  \/ RequestStop
  \/ WindDown
  \/ Return

Spec == Init /\ [][Next]_vars

=============================================================================
