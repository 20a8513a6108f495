------------------------------ MODULE SvcRunner ------------------------------
(***************************************************************************)
(* The life of one active service: the lifecycle calls of iSvc (init,      *)
(* start, stop, cleanup), the iActiveRunnerExt they are forwarded to, the  *)
(* Os::Thread under it, and the thread that executes the runner's state    *)
(* machine task_sm.                                                        *)
(*                                                                         *)
(* No lock protects the runner: the owner of the service (the thread that  *)
(* makes the lifecycle calls, one at a time) and the service's own thread  *)
(* both read and write iSvcRunner::State. Each access to a field the other *)
(* side can see is a step of its own here; loads and stores of these       *)
(* word-sized fields are taken to be atomic and to keep program order.     *)
(*                                                                         *)
(* The service's own hooks (app_init, pre_run_init, process,               *)
(* post_run_cleanup, app_cleanup) are user code. A thread or the owner     *)
(* standing at a step named after a hook is inside that hook, and the step *)
(* is its return, with any of the results its type allows. The service     *)
(* here has no children and no neighbours: see Services and Executor.      *)
(***************************************************************************)
EXTENDS Naturals, FiniteSets

CONSTANT Threads   \* names for operating system threads, used again after exit

VARIABLES
  IsInit,     \* iSvc::IsInit
  IsStarted,  \* iSvc::IsStarted
  State,      \* iSvcRunner::State
  state_,     \* Os::Thread::state_ of the runner's member task_
  pc,         \* pc[t]: where thread t is in Thread::runner and task_sm
  ctl         \* where the owner is in a lifecycle call; "Idle" between calls

vars == <<IsInit, IsStarted, State, state_, pc, ctl>>

State_t ==
  {"CREATED", "INITIALIZED", "STARTING", "ACTIVE", "STOP_REQUESTED",
   "STOPPING", "STOPPED", "EXITED", "ERROR"}

ThreadState == {"NOT_STARTED", "RUNNING", "EXITED"}

\* "None": the name is free. "Created": pthread_create has returned, the
\* thread has not executed anything. The rest are positions in the code.
ThreadPC ==
  {"None", "Created", "SmStart", "PreRunInit", "Run", "Process",
   "ExitCleanup", "Finish", "Stopping", "StopCleanup", "Return"}

OwnerPC ==
  {"Idle", "Init", "RunnerStart", "MarkStarting", "ThreadStart",
   "StartError", "Started", "RunnerStop", "MarkStop", "Stopped", "Cleanup"}

TypeOK ==
  /\ IsInit \in BOOLEAN
  /\ IsStarted \in BOOLEAN
  /\ State \in State_t
  /\ state_ \in ThreadState
  /\ pc \in [Threads -> ThreadPC]
  /\ ctl \in OwnerPC

Init ==
  /\ IsInit = FALSE
  /\ IsStarted = FALSE
  /\ State = "CREATED"
  /\ state_ = "NOT_STARTED"
  /\ pc = [t \in Threads |-> "None"]
  /\ ctl = "Idle"

-----------------------------------------------------------------------------
(* The owner's lifecycle calls. A call the guards refuse (ALREADY_INIT,    *)
(* UNINIT_ERR, ALREADY_STARTED, STOPPED) changes nothing and is no step.   *)

OwnerStep(from, to) ==
  /\ ctl = from
  /\ ctl' = to

\* iSvc::init up to the call of app_init.
CallInit ==
  /\ OwnerStep("Idle", "Init")
  /\ ~IsInit
  /\ UNCHANGED <<IsInit, IsStarted, State, state_, pc>>

\* app_init returns; only success is remembered.
AppInit ==
  /\ OwnerStep("Init", "Idle")
  /\ IsInit' \in BOOLEAN
  /\ UNCHANGED <<IsStarted, State, state_, pc>>

\* iSvc::start and App::start_ up to the call of Runner.start.
CallStart ==
  /\ OwnerStep("Idle", "RunnerStart")
  /\ IsInit
  /\ ~IsStarted
  /\ UNCHANGED <<IsInit, IsStarted, State, state_, pc>>

\* As Startable, with a runner that is on its way up or down let through.
StartableUnlessActive == State_t \ {"ACTIVE"}

\* As Startable, with a runner that is winding down let through.
StartableWhileStopping ==
  {"CREATED", "INITIALIZED", "STOPPING", "EXITED", "STOPPED", "ERROR"}

\* The states in which iActiveRunnerExt::start goes on.
Startable == {"CREATED", "INITIALIZED", "EXITED", "STOPPED", "ERROR"}

\* iActiveRunnerExt::start reads State. A runner it refuses is reported only
\* in the log: App::start_ goes on to return OK.
RunnerStart ==
  /\ ctl = "RunnerStart"
  /\ ctl' = IF State \in Startable THEN "MarkStarting" ELSE "Started"
  /\ UNCHANGED <<IsInit, IsStarted, State, state_, pc>>

MarkStarting ==
  /\ OwnerStep("MarkStarting", "ThreadStart")
  /\ State' = "STARTING"
  /\ UNCHANGED <<IsInit, IsStarted, state_, pc>>

\* pthread_create in Os::Thread::start, without the test of state_.
CreateThreadUnchecked ==
  /\ OwnerStep("ThreadStart", "Started")
  /\ \E t \in Threads :
       /\ pc[t] = "None"
       /\ pc' = [pc EXCEPT ![t] = "Created"]
  /\ UNCHANGED <<IsInit, IsStarted, State, state_>>

\* Os::Thread::start finds no thread running and creates one. It leaves
\* state_ alone: the new thread sets it.
CreateThread ==
  /\ OwnerStep("ThreadStart", "Started")
  /\ state_ # "RUNNING"
  /\ \E t \in Threads :
       /\ pc[t] = "None"
       /\ pc' = [pc EXCEPT ![t] = "Created"]
  /\ UNCHANGED <<IsInit, IsStarted, State, state_>>

\* Os::Thread::start refuses (INVALID_STATE), or pthread_create fails, which
\* the operating system may do at any time.
ThreadStartFails ==
  /\ OwnerStep("ThreadStart", "StartError")
  /\ UNCHANGED <<IsInit, IsStarted, State, state_, pc>>

\* As StartError, without the assignment.
StartErrorForgotten ==
  /\ OwnerStep("StartError", "Started")
  /\ UNCHANGED <<IsInit, IsStarted, State, state_, pc>>

StartError ==
  /\ OwnerStep("StartError", "Started")
  /\ State' = "ERROR"
  /\ UNCHANGED <<IsInit, IsStarted, state_, pc>>

\* start_ has returned OK, whatever the runner did.
Started ==
  /\ OwnerStep("Started", "Idle")
  /\ IsStarted' = TRUE
  /\ UNCHANGED <<IsInit, State, state_, pc>>

\* iSvc::stop and App::stop_ up to the call of Runner.stop.
CallStop ==
  /\ OwnerStep("Idle", "RunnerStop")
  /\ IsInit
  /\ IsStarted
  /\ UNCHANGED <<IsInit, IsStarted, State, state_, pc>>

\* iActiveRunnerExt::stop reads State; one that is not ACTIVE has nothing to
\* stop (DONE), and App::stop_ returns OK all the same.
RunnerStop ==
  /\ ctl = "RunnerStop"
  /\ ctl' = IF State = "ACTIVE" THEN "MarkStop" ELSE "Stopped"
  /\ UNCHANGED <<IsInit, IsStarted, State, state_, pc>>

\* The write that follows the test, when State may already be another.
MarkStop ==
  /\ OwnerStep("MarkStop", "Stopped")
  /\ State' = "STOP_REQUESTED"
  /\ UNCHANGED <<IsInit, IsStarted, state_, pc>>

Stopped ==
  /\ OwnerStep("Stopped", "Idle")
  /\ IsStarted' = FALSE
  /\ UNCHANGED <<IsInit, State, state_, pc>>

\* iSvc::cleanup up to the call of app_cleanup.
CallCleanup ==
  /\ OwnerStep("Idle", "Cleanup")
  /\ IsInit
  /\ ~IsStarted
  /\ UNCHANGED <<IsInit, IsStarted, State, state_, pc>>

\* app_cleanup returns; a failure leaves the service initialised.
AppCleanup ==
  /\ OwnerStep("Cleanup", "Idle")
  /\ IsInit' \in BOOLEAN
  /\ UNCHANGED <<IsStarted, State, state_, pc>>

\* The steps that finish a call that was begun.
OwnerContinues ==
  \/ AppInit
  \/ RunnerStart \/ MarkStarting \/ CreateThread \/ ThreadStartFails
  \/ StartError \/ Started
  \/ RunnerStop \/ MarkStop \/ Stopped
  \/ AppCleanup

OwnerCalls == CallInit \/ CallStart \/ CallStop \/ CallCleanup

-----------------------------------------------------------------------------
(* The thread: Os::Thread::runner around iActiveRunnerExt::task_sm.        *)

ThreadStep(t, from, to) ==
  /\ pc[t] = from
  /\ pc' = [pc EXCEPT ![t] = to]

\* Thread::runner, first step: the thread itself says that it runs.
ThreadBegin(t) ==
  /\ ThreadStep(t, "Created", "SmStart")
  /\ state_' = "RUNNING"
  /\ UNCHANGED <<IsInit, IsStarted, State, ctl>>

\* task_sm_start reads State.
TaskSmStart(t) ==
  /\ ThreadStep(t, "SmStart", IF State = "STARTING" THEN "PreRunInit" ELSE "Run")
  /\ UNCHANGED <<IsInit, IsStarted, State, state_, ctl>>

\* As PreRunInit, with the hook's result stored in place of the state it means.
PreRunInitStoresResult(t) ==
  /\ ThreadStep(t, "PreRunInit", "Run")
  /\ State' \in {"OK", "DONE", "ERROR"}
  /\ UNCHANGED <<IsInit, IsStarted, state_, ctl>>

\* pre_run_init returns OK, DONE or ERROR, which decides the state.
PreRunInit(t) ==
  /\ ThreadStep(t, "PreRunInit", "Run")
  /\ State' \in {"ACTIVE", "EXITED", "ERROR"}
  /\ UNCHANGED <<IsInit, IsStarted, state_, ctl>>

\* As TaskSmRun, with a loop that a stop request does not end.
TaskSmRunUntilExit(t) ==
  /\ ThreadStep(t, "Run", IF State \in {"ACTIVE", "STOP_REQUESTED"}
                          THEN "Process" ELSE "Finish")
  /\ UNCHANGED <<IsInit, IsStarted, State, state_, ctl>>

\* The loop test of task_sm_run.
TaskSmRun(t) ==
  /\ ThreadStep(t, "Run", IF State = "ACTIVE" THEN "Process" ELSE "Finish")
  /\ UNCHANGED <<IsInit, IsStarted, State, state_, ctl>>

\* process returns. ERROR is stored over whatever the state is by then, and
\* post_run_cleanup is not called.
Process(t) ==
  \/ /\ ThreadStep(t, "Process", "Run")
     /\ State' \in {State, "ERROR"}
     /\ UNCHANGED <<IsInit, IsStarted, state_, ctl>>
  \/ /\ ThreadStep(t, "Process", "ExitCleanup")
     /\ UNCHANGED <<IsInit, IsStarted, State, state_, ctl>>

\* post_run_cleanup returns to task_sm_run. When it fails the state stays as
\* it is, so that an ACTIVE runner goes on calling process.
ExitCleanup(t) ==
  /\ ThreadStep(t, "ExitCleanup", "Run")
  /\ State' \in {"EXITED", State}
  /\ UNCHANGED <<IsInit, IsStarted, state_, ctl>>

\* task_sm_finish reads State.
TaskSmFinish(t) ==
  /\ ThreadStep(t, "Finish", IF State = "STOP_REQUESTED" THEN "Stopping" ELSE "Return")
  /\ UNCHANGED <<IsInit, IsStarted, State, state_, ctl>>

MarkStopping(t) ==
  /\ ThreadStep(t, "Stopping", "StopCleanup")
  /\ State' = "STOPPING"
  /\ UNCHANGED <<IsInit, IsStarted, state_, ctl>>

\* As StopCleanup, with the early return of a failed cleanup forgetting State.
StopCleanupForgetsFailure(t) ==
  /\ ThreadStep(t, "StopCleanup", "Return")
  /\ State' \in {"STOPPED", State}
  /\ UNCHANGED <<IsInit, IsStarted, state_, ctl>>

\* post_run_cleanup returns to task_sm_finish.
StopCleanup(t) ==
  /\ ThreadStep(t, "StopCleanup", "Return")
  /\ State' \in {"STOPPED", "ERROR"}
  /\ UNCHANGED <<IsInit, IsStarted, state_, ctl>>

\* Thread::runner, last step.
ThreadReturn(t) ==
  /\ ThreadStep(t, "Return", "None")
  /\ state_' = "EXITED"
  /\ UNCHANGED <<IsInit, IsStarted, State, ctl>>

ThreadNext(t) ==
  \/ ThreadBegin(t)
  \/ TaskSmStart(t)
  \/ PreRunInit(t)
  \/ TaskSmRun(t)
  \/ Process(t)
  \/ ExitCleanup(t)
  \/ TaskSmFinish(t)
  \/ MarkStopping(t)
  \/ StopCleanup(t)
  \/ ThreadReturn(t)

Next ==
  \/ OwnerCalls
  \/ OwnerContinues
  \/ \E t \in Threads : ThreadNext(t)

Spec == Init /\ [][Next]_vars

\* A thread that exists is scheduled and its hooks return; a lifecycle call
\* that was begun is finished. Nothing obliges the owner to make a call.
FairSpec ==
  /\ Spec
  /\ WF_vars(OwnerContinues)
  /\ \A t \in Threads : WF_vars(ThreadNext(t))

-----------------------------------------------------------------------------
(* Properties.                                                             *)

\* The runner is launched and restarted without a lock and without joining the
\* old thread; what keeps two threads from executing one service is only that
\* start() wants a resting State and Os::Thread::start a state_ that is not
\* RUNNING (Runner.cpp:84, Task.cpp:14). Together they are enough: no two
\* threads of a service exist at any time.
AtMostOneRun ==
  \A t, u \in Threads : pc[t] # "None" /\ pc[u] # "None" => t = u

\* The thread acts on what it read from State a while ago. Whatever the owner
\* wrote in between, State still says what the thread is doing: a fresh thread
\* finds STARTING and so never skips pre_run_init, process and its exit
\* cleanup run while ACTIVE or at most STOP_REQUESTED, and a run that winds
\* down is not restarted under its feet (Runner.cpp:134-214).
RunOwnsItsState ==
  \A t \in Threads :
    /\ pc[t] \in {"Created", "SmStart", "PreRunInit"} => State = "STARTING"
    /\ pc[t] \in {"Process", "ExitCleanup"} => State \in {"ACTIVE", "STOP_REQUESTED"}
    /\ pc[t] = "Stopping" => State = "STOP_REQUESTED"
    /\ pc[t] = "StopCleanup" => State = "STOPPING"

\* Both calls of the owner test State and write it later. For start() that is
\* safe: a resting state stays one until it is overwritten, and STARTING stays
\* until the thread exists or ERROR is stored. For stop() it is not: what was
\* ACTIVE may have ended by itself (Runner.cpp:84-106, 117-119).
OwnerActsOnFreshState ==
  /\ ctl = "MarkStarting" => State \in Startable
  /\ ctl \in {"ThreadStart", "StartError"} => State = "STARTING"
  /\ ctl = "MarkStop" => State \in {"ACTIVE", "EXITED", "ERROR"}

\* A state that promises progress has somebody who will make it: STARTING a
\* call of start() that is not through or a thread on its way to ACTIVE, ACTIVE
\* a thread in task_sm_run, STOPPING a thread in its cleanup. A runner that a
\* dead thread left in one of these states could never be started again.
\* (STOP_REQUESTED is not in the list: see StartReachesTheRunner.)
BusyStateHasARun ==
  /\ State = "STARTING" =>
       \/ ctl \in {"ThreadStart", "StartError"}
       \/ \E t \in Threads : pc[t] \in {"Created", "SmStart", "PreRunInit"}
  /\ State = "ACTIVE" =>
       \E t \in Threads : pc[t] \in {"Run", "Process", "ExitCleanup"}
  /\ State = "STOPPING" =>
       \E t \in Threads : pc[t] = "StopCleanup"

\* Refinement: seen from outside, the runner keeps RunnerContract.
Contract == INSTANCE RunnerContract WITH live <- \E t \in Threads : pc[t] # "None"

ImplementsContract == Contract!Spec

\* Every launch comes to a result: the runner does not stay STARTING, whether
\* pthread_create fails, pre_run_init fails or the service comes up.
StartSettles == (State = "STARTING") ~> (State # "STARTING")

\* A stop request that was written while the thread was still to read it ends
\* that thread, even when process fails or finishes at the same moment.
AcceptedStopEndsTheRun ==
  \A t \in Threads :
    (State = "STOP_REQUESTED" /\ pc[t] \in {"Run", "Process", "ExitCleanup", "Finish"})
      ~> (pc[t] = "None")

-----------------------------------------------------------------------------
(* What the repository says of the service and the code does not do.       *)

\* "Stops the service runner" (iSvc.hpp:201): once the service is not started
\* any more, its thread goes away unless the service is started again. Broken:
\* a stop that finds the runner STARTING is dropped (Runner.cpp:117) and
\* reported as done (App.hpp:193), and the run goes on for ever.
StopEndsTheRun ==
  ~IsStarted ~> (IsStarted \/ \A t \in Threads : pc[t] = "None")

\* A service that is registered, not started and not running can be started
\* (FunctionalReqs.csv, "Start individual application"). Broken: the test and
\* the write in iActiveRunnerExt::stop are two steps (Runner.cpp:117-119), and
\* a STOP_REQUESTED written after the run ended by itself stays for good.
StartReachesTheRunner ==
  ctl = "RunnerStart" /\ (\A t \in Threads : pc[t] = "None") => State \in Startable

=============================================================================
