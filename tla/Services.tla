------------------------------ MODULE Services ------------------------------
(***************************************************************************)
(* The services of a program: applications, active ones with a thread and  *)
(* passive ones in the thread that calls them, and the children that       *)
(* applications start. SvcRunner looks at one service closely; here there  *)
(* are many, each at the grain of RunnerContract, which every one of them  *)
(* is checked and proved to keep. What is added is what they do to each    *)
(* other: iApp::register_child and start_child, and the stop_children of   *)
(* the runners.                                                            *)
(*                                                                         *)
(* A start() or stop() that has something to do is two steps, because the  *)
(* service's thread, or what is left of it, goes on in between. SvcSpec    *)
(* lets a program call its applications in any order; Executor and         *)
(* Examples are programs, and implement it.                                *)
(***************************************************************************)
EXTENDS Naturals, Sequences

CONSTANTS
  Apps,         \* applications, named by their IDs
  PassiveApps,  \* those with a PassiveRunner
  Children,     \* child services, always with an ActiveRunner
  ParentOf,     \* the application whose member a child is
  MaxChildren   \* MAX_NUM_CHILD_SVCS, the capacity of an application's registry

ASSUME ServicesAssumption ==
  /\ PassiveApps \subseteq Apps
  /\ Apps \cap Children = {}
  /\ ParentOf \in [Children -> Apps]
  /\ MaxChildren \in Nat \ {0}

Svcs == Apps \cup Children

\* The services that have a thread of their own.
ActiveSvcs == Svcs \ PassiveApps

VARIABLES
  IsInit,     \* iSvc::IsInit
  IsStarted,  \* iSvc::IsStarted
  State,      \* iSvcRunner::State
  at,         \* where the thread that runs the service is in its runner
  i,          \* the loop variable of stop_children, counted from 1; 1 outside the loop
  pending,    \* services with a start() or stop() that has tested State and goes on
  registry    \* iApp::Children; always empty for a child, which has none

svcVars == <<IsInit, IsStarted, State, at, i, pending, registry>>

State_t ==
  {"CREATED", "INITIALIZED", "STARTING", "ACTIVE", "STOP_REQUESTED",
   "STOPPING", "STOPPED", "EXITED", "ERROR"}

\* "None": nobody runs the service. For a passive application, which its
\* caller runs, this includes the time between calls.
Position ==
  {"None", "PreRunInit", "Run", "Process", "StopChildren", "Cleanup", "Return"}

SvcTypeOK ==
  /\ IsInit \in [Svcs -> BOOLEAN]
  /\ IsStarted \in [Svcs -> BOOLEAN]
  /\ State \in [Svcs -> State_t]
  /\ at \in [Svcs -> Position]
  /\ i \in [Svcs -> Nat \ {0}]
  /\ pending \in SUBSET ActiveSvcs
  /\ registry \in [Svcs -> Seq(Children)]
  /\ \A s \in Svcs : Len(registry[s]) <= MaxChildren

SvcInit ==
  /\ IsInit = [s \in Svcs |-> FALSE]
  /\ IsStarted = [s \in Svcs |-> FALSE]
  /\ State = [s \in Svcs |-> "CREATED"]
  /\ at = [s \in Svcs |-> "None"]
  /\ i = [s \in Svcs |-> 1]
  /\ pending = {}
  /\ registry = [s \in Svcs |-> << >>]

-----------------------------------------------------------------------------
(* Calls on a service, made by the thread that owns it. A call that the    *)
(* guards of iSvc refuse changes nothing.                                  *)

\* As Startable, with a runner that is winding down let through.
StartableWhileStopping ==
  {"CREATED", "INITIALIZED", "STOPPING", "EXITED", "STOPPED", "ERROR"}

\* The states in which iActiveRunnerExt::start goes on.
Startable == {"CREATED", "INITIALIZED", "EXITED", "STOPPED", "ERROR"}

MayStart(s) == IsInit[s] /\ ~IsStarted[s]

MayStop(s) == IsInit[s] /\ IsStarted[s]

\* iSvc::start with an active runner, up to the creation of the thread. A
\* runner that is not Startable is left alone, and start() returns OK.
BeginStart(s) ==
  /\ MayStart(s)
  /\ \/ /\ State[s] \in Startable
        /\ State' = [State EXCEPT ![s] = "STARTING"]
        /\ pending' = pending \cup {s}
        /\ UNCHANGED IsStarted
     \/ /\ State[s] \notin Startable
        /\ IsStarted' = [IsStarted EXCEPT ![s] = TRUE]
        /\ UNCHANGED <<State, pending>>
  /\ UNCHANGED <<IsInit, at, i>>

\* The thread is created if the last one has returned and the operating system
\* has one to give; if not, the runner ends in ERROR. IsStarted is set anyway.
FinishStart(s) ==
  /\ s \in pending
  /\ ~IsStarted[s]
  /\ \/ /\ at[s] = "None"
        /\ at' = [at EXCEPT ![s] = "PreRunInit"]
        /\ UNCHANGED State
     \/ /\ State' = [State EXCEPT ![s] = "ERROR"]
        /\ UNCHANGED at
  /\ IsStarted' = [IsStarted EXCEPT ![s] = TRUE]
  /\ pending' = pending \ {s}
  /\ UNCHANGED <<IsInit, i, registry>>

\* iSvc::stop with an active runner, up to the test of State. One that is not
\* ACTIVE has nothing to stop, and is not started any more.
BeginStop(s) ==
  /\ MayStop(s)
  /\ \/ /\ State[s] = "ACTIVE"
        /\ pending' = pending \cup {s}
        /\ UNCHANGED IsStarted
     \/ /\ State[s] # "ACTIVE"
        /\ IsStarted' = [IsStarted EXCEPT ![s] = FALSE]
        /\ UNCHANGED pending
  /\ UNCHANGED <<IsInit, State, at, registry>>

FinishStop(s) ==
  /\ s \in pending
  /\ IsStarted[s]
  /\ State' = [State EXCEPT ![s] = "STOP_REQUESTED"]
  /\ IsStarted' = [IsStarted EXCEPT ![s] = FALSE]
  /\ pending' = pending \ {s}
  /\ UNCHANGED <<IsInit, at, i, registry>>

FinishCall(s) == FinishStart(s) \/ FinishStop(s)

\* A passive application's start and stop begin to run its hooks.
StartPassive(a) ==
  /\ a \in PassiveApps
  /\ MayStart(a)
  /\ at[a] = "None"
  /\ at' = [at EXCEPT ![a] = "PreRunInit"]
  /\ UNCHANGED <<IsInit, IsStarted, State, i, pending, registry>>

StopPassive(a) ==
  /\ a \in PassiveApps
  /\ MayStop(a)
  /\ at[a] = "None"
  /\ at' = [at EXCEPT ![a] = "StopChildren"]
  /\ UNCHANGED <<IsInit, IsStarted, State, i, pending, registry>>

ChildrenOf(a) == {c \in Children : ParentOf[c] = a}

\* iSvc::init of an application. Its app_init initialises its children and
\* does not look at the results, as in the repository's examples.
InitApp(a, ok) ==
  /\ ~IsInit[a]
  /\ \E inits \in SUBSET ChildrenOf(a) :
       IsInit' = [s \in Svcs |-> \/ IsInit[s]
                                 \/ s \in inits
                                 \/ s = a /\ ok]
  /\ UNCHANGED <<IsStarted, State, at, i, pending, registry>>

\* As CleanupApp, with children cleaned up whether they are started or not.
CleanupAppUnchecked(a) ==
  /\ IsInit[a]
  /\ ~IsStarted[a]
  /\ \E cleaned \in SUBSET ({a} \cup ChildrenOf(a)) :
       IsInit' = [s \in Svcs |-> IsInit[s] /\ s \notin cleaned]
  /\ UNCHANGED <<IsStarted, State, at, i, pending, registry>>

\* iSvc::cleanup of an application. Its app_cleanup cleans up those of its
\* children that are not started; each of the hooks may fail.
CleanupApp(a) ==
  /\ IsInit[a]
  /\ ~IsStarted[a]
  /\ \E cleaned \in SUBSET ({a} \cup {c \in ChildrenOf(a) : ~IsStarted[c]}) :
       IsInit' = [s \in Svcs |-> IsInit[s] /\ s \notin cleaned]
  /\ UNCHANGED <<IsStarted, State, at, i, pending, registry>>

-----------------------------------------------------------------------------
(* What an application does with its children, in a hook or a message      *)
(* handler, that is, in the thread that runs the application. A child once *)
(* registered stays so: unregister_all_children is a stub.                 *)

IsRegistered(a, c) == \E n \in DOMAIN registry[a] : registry[a][n] = c

\* register_child accepts the child.
MayRegister(a, c) ==
  /\ ~IsRegistered(a, c)
  /\ Len(registry[a]) # MaxChildren

\* start_child registers the child and calls its start(). It stays registered
\* if that is refused.
start_child(a, c) ==
  /\ MayRegister(a, c)
  /\ registry' = [registry EXCEPT ![a] = Append(@, c)]
  /\ \/ BeginStart(c)
     \/ /\ ~MayStart(c)
        /\ UNCHANGED <<IsInit, IsStarted, State, at, i, pending>>

\* The thread that runs a is not inside the start() or stop() of a child.
BetweenCalls(a) == ChildrenOf(a) \cap pending = {}

\* A hook or handler calls start_child, the only call on a child that an
\* application makes between init() and cleanup().
CallChild(a) ==
  /\ BetweenCalls(a)
  /\ \E c \in ChildrenOf(a) : start_child(a, c)

-----------------------------------------------------------------------------
(* The thread that runs service s: task_sm, or the caller of a passive     *)
(* application's start and stop.                                           *)

Goes(s, from, to) ==
  /\ at[s] = from
  /\ BetweenCalls(s)
  /\ at' = [at EXCEPT ![s] = to]

\* pre_run_init returns. A passive runner ignores what, and its start returns.
PreRunInit(s) ==
  \/ /\ s \in ActiveSvcs
     /\ Goes(s, "PreRunInit", "Run")
     /\ \E result \in {"ACTIVE", "EXITED", "ERROR"} :
          State' = [State EXCEPT ![s] = result]
     /\ UNCHANGED <<IsInit, IsStarted, i, pending, registry>>
  \/ /\ s \in PassiveApps
     /\ Goes(s, "PreRunInit", "None")
     /\ IsStarted' = [IsStarted EXCEPT ![s] = TRUE]
     /\ UNCHANGED <<IsInit, State, i, pending, registry>>

\* As TestState, with a loop that a stop request does not end.
TestStateUntilExit(s) ==
  /\ \/ /\ State[s] \in {"ACTIVE", "STOP_REQUESTED"}
        /\ Goes(s, "Run", "Process")
     \/ /\ State[s] \notin {"ACTIVE", "STOP_REQUESTED"}
        /\ Goes(s, "Run", "Return")
  /\ UNCHANGED <<IsInit, IsStarted, State, i, pending, registry>>

\* The loop test of task_sm_run and the test of task_sm_finish.
TestState(s) ==
  /\ \/ /\ State[s] = "ACTIVE"
        /\ Goes(s, "Run", "Process")
        /\ UNCHANGED State
     \/ /\ State[s] = "STOP_REQUESTED"
        /\ Goes(s, "Run", "StopChildren")
        /\ State' = [State EXCEPT ![s] = "STOPPING"]
     \/ /\ State[s] \notin {"ACTIVE", "STOP_REQUESTED"}
        /\ Goes(s, "Run", "Return")
        /\ UNCHANGED State
  /\ UNCHANGED <<IsInit, IsStarted, i, pending, registry>>

\* process returns OK, ERROR or DONE. Only DONE stops the children.
Process(s) ==
  /\ \/ /\ Goes(s, "Process", "Run")
        /\ State' \in {State, [State EXCEPT ![s] = "ERROR"]}
     \/ /\ Goes(s, "Process", "StopChildren")
        /\ UNCHANGED State
  /\ UNCHANGED <<IsInit, IsStarted, i, pending, registry>>

\* One round of the loop in stop_children, for the child at index i: its stop()
\* is refused, has nothing to write, or is to write.
StopChild(s) ==
  /\ at[s] = "StopChildren"
  /\ i[s] <= Len(registry[s])
  /\ BetweenCalls(s)
  /\ i' = [i EXCEPT ![s] = @ + 1]
  /\ LET c == registry[s][i[s]] IN
       \/ BeginStop(c)
       \/ /\ ~MayStop(c)
          /\ UNCHANGED <<IsInit, IsStarted, State, at, pending, registry>>

\* As ChildrenStopped, with the loop bound one too low.
ChildrenStoppedEarly(s) ==
  /\ i[s] >= Len(registry[s])
  /\ Goes(s, "StopChildren", "Cleanup")
  /\ i' = [i EXCEPT ![s] = 1]
  /\ UNCHANGED <<IsInit, IsStarted, State, pending, registry>>

\* The loop is through: on to post_run_cleanup.
ChildrenStopped(s) ==
  /\ i[s] > Len(registry[s])
  /\ Goes(s, "StopChildren", "Cleanup")
  /\ i' = [i EXCEPT ![s] = 1]
  /\ UNCHANGED <<IsInit, IsStarted, State, pending, registry>>

\* post_run_cleanup returns: to the run loop of a service that was DONE, which
\* it leaves as it is if it failed; to the end of task_sm_finish; or to the
\* caller of a passive application's stop.
Cleanup(s) ==
  \/ /\ s \in PassiveApps
     /\ Goes(s, "Cleanup", "None")
     /\ IsStarted' = [IsStarted EXCEPT ![s] = FALSE]
     /\ UNCHANGED <<IsInit, State, i, pending, registry>>
  \/ /\ s \in ActiveSvcs
     /\ IF State[s] = "STOPPING"
        THEN /\ Goes(s, "Cleanup", "Return")
             /\ \E result \in {"STOPPED", "ERROR"} :
                  State' = [State EXCEPT ![s] = result]
        ELSE /\ Goes(s, "Cleanup", "Run")
             /\ State' \in {State, [State EXCEPT ![s] = "EXITED"]}
     /\ UNCHANGED <<IsInit, IsStarted, i, pending, registry>>

Return(s) ==
  /\ Goes(s, "Return", "None")
  /\ UNCHANGED <<IsInit, IsStarted, State, i, pending, registry>>

\* The steps the thread owes; calls on children in its hooks it may make.
Run(s) ==
  \/ \E c \in ChildrenOf(s) : FinishCall(c)
  \/ PreRunInit(s) \/ TestState(s) \/ Process(s)
  \/ StopChild(s) \/ ChildrenStopped(s) \/ Cleanup(s)
  \/ Return(s)

RunHooks(s) ==
  /\ at[s] \in {"PreRunInit", "Process"}
  /\ CallChild(s)

-----------------------------------------------------------------------------
(* Any program. The main thread is at most in one call on an application;  *)
(* a hook may call start_child at any time.                                *)

CallApp(a) ==
  \/ InitApp(a, TRUE) \/ InitApp(a, FALSE) \/ CleanupApp(a)
  \/ StartPassive(a) \/ StopPassive(a)
  \/ a \in ActiveSvcs \ pending /\ BeginStart(a) /\ UNCHANGED registry
  \/ a \in ActiveSvcs \ pending /\ BeginStop(a) /\ UNCHANGED i
  \/ FinishCall(a)

SvcNext ==
  \/ \E a \in Apps : CallApp(a)
  \/ \E s \in Svcs : Run(s) \/ CallChild(s)

SvcSpec == SvcInit /\ [][SvcNext]_svcVars

-----------------------------------------------------------------------------
(* Properties of the programs whose services these are.                    *)

\* Refinement: whatever applications and main thread do to each other's
\* services, each keeps the contract its users rely on. In particular no
\* service has two threads and none is restarted while it winds down.
Contract(s) == INSTANCE RunnerContract WITH State <- State[s], live <- at[s] # "None"

ServicesKeepTheContract ==
  /\ \A s \in ActiveSvcs : Contract(s)!Init
  /\ [][\A s \in ActiveSvcs : [Contract(s)!Next]_<<State[s], at[s] # "None">>]_svcVars

\* A passive application's post_run_cleanup is called when every child it has
\* registered has been told to stop, and no such call is still under way
\* (Runner.cpp:54-59). That they have stopped by then nobody sees to; and for
\* an active one not even this is true, see StartedIsInitialised.
CleanupComesAfterTheStops ==
  \A a \in PassiveApps : at[a] = "Cleanup" =>
    \A c \in Children : IsRegistered(a, c) => ~IsStarted[c] /\ c \notin pending

\* "Service must be initialized" for start and "Service must not be started" for
\* cleanup (iSvc.hpp:197, 205): what is started is initialised, and can so be
\* stopped (iSvc.cpp:59). Only the children of an active application are left
\* out: its app_cleanup, in the main thread, may uninitialise a child while its
\* own thread, which stop() has not waited for, is inside the child's start().
StartedIsInitialised ==
  \A s \in Svcs \ UNION {ChildrenOf(a) : a \in Apps \ PassiveApps} :
    IsStarted[s] => IsInit[s]

\* A child that is ACTIVE when its application begins to stop its children has
\* no thread in the end, although the call that stops it may be overtaken by
\* the child's own end and is not waited for (Runner.cpp:19-32).
StopReachesActiveChildren ==
  \A c \in Children :
    LET a == ParentOf[c] IN
      (/\ at[a] = "StopChildren"
       /\ i[a] = 1
       /\ IsRegistered(a, c)
       /\ State[c] = "ACTIVE"
       /\ MayStop(c))
      ~> at[c] = "None"

=============================================================================
