------------------------------ MODULE Executor ------------------------------
(***************************************************************************)
(* A program: one thread that registers applications with an iExecutor,    *)
(* starts and stops them through it, and cleans them up, and the services  *)
(* of Services. The calls of the executor are loops over its list; the     *)
(* hooks of an application run inside them, and the other threads go on.   *)
(***************************************************************************)
EXTENDS Services

CONSTANT ContainerSize   \* MAX_NUM_APPS, the capacity of the list

ASSUME ExecutorAssumption == ContainerSize \in Nat \ {0}

VARIABLES
  Registered,  \* iExecutor::Apps, front first
  op,          \* the executor's call in progress
  left         \* the applications that call has still to come to

vars == <<svcVars, Registered, op, left>>

Op == {"Idle", "start_all", "start", "stop_all", "stop"}

TypeOK ==
  /\ SvcTypeOK
  /\ Registered \in Seq(Apps)
  /\ Len(Registered) <= ContainerSize
  /\ \A m, n \in DOMAIN Registered : Registered[m] = Registered[n] => m = n
  /\ op \in Op
  /\ left \in Seq(Apps)

Init ==
  /\ SvcInit
  /\ Registered = << >>
  /\ op = "Idle"
  /\ left = << >>

-----------------------------------------------------------------------------

Listed == {Registered[n] : n \in DOMAIN Registered}

\* As register_app, without the test for the ID.
register_app_again(a) ==
  /\ op = "Idle"
  /\ Len(Registered) < ContainerSize
  /\ Registered' = <<a>> \o Registered
  /\ UNCHANGED <<svcVars, op, left>>

\* register_app in both its forms. ID_TAKEN and REGISTRY_FULL change nothing.
register_app(a) ==
  /\ op = "Idle"
  /\ Len(Registered) < ContainerSize
  /\ a \notin Listed
  /\ Registered' = <<a>> \o Registered
  /\ UNCHANGED <<svcVars, op, left>>

\* The main thread is not inside a call on a service.
MainIsFree ==
  /\ op = "Idle"
  /\ \A a \in PassiveApps : BetweenCalls(a)

\* start_all or start, stop_all or stop. For one application they do what the
\* loops do for each; they differ in the status they return.
Call ==
  /\ MainIsFree
  /\ \/ /\ op' \in {"start_all", "stop_all"}
        /\ left' = Registered
     \/ /\ op' \in {"start", "stop"}
        /\ left' \in {<<a>> : a \in Listed}
  /\ UNCHANGED <<svcVars, Registered>>

CallReturns ==
  /\ op # "Idle"
  /\ left = << >>
  /\ op' = "Idle"
  /\ UNCHANGED <<svcVars, Registered, left>>

\* The call has come to application a.
Turn(calls, a) ==
  /\ op \in calls
  /\ left # << >>
  /\ a = Head(left)
  /\ UNCHANGED <<Registered, op>>

\* As InitTurn, with a return where the code has continue.
InitTurnGivesUp(a) ==
  /\ Turn({"start_all", "start"}, a)
  /\ \/ InitApp(a, TRUE) /\ UNCHANGED left
     \/ InitApp(a, FALSE) /\ left' = << >>

\* init() of an application that is not initialised. When it fails the call
\* goes on with the next.
InitTurn(a) ==
  /\ Turn({"start_all", "start"}, a)
  /\ \/ InitApp(a, TRUE) /\ UNCHANGED left
     \/ InitApp(a, FALSE) /\ left' = Tail(left)

StartTurn(a) ==
  /\ Turn({"start_all", "start"}, a)
  /\ IsInit[a]
  /\ \/ /\ a \in ActiveSvcs \ pending
        /\ BeginStart(a)
        /\ UNCHANGED <<left, registry>>
     \/ (FinishStart(a) \/ StartPassive(a)) /\ UNCHANGED left
     \/ /\ IsStarted[a]
        /\ left' = Tail(left)
        /\ UNCHANGED svcVars

StopTurn(a) ==
  /\ Turn({"stop_all", "stop"}, a)
  /\ \/ /\ a \in ActiveSvcs \ pending
        /\ BeginStop(a)
        /\ UNCHANGED <<left, i>>
     \/ (FinishStop(a) \/ StopPassive(a)) /\ UNCHANGED left
     \/ /\ ~IsStarted[a]
        /\ left' = Tail(left)
        /\ UNCHANGED svcVars

\* The main thread's own business between calls: cleaning up an application,
\* and running a passive one, or sending it a command it has subscribed to in
\* its app_init.
CallCleanup(a) ==
  /\ MainIsFree
  /\ CleanupApp(a)
  /\ UNCHANGED <<Registered, op, left>>

RunPassive(a) ==
  /\ MainIsFree
  /\ a \in PassiveApps
  /\ IsInit[a]
  /\ CallChild(a)
  /\ UNCHANGED <<Registered, op, left>>

MainContinues ==
  \/ CallReturns
  \/ \E a \in Apps : InitTurn(a) \/ StartTurn(a) \/ StopTurn(a)

Owed(s) == Run(s) /\ UNCHANGED <<Registered, op, left>>

Hooks(s) == RunHooks(s) /\ UNCHANGED <<Registered, op, left>>

Next ==
  \/ Call \/ MainContinues
  \/ \E a \in Apps : register_app(a) \/ CallCleanup(a) \/ RunPassive(a)
  \/ \E s \in Svcs : Owed(s) \/ Hooks(s)

Spec == Init /\ [][Next]_vars

\* Threads are scheduled, hooks return, and a call that was begun is finished.
FairSpec ==
  /\ Spec
  /\ WF_vars(MainContinues)
  /\ \A s \in Svcs : WF_vars(Owed(s))

-----------------------------------------------------------------------------
(* Properties.                                                             *)

StillToCome == {left[n] : n \in DOMAIN left}

\* An application that fails to initialise or start does not keep start_all
\* from the others, and stop_all comes to every one of them, while hooks fail
\* and threads end (Executor.cpp:132-161, 205-216): behind the point the loop
\* has reached every application is started, or its init failed; or stopped.
NobodyIsForgotten ==
  \A a \in Listed \ StillToCome :
    /\ op = "start_all" => IsStarted[a] \/ ~IsInit[a]
    /\ op = "stop_all" => ~IsStarted[a]

=============================================================================
