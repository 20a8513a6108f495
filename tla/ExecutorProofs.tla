--------------------------- MODULE ExecutorProofs ---------------------------
(***************************************************************************)
(* Theorems about the executor and the services under it, for any number   *)
(* of applications and children and any capacities.                        *)
(***************************************************************************)
EXTENDS Executor, ServicesProofs

\* Whatever the executor does to services, and they to each other, is a step
\* that Services allows.
LEMMA StepsOfServices ==
  ASSUME [Next]_vars
  PROVE  [SvcNext]_svcVars
<1> USE SvcsAreDisjoint DEF SvcNext
<1>1. ASSUME NEW a \in Apps, InitTurn(a) \/ StartTurn(a) \/ StopTurn(a)
      PROVE  CallApp(a) \/ UNCHANGED svcVars
  BY <1>1 DEF InitTurn, StartTurn, StopTurn, CallApp, FinishCall
<1>2. ASSUME NEW a \in Apps, CallCleanup(a)
      PROVE  CallApp(a)
  BY <1>2 DEF CallCleanup, CallApp
<1>3. ASSUME NEW a \in Apps, RunPassive(a)
      PROVE  CallChild(a)
  BY <1>3 DEF RunPassive
<1>4. ASSUME NEW s \in Svcs, Owed(s) \/ Hooks(s)
      PROVE  Run(s) \/ CallChild(s)
  BY <1>4 DEF Owed, Hooks, RunHooks
<1>5. CASE Call \/ CallReturns \/ UNCHANGED vars \/ \E a \in Apps : register_app(a)
  BY <1>5 DEF Call, CallReturns, register_app, vars
<1>6. QED
  BY <1>1, <1>2, <1>3, <1>4, <1>5 DEF Next, MainContinues

\* Refinement: a program with an executor is one of the programs of SvcSpec.
THEOREM ExecutorRunsServices == Spec => SvcSpec
<1>1. Init => SvcInit
  BY DEF Init
<1>2. [Next]_vars => [SvcNext]_svcVars
  BY StepsOfServices
<1>3. QED
  BY <1>1, <1>2, PTL DEF Spec, SvcSpec

\* Every active service under an executor keeps the contract of RunnerContract:
\* no service has two threads and none is launched while it winds down, whatever
\* applications, children and the main thread do to each other (Runner.cpp:80-124).
THEOREM ContractIsKept == Spec => ServicesKeepTheContract
BY ExecutorRunsServices, EveryServiceKeepsTheContract

-----------------------------------------------------------------------------
(* Types.                                                                  *)

LEMMA ListedType == TypeOK => Listed \subseteq Apps
BY DEF TypeOK, Listed

LEMMA TurnTypes ==
  ASSUME TypeOK, NEW a \in Apps, InitTurn(a) \/ StartTurn(a) \/ StopTurn(a)
  PROVE  left' \in Seq(Apps) /\ UNCHANGED <<Registered, op>>
<1>1. left # << >> /\ UNCHANGED <<Registered, op>>
  BY DEF InitTurn, StartTurn, StopTurn, Turn
<1>2. left' = left \/ left' = Tail(left)
  BY DEF InitTurn, StartTurn, StopTurn
<1>3. Tail(left) \in Seq(Apps)
  BY <1>1 DEF TypeOK
<1>4. QED
  BY <1>1, <1>2, <1>3 DEF TypeOK

LEMMA RegisterTypes ==
  ASSUME TypeOK, NEW a \in Apps, register_app(a)
  PROVE  TypeOK'
<1>1. /\ Registered \in Seq(Apps)
      /\ Len(Registered) \in Nat
      /\ DOMAIN Registered = 1..Len(Registered)
  BY DEF TypeOK
<1>2. /\ Registered' \in Seq(Apps)
      /\ Len(Registered') = Len(Registered) + 1
      /\ Registered'[1] = a
      /\ \A n \in 2..Len(Registered') :
            n - 1 \in DOMAIN Registered /\ Registered'[n] = Registered[n - 1]
  BY <1>1 DEF register_app
<1>3. Len(Registered') <= ContainerSize
  BY <1>1, <1>2, ExecutorAssumption DEF register_app
<1>4. \A n \in DOMAIN Registered : Registered[n] # a
  BY DEF register_app, Listed
<1>5. ASSUME NEW m \in DOMAIN Registered', NEW n \in DOMAIN Registered',
             Registered'[m] = Registered'[n]
      PROVE  m = n
  <2>1. m \in 1..Len(Registered') /\ n \in 1..Len(Registered')
    BY <1>2, <1>5
  <2>2. CASE m = 1 /\ n # 1
    BY <1>1, <1>2, <1>4, <1>5, <2>1, <2>2
  <2>3. CASE m # 1 /\ n = 1
    BY <1>1, <1>2, <1>4, <1>5, <2>1, <2>3
  <2>4. CASE m # 1 /\ n # 1
    <3>1. /\ m - 1 \in DOMAIN Registered
          /\ n - 1 \in DOMAIN Registered
          /\ Registered[m - 1] = Registered[n - 1]
      BY <1>1, <1>2, <1>5, <2>1, <2>4
    <3>2. m - 1 = n - 1
      BY <3>1 DEF TypeOK
    <3>3. QED
      BY <1>1, <1>2, <2>1, <3>2
  <2>5. QED
    BY <2>2, <2>3, <2>4
<1>6. SvcTypeOK' /\ op' \in Op /\ left' \in Seq(Apps)
  BY DEF register_app, TypeOK, svcVars, SvcTypeOK
<1>7. QED
  BY <1>2, <1>3, <1>5, <1>6 DEF TypeOK

LEMMA TypeOKStep ==
  ASSUME TypeOK, [Next]_vars
  PROVE  TypeOK'
<1>1. SvcTypeOK'
  BY StepsOfServices, SvcTypesStep DEF TypeOK
<1>2. CASE Call
  <2>1. op' \in Op /\ UNCHANGED Registered
    BY <1>2 DEF Call, Op
  <2>2. left' \in Seq(Apps)
    <3>1. \A a \in Listed : <<a>> \in Seq(Apps)
      BY ListedType
    <3>2. QED
      BY <1>2, <3>1 DEF Call, TypeOK
  <2>3. QED
    BY <1>1, <2>1, <2>2 DEF TypeOK
<1>3. CASE CallReturns
  BY <1>1, <1>3 DEF CallReturns, TypeOK, Op
<1>4. ASSUME NEW a \in Apps, InitTurn(a) \/ StartTurn(a) \/ StopTurn(a)
      PROVE  TypeOK'
  BY <1>1, <1>4, TurnTypes DEF TypeOK
<1>5. ASSUME NEW a \in Apps, register_app(a)
      PROVE  TypeOK'
  BY <1>5, RegisterTypes
<1>6. CASE UNCHANGED <<Registered, op, left>>
  BY <1>1, <1>6 DEF TypeOK
<1>7. QED
  BY <1>2, <1>3, <1>4, <1>5, <1>6
     DEF Next, MainContinues, CallCleanup, RunPassive, Owed, Hooks, vars

LEMMA TypeOKInit == Init => TypeOK
BY SvcTypesInit, ExecutorAssumption DEF Init, TypeOK, Op

\* Type correctness; with it the capacities of the two kinds of registry, and
\* that the executor has an application's ID only once (Executor.cpp:45-79).
THEOREM TypeCorrect == Spec => []TypeOK
BY TypeOKInit, TypeOKStep, PTL DEF Spec

-----------------------------------------------------------------------------
(* Nobody is forgotten. The loops of the executor are undisturbed because  *)
(* nobody but the main thread changes an application's flags, and it only  *)
(* for the application that a loop has come to, or between calls. For a    *)
(* passive application that takes an invariant: while a hook of it runs,   *)
(* the loop stands at it.                                                  *)

PassiveTurn ==
  \A a \in PassiveApps : at[a] # "None" =>
    /\ left # << >> /\ a = Head(left)
    /\ IsInit[a]
    /\ \/ at[a] = "PreRunInit" /\ op \in {"start_all", "start"} /\ ~IsStarted[a]
       \/ at[a] \in {"StopChildren", "Cleanup"} /\ op \in {"stop_all", "stop"} /\ IsStarted[a]

LoopInv ==
  /\ TypeOK
  /\ PassiveTurn
  /\ NobodyIsForgotten

\* Such a step keeps the invariants for the applications it leaves alone.
LEMMA UndisturbedApps ==
  ASSUME LoopInv, AppsUndisturbed(Apps), UNCHANGED <<Registered, op, left>>
  PROVE  PassiveTurn' /\ NobodyIsForgotten'
<1>1. PassiveTurn'
  BY ServicesAssumption DEF LoopInv, PassiveTurn, AppsUndisturbed
<1>2. NobodyIsForgotten'
  <2>1. Listed \subseteq Apps
    BY ListedType DEF LoopInv
  <2>2. Listed' = Listed /\ StillToCome' = StillToCome
    BY DEF Listed, StillToCome
  <2>3. QED
    BY <2>1, <2>2 DEF LoopInv, NobodyIsForgotten, AppsUndisturbed
<1>3. QED
  BY <1>1, <1>2

\* A thread other than the main thread, and a passive application's own hooks.
LEMMA OwedKeepsLoopInv ==
  ASSUME LoopInv, NEW s \in Svcs, Owed(s)
  PROVE  PassiveTurn' /\ NobodyIsForgotten'
<1> USE SvcsAreDisjoint
<1>1. SvcTypeOK
  BY DEF LoopInv, TypeOK
<1>2. Run(s) /\ UNCHANGED <<Registered, op, left>>
  BY DEF Owed
<1>3. CASE s \notin PassiveApps
  BY <1>1, <1>2, <1>3, RunDisturbsOneApp, UndisturbedApps
<1>4. CASE s \in PassiveApps
  <2>1. AppsUndisturbed(Apps \ {s})
    BY <1>1, <1>2, <1>4, RunDisturbsOneApp
  <2>2. \/ AppsUndisturbed(Apps)
        \/ /\ at[s] # "None"
           /\ PassiveTurn'
    <3>1. at[s] \in {"None", "PreRunInit", "StopChildren", "Cleanup"}
      BY <1>4 DEF LoopInv, PassiveTurn
    <3>2. CASE \/ at[s] # "None" /\ at' = [at EXCEPT ![s] = "None"]
               \/ /\ at[s] = "StopChildren" /\ at' = [at EXCEPT ![s] = "Cleanup"]
                  /\ IsStarted' = IsStarted
      BY <1>1, <1>2, <1>4, <2>1, <3>2, ServicesAssumption
         DEF LoopInv, PassiveTurn, AppsUndisturbed, SvcTypeOK
    <3>3. QED
      BY <1>1, <1>2, <1>4, <3>1, <3>2, PassiveRun
  <2>3. CASE AppsUndisturbed(Apps)
    BY <1>2, <2>3, UndisturbedApps
  <2>4. CASE at[s] # "None" /\ PassiveTurn'
    <3>1. s \in StillToCome
      BY <1>4, <2>4 DEF LoopInv, PassiveTurn, TypeOK, StillToCome
    <3>2. Listed \subseteq Apps /\ Listed' = Listed /\ StillToCome' = StillToCome
      BY <1>2, ListedType DEF LoopInv, Listed, StillToCome
    <3>3. NobodyIsForgotten'
      BY <1>2, <2>1, <3>1, <3>2 DEF LoopInv, NobodyIsForgotten, AppsUndisturbed
    <3>4. QED
      BY <2>4, <3>3
  <2>5. QED
    BY <2>2, <2>3, <2>4
<1>5. QED
  BY <1>3, <1>4

LEMMA HooksKeepLoopInv ==
  ASSUME LoopInv, NEW s \in Svcs, CallChild(s), UNCHANGED <<Registered, op, left>>
  PROVE  PassiveTurn' /\ NobodyIsForgotten'
<1>1. SvcTypeOK
  BY DEF LoopInv, TypeOK
<1>2. QED
  BY <1>1, HooksDisturbNoApp, UndisturbedApps

\* Between the executor's calls nobody runs a passive application.
LEMMA IdleIsQuiet == LoopInv /\ op = "Idle" => \A a \in PassiveApps : at[a] = "None"
BY DEF LoopInv, PassiveTurn

\* Between the loops of the executor there is nothing to remember.
LEMMA QuietSteps ==
  ASSUME LoopInv,
         \/ CallReturns
         \/ Call
         \/ \E a \in Apps : register_app(a) \/ CallCleanup(a)
  PROVE  PassiveTurn' /\ NobodyIsForgotten'
<1> DEFINE Quiet == \A a \in PassiveApps : at'[a] = "None"
<1>1. Quiet => PassiveTurn'
  BY DEF PassiveTurn
<1>2. op' = "Idle" => NobodyIsForgotten'
  BY DEF NobodyIsForgotten
<1>3. CASE CallReturns
  <2>1. \A a \in PassiveApps : at[a] = "None"
    BY <1>3 DEF CallReturns, LoopInv, PassiveTurn
  <2>2. QED
    BY <1>1, <1>2, <1>3, <2>1 DEF CallReturns, svcVars
<1>4. CASE Call
  <2>1. Quiet
    BY <1>4, IdleIsQuiet DEF Call, MainIsFree, svcVars
  <2>2. CASE op' \in {"start_all", "stop_all"} /\ left' = Registered
    <3>1. Listed' = StillToCome'
      BY <1>4, <2>2 DEF Call, Listed, StillToCome
    <3>2. QED
      BY <1>1, <2>1, <3>1 DEF NobodyIsForgotten
  <2>3. CASE op' \in {"start", "stop"}
    BY <1>1, <2>1, <2>3 DEF NobodyIsForgotten
  <2>4. QED
    BY <1>4, <2>2, <2>3 DEF Call
<1>5. ASSUME NEW a \in Apps, register_app(a) \/ CallCleanup(a)
      PROVE  PassiveTurn' /\ NobodyIsForgotten'
  <2>1. op = "Idle" /\ op' = "Idle" /\ at' = at
    BY <1>5 DEF register_app, CallCleanup, MainIsFree, CleanupApp, svcVars
  <2>2. QED
    BY <1>1, <1>2, <2>1, IdleIsQuiet
<1>6. QED
  BY <1>3, <1>4, <1>5

\* A turn disturbs no application but the one it is for, and does not pass it
\* by before it is started, failed to initialise, or is stopped.
LEMMA TurnSteps ==
  ASSUME SvcTypeOK, NEW a \in Apps, InitTurn(a) \/ StartTurn(a) \/ StopTurn(a)
  PROVE  /\ \A b \in Apps \ {a} :
              /\ IsInit'[b] = IsInit[b]
              /\ IsStarted'[b] = IsStarted[b]
              /\ at'[b] = at[b]
         /\ \/ left' = left
            \/ /\ left' = Tail(left)
               /\ op \in {"start_all", "start"} => IsStarted'[a] \/ ~IsInit'[a]
               /\ op \in {"stop_all", "stop"} => ~IsStarted'[a]
<1> USE SvcsAreDisjoint
<1> DEFINE Goal ==
      /\ \A b \in Apps \ {a} :
           /\ IsInit'[b] = IsInit[b]
           /\ IsStarted'[b] = IsStarted[b]
           /\ at'[b] = at[b]
      /\ \/ left' = left
         \/ /\ left' = Tail(left)
            /\ op \in {"start_all", "start"} => IsStarted'[a] \/ ~IsInit'[a]
            /\ op \in {"stop_all", "stop"} => ~IsStarted'[a]
<1>1. CASE InitTurn(a)
  <2>1. ASSUME NEW ok \in BOOLEAN, InitApp(a, ok)
        PROVE  /\ \A b \in Apps \ {a} : IsInit'[b] = IsInit[b]
               /\ ~ok => ~IsInit'[a]
               /\ UNCHANGED <<IsStarted, at>>
    <3>1. PICK inits \in SUBSET ChildrenOf(a) :
            IsInit' = [s \in Svcs |-> IsInit[s] \/ s \in inits \/ (s = a /\ ok)]
      BY <2>1 DEF InitApp
    <3>2. \A b \in Apps : b \in Svcs /\ b \notin inits
      BY ServicesAssumption
    <3>3. QED
      BY <2>1, <3>1, <3>2 DEF InitApp, SvcTypeOK
  <2>2. CASE InitApp(a, TRUE) /\ left' = left
    BY <2>1, <2>2
  <2>3. CASE InitApp(a, FALSE) /\ left' = Tail(left)
    BY <1>1, <2>1, <2>3 DEF InitTurn, Turn
  <2>4. QED
    BY <1>1, <2>2, <2>3 DEF InitTurn
<1>2. CASE StartTurn(a)
  <2>1. CASE IsStarted[a] /\ left' = Tail(left) /\ UNCHANGED svcVars
    BY <1>2, <2>1 DEF StartTurn, Turn, svcVars
  <2>2. CASE left' = left /\ (BeginStart(a) \/ FinishStart(a) \/ StartPassive(a))
    BY <2>2 DEF BeginStart, FinishStart, StartPassive, SvcTypeOK
  <2>3. QED
    BY <1>2, <2>1, <2>2 DEF StartTurn
<1>3. CASE StopTurn(a)
  <2>1. CASE ~IsStarted[a] /\ left' = Tail(left) /\ UNCHANGED svcVars
    BY <1>3, <2>1 DEF StopTurn, Turn, svcVars
  <2>2. CASE left' = left /\ (BeginStop(a) \/ FinishStop(a) \/ StopPassive(a))
    BY <2>2 DEF BeginStop, FinishStop, StopPassive, SvcTypeOK
  <2>3. QED
    BY <1>3, <2>1, <2>2 DEF StopTurn
<1>4. QED
  BY <1>1, <1>2, <1>3

LEMMA TurnKeepsLoopInv ==
  ASSUME LoopInv, NEW a \in Apps, InitTurn(a) \/ StartTurn(a) \/ StopTurn(a)
  PROVE  PassiveTurn' /\ NobodyIsForgotten'
<1> USE SvcsAreDisjoint
<1>1. SvcTypeOK
  BY DEF LoopInv, TypeOK
<1>2. left # << >> /\ a = Head(left) /\ UNCHANGED <<Registered, op>>
  BY DEF InitTurn, StartTurn, StopTurn, Turn
<1>3. \A b \in Apps \ {a} :
        IsInit'[b] = IsInit[b] /\ IsStarted'[b] = IsStarted[b] /\ at'[b] = at[b]
  BY <1>1, TurnSteps
<1>4. PassiveTurn'
  <2>1. ASSUME NEW b \in PassiveApps \ {a}
        PROVE  at'[b] = "None"
    BY <1>2, <1>3, ServicesAssumption DEF LoopInv, PassiveTurn
  <2>2. ASSUME a \in PassiveApps, at'[a] # "None"
        PROVE  /\ left' = left
               /\ IsInit'[a]
               /\ \/ /\ at'[a] = "PreRunInit" /\ op \in {"start_all", "start"}
                     /\ ~IsStarted'[a]
                  \/ /\ at'[a] \in {"StopChildren", "Cleanup"} /\ op \in {"stop_all", "stop"}
                     /\ IsStarted'[a]
    <3>1. a \notin ActiveSvcs /\ a \notin pending
      BY <1>1, <2>2 DEF ActiveSvcs, SvcTypeOK
    <3>2. CASE InitTurn(a)
      BY <2>2, <3>2 DEF InitTurn, InitApp, LoopInv, PassiveTurn
    <3>3. CASE StartTurn(a)
      <4>1. CASE StartPassive(a) /\ left' = left
        BY <1>1, <3>3, <4>1 DEF StartTurn, Turn, StartPassive, MayStart, SvcTypeOK
      <4>2. CASE IsStarted[a] /\ UNCHANGED svcVars
        BY <2>2, <3>3, <4>2 DEF StartTurn, Turn, svcVars, LoopInv, PassiveTurn
      <4>3. QED
        BY <3>1, <3>3, <4>1, <4>2 DEF StartTurn, FinishStart
    <3>4. CASE StopTurn(a)
      <4>1. CASE StopPassive(a) /\ left' = left
        BY <1>1, <3>4, <4>1 DEF StopTurn, Turn, StopPassive, MayStop, SvcTypeOK
      <4>2. CASE ~IsStarted[a] /\ UNCHANGED svcVars
        BY <2>2, <3>4, <4>2 DEF StopTurn, Turn, svcVars, LoopInv, PassiveTurn
      <4>3. QED
        BY <3>1, <3>4, <4>1, <4>2 DEF StopTurn, FinishStop
    <3>5. QED
      BY <3>2, <3>3, <3>4
  <2>3. QED
    BY <1>2, <2>1, <2>2 DEF PassiveTurn
<1>5. NobodyIsForgotten'
  <2>1. Listed' = Listed /\ Listed \subseteq Apps
    BY <1>2, ListedType DEF LoopInv, Listed
  <2>2. StillToCome \subseteq StillToCome' \cup {a}
    <3>1. left \in Seq(Apps)
      BY DEF LoopInv, TypeOK
    <3>2. CASE left' = left
      BY <3>2 DEF StillToCome
    <3>3. CASE left' = Tail(left)
      <4>1. ASSUME NEW n \in DOMAIN left, n # 1
            PROVE  n - 1 \in DOMAIN left' /\ left'[n - 1] = left[n]
        BY <1>2, <3>1, <3>3, <4>1
      <4>2. left[1] = a
        BY <1>2, <3>1
      <4>3. QED
        BY <4>1, <4>2 DEF StillToCome
    <3>4. QED
      BY <1>1, <3>2, <3>3, TurnSteps
  <2>3. ASSUME NEW b \in Listed \ StillToCome', b # a
        PROVE  /\ op = "start_all" => IsStarted'[b] \/ ~IsInit'[b]
               /\ op = "stop_all" => ~IsStarted'[b]
    BY <1>3, <2>1, <2>2, <2>3 DEF LoopInv, NobodyIsForgotten
  <2>4. ASSUME a \notin StillToCome'
        PROVE  /\ op = "start_all" => IsStarted'[a] \/ ~IsInit'[a]
               /\ op = "stop_all" => ~IsStarted'[a]
    <3>1. left' # left
      BY <1>2, <2>4 DEF StillToCome, LoopInv, TypeOK
    <3>2. QED
      BY <1>1, <3>1, TurnSteps
  <2>5. QED
    BY <1>2, <2>1, <2>3, <2>4 DEF NobodyIsForgotten
<1>6. QED
  BY <1>4, <1>5

LEMMA LoopInvInit == Init => LoopInv
BY TypeOKInit, ServicesAssumption
   DEF Init, SvcInit, LoopInv, PassiveTurn, NobodyIsForgotten, Svcs

LEMMA LoopInvStep ==
  ASSUME LoopInv, [Next]_vars
  PROVE  LoopInv'
<1>1. TypeOK'
  BY TypeOKStep DEF LoopInv
<1>2. CASE CallReturns \/ Call \/ \E a \in Apps : register_app(a) \/ CallCleanup(a)
  BY <1>1, <1>2, QuietSteps DEF LoopInv
<1>3. ASSUME NEW a \in Apps, InitTurn(a) \/ StartTurn(a) \/ StopTurn(a)
      PROVE  LoopInv'
  BY <1>1, <1>3, TurnKeepsLoopInv DEF LoopInv
<1>4. ASSUME NEW a \in Apps, RunPassive(a)
      PROVE  LoopInv'
  BY <1>1, <1>4, SvcsAreDisjoint, HooksKeepLoopInv DEF RunPassive, LoopInv
<1>5. ASSUME NEW s \in Svcs, Owed(s)
      PROVE  LoopInv'
  BY <1>1, <1>5, OwedKeepsLoopInv DEF LoopInv
<1>6. ASSUME NEW s \in Svcs, Hooks(s)
      PROVE  LoopInv'
  BY <1>1, <1>6, HooksKeepLoopInv DEF Hooks, RunHooks, LoopInv
<1>7. CASE UNCHANGED vars
  BY <1>1, <1>7 DEF vars, svcVars, LoopInv, PassiveTurn, NobodyIsForgotten, Listed, StillToCome
<1>8. QED
  BY <1>2, <1>3, <1>4, <1>5, <1>6, <1>7 DEF Next, MainContinues

\* start_all passes by no application that it has not started, unless its init
\* failed, and stop_all none that it has not stopped, whatever hooks fail and
\* threads do meanwhile (Executor.cpp:132-161, 205-216).
THEOREM NobodyForgotten == Spec => []NobodyIsForgotten
<1>1. LoopInv => NobodyIsForgotten
  BY DEF LoopInv
<1>2. QED
  BY <1>1, LoopInvInit, LoopInvStep, PTL DEF Spec

-----------------------------------------------------------------------------
(* What is started is initialised. Only the main thread uninitialises      *)
(* anything, between the calls of the executor, and then no call on an     *)
(* application or on a child of a passive one is under way.                *)

\* The call on an application that is under way is the one the loop is in.
AppTurn ==
  \A a \in Apps \cap pending :
    /\ left # << >> /\ a = Head(left)
    /\ \/ op \in {"start_all", "start"} /\ ~IsStarted[a]
       \/ op \in {"stop_all", "stop"} /\ IsStarted[a]

StartedInv ==
  /\ ContractInv
  /\ LoopInv
  /\ AppTurn
  /\ CoveredInit

LEMMA AppTurnKept ==
  ASSUME AppTurn, UNCHANGED <<op, left>>, FlagsKept(Apps)
  PROVE  AppTurn'
BY DEF AppTurn, FlagsKept

LEMMA OwedKeepsStarted ==
  ASSUME StartedInv, NEW s \in Svcs, Owed(s)
  PROVE  CoveredInit' /\ AppTurn'
<1>1. /\ SvcTypeOK /\ OwnChildren /\ CoveredInit /\ AppTurn /\ PassiveTurn
      /\ Run(s) /\ UNCHANGED <<op, left>>
  BY DEF StartedInv, ContractInv, LoopInv, Owed
<1>2. s \in PassiveApps /\ at[s] # "None" => IsInit[s]
  BY <1>1 DEF PassiveTurn
<1>3. CoveredInit' /\ FlagsKept(IF s \in PassiveApps THEN Apps \ {s} ELSE Apps)
  BY <1>1, <1>2, RunKeepsCovered
<1>4. CASE s \in PassiveApps
  <2>1. \A a \in Apps \ {s} : IsStarted'[a] = IsStarted[a] /\ (a \in pending' <=> a \in pending)
    BY <1>3, <1>4 DEF FlagsKept
  <2>2. s \notin pending /\ s \notin pending'
    BY <1>1, <1>4, SvcTypesStep DEF SvcTypeOK, ActiveSvcs, SvcNext
  <2>3. QED
    BY <1>1, <1>3, <2>1, <2>2 DEF AppTurn
<1>5. CASE s \notin PassiveApps
  BY <1>1, <1>3, <1>5, AppTurnKept
<1>6. QED
  BY <1>4, <1>5

LEMMA TurnKeepsStarted ==
  ASSUME StartedInv, NEW a \in Apps, InitTurn(a) \/ StartTurn(a) \/ StopTurn(a)
  PROVE  CoveredInit' /\ AppTurn'
<1> USE SvcsAreDisjoint
<1>1. /\ SvcTypeOK /\ CoveredInit /\ AppTurn
      /\ left # << >> /\ a = Head(left) /\ op' = op
      /\ a \in Covered
  <2>1. a \in Covered
    BY ServicesAssumption DEF Covered, ChildrenOf
  <2>2. QED
    BY <2>1 DEF StartedInv, ContractInv, InitTurn, StartTurn, StopTurn, Turn
<1>2. \A b \in Apps \cap pending : b = a
  BY <1>1 DEF AppTurn
<1>3. CASE InitTurn(a)
  <2>1. PICK inits \in SUBSET ChildrenOf(a), ok \in BOOLEAN :
          IsInit' = [s \in Svcs |-> IsInit[s] \/ s \in inits \/ (s = a /\ ok)]
    BY <1>3 DEF InitTurn, InitApp
  <2>2. ~IsInit[a] /\ UNCHANGED <<IsStarted, pending>>
    BY <1>3 DEF InitTurn, InitApp
  <2>3. a \notin pending
    BY <1>1, <2>2 DEF CoveredInit
  <2>4. AppTurn'
    BY <1>2, <2>2, <2>3 DEF AppTurn
  <2>5. CoveredInit'
    BY <1>1, <2>1, <2>2 DEF CoveredInit, Covered, SvcTypeOK
  <2>6. QED
    BY <2>4, <2>5
<1>4. CASE /\ left' = left
           /\ \/ StartTurn(a) /\ a \in ActiveSvcs \ pending /\ BeginStart(a)
              \/ StopTurn(a) /\ a \in ActiveSvcs \ pending /\ BeginStop(a)
  <2>1. CoveredInit'
    BY <1>1, <1>4, CallKeepsCovered
  <2>2. /\ pending' \subseteq pending \cup {a}
        /\ a \in pending' => \/ op \in {"start_all", "start"} /\ ~IsStarted'[a]
                             \/ op \in {"stop_all", "stop"} /\ IsStarted'[a]
    BY <1>1, <1>4 DEF StartTurn, StopTurn, Turn, BeginStart, BeginStop, MayStart, MayStop, SvcTypeOK
  <2>3. AppTurn'
    BY <1>1, <1>2, <1>4, <2>2 DEF AppTurn
  <2>4. QED
    BY <2>1, <2>3
<1>5. CASE left' = left /\ FinishCall(a)
  <2>1. a \in ActiveSvcs
    BY <1>1, <1>5 DEF FinishCall, FinishStart, FinishStop, SvcTypeOK
  <2>2. CoveredInit' /\ a \notin pending' /\ pending' \subseteq pending
    BY <1>1, <1>5, <2>1, CallKeepsCovered DEF FinishCall, FinishStart, FinishStop
  <2>3. QED
    BY <1>2, <2>2 DEF AppTurn
<1>6. CASE UNCHANGED <<IsInit, IsStarted, pending>> /\ left' = left
  BY <1>1, <1>6 DEF AppTurn, CoveredInit
<1>7. CASE /\ UNCHANGED svcVars
           /\ \/ StartTurn(a) /\ IsStarted[a]
              \/ StopTurn(a) /\ ~IsStarted[a]
  <2>1. a \notin pending
    BY <1>1, <1>7 DEF AppTurn, StartTurn, StopTurn, Turn
  <2>2. QED
    BY <1>1, <1>2, <1>7, <2>1 DEF AppTurn, CoveredInit, svcVars
<1>8. QED
  <2>1. StartPassive(a) \/ StopPassive(a) => UNCHANGED <<IsInit, IsStarted, pending>>
    BY DEF StartPassive, StopPassive
  <2>2. QED
    BY <1>3, <1>4, <1>5, <1>6, <1>7, <2>1 DEF StartTurn, StopTurn, FinishCall

\* Between the executor's calls no call on an application is under way, and
\* cleaning up spares the services that are started.
LEMMA CleanupKeepsStarted ==
  ASSUME StartedInv, NEW a \in Apps, CallCleanup(a)
  PROVE  CoveredInit' /\ AppTurn'
<1>1. /\ SvcTypeOK /\ CoveredInit /\ AppTurn /\ op = "Idle" /\ CleanupApp(a)
      /\ \A b \in PassiveApps : BetweenCalls(b)
      /\ UNCHANGED <<IsStarted, pending, op, left>>
  BY DEF StartedInv, ContractInv, CallCleanup, MainIsFree, CleanupApp
<1>2. Apps \cap pending = {}
  BY <1>1 DEF AppTurn
<1>3. CoveredInit'
  BY <1>1, <1>2, CallAppKeepsCovered DEF CallApp
<1>4. QED
  BY <1>1, <1>2, <1>3 DEF AppTurn

LEMMA StartedStep ==
  ASSUME StartedInv, [Next]_vars
  PROVE  StartedInv'
<1>1. ContractInv' /\ LoopInv'
  BY StepsOfServices, ContractStep, LoopInvStep DEF StartedInv
<1>2. SUFFICES CoveredInit' /\ AppTurn'
  BY <1>1 DEF StartedInv
<1>3. CASE CallReturns \/ Call \/ (\E a \in Apps : register_app(a)) \/ UNCHANGED vars
  <2>1. UNCHANGED <<IsInit, IsStarted, pending>>
    BY <1>3 DEF CallReturns, Call, register_app, svcVars, vars
  <2>2. \/ UNCHANGED <<op, left>>
        \/ Apps \cap pending = {}
    BY <1>3 DEF CallReturns, Call, MainIsFree, register_app, vars, StartedInv, AppTurn
  <2>3. QED
    BY <2>1, <2>2 DEF StartedInv, AppTurn, CoveredInit
<1>4. ASSUME NEW s \in Svcs, CallChild(s), UNCHANGED <<op, left>>
      PROVE  CoveredInit' /\ AppTurn'
  BY <1>4, CallChildKeepsCovered, CallChildFlags, AppTurnKept DEF StartedInv, ContractInv
<1>5. QED
  BY <1>3, <1>4, TurnKeepsStarted, CleanupKeepsStarted, OwedKeepsStarted, SvcsAreDisjoint
     DEF Next, MainContinues, RunPassive, Hooks, RunHooks

LEMMA StartedInit == Init => StartedInv
BY ContractInit, LoopInvInit DEF Init, SvcInit, StartedInv, AppTurn, CoveredInit, Covered

LEMMA StartedInvHolds == Spec => []StartedInv
BY StartedInit, StartedStep, PTL DEF Spec

\* A service that is started is initialised, so that its stop() is not refused,
\* in every program, but for the children of active applications
\* (iSvc.cpp:59, 85).
THEOREM NothingStartedIsUninitialised == Spec => []StartedIsInitialised
<1>1. StartedInv => StartedIsInitialised
  BY DEF StartedInv, CoveredInit, Covered, StartedIsInitialised
<1>2. QED
  BY <1>1, StartedInvHolds, PTL

-----------------------------------------------------------------------------
(* The cleanup of a passive application. When the executor tells it to     *)
(* stop, no call on a child is under way: between the executor's calls,    *)
(* and then in every hook, such calls are waited for.                      *)

QuietChildren(a) == at[a] = "None" /\ op # "Idle" => BetweenCalls(a)

StopsInv ==
  /\ StartedInv
  /\ \A a \in PassiveApps : StopLoop(a) /\ QuietChildren(a)

LEMMA LeftAloneKeepsQuiet ==
  ASSUME NEW a \in PassiveApps, QuietChildren(a), LeftAlone(a), op' = op
  PROVE  QuietChildren(a)'
BY DEF LeftAlone, QuietChildren, BetweenCalls

\* A passive application's hooks return between the calls on its children.
LEMMA OwedKeepsQuiet ==
  ASSUME SvcTypeOK, NEW a \in PassiveApps, QuietChildren(a), Run(a), op' = op
  PROVE  QuietChildren(a)'
<1> USE SvcsAreDisjoint
<1>1. CASE \E c \in ChildrenOf(a) : FinishCall(c)
  <2>1. PICK c \in ChildrenOf(a) : FinishCall(c)
    BY <1>1
  <2>2. c # a /\ pending' \subseteq pending
    BY <2>1, ChildIsNoApp, ServicesAssumption DEF FinishCall, FinishStart, FinishStop
  <2>3. at'[a] = at[a]
    BY <2>1, <2>2 DEF FinishCall, FinishStart, FinishStop, SvcTypeOK
  <2>4. QED
    BY <2>2, <2>3 DEF QuietChildren, BetweenCalls
<1>2. CASE StopChild(a)
  BY <1>2 DEF StopChild, BeginStop, QuietChildren
<1>3. CASE \/ PreRunInit(a) \/ TestState(a) \/ Process(a)
           \/ ChildrenStopped(a) \/ Cleanup(a) \/ Return(a)
  <2>1. BetweenCalls(a) /\ pending' = pending
    BY <1>3 DEF PreRunInit, TestState, Process, ChildrenStopped, Cleanup, Return, Goes
  <2>2. QED
    BY <2>1 DEF QuietChildren, BetweenCalls
<1>4. QED
  BY <1>1, <1>2, <1>3 DEF Run

LEMMA StopsStep ==
  ASSUME StopsInv, [Next]_vars
  PROVE  StopsInv'
<1> USE SvcsAreDisjoint
<1>1. SUFFICES ASSUME NEW a \in PassiveApps
               PROVE  StopLoop(a)' /\ QuietChildren(a)'
  BY StartedStep DEF StopsInv
<1>2. /\ StopLoop(a) /\ QuietChildren(a)
      /\ SvcTypeOK /\ OwnChildren /\ CoveredInit /\ PassiveTurn /\ a \in Svcs
  BY DEF StopsInv, StartedInv, ContractInv, LoopInv
<1>3. CASE CallReturns \/ Call \/ \E b \in Apps : register_app(b) \/ CallCleanup(b)
  <2>1. UNCHANGED <<IsStarted, State, at, i, pending, registry>>
    BY <1>3 DEF CallReturns, Call, register_app, CallCleanup, CleanupApp, svcVars
  <2>2. StopLoop(a)'
    BY <1>2, <2>1, LeftAloneKeepsStopLoop DEF LeftAlone
  <2>3. CASE op' = "Idle"
    BY <2>2, <2>3 DEF QuietChildren
  <2>4. CASE Call
    BY <2>1, <2>2, <2>4 DEF Call, MainIsFree, QuietChildren, BetweenCalls
  <2>5. QED
    BY <1>3, <2>3, <2>4 DEF CallReturns, register_app, CallCleanup, MainIsFree
<1>4. ASSUME NEW b \in Apps, InitTurn(b) \/ StartTurn(b) \/ StopTurn(b)
      PROVE  StopLoop(a)' /\ QuietChildren(a)'
  <2>1. op' = op /\ op # "Idle"
    BY <1>4 DEF InitTurn, StartTurn, StopTurn, Turn
  <2>2. CASE UNCHANGED svcVars
    BY <1>2, <2>1, <2>2, LeftAloneKeepsStopLoop, LeftAloneKeepsQuiet DEF svcVars, LeftAlone
  <2>3. CASE CallApp(b)
    <3>1. StopPassive(b) /\ b = a => BetweenCalls(a)
      BY <1>2, <2>1 DEF StopPassive, QuietChildren
    <3>2. StopLoop(a)' /\ \A c \in ChildrenOf(a) : c \in pending' <=> c \in pending
      BY <1>2, <2>3, <3>1, CallAppKeepsStopLoop
    <3>3. at'[a] = "None" => at[a] = "None"
      <4>1. \/ at' = at
            \/ \E p \in {"PreRunInit", "StopChildren"} : at' = [at EXCEPT ![b] = p]
        BY <2>3 DEF CallApp, InitApp, CleanupApp, StartPassive, StopPassive, BeginStart, BeginStop,
           FinishCall, FinishStart, FinishStop
      <4>2. QED
        BY <1>2, <4>1 DEF SvcTypeOK
    <3>4. QED
      BY <1>2, <2>1, <3>2, <3>3 DEF QuietChildren, BetweenCalls
  <2>4. QED
    BY <1>4, <2>2, <2>3 DEF InitTurn, StartTurn, StopTurn, CallApp, FinishCall
<1>5. ASSUME NEW s \in Svcs, CallChild(s), op' = op,
             s = a => at[a] = "PreRunInit" \/ op = "Idle"
      PROVE  StopLoop(a)' /\ QuietChildren(a)'
  <2>1. CASE s # a
    BY <1>2, <1>5, <2>1, CallChildKeepsStopLoop, LeftAloneKeepsQuiet
  <2>2. CASE s = a
    <3>1. at[a] \in {"None", "PreRunInit"}
      BY <1>2, <1>5, <2>2 DEF PassiveTurn
    <3>2. StopLoop(a)'
      BY <1>2, <1>5, <2>2, <3>1, CallChildKeepsStopLoop
    <3>3. AppsUndisturbed(Apps)
      BY <1>2, <1>5, HooksDisturbNoApp
    <3>4. at'[a] = at[a]
      BY <3>3, ServicesAssumption DEF AppsUndisturbed
    <3>5. QED
      BY <1>5, <2>2, <3>2, <3>4 DEF QuietChildren
  <2>3. QED
    BY <2>1, <2>2
<1>6. ASSUME NEW b \in Apps, RunPassive(b)
      PROVE  StopLoop(a)' /\ QuietChildren(a)'
  BY <1>5, <1>6 DEF RunPassive, MainIsFree
<1>7. ASSUME NEW s \in Svcs, Hooks(s)
      PROVE  StopLoop(a)' /\ QuietChildren(a)'
  <2>1. s = a => at[a] = "PreRunInit"
    BY <1>2, <1>7 DEF Hooks, RunHooks, PassiveTurn
  <2>2. QED
    BY <1>5, <1>7, <2>1 DEF Hooks, RunHooks
<1>8. ASSUME NEW s \in Svcs, Owed(s)
      PROVE  StopLoop(a)' /\ QuietChildren(a)'
  <2>1. Run(s) /\ op' = op
    BY <1>8 DEF Owed
  <2>2. CASE s # a
    BY <1>2, <2>1, <2>2, RunByOthers, LeftAloneKeepsStopLoop, LeftAloneKeepsQuiet
  <2>3. CASE s = a
    <3>1. at[a] \notin {"Run", "Process"}
      BY <1>2 DEF PassiveTurn
    <3>2. QED
      BY <1>2, <2>1, <2>3, <3>1, RunByItself, OwedKeepsQuiet
  <2>4. QED
    BY <2>2, <2>3
<1>9. CASE UNCHANGED vars
  BY <1>2, <1>9, LeftAloneKeepsStopLoop, LeftAloneKeepsQuiet DEF vars, svcVars, LeftAlone
<1>10. QED
  BY <1>3, <1>4, <1>6, <1>7, <1>8, <1>9 DEF Next, MainContinues

LEMMA StopsInit == Init => StopsInv
BY StartedInit, SvcsAreDisjoint DEF Init, SvcInit, StopsInv, StopLoop, QuietChildren

LEMMA StopsInvHolds == Spec => []StopsInv
BY StopsInit, StopsStep, PTL DEF Spec

\* When a passive application's post_run_cleanup is called, every child it has
\* registered has been told to stop and none of those calls is under way, for
\* any number of children (Runner.cpp:54-59).
THEOREM CleanupIsLast == Spec => []CleanupComesAfterTheStops
<1>1. StopsInv => CleanupComesAfterTheStops
  BY StopLoopEnds DEF StopsInv, StartedInv, ContractInv, CleanupComesAfterTheStops
<1>2. QED
  BY <1>1, StopsInvHolds, PTL

=============================================================================
