--------------------------- MODULE ExamplesProofs ---------------------------
(***************************************************************************)
(* Theorems about the two example programs, for any depths of their queues *)
(* and any number of iterations of the one-shot child.                     *)
(***************************************************************************)
EXTENDS Examples, ServicesProofs

LEMMA Members ==
  ASSUME NEW a \in Apps
  PROVE  /\ Child1[a] \in ChildrenOf(a) /\ Child2[a] \in ChildrenOf(a)
         /\ Child1[a] # Child2[a]
         /\ CmdDepth \in Nat \ {0} /\ LocalDepth \in Nat \ {0} /\ Iterations \in Nat \ {0}
BY ExamplesAssumption

\* The hooks and handlers that call start_child: of a passive application in
\* main(), of any in its own thread.
StartsChild(a) == CallChild(a) /\ UNCHANGED <<app, iters_left>>

LEMMA HandlerStarts ==
  ASSUME app \in Apps, NEW a \in Apps, HandleCmd(a) \/ StartFirstChild(a)
  PROVE  \/ StartsChild(a)
         \/ UNCHANGED <<svcVars, app, iters_left>>
<1>1. start_child(a, Child1[a]) \/ start_child(a, Child2[a]) \/ UNCHANGED svcVars
  BY DEF HandleCmd, StartFirstChild
<1>2. BetweenCalls(a) /\ UNCHANGED <<app, iters_left>>
  BY DEF HandleCmd, StartFirstChild, msgVars
<1>3. QED
  BY <1>1, <1>2, Members DEF StartsChild, CallChild

LEMMA CommandStarts ==
  ASSUME app \in Apps, send_cmd
  PROVE  \/ app \in PassiveApps /\ StartsChild(app)
         \/ UNCHANGED <<svcVars, app, iters_left>>
BY Members DEF send_cmd, At, Continue, StartsChild, CallChild

\* What a service's own thread does, apart from calling start_child.
LEMMA ThreadRuns ==
  ASSUME NEW s \in Svcs, ThreadStep(s)
  PROVE  \/ Run(s) /\ app' = app /\ main' = main
         \/ s \in Apps /\ (HandleCmd(s) \/ StartFirstChild(s))
         \/ HandleLocalCmd(s)
BY ServicesAssumption DEF ThreadStep, StartFirstChild, PreRunInitReturns, ProcessReturns, CleanupReturns,
   RunnerStep, Run

LEMMA StepsOfServices ==
  ASSUME app \in Apps, [Next]_vars
  PROVE  [SvcNext]_svcVars /\ app' = app
<1> USE SvcsAreDisjoint DEF SvcNext
<1>1. CASE CallInit \/ CallStart \/ CallStop \/ CallCleanup
  <2>1. app' = app
    BY <1>1 DEF CallInit, CallStart, CallStop, CallCleanup, Continue
  <2>2. CallApp(app) \/ UNCHANGED svcVars
    BY <1>1 DEF CallInit, CallStart, CallStop, CallCleanup, CallApp, FinishCall
  <2>3. QED
    BY <2>1, <2>2
<1>2. CASE send_cmd
  BY <1>2, CommandStarts DEF StartsChild
<1>3. ASSUME NEW s \in Svcs, ThreadStep(s)
      PROVE  [SvcNext]_svcVars /\ app' = app
  <2>1. CASE Run(s) /\ app' = app
    BY <2>1
  <2>2. CASE s \in Apps /\ (HandleCmd(s) \/ StartFirstChild(s))
    BY <2>2, HandlerStarts DEF StartsChild
  <2>3. CASE HandleLocalCmd(s)
    BY <2>3 DEF HandleLocalCmd
  <2>4. QED
    BY <1>3, <2>1, <2>2, <2>3, ThreadRuns
<1>4. CASE UNCHANGED vars
  BY <1>4 DEF vars
<1>5. QED
  BY <1>1, <1>2, <1>3, <1>4 DEF Next, MainCalls

\* The program that runs stays the same.
ProgramOK == app \in Apps

\* Refinement: the example programs are among the programs of SvcSpec.
THEOREM ExamplesRunServices == Spec => SvcSpec
<1>1. Init => SvcInit /\ ProgramOK
  BY DEF Init, ProgramOK
<1>2. ProgramOK /\ [Next]_vars => [SvcNext]_svcVars /\ ProgramOK'
  BY StepsOfServices DEF ProgramOK
<1>3. QED
  BY <1>1, <1>2, PTL DEF Spec, SvcSpec

\* Every active service of the example programs keeps the contract of
\* RunnerContract, however main()'s calls, the commands and the ends of the
\* children fall in with each other (Runner.cpp:80-124).
THEOREM ContractIsKept == Spec => ServicesKeepTheContract
BY ExamplesRunServices, EveryServiceKeepsTheContract

-----------------------------------------------------------------------------
(* The one-shot child: it counts down while it is ACTIVE, and is launched  *)
(* at most once, because start_child of a registered child is refused.     *)

\* Where the child stands, and what its counter is.
OneShotInv ==
  LET c == Child1[app] IN
    /\ iters_left \in 0..Iterations
    /\ app \in ActiveSvcs =>
         /\ ~IsRegistered(app, c) =>
              iters_left = Iterations /\ at[c] = "None" /\ c \notin pending
         /\ State[c] = "STARTING" => iters_left = Iterations
         /\ at[c] = "Process" => iters_left > 0
         /\ at[c] = "Run" /\ State[c] = "ACTIVE" => iters_left > 0
         /\ at[c] \in {"StopChildren", "Cleanup"} /\ State[c] # "STOPPING" => iters_left = 0
         /\ State[c] = "EXITED" => iters_left = 0

CountInv == ContractInv /\ ProgramOK /\ OneShotInv

\* A step that does nothing the invariant looks at.
OneShotSame ==
  LET c == Child1[app] IN
    /\ UNCHANGED <<app, iters_left>>
    /\ State'[c] = State[c] /\ at'[c] = at[c]
    /\ c \in pending' => c \in pending \/ IsRegistered(app, c)
    /\ IsRegistered(app, c) => IsRegistered(app, c)'

LEMMA OneShotSameIsGood ==
  ASSUME OneShotInv, OneShotSame
  PROVE  OneShotInv'
BY DEF OneShotInv, OneShotSame

\* The registry only grows, by the child that is started.
LEMMA RegistryGrows ==
  ASSUME SvcTypeOK, NEW a \in Svcs, NEW c \in Children, start_child(a, c)
  PROVE  /\ IsRegistered(a, c)' /\ ~IsRegistered(a, c)
         /\ \A b \in Svcs : \A d : IsRegistered(b, d) => IsRegistered(b, d)'
<1>1. /\ registry[a] \in Seq(Children) /\ registry \in [Svcs -> Seq(Children)]
      /\ registry' = [registry EXCEPT ![a] = Append(registry[a], c)]
      /\ ~IsRegistered(a, c)
  BY DEF start_child, MayRegister, SvcTypeOK
<1>2. /\ DOMAIN Append(registry[a], c) = 1..(Len(registry[a]) + 1)
      /\ DOMAIN registry[a] = 1..Len(registry[a])
      /\ Len(registry[a]) \in Nat
      /\ \A n \in 1..(Len(registry[a]) + 1) :
           Append(registry[a], c)[n] = IF n = Len(registry[a]) + 1 THEN c ELSE registry[a][n]
  BY <1>1
<1>3. registry'[a] = Append(registry[a], c)
  BY <1>1
<1>4. IsRegistered(a, c)'
  <2>1. /\ Len(registry[a]) + 1 \in DOMAIN registry'[a]
        /\ registry'[a][Len(registry[a]) + 1] = c
    BY <1>2, <1>3
  <2>2. QED
    BY <2>1 DEF IsRegistered
<1>5. ASSUME NEW b \in Svcs, NEW d, IsRegistered(b, d)
      PROVE  IsRegistered(b, d)'
  <2>1. PICK n \in DOMAIN registry[b] : registry[b][n] = d
    BY <1>5 DEF IsRegistered
  <2>2. n \in DOMAIN registry'[b] /\ registry'[b][n] = d
    <3>1. CASE b = a
      BY <1>2, <1>3, <2>1, <3>1
    <3>2. CASE b # a
      BY <1>1, <2>1, <3>2
    <3>3. QED
      BY <3>1, <3>2
  <2>3. QED
    BY <2>2 DEF IsRegistered
<1>6. QED
  BY <1>1, <1>4, <1>5

LEMMA StartsKeepCount ==
  ASSUME CountInv, NEW a \in Svcs, StartsChild(a)
  PROVE  OneShotInv'
<1> DEFINE c == Child1[app]
<1> USE SvcsAreDisjoint
<1>1. /\ SvcTypeOK /\ OneShotInv /\ app \in Apps /\ app \in Svcs
      /\ c \in ChildrenOf(app) /\ c \in ActiveSvcs /\ SvcInv(c)
      /\ UNCHANGED <<app, iters_left>> /\ Iterations \in Nat \ {0}
  BY Members DEF CountInv, ContractInv, StartsChild, ProgramOK
<1>2. PICK d \in ChildrenOf(a) : start_child(a, d)
  BY DEF StartsChild, CallChild
<1>3. /\ d \in ActiveSvcs /\ d \in Children
      /\ \A b \in Svcs : \A e : IsRegistered(b, e) => IsRegistered(b, e)'
      /\ IsRegistered(a, d)' /\ ~IsRegistered(a, d)
  BY <1>1, <1>2, RegistryGrows
<1>4. CASE d # c \/ UNCHANGED <<State, at, pending>>
  <2>1. OneShotSame
    BY <1>1, <1>2, <1>3, <1>4 DEF OneShotSame, start_child, BeginStart, SvcTypeOK
  <2>2. QED
    BY <1>1, <2>1, OneShotSameIsGood
<1>5. CASE d = c /\ BeginStart(c)
  <2>1. a = app
    BY <1>1, <1>2, <1>5, FamiliesApart
  <2>2. CASE State[c] \in Startable
    <3>1. at' = at /\ State'[c] = "STARTING" /\ IsRegistered(app, c)'
      BY <1>1, <1>3, <1>5, <2>1, <2>2 DEF BeginStart, SvcTypeOK
    <3>2. app \in ActiveSvcs => iters_left = Iterations /\ at[c] = "None"
      BY <1>1, <1>3, <1>5, <2>1 DEF OneShotInv
    <3>3. QED
      BY <1>1, <3>1, <3>2 DEF OneShotInv
  <2>3. CASE State[c] \notin Startable
    <3>1. UNCHANGED <<State, at, pending>>
      BY <1>5, <2>3 DEF BeginStart
    <3>2. QED
      BY <1>4, <3>1
  <2>4. QED
    BY <2>2, <2>3
<1>6. QED
  BY <1>2, <1>4, <1>5 DEF start_child

\* The child's own thread. Its counter is decremented before it is looked at.
LEMMA CountingKeepsCount ==
  ASSUME CountInv, app \in ActiveSvcs, NEW c, c = Child1[app],
         \/ PreRunInitReturns(c) \/ ProcessReturns(c) \/ CleanupReturns(c)
         \/ TestState(c) \/ ChildrenStopped(c) \/ Return(c),
         ~ProcessReturns(c) => UNCHANGED <<app, iters_left>>
  PROVE  OneShotInv'
<1> USE SvcsAreDisjoint
<1>1. /\ SvcTypeOK /\ OneShotInv /\ app' = app
      /\ c \in ActiveSvcs /\ c \notin PassiveApps /\ c \in Svcs /\ SvcInv(c)
      /\ iters_left \in 0..Iterations /\ Iterations \in Nat \ {0}
  <2>1. app' = app
    BY DEF ProcessReturns
  <2>2. QED
    BY <2>1, Members, ChildIsNoApp, ServicesAssumption
       DEF CountInv, ContractInv, ProgramOK, OneShotInv
<1>2. /\ ~IsRegistered(app, c) => iters_left = Iterations /\ at[c] = "None" /\ c \notin pending
      /\ State[c] = "STARTING" => iters_left = Iterations
      /\ at[c] = "Process" => iters_left > 0
      /\ at[c] = "Run" /\ State[c] = "ACTIVE" => iters_left > 0
      /\ at[c] \in {"StopChildren", "Cleanup"} /\ State[c] # "STOPPING" => iters_left = 0
      /\ State[c] = "EXITED" => iters_left = 0
  BY <1>1 DEF OneShotInv
<1>3. /\ at[c] # "None" /\ IsRegistered(app, c)
      /\ UNCHANGED <<pending, registry>>
  BY <1>1, <1>2 DEF PreRunInitReturns, ProcessReturns, CleanupReturns, PreRunInit, Process, Cleanup,
     TestState, ChildrenStopped, Return, Goes
<1>4. IsRegistered(app, c)'
  BY <1>1, <1>3 DEF IsRegistered
<1>5. SUFFICES /\ iters_left' \in 0..Iterations
               /\ State'[c] = "STARTING" => iters_left' = Iterations
               /\ at'[c] = "Process" => iters_left' > 0
               /\ at'[c] = "Run" /\ State'[c] = "ACTIVE" => iters_left' > 0
               /\ at'[c] \in {"StopChildren", "Cleanup"} /\ State'[c] # "STOPPING" => iters_left' = 0
               /\ State'[c] = "EXITED" => iters_left' = 0
  BY <1>1, <1>4 DEF OneShotInv
<1>6. CASE PreRunInitReturns(c)
  <2>1. at[c] = "PreRunInit" /\ at'[c] = "Run" /\ State'[c] = "ACTIVE" /\ iters_left' = iters_left
    BY <1>1, <1>6 DEF PreRunInitReturns, PreRunInit, Goes, SvcTypeOK, msgVars
  <2>2. State[c] = "STARTING"
    BY <1>1, <2>1 DEF SvcInv
  <2>3. QED
    BY <1>1, <1>2, <2>1, <2>2
<1>7. CASE ProcessReturns(c)
  <2>1. /\ at[c] = "Process" /\ State' = State /\ iters_left' = iters_left - 1
        /\ at'[c] = IF iters_left' = 0 THEN "StopChildren" ELSE "Run"
    BY <1>1, <1>7 DEF ProcessReturns, Process, Goes, OneShot
  <2>2. State[c] \in {"ACTIVE", "STOP_REQUESTED"}
    BY <1>1, <2>1 DEF SvcInv
  <2>3. QED
    BY <1>1, <1>2, <2>1, <2>2
<1>8. CASE CleanupReturns(c)
  <2>1. /\ at[c] = "Cleanup" /\ iters_left' = iters_left
        /\ \/ State[c] = "STOPPING" /\ State'[c] = "STOPPED" /\ at'[c] = "Return"
           \/ State[c] # "STOPPING" /\ State'[c] \in {"STOPPED", "EXITED"} /\ at'[c] = "Run"
    <3>1. at[c] = "Cleanup" /\ iters_left' = iters_left /\ State'[c] \in {"STOPPED", "EXITED"}
      BY <1>1, <1>8 DEF CleanupReturns, Cleanup, Goes, msgVars
    <3>2. CASE State[c] = "STOPPING"
      BY <1>1, <1>8, <3>1, <3>2 DEF CleanupReturns, Cleanup, Goes, SvcTypeOK
    <3>3. CASE State[c] # "STOPPING"
      BY <1>1, <1>8, <3>1, <3>3 DEF CleanupReturns, Cleanup, Goes, SvcTypeOK
    <3>4. QED
      BY <3>2, <3>3
  <2>2. QED
    BY <1>1, <1>2, <2>1
<1>9. CASE TestState(c)
  <2>1. /\ at[c] = "Run" /\ iters_left' = iters_left
        /\ \/ State[c] = "ACTIVE" /\ at'[c] = "Process" /\ State'[c] = State[c]
           \/ at'[c] = "StopChildren" /\ State'[c] = "STOPPING"
           \/ at'[c] = "Return" /\ State'[c] = State[c]
    BY <1>1, <1>3, <1>9 DEF TestState, Goes, SvcTypeOK, ProcessReturns, Process
  <2>2. QED
    BY <1>1, <1>2, <2>1
<1>10. CASE ChildrenStopped(c) \/ Return(c)
  <2>1. /\ State' = State /\ iters_left' = iters_left
        /\ \/ at[c] = "StopChildren" /\ at'[c] = "Cleanup"
           \/ at'[c] = "None"
    BY <1>1, <1>10 DEF ChildrenStopped, Return, Goes, SvcTypeOK, ProcessReturns, Process
  <2>2. QED
    BY <1>1, <1>2, <2>1
<1>11. QED
  BY <1>6, <1>7, <1>8, <1>9, <1>10

\* The two steps of its application's calls on it. A stop() overtaken by the
\* child's end finds the counter at zero.
LEMMA CallsKeepCount ==
  ASSUME CountInv, app \in ActiveSvcs, NEW c, c = Child1[app],
         FinishCall(c), UNCHANGED <<app, iters_left>>
  PROVE  OneShotInv'
<1> USE SvcsAreDisjoint
<1>1. /\ SvcTypeOK /\ OneShotInv /\ c \in ActiveSvcs /\ c \in Svcs /\ SvcInv(c)
      /\ c \in pending /\ registry' = registry
  BY Members, ChildIsNoApp
     DEF CountInv, ContractInv, ProgramOK, FinishCall, FinishStart, FinishStop
<1>2. IsRegistered(app, c) /\ IsRegistered(app, c)'
  BY <1>1 DEF OneShotInv, IsRegistered
<1>3. CASE FinishStart(c)
  <2>1. State[c] = "STARTING" /\ iters_left = Iterations
    BY <1>1, <1>3 DEF SvcInv, OneShotInv, FinishStart
  <2>2. \/ at'[c] = "PreRunInit" /\ State'[c] = State[c]
        \/ at'[c] = at[c] /\ State'[c] = "ERROR"
    BY <1>1, <1>3 DEF FinishStart, SvcTypeOK
  <2>3. Iterations \in Nat \ {0}
    BY Members DEF CountInv, ProgramOK
  <2>4. at[c] \in {"None", "Run", "Return"}
    BY <1>1, <1>3 DEF SvcInv, FinishStart
  <2>5. QED
    BY <1>1, <1>2, <2>1, <2>2, <2>3, <2>4 DEF OneShotInv
<1>4. CASE FinishStop(c)
  <2>1. at' = at /\ State'[c] = "STOP_REQUESTED"
    BY <1>1, <1>4 DEF FinishStop, SvcTypeOK
  <2>2. State[c] \in {"ACTIVE", "EXITED", "ERROR"}
    BY <1>1, <1>4 DEF SvcInv, FinishStop
  <2>3. QED
    BY <1>1, <1>2, <2>1, <2>2 DEF OneShotInv
<1>5. QED
  BY <1>3, <1>4 DEF FinishCall

\* Steps of a thread in which the child's position and state stay the same.
LEMMA OthersKeepCount ==
  ASSUME CountInv, app \in ActiveSvcs, NEW c, c = Child1[app], NEW s \in Svcs,
         Run(s), UNCHANGED <<app, iters_left>>,
         ~FinishCall(c), s # c \/ StopChild(s)
  PROVE  OneShotInv'
<1> USE SvcsAreDisjoint
<1>1. /\ SvcTypeOK /\ OneShotInv /\ OwnChildren /\ c \in ActiveSvcs /\ c \in Svcs
      /\ c \in ChildrenOf(app) /\ app \in Svcs
  BY Members, ChildIsNoApp DEF CountInv, ContractInv, ProgramOK
<1>2. SUFFICES OneShotSame
  BY <1>1, OneShotSameIsGood
<1>3. ASSUME NEW d \in ChildrenOf(s), FinishCall(d)
      PROVE  OneShotSame
  <2>1. d # c /\ d \in Svcs
    BY <1>3
  <2>2. State'[c] = State[c] /\ at'[c] = at[c]
    BY <1>1, <1>3, <2>1 DEF FinishCall, FinishStart, FinishStop, SvcTypeOK
  <2>3. pending' \subseteq pending /\ registry' = registry
    BY <1>3 DEF FinishCall, FinishStart, FinishStop
  <2>4. QED
    BY <2>2, <2>3 DEF OneShotSame, IsRegistered
<1>4. CASE StopChild(s)
  <2> DEFINE d == registry[s][i[s]]
  <2>1. d \in ChildrenOf(s) /\ i[s] \in DOMAIN registry[s]
    BY <1>1, <1>4 DEF StopChild, OwnChildren, SvcTypeOK
  <2>2. UNCHANGED <<State, at, registry>> /\ pending' \subseteq pending \cup {d}
    BY <1>4 DEF StopChild, BeginStop
  <2>3. d = c => s = app
    BY <1>1, <2>1, FamiliesApart
  <2>4. d = c => IsRegistered(app, c)
    BY <2>1, <2>3 DEF IsRegistered
  <2> HIDE DEF d
  <2>5. QED
    BY <2>2, <2>4 DEF OneShotSame, IsRegistered
<1>5. CASE s # c /\ (\/ PreRunInit(s) \/ TestState(s) \/ Process(s)
                     \/ ChildrenStopped(s) \/ Cleanup(s) \/ Return(s))
  <2>1. UNCHANGED <<pending, registry>>
    BY <1>5 DEF PreRunInit, TestState, Process, ChildrenStopped, Cleanup, Return
  <2>2. State'[c] = State[c]
    <3>1. State' = State \/ \E v : State' = [State EXCEPT ![s] = v]
      BY <1>5 DEF PreRunInit, TestState, Process, ChildrenStopped, Cleanup, Return
    <3>2. QED
      BY <1>1, <1>5, <3>1 DEF SvcTypeOK
  <2>3. at'[c] = at[c]
    BY <1>1, <1>5 DEF PreRunInit, TestState, Process, ChildrenStopped, Cleanup, Return, Goes, SvcTypeOK
  <2>4. QED
    BY <2>1, <2>2, <2>3 DEF OneShotSame, IsRegistered
<1>6. QED
  BY <1>3, <1>4, <1>5 DEF Run

\* main()'s calls on the application do nothing to its children.
LEMMA MainKeepsCount ==
  ASSUME CountInv, CallApp(app), UNCHANGED <<app, iters_left>>
  PROVE  OneShotInv'
<1> DEFINE c == Child1[app]
<1> USE SvcsAreDisjoint
<1>1. /\ SvcTypeOK /\ OneShotInv /\ app \in Apps /\ app \in Svcs
      /\ c \in ChildrenOf(app) /\ c \in Svcs /\ c # app
  BY Members, ChildIsNoApp DEF CountInv, ContractInv, ProgramOK
<1>2. State'[c] = State[c] /\ at'[c] = at[c]
  BY <1>1 DEF CallApp, InitApp, CleanupApp, StartPassive, StopPassive, BeginStart, BeginStop,
     FinishCall, FinishStart, FinishStop, SvcTypeOK
<1>3. registry' = registry /\ (c \in pending' => c \in pending)
  BY <1>1 DEF CallApp, InitApp, CleanupApp, StartPassive, StopPassive, BeginStart, BeginStop,
     FinishCall, FinishStart, FinishStop
<1>4. QED
  BY <1>1, <1>2, <1>3, OneShotSameIsGood DEF OneShotSame, IsRegistered

LEMMA ThreadsKeepCount ==
  ASSUME CountInv, NEW s \in Svcs, ThreadStep(s)
  PROVE  OneShotInv'
<1> DEFINE c == Child1[app]
<1> USE SvcsAreDisjoint
<1>1. OneShotInv /\ app \in Apps /\ c \in Svcs /\ c \in Children /\ app' = app /\ c \in ChildrenOf(app)
  BY Members, StepsOfServices DEF CountInv, ProgramOK, Next
<1>2. CASE UNCHANGED <<svcVars, iters_left>>
  BY <1>1, <1>2, OneShotSameIsGood DEF OneShotSame, svcVars, IsRegistered
<1>3. CASE s \in Apps /\ (HandleCmd(s) \/ StartFirstChild(s))
  BY <1>1, <1>2, <1>3, HandlerStarts, StartsKeepCount
<1>4. CASE HandleLocalCmd(s)
  BY <1>2, <1>4 DEF HandleLocalCmd
<1>5. CASE Run(s) /\ app \notin ActiveSvcs
  <2>1. UNCHANGED iters_left
    BY <1>5 DEF ThreadStep, StartFirstChild, PreRunInitReturns, HandleCmd, HandleLocalCmd,
       ProcessReturns, CleanupReturns, RunnerStep, msgVars
  <2>2. QED
    BY <1>1, <1>5, <2>1 DEF OneShotInv
<1>6. CASE Run(s) /\ app \in ActiveSvcs /\ s # c /\ ~FinishCall(c)
  <2>1. UNCHANGED iters_left
    BY <1>6 DEF ThreadStep, StartFirstChild, PreRunInitReturns, HandleCmd, HandleLocalCmd,
       ProcessReturns, CleanupReturns, RunnerStep, msgVars
  <2>2. QED
    BY <1>1, <1>6, <2>1, OthersKeepCount
<1>7. CASE RunnerStep(s) /\ app \in ActiveSvcs /\ FinishCall(c)
  BY <1>1, <1>7, CallsKeepCount DEF RunnerStep, msgVars
<1>8. CASE s = c /\ app \in ActiveSvcs /\ ~FinishCall(c)
           /\ (PreRunInitReturns(s) \/ ProcessReturns(s) \/ CleanupReturns(s) \/ RunnerStep(s))
  <2>1. CASE PreRunInitReturns(c) \/ ProcessReturns(c) \/ CleanupReturns(c)
    BY <1>1, <1>8, <2>1, CountingKeepsCount DEF PreRunInitReturns, CleanupReturns, msgVars
  <2>2. CASE RunnerStep(c)
    <3>1. UNCHANGED <<app, iters_left>>
      BY <2>2 DEF RunnerStep, msgVars
    <3>2. ChildrenOf(c) = {}
      BY <1>1, ServicesAssumption DEF ChildrenOf
    <3>3. CASE TestState(c) \/ ChildrenStopped(c) \/ Return(c)
      BY <1>8, <3>1, <3>3, CountingKeepsCount
    <3>4. CASE StopChild(c)
      BY <1>1, <1>8, <3>1, <3>4, OthersKeepCount DEF Run
    <3>5. QED
      BY <2>2, <3>2, <3>3, <3>4 DEF RunnerStep
  <2>3. QED
    BY <1>8, <2>1, <2>2
<1>9. app \in ActiveSvcs \/ app \notin ActiveSvcs
  OBVIOUS
<1>10. CASE PreRunInitReturns(s) \/ ProcessReturns(s) \/ CleanupReturns(s)
  <2>1. pending' = pending /\ Run(s)
    BY <1>10 DEF PreRunInitReturns, ProcessReturns, CleanupReturns, PreRunInit, Process, Cleanup, Run
  <2>2. ~FinishCall(c)
    BY <2>1 DEF FinishCall, FinishStart, FinishStop
  <2>3. QED
    BY <1>5, <1>6, <1>8, <1>9, <1>10, <2>1, <2>2
<1>11. CASE RunnerStep(s)
  <2>1. Run(s)
    BY <1>11 DEF RunnerStep, Run
  <2>2. QED
    BY <1>5, <1>6, <1>7, <1>8, <1>9, <1>11, <2>1
<1>12. CASE StartFirstChild(s)
  BY <1>3, <1>12, ServicesAssumption DEF StartFirstChild
<1>13. QED
  BY <1>3, <1>4, <1>10, <1>11, <1>12 DEF ThreadStep

LEMMA CountStep ==
  ASSUME CountInv, [Next]_vars
  PROVE  CountInv'
<1>1. ContractInv' /\ ProgramOK' /\ app' = app
  BY StepsOfServices, ContractStep DEF CountInv, ProgramOK
<1>2. SUFFICES OneShotInv'
  BY <1>1 DEF CountInv
<1>3. OneShotInv /\ app \in Apps
  BY DEF CountInv, ProgramOK
<1>4. CASE CallInit \/ CallStart \/ CallStop \/ CallCleanup
  <2>1. UNCHANGED <<app, iters_left>> /\ (CallApp(app) \/ UNCHANGED svcVars)
    BY <1>4 DEF CallInit, CallStart, CallStop, CallCleanup, CallApp, FinishCall, Continue, msgVars
  <2>2. CASE UNCHANGED svcVars
    BY <1>3, <2>1, <2>2, OneShotSameIsGood DEF OneShotSame, svcVars, IsRegistered
  <2>3. QED
    BY <2>1, <2>2, MainKeepsCount
<1>5. CASE send_cmd
  <2>1. CASE UNCHANGED <<svcVars, app, iters_left>>
    BY <1>3, <2>1, OneShotSameIsGood DEF OneShotSame, svcVars, IsRegistered
  <2>2. QED
    BY <1>3, <1>5, <2>1, CommandStarts, StartsKeepCount, SvcsAreDisjoint
<1>6. ASSUME NEW s \in Svcs, ThreadStep(s)
      PROVE  OneShotInv'
  BY <1>6, ThreadsKeepCount
<1>7. CASE UNCHANGED vars
  BY <1>3, <1>7, OneShotSameIsGood DEF OneShotSame, vars, svcVars, IsRegistered
<1>8. QED
  BY <1>4, <1>5, <1>6, <1>7 DEF Next, MainCalls

LEMMA CountInit == Init => CountInv
<1>1. Init => ContractInv /\ ProgramOK
  BY ContractInit DEF Init, ProgramOK
<1>2. Init => OneShotInv
  <2> SUFFICES ASSUME Init
               PROVE  OneShotInv
    OBVIOUS
  <2>1. Child1[app] \in Svcs /\ Iterations \in Nat \ {0}
    BY Members, SvcsAreDisjoint DEF Init
  <2>2. QED
    BY <2>1 DEF Init, SvcInit, OneShotInv
<1>3. QED
  BY <1>1, <1>2 DEF CountInv

LEMMA CountInvHolds == Spec => []CountInv
BY CountInit, CountStep, PTL DEF Spec

\* The counter never runs below zero, and a child that is EXITED, which nobody
\* has stopped, has made all of its loops (ActiveWithChildren.cpp:32, 47-58).
ExitedIsDone ==
  app \in ActiveSvcs /\ State[Child1[app]] = "EXITED" => iters_left = 0

\* The safety half of OneShotEnds: the one-shot child exits by itself only after
\* the last of its loops, whenever commands and stop requests come.
THEOREM OneShotExitsWhenDone == Spec => []ExitedIsDone
<1>1. CountInv => ExitedIsDone
  BY DEF CountInv, OneShotInv, ExitedIsDone
<1>2. QED
  BY <1>1, CountInvHolds, PTL

-----------------------------------------------------------------------------
(* Types.                                                                  *)

LEMMA MainTypes ==
  /\ Len(Main) \in {6, 8} /\ DOMAIN Main = 1..Len(Main)
  /\ \A n \in 1..Len(Main) : Main[n] # "return" => n + 1 \in 1..Len(Main)
<1>1. CASE app \in PassiveApps
  BY <1>1 DEF Main, PassiveMain
<1>2. CASE app \notin PassiveApps
  BY <1>2 DEF Main, ActiveMain
<1>3. QED
  BY <1>1, <1>2

LEMMA MainMovesOn ==
  ASSUME TypeOK, app' = app,
         \/ main' = main
         \/ main' = main + 1 /\ Main[main] # "return"
  PROVE  main' \in 1..Len(Main')
BY MainTypes DEF TypeOK, Main

LEMMA QueueTypes ==
  ASSUME TypeOK, [Next]_vars
  PROVE  cmds' \in Seq(Commands) /\ Len(cmds') <= CmdDepth /\ local_cmds' \in 0..LocalDepth
<1>1. /\ cmds \in Seq(Commands) /\ Len(cmds) <= CmdDepth /\ local_cmds \in 0..LocalDepth
      /\ CmdDepth \in Nat \ {0} /\ LocalDepth \in Nat \ {0}
  BY ExamplesAssumption DEF TypeOK
<1>2. CASE send_cmd
  <2>1. local_cmds' = local_cmds /\ Main[main] \in Commands
    BY <1>2 DEF send_cmd, At
  <2>2. CASE Len(cmds) < CmdDepth /\ cmds' = Append(cmds, Main[main])
    BY <1>1, <2>1, <2>2
  <2>3. CASE cmds' = cmds
    BY <1>1, <2>1, <2>3
  <2>4. QED
    BY <1>2, <2>2, <2>3 DEF send_cmd, Enqueue
<1>3. ASSUME NEW s \in Svcs, HandleCmd(s)
      PROVE  cmds' \in Seq(Commands) /\ Len(cmds') <= CmdDepth /\ local_cmds' \in 0..LocalDepth
  <2>1. cmds # << >> /\ cmds' = Tail(cmds)
    BY <1>3 DEF HandleCmd
  <2>2. \/ local_cmds' = local_cmds
        \/ local_cmds < LocalDepth /\ local_cmds' = local_cmds + 1
    BY <1>3 DEF HandleCmd
  <2>3. QED
    BY <1>1, <2>1, <2>2
<1>4. ASSUME NEW s \in Svcs, HandleLocalCmd(s)
      PROVE  cmds' = cmds /\ local_cmds' \in 0..LocalDepth
  BY <1>1, <1>4 DEF HandleLocalCmd
<1>5. ASSUME NEW s \in Svcs, ThreadStep(s), ~HandleCmd(s), ~HandleLocalCmd(s)
      PROVE  UNCHANGED <<cmds, local_cmds>>
  BY <1>5 DEF ThreadStep, StartFirstChild, PreRunInitReturns, ProcessReturns, CleanupReturns,
     RunnerStep, msgVars
<1>6. CASE CallInit \/ CallStart \/ CallStop \/ CallCleanup \/ UNCHANGED vars
  <2>1. UNCHANGED <<cmds, local_cmds>>
    BY <1>6 DEF CallInit, CallStart, CallStop, CallCleanup, msgVars, vars
  <2>2. QED
    BY <1>1, <2>1
<1>7. QED
  BY <1>1, <1>2, <1>3, <1>4, <1>5, <1>6 DEF Next, MainCalls

LEMMA MainSteps ==
  ASSUME app \in Apps, [Next]_vars
  PROVE  \/ main' = main
         \/ main' = main + 1 /\ Main[main] # "return"
<1>1. ASSUME NEW s \in Svcs, ThreadStep(s)
      PROVE  main' = main
  BY <1>1 DEF ThreadStep, StartFirstChild, PreRunInitReturns, HandleCmd, HandleLocalCmd,
     ProcessReturns, CleanupReturns, RunnerStep
<1>2. CASE MainCalls
  BY <1>2 DEF MainCalls, CallInit, CallStart, CallStop, send_cmd, CallCleanup, At, Continue, Commands
<1>3. QED
  BY <1>1, <1>2 DEF Next, vars

TypesInv == TypeOK /\ CountInv

LEMMA TypesInit == Init => TypesInv
<1> SUFFICES ASSUME Init
             PROVE  TypesInv
  OBVIOUS
<1>1. CountInv /\ SvcTypeOK
  BY CountInit DEF CountInv, ContractInv
<1>2. main \in 1..Len(Main)
  BY MainTypes DEF Init
<1>3. /\ cmds \in Seq(Commands) /\ Len(cmds) <= CmdDepth
      /\ local_cmds \in 0..LocalDepth /\ iters_left \in 0..Iterations
  BY ExamplesAssumption DEF Init
<1>4. QED
  BY <1>1, <1>2, <1>3 DEF TypesInv, TypeOK, Init

LEMMA TypesStep ==
  ASSUME TypesInv, [Next]_vars
  PROVE  TypesInv'
<1>1. CountInv' /\ app' = app /\ app \in Apps
  BY CountStep, StepsOfServices DEF TypesInv, CountInv, ProgramOK
<1>2. SvcTypeOK' /\ app' \in Apps /\ iters_left' \in 0..Iterations
  BY <1>1 DEF CountInv, ContractInv, ProgramOK, OneShotInv
<1>3. main' \in 1..Len(Main')
  BY <1>1, MainSteps, MainMovesOn DEF TypesInv
<1>4. QED
  BY <1>1, <1>2, <1>3, QueueTypes DEF TypesInv, TypeOK

LEMMA TypesInvHolds == Spec => []TypesInv
BY TypesInit, TypesStep, PTL DEF Spec

\* The example programs keep their types: queues within their depths, a counter
\* that does not go below zero, and a main() that does not run past its end.
THEOREM TypeCorrect == Spec => []TypeOK
<1>1. TypesInv => TypeOK
  BY DEF TypesInv
<1>2. QED
  BY <1>1, TypesInvHolds, PTL

-----------------------------------------------------------------------------
(* What main() and the hooks of a passive application do in turn, and with *)
(* it the order in which an application and its children end.              *)

\* The call on the application that is under way is the one main() is in.
AppTurn ==
  \A a \in Apps \cap pending :
    /\ a = app
    /\ \/ Main[main] = "start" /\ ~IsStarted[a]
       \/ Main[main] = "stop" /\ IsStarted[a]

\* The hooks of a passive application run inside main()'s start() and stop().
PassiveTurn ==
  \A a \in PassiveApps : at[a] # "None" =>
    /\ a = app /\ IsInit[a]
    /\ \/ at[a] = "PreRunInit" /\ Main[main] = "start" /\ ~IsStarted[a]
       \/ at[a] \in {"StopChildren", "Cleanup"} /\ Main[main] = "stop" /\ IsStarted[a]

TurnInv ==
  /\ TypesInv
  /\ AppTurn /\ PassiveTurn /\ CoveredInit
  /\ \A a \in PassiveApps : StopLoop(a)

\* What each step has to keep.
TurnsKept ==
  /\ AppTurn' /\ PassiveTurn' /\ CoveredInit'
  /\ \A a \in PassiveApps : StopLoop(a)'

LEMMA TurnParts ==
  ASSUME TurnInv
  PROVE  /\ SvcTypeOK /\ OwnChildren /\ CoveredInit /\ AppTurn /\ PassiveTurn
         /\ \A a \in PassiveApps : StopLoop(a)
         /\ app \in Apps /\ TypeOK
BY DEF TurnInv, TypesInv, CountInv, ContractInv, ProgramOK

\* A thread's own step, inside one of main()'s calls.
LEMMA RunKeepsTurns ==
  ASSUME TurnInv, NEW s \in Svcs, Run(s), UNCHANGED <<app, main>>
  PROVE  TurnsKept
<1> USE TurnParts, SvcsAreDisjoint, ServicesAssumption
<1>1. Main' = Main
  BY DEF Main
<1>2. s \in PassiveApps /\ at[s] # "None" => IsInit[s]
  BY DEF PassiveTurn
<1>3. /\ CoveredInit'
      /\ FlagsKept(IF s \in PassiveApps THEN Apps \ {s} ELSE Apps)
      /\ AppsUndisturbed(IF s \in PassiveApps THEN Apps \ {s} ELSE Apps)
  BY <1>2, RunKeepsCovered, RunDisturbsOneApp
<1>4. AppTurn'
  <2>1. s \in PassiveApps => s \notin pending'
    BY SvcTypesStep DEF SvcTypeOK, ActiveSvcs, SvcNext
  <2>2. QED
    BY <1>1, <1>3, <2>1 DEF AppTurn, FlagsKept
<1>5. PassiveTurn'
  <2>1. CASE s \notin PassiveApps \/ AppsUndisturbed(Apps)
    BY <1>1, <1>3, <2>1 DEF PassiveTurn, AppsUndisturbed
  <2>2. CASE s \in PassiveApps
    <3>1. at[s] \in {"None", "PreRunInit", "StopChildren", "Cleanup"}
      BY <2>2 DEF PassiveTurn
    <3>2. CASE \/ at[s] # "None" /\ at' = [at EXCEPT ![s] = "None"]
               \/ /\ at[s] = "StopChildren" /\ at' = [at EXCEPT ![s] = "Cleanup"]
                  /\ IsStarted' = IsStarted
      BY <1>1, <1>3, <2>2, <3>2 DEF PassiveTurn, AppsUndisturbed, SvcTypeOK
    <3>3. QED
      BY <2>1, <2>2, <3>1, <3>2, PassiveRun
  <2>3. QED
    BY <2>1, <2>2
<1>6. ASSUME NEW a \in PassiveApps
      PROVE  StopLoop(a)'
  <2>1. CASE s # a
    BY <2>1, RunByOthers, LeftAloneKeepsStopLoop
  <2>2. CASE s = a
    <3>1. at[a] \notin {"Run", "Process"}
      BY DEF PassiveTurn
    <3>2. QED
      BY <2>2, <3>1, RunByItself
  <2>3. QED
    BY <2>1, <2>2
<1>7. QED
  BY <1>3, <1>4, <1>5, <1>6 DEF TurnsKept

\* A step of main() from one call to the next: nothing is under way.
NothingUnderWay == Apps \cap pending = {} /\ \A a \in PassiveApps : at[a] = "None"

LEMMA NothingIsTurn ==
  /\ (NothingUnderWay => AppTurn /\ PassiveTurn)
  /\ (NothingUnderWay' => AppTurn' /\ PassiveTurn')
BY DEF NothingUnderWay, AppTurn, PassiveTurn

LEMMA UndisturbedKeepsTurns ==
  ASSUME TurnInv, AppsUndisturbed(Apps), FlagsKept(Apps),
         UNCHANGED <<app, main>> \/ NothingUnderWay
  PROVE  AppTurn' /\ PassiveTurn'
<1> USE TurnParts, ServicesAssumption
<1>1. CASE UNCHANGED <<app, main>>
  BY <1>1 DEF AppTurn, PassiveTurn, AppsUndisturbed, FlagsKept, Main
<1>2. CASE NothingUnderWay
  BY <1>2, NothingIsTurn DEF NothingUnderWay, AppsUndisturbed, FlagsKept
<1>3. QED
  BY <1>1, <1>2

\* A hook or handler starts a child.
LEMMA StartsKeepTurns ==
  ASSUME TurnInv, NEW s \in Svcs, CallChild(s),
         s \in PassiveApps => at[s] \in {"None", "PreRunInit"},
         UNCHANGED <<app, main>> \/ NothingUnderWay
  PROVE  TurnsKept
<1> USE TurnParts, SvcsAreDisjoint
<1>1. AppTurn' /\ PassiveTurn' /\ CoveredInit'
  BY HooksDisturbNoApp, CallChildFlags, UndisturbedKeepsTurns, CallChildKeepsCovered
<1>2. ASSUME NEW a \in PassiveApps
      PROVE  StopLoop(a)'
  BY CallChildKeepsStopLoop
<1>3. QED
  BY <1>1, <1>2 DEF TurnsKept

LEMMA IdleKeepsTurns ==
  ASSUME TurnInv, UNCHANGED svcVars,
         UNCHANGED <<app, main>> \/ NothingUnderWay
  PROVE  TurnsKept
<1> USE TurnParts
<1>1. AppTurn' /\ PassiveTurn' /\ CoveredInit'
  BY UndisturbedKeepsTurns DEF svcVars, AppsUndisturbed, FlagsKept, CoveredInit
<1>2. ASSUME NEW a \in PassiveApps
      PROVE  StopLoop(a)'
  BY LeftAloneKeepsStopLoop DEF svcVars, LeftAlone
<1>3. QED
  BY <1>1, <1>2 DEF TurnsKept

\* At any other call than start() and stop(), or when they have returned.
LEMMA MainIsBetween ==
  ASSUME TurnInv,
         \/ Main[main] \notin {"start", "stop"}
         \/ Main[main] = "start" /\ IsStarted[app]
         \/ Main[main] = "stop" /\ ~IsStarted[app]
  PROVE  NothingUnderWay
BY TurnParts, ServicesAssumption DEF AppTurn, PassiveTurn, NothingUnderWay

\* A step of one of main()'s calls on the application.
LEMMA CallsKeepTurns ==
  ASSUME TurnInv, CallInit \/ CallStart \/ CallStop \/ CallCleanup, CallApp(app)
  PROVE  TurnsKept
<1> USE TurnParts, SvcsAreDisjoint, ServicesAssumption
<1>1. app' = app /\ (app \in PassiveApps => BetweenCalls(app))
  BY DEF CallInit, CallStart, CallStop, CallCleanup, At, Continue
<1>2. CASE CallInit \/ CallCleanup
  <2>1. /\ Main[main] \notin {"start", "stop"}
        /\ UNCHANGED <<IsStarted, at, pending>>
    BY <1>2 DEF CallInit, CallCleanup, At, InitApp, CleanupApp
  <2>2. NothingUnderWay
    BY <2>1, MainIsBetween
  <2>3. NothingUnderWay'
    BY <2>1, <2>2 DEF NothingUnderWay
  <2>4. CoveredInit'
    BY <1>1, <2>2, CallAppKeepsCovered DEF NothingUnderWay
  <2>5. ASSUME NEW a \in PassiveApps
        PROVE  StopLoop(a)'
    BY <1>1, CallAppKeepsStopLoop
  <2>6. QED
    BY <2>3, <2>4, <2>5, NothingIsTurn DEF TurnsKept
<1>3. CASE CallStart \/ CallStop
  <2>1. CASE UNCHANGED svcVars
    <3>1. UNCHANGED <<app, main>> \/ NothingUnderWay
      BY <1>3, MainIsBetween DEF CallStart, CallStop, At
    <3>2. QED
      BY <2>1, <3>1, IdleKeepsTurns
  <2>2. CASE /\ UNCHANGED <<app, main>>
             /\ \/ /\ Main[main] = "start"
                   /\ \/ app \in ActiveSvcs \ pending /\ BeginStart(app) /\ UNCHANGED registry
                      \/ FinishStart(app) \/ StartPassive(app)
                \/ /\ Main[main] = "stop"
                   /\ \/ app \in ActiveSvcs \ pending /\ BeginStop(app) /\ UNCHANGED i
                      \/ FinishStop(app) \/ StopPassive(app)
    <3>1. ~CleanupApp(app) \/ app \notin pending
      BY <2>2 DEF CleanupApp, BeginStart, BeginStop, FinishStart, FinishStop, StartPassive, StopPassive,
         MayStart, MayStop, AppTurn, SvcTypeOK, ActiveSvcs
    <3>2. CoveredInit'
      BY <1>1, <3>1, CallAppKeepsCovered
    <3>3. ASSUME NEW a \in PassiveApps
          PROVE  StopLoop(a)'
      BY <1>1, CallAppKeepsStopLoop
    <3>4. Main' = Main /\ Main'[main'] = Main[main]
      BY <2>2 DEF Main
    <3>5. AppTurn'
      <4>1. /\ pending' \subseteq pending \cup {app}
            /\ app \in pending' => \/ Main[main] = "start" /\ ~IsStarted'[app]
                                   \/ Main[main] = "stop" /\ IsStarted'[app]
        BY <2>2 DEF BeginStart, BeginStop, FinishStart, FinishStop, StartPassive, StopPassive,
           MayStart, MayStop, SvcTypeOK, ActiveSvcs
      <4>2. \A a \in Apps \cap pending' : a = app
        BY <4>1 DEF AppTurn
      <4>3. QED
        BY <1>1, <3>4, <4>1, <4>2 DEF AppTurn
    <3>6. PassiveTurn'
      <4>1. CASE app \in PassiveApps
        <5>1. app \notin ActiveSvcs /\ app \notin pending
          BY <4>1 DEF ActiveSvcs, SvcTypeOK
        <5>2. CASE StartPassive(app) /\ Main[main] = "start"
          BY <1>1, <3>4, <5>2 DEF StartPassive, MayStart, PassiveTurn, SvcTypeOK
        <5>3. CASE StopPassive(app) /\ Main[main] = "stop"
          BY <1>1, <3>4, <5>3 DEF StopPassive, MayStop, PassiveTurn, SvcTypeOK
        <5>4. QED
          BY <2>2, <5>1, <5>2, <5>3 DEF FinishStart, FinishStop
      <4>2. CASE app \notin PassiveApps
        <5>1. \A a \in PassiveApps : at[a] = "None"
          BY <4>2 DEF PassiveTurn
        <5>2. \A a \in PassiveApps : at'[a] = at[a]
          BY <2>2, <4>2 DEF BeginStart, BeginStop, FinishStart, FinishStop, StartPassive, StopPassive,
             SvcTypeOK
        <5>3. QED
          BY <5>1, <5>2 DEF PassiveTurn
      <4>3. QED
        BY <4>1, <4>2
    <3>7. QED
      BY <3>2, <3>3, <3>5, <3>6 DEF TurnsKept
  <2>3. QED
    BY <1>3, <2>1, <2>2 DEF CallStart, CallStop, At, StartPassive, StopPassive, BeginStart, BeginStop,
       FinishStart, FinishStop
<1>4. QED
  BY <1>2, <1>3

LEMMA TurnStep ==
  ASSUME TurnInv, [Next]_vars
  PROVE  TurnInv'
<1> USE TurnParts, SvcsAreDisjoint, ServicesAssumption
<1>1. SUFFICES TurnsKept
  BY TypesStep DEF TurnInv, TurnsKept
<1>2. CASE CallInit \/ CallStart \/ CallStop \/ CallCleanup
  <2>1. CASE CallApp(app)
    BY <1>2, <2>1, CallsKeepTurns
  <2>2. CASE /\ UNCHANGED svcVars
             /\ \/ Main[main] = "start" /\ IsStarted[app]
                \/ Main[main] = "stop" /\ ~IsStarted[app]
    BY <2>2, MainIsBetween, IdleKeepsTurns
  <2>3. CASE CallInit \/ CallCleanup
    BY <2>1, <2>3 DEF CallInit, CallCleanup, CallApp
  <2>4. CASE CallStart
    BY <2>1, <2>2, <2>4 DEF CallStart, At, CallApp, FinishCall
  <2>5. CASE CallStop
    BY <2>1, <2>2, <2>5 DEF CallStop, At, CallApp, FinishCall
  <2>6. QED
    BY <1>2, <2>3, <2>4, <2>5
<1>3. CASE send_cmd
  <2>1. NothingUnderWay
    BY <1>3, MainIsBetween DEF send_cmd, At, Commands
  <2>2. CASE UNCHANGED svcVars
    BY <2>1, <2>2, IdleKeepsTurns
  <2>3. CASE CallChild(app)
    BY <2>1, <2>3, StartsKeepTurns DEF NothingUnderWay
  <2>4. QED
    BY <1>3, <2>2, <2>3, CommandStarts DEF StartsChild
<1>4. ASSUME NEW s \in Svcs, ThreadStep(s)
      PROVE  TurnsKept
  <2>1. CASE Run(s) /\ UNCHANGED <<app, main>>
    BY <2>1, RunKeepsTurns
  <2>2. CASE s \in Apps /\ (HandleCmd(s) \/ StartFirstChild(s))
    <3>1. UNCHANGED <<app, main>> /\ (s \in PassiveApps => at[s] = "PreRunInit")
      BY <2>2 DEF HandleCmd, StartFirstChild, PassiveTurn
    <3>2. CASE CallChild(s)
      BY <3>1, <3>2, StartsKeepTurns
    <3>3. QED
      BY <2>2, <3>1, <3>2, HandlerStarts, IdleKeepsTurns DEF StartsChild
  <2>3. CASE HandleLocalCmd(s)
    BY <2>3, IdleKeepsTurns DEF HandleLocalCmd
  <2>4. QED
    BY <1>4, <2>1, <2>2, <2>3, ThreadRuns
<1>5. CASE UNCHANGED vars
  BY <1>5, IdleKeepsTurns DEF vars
<1>6. QED
  BY <1>2, <1>3, <1>4, <1>5 DEF Next, MainCalls

LEMMA TurnInit == Init => TurnInv
BY TypesInit, SvcsAreDisjoint
   DEF Init, SvcInit, TurnInv, AppTurn, PassiveTurn, CoveredInit, Covered, StopLoop

LEMMA TurnInvHolds == Spec => []TurnInv
BY TurnInit, TurnStep, PTL DEF Spec

\* In the example programs too, what is started is initialised, but for the
\* children of the active application, which app_cleanup may overtake
\* (iSvc.hpp:197, 205; ActiveWithChildren.cpp:157-162).
THEOREM NothingStartedIsUninitialised == Spec => []StartedIsInitialised
<1>1. TurnInv => StartedIsInitialised
  BY DEF TurnInv, CoveredInit, Covered, StartedIsInitialised
<1>2. QED
  BY <1>1, TurnInvHolds, PTL

\* And the passive application's post_run_cleanup comes after its children have
\* been told to stop (Runner.cpp:54-59).
THEOREM CleanupIsLast == Spec => []CleanupComesAfterTheStops
<1>1. TurnInv => CleanupComesAfterTheStops
  BY TurnParts, StopLoopEnds DEF TurnInv, CleanupComesAfterTheStops
<1>2. QED
  BY <1>1, TurnInvHolds, PTL

=============================================================================
