--------------------------- MODULE ServicesProofs ---------------------------
(***************************************************************************)
(* Theorems about services, for any number of applications and children    *)
(* and any program that calls the applications as SvcSpec allows: types,   *)
(* and that every service keeps the contract of RunnerContract; and lemmas *)
(* about the steps of Services from which ExecutorProofs and ExamplesProofs *)
(* go on.                                                                  *)
(***************************************************************************)
EXTENDS Services, TLAPS

LEMMA SvcsAreDisjoint ==
  /\ Children \subseteq ActiveSvcs
  /\ ActiveSvcs \subseteq Svcs
  /\ PassiveApps \subseteq Svcs
  /\ Apps \subseteq Svcs
  /\ \A s \in Svcs : ChildrenOf(s) \subseteq Children
BY ServicesAssumption DEF Svcs, ActiveSvcs, ChildrenOf

\* Nothing a child's caller does is about an application.
LEMMA ChildIsNoApp ==
  ASSUME NEW s \in Svcs, NEW c \in ChildrenOf(s)
  PROVE  c \in ActiveSvcs /\ c \notin Apps /\ c \in Children
BY SvcsAreDisjoint, ServicesAssumption DEF ActiveSvcs, ChildrenOf

-----------------------------------------------------------------------------
(* Types.                                                                  *)

LEMMA CallTypes ==
  ASSUME SvcTypeOK, NEW s \in ActiveSvcs,
         \/ BeginStart(s) /\ registry' = registry
         \/ BeginStop(s) /\ i' = i
         \/ FinishCall(s)
  PROVE  SvcTypeOK'
<1> USE SvcsAreDisjoint
<1>1. CASE BeginStart(s) /\ registry' = registry
  BY <1>1 DEF BeginStart, SvcTypeOK, State_t
<1>2. CASE BeginStop(s) /\ i' = i
  BY <1>2 DEF BeginStop, SvcTypeOK
<1>3. CASE FinishStart(s)
  BY <1>3 DEF FinishStart, SvcTypeOK, State_t, Position
<1>4. CASE FinishStop(s)
  BY <1>4 DEF FinishStop, SvcTypeOK, State_t
<1>5. QED
  BY <1>1, <1>2, <1>3, <1>4 DEF FinishCall

LEMMA StartChildTypes ==
  ASSUME SvcTypeOK, NEW a \in Svcs, CallChild(a)
  PROVE  SvcTypeOK'
<1> USE SvcsAreDisjoint
<1>1. PICK c \in ChildrenOf(a) : start_child(a, c)
  BY DEF CallChild
<1>2. c \in Children
  OBVIOUS
<1>3. /\ registry' \in [Svcs -> Seq(Children)]
      /\ \A s \in Svcs : Len(registry'[s]) <= MaxChildren
  <2>1. /\ registry[a] \in Seq(Children)
        /\ Len(registry[a]) # MaxChildren
        /\ Len(registry[a]) <= MaxChildren
        /\ registry' = [registry EXCEPT ![a] = Append(registry[a], c)]
    BY <1>1 DEF SvcTypeOK, start_child, MayRegister
  <2>2. /\ Append(registry[a], c) \in Seq(Children)
        /\ Len(Append(registry[a], c)) = Len(registry[a]) + 1
    BY <1>2, <2>1
  <2>3. Len(registry[a]) \in Nat /\ MaxChildren \in Nat
    BY <2>1, ServicesAssumption
  <2>4. QED
    BY <2>1, <2>2, <2>3 DEF SvcTypeOK
<1>4. CASE BeginStart(c)
  BY <1>2, <1>3, <1>4 DEF BeginStart, SvcTypeOK, State_t
<1>5. CASE UNCHANGED <<IsInit, IsStarted, State, at, i, pending>>
  BY <1>3, <1>5 DEF SvcTypeOK
<1>6. QED
  BY <1>1, <1>4, <1>5 DEF start_child

LEMMA RunTypes ==
  ASSUME SvcTypeOK, NEW s \in Svcs, Run(s)
  PROVE  SvcTypeOK'
<1> USE SvcsAreDisjoint
<1>1. ASSUME NEW c \in ChildrenOf(s), FinishCall(c)
      PROVE  SvcTypeOK'
  BY <1>1, CallTypes
<1>2. CASE PreRunInit(s)
  BY <1>2 DEF PreRunInit, Goes, SvcTypeOK, State_t, Position
<1>3. CASE TestState(s)
  BY <1>3 DEF TestState, Goes, SvcTypeOK, State_t, Position
<1>4. CASE Process(s)
  BY <1>4 DEF Process, Goes, SvcTypeOK, State_t, Position
<1>5. CASE StopChild(s)
  <2> DEFINE c == registry[s][i[s]]
  <2>1. c \in Children
    BY <1>5 DEF StopChild, SvcTypeOK
  <2>2. i' \in [Svcs -> Nat \ {0}]
    BY <1>5 DEF StopChild, SvcTypeOK
  <2>3. CASE BeginStop(c)
    BY <2>1, <2>2, <2>3 DEF BeginStop, SvcTypeOK
  <2>4. CASE UNCHANGED <<IsInit, IsStarted, State, at, pending, registry>>
    BY <2>2, <2>4 DEF SvcTypeOK
  <2>5. QED
    BY <1>5, <2>3, <2>4 DEF StopChild
<1>6. CASE ChildrenStopped(s)
  BY <1>6 DEF ChildrenStopped, Goes, SvcTypeOK, Position
<1>7. CASE Cleanup(s)
  BY <1>7 DEF Cleanup, Goes, SvcTypeOK, State_t, Position
<1>8. CASE Return(s)
  BY <1>8 DEF Return, Goes, SvcTypeOK, Position
<1>9. QED
  BY <1>1, <1>2, <1>3, <1>4, <1>5, <1>6, <1>7, <1>8 DEF Run

LEMMA CallAppTypes ==
  ASSUME SvcTypeOK, NEW a \in Apps, CallApp(a)
  PROVE  SvcTypeOK'
<1> USE SvcsAreDisjoint
<1>1. CASE InitApp(a, TRUE) \/ InitApp(a, FALSE)
  <2>1. IsInit' \in [Svcs -> BOOLEAN]
    BY <1>1, Zenon DEF InitApp
  <2>2. QED
    BY <1>1, <2>1 DEF InitApp, SvcTypeOK
<1>2. CASE CleanupApp(a)
  <2>1. IsInit' \in [Svcs -> BOOLEAN]
    BY <1>2, Zenon DEF CleanupApp
  <2>2. QED
    BY <1>2, <2>1 DEF CleanupApp, SvcTypeOK
<1>3. CASE StartPassive(a)
  BY <1>3 DEF StartPassive, SvcTypeOK, Position
<1>4. CASE StopPassive(a)
  BY <1>4 DEF StopPassive, SvcTypeOK, Position
<1>5. CASE a \in ActiveSvcs \ pending /\ BeginStart(a) /\ UNCHANGED registry
  BY <1>5, CallTypes
<1>6. CASE a \in ActiveSvcs \ pending /\ BeginStop(a) /\ UNCHANGED i
  BY <1>6, CallTypes
<1>7. CASE FinishCall(a)
  <2>1. a \in ActiveSvcs
    BY <1>7 DEF FinishCall, FinishStart, FinishStop, SvcTypeOK
  <2>2. QED
    BY <1>7, <2>1, CallTypes
<1>8. QED
  BY <1>1, <1>2, <1>3, <1>4, <1>5, <1>6, <1>7 DEF CallApp

LEMMA SvcTypesInit == SvcInit => SvcTypeOK
BY ServicesAssumption DEF SvcInit, SvcTypeOK, State_t, Position

LEMMA SvcTypesStep ==
  ASSUME SvcTypeOK, [SvcNext]_svcVars
  PROVE  SvcTypeOK'
<1>1. CASE UNCHANGED svcVars
  BY <1>1 DEF svcVars, SvcTypeOK
<1>2. QED
  BY <1>1, CallAppTypes, RunTypes, StartChildTypes DEF SvcNext

\* The services of any program keep their types; with it the capacity of an
\* application's registry of children (App.cpp:35-49).
THEOREM ServicesKeepTheirTypes == SvcSpec => []SvcTypeOK
BY SvcTypesInit, SvcTypesStep, PTL DEF SvcSpec

-----------------------------------------------------------------------------
(* The contract. Where the thread of a service stands, and whether a call  *)
(* on it is under way, determines what its State can be.                   *)

SvcInv(s) ==
  /\ at[s] = "None" => State[s] \notin {"ACTIVE", "STOPPING"}
  /\ at[s] = "PreRunInit" => State[s] = "STARTING" /\ s \notin pending
  /\ at[s] = "Run" => State[s] \in {"ACTIVE", "EXITED", "ERROR", "STARTING", "STOP_REQUESTED"}
  /\ at[s] = "Process" => State[s] \in {"ACTIVE", "STOP_REQUESTED"}
  /\ at[s] \in {"StopChildren", "Cleanup"} =>
       State[s] \in {"ACTIVE", "STOP_REQUESTED", "STOPPING"}
  /\ at[s] = "Return" => State[s] \notin {"ACTIVE", "STOPPING"}
  /\ s \in pending /\ ~IsStarted[s] =>
       State[s] = "STARTING" /\ at[s] \in {"None", "Run", "Return"}
  /\ s \in pending /\ IsStarted[s] => State[s] \in {"ACTIVE", "EXITED", "ERROR"}

\* An application has registered none but its own children.
OwnChildren ==
  \A s \in Svcs : \A n \in DOMAIN registry[s] : registry[s][n] \in ChildrenOf(s)

ContractInv ==
  /\ SvcTypeOK
  /\ OwnChildren
  /\ \A s \in ActiveSvcs : SvcInv(s)

Keeps(s) == [Contract(s)!Next]_<<State[s], at[s] # "None">>

Good(s) == SvcInv(s)' /\ Keeps(s)

Same(s) ==
  /\ State'[s] = State[s] /\ at'[s] = at[s] /\ IsStarted'[s] = IsStarted[s]
  /\ s \in pending' <=> s \in pending

LEMMA SameIsGood ==
  ASSUME NEW s \in ActiveSvcs, SvcInv(s), Same(s)
  PROVE  Good(s)
BY DEF Good, Keeps, Same, SvcInv

\* A call on a service, in its two steps, does nothing to another.
LEMMA CallsAreGood ==
  ASSUME SvcTypeOK, NEW s \in ActiveSvcs, SvcInv(s),
         \/ BeginStart(s) /\ s \notin pending
         \/ BeginStop(s) /\ s \notin pending
         \/ FinishCall(s)
  PROVE  Good(s) /\ \A r \in ActiveSvcs \ {s} : Same(r)
<1> USE SvcsAreDisjoint DEF Good, Keeps, Same, SvcInv, SvcTypeOK, Contract!Next
<1>1. CASE BeginStart(s) /\ s \notin pending
  BY <1>1 DEF BeginStart, MayStart, Startable, Position, Contract!Launch, Contract!Launchable
<1>2. CASE BeginStop(s) /\ s \notin pending
  BY <1>2 DEF BeginStop, MayStop
<1>3. CASE FinishStart(s)
  BY <1>3 DEF FinishStart, Contract!Spawn, Contract!LaunchFails
<1>4. CASE FinishStop(s)
  BY <1>4 DEF FinishStop, Contract!RequestStop
<1>5. QED
  BY <1>1, <1>2, <1>3, <1>4 DEF FinishCall

\* The steps of a service's own thread.
LEMMA ThreadIsGood ==
  ASSUME SvcTypeOK, NEW s \in ActiveSvcs, SvcInv(s),
         PreRunInit(s) \/ TestState(s) \/ Process(s) \/ ChildrenStopped(s) \/ Cleanup(s) \/ Return(s)
  PROVE  Good(s) /\ \A r \in ActiveSvcs \ {s} : Same(r)
<1> USE SvcsAreDisjoint DEF Good, Keeps, Same, SvcInv, SvcTypeOK, Contract!Next, Goes
<1>0. s \notin PassiveApps
  BY DEF ActiveSvcs
<1>1. CASE PreRunInit(s)
  BY <1>0, <1>1 DEF PreRunInit, Contract!Initialise
<1>2. CASE TestState(s)
  BY <1>2 DEF TestState, Contract!WindDown
<1>3. CASE Process(s)
  BY <1>3 DEF Process, Contract!Leave
<1>4. CASE ChildrenStopped(s)
  BY <1>4 DEF ChildrenStopped
<1>5. CASE Cleanup(s)
  BY <1>0, <1>5 DEF Cleanup, Contract!WindDown, Contract!Leave
<1>6. CASE Return(s)
  BY <1>6 DEF Return, Contract!Return
<1>7. QED
  BY <1>1, <1>2, <1>3, <1>4, <1>5, <1>6

\* What one of these steps of a single service comes to for all of them.
AllGood == \A s \in ActiveSvcs : Good(s)

LEMMA OneStepIsGood ==
  ASSUME ContractInv,
         \/ \E s \in ActiveSvcs : Good(s) /\ \A r \in ActiveSvcs \ {s} : Same(r)
         \/ \A r \in ActiveSvcs : Same(r)
  PROVE  AllGood
BY SameIsGood DEF ContractInv, AllGood

LEMMA ChildCallIsGood ==
  ASSUME ContractInv, NEW s \in Svcs, CallChild(s)
  PROVE  AllGood /\ OwnChildren'
<1> USE SvcsAreDisjoint
<1>1. PICK c \in ChildrenOf(s) : start_child(s, c)
  BY DEF CallChild
<1>2. c \in ActiveSvcs /\ c \notin pending
  BY DEF CallChild, BetweenCalls
<1>3. SvcTypeOK /\ SvcInv(c)
  BY <1>2 DEF ContractInv
<1>4. AllGood
  <2>1. CASE BeginStart(c)
    BY <1>2, <1>3, <2>1, CallsAreGood, OneStepIsGood
  <2>2. CASE UNCHANGED <<IsInit, IsStarted, State, at, i, pending>>
    BY <2>2, OneStepIsGood DEF Same
  <2>3. QED
    BY <1>1, <2>1, <2>2 DEF start_child
<1>5. OwnChildren'
  <2>1. /\ registry[s] \in Seq(Children)
        /\ registry' = [registry EXCEPT ![s] = Append(registry[s], c)]
    BY <1>1, <1>3 DEF start_child, SvcTypeOK
  <2>2. /\ DOMAIN Append(registry[s], c) = 1..(Len(registry[s]) + 1)
        /\ DOMAIN registry[s] = 1..Len(registry[s])
        /\ \A n \in DOMAIN Append(registry[s], c) :
             Append(registry[s], c)[n] = IF n = Len(registry[s]) + 1 THEN c ELSE registry[s][n]
    BY <2>1
  <2>3. \A n \in DOMAIN registry'[s] : registry'[s][n] \in ChildrenOf(s)
    <3>1. registry'[s] = Append(registry[s], c)
      BY <1>3, <2>1 DEF SvcTypeOK
    <3>2. \A n \in DOMAIN registry[s] : registry[s][n] \in ChildrenOf(s)
      BY DEF ContractInv, OwnChildren
    <3>3. \A n \in 1..(Len(registry[s]) + 1) : n # Len(registry[s]) + 1 => n \in 1..Len(registry[s])
      BY <2>1
    <3>4. QED
      BY <2>2, <3>1, <3>2, <3>3
  <2>4. QED
    BY <1>3, <2>1, <2>3 DEF ContractInv, OwnChildren, SvcTypeOK
<1>6. QED
  BY <1>4, <1>5

LEMMA RunIsGood ==
  ASSUME ContractInv, NEW s \in Svcs, Run(s)
  PROVE  AllGood /\ registry' = registry
<1> USE SvcsAreDisjoint
<1>1. SvcTypeOK /\ \A r \in ActiveSvcs : SvcInv(r)
  BY DEF ContractInv
<1>2. ASSUME NEW c \in ChildrenOf(s), FinishCall(c)
      PROVE  AllGood /\ registry' = registry
  <2>1. AllGood
    BY <1>1, <1>2, CallsAreGood, OneStepIsGood
  <2>2. QED
    BY <1>2, <2>1 DEF FinishCall, FinishStart, FinishStop
<1>3. CASE StopChild(s)
  <2> DEFINE c == registry[s][i[s]]
  <2>1. c \in ChildrenOf(s)
    BY <1>1, <1>3 DEF StopChild, ContractInv, OwnChildren, SvcTypeOK
  <2>2. c \in ActiveSvcs /\ c \notin pending
    BY <1>3, <2>1 DEF StopChild, BetweenCalls
  <2> HIDE DEF c
  <2>3. CASE BeginStop(c)
    BY <1>1, <2>2, <2>3, CallsAreGood, OneStepIsGood DEF BeginStop
  <2>4. CASE UNCHANGED <<IsInit, IsStarted, State, at, pending, registry>>
    BY <2>4, OneStepIsGood DEF Same
  <2>5. QED
    BY <1>3, <2>3, <2>4 DEF StopChild, c
<1>4. CASE \/ PreRunInit(s) \/ TestState(s) \/ Process(s)
           \/ ChildrenStopped(s) \/ Cleanup(s) \/ Return(s)
  <2>1. registry' = registry
    BY <1>4 DEF PreRunInit, TestState, Process, ChildrenStopped, Cleanup, Return
  <2>2. CASE s \in ActiveSvcs
    BY <1>1, <1>4, <2>1, <2>2, ThreadIsGood, OneStepIsGood
  <2>3. CASE s \notin ActiveSvcs
    <3>1. \A r \in ActiveSvcs : r # s /\ r \in Svcs
      BY <2>3
    <3>2. \A r \in ActiveSvcs : State'[r] = State[r]
      <4>1. State' = State \/ \E v : State' = [State EXCEPT ![s] = v]
        BY <1>4 DEF PreRunInit, TestState, Process, ChildrenStopped, Cleanup, Return
      <4>2. QED
        BY <1>1, <3>1, <4>1 DEF SvcTypeOK
    <3>3. \A r \in ActiveSvcs : at'[r] = at[r]
      BY <1>1, <1>4, <3>1 DEF PreRunInit, TestState, Process, ChildrenStopped, Cleanup, Return,
         Goes, SvcTypeOK
    <3>4. \A r \in ActiveSvcs : IsStarted'[r] = IsStarted[r]
      BY <1>1, <1>4, <3>1 DEF PreRunInit, TestState, Process, ChildrenStopped, Cleanup, Return,
         SvcTypeOK
    <3>5. pending' = pending
      BY <1>4 DEF PreRunInit, TestState, Process, ChildrenStopped, Cleanup, Return
    <3>6. QED
      BY <2>1, <3>2, <3>3, <3>4, <3>5, OneStepIsGood DEF Same
  <2>4. QED
    BY <2>2, <2>3
<1>5. QED
  BY <1>2, <1>3, <1>4 DEF Run

LEMMA CallAppIsGood ==
  ASSUME ContractInv, NEW a \in Apps, CallApp(a)
  PROVE  AllGood /\ registry' = registry
<1> USE SvcsAreDisjoint
<1>1. SvcTypeOK /\ \A r \in ActiveSvcs : SvcInv(r)
  BY DEF ContractInv
<1>2. CASE InitApp(a, TRUE) \/ InitApp(a, FALSE) \/ CleanupApp(a)
  <2>1. UNCHANGED <<State, at, IsStarted, pending, registry>>
    BY <1>2 DEF InitApp, CleanupApp
  <2>2. QED
    BY <2>1, OneStepIsGood DEF Same
<1>3. CASE StartPassive(a) \/ StopPassive(a)
  <2>1. UNCHANGED <<State, IsStarted, pending, registry>> /\ a \notin ActiveSvcs
    BY <1>3 DEF StartPassive, StopPassive, ActiveSvcs
  <2>2. \A r \in ActiveSvcs : at'[r] = at[r]
    BY <1>1, <1>3, <2>1 DEF StartPassive, StopPassive, SvcTypeOK
  <2>3. QED
    BY <2>1, <2>2, OneStepIsGood DEF Same
<1>4. CASE a \in ActiveSvcs \ pending /\ (BeginStart(a) \/ BeginStop(a)) /\ registry' = registry
  BY <1>1, <1>4, CallsAreGood, OneStepIsGood
<1>5. CASE FinishCall(a)
  <2>1. a \in ActiveSvcs /\ registry' = registry
    BY <1>1, <1>5 DEF FinishCall, FinishStart, FinishStop, SvcTypeOK
  <2>2. QED
    BY <1>1, <1>5, <2>1, CallsAreGood, OneStepIsGood
<1>6. QED
  BY <1>2, <1>3, <1>4, <1>5 DEF CallApp, BeginStop

LEMMA ContractStep ==
  ASSUME ContractInv, [SvcNext]_svcVars
  PROVE  ContractInv' /\ AllGood
<1>1. SUFFICES AllGood /\ OwnChildren'
  BY SvcTypesStep DEF ContractInv, AllGood, Good
<1>2. ASSUME NEW a \in Apps, CallApp(a)
      PROVE  AllGood /\ OwnChildren'
  BY <1>2, CallAppIsGood DEF ContractInv, OwnChildren
<1>3. ASSUME NEW s \in Svcs, Run(s)
      PROVE  AllGood /\ OwnChildren'
  BY <1>3, RunIsGood DEF ContractInv, OwnChildren
<1>4. ASSUME NEW s \in Svcs, CallChild(s)
      PROVE  AllGood /\ OwnChildren'
  BY <1>4, ChildCallIsGood
<1>5. CASE UNCHANGED svcVars
  BY <1>5, OneStepIsGood DEF svcVars, Same, ContractInv, OwnChildren
<1>6. QED
  BY <1>2, <1>3, <1>4, <1>5 DEF SvcNext

LEMMA ContractInit ==
  SvcInit => ContractInv /\ \A s \in ActiveSvcs : Contract(s)!Init
<1>1. SvcInit => OwnChildren
  BY DEF SvcInit, OwnChildren
<1>2. SvcInit => \A s \in ActiveSvcs : SvcInv(s) /\ Contract(s)!Init
  BY SvcsAreDisjoint DEF SvcInit, SvcInv, Contract!Init
<1>3. QED
  BY <1>1, <1>2, SvcTypesInit DEF ContractInv

LEMMA ContractInvHolds == SvcSpec => []ContractInv
BY ContractInit, ContractStep, PTL DEF SvcSpec

\* Every active service of every program keeps the contract of RunnerContract,
\* whatever applications, children and the main thread do to each other: no
\* service has two threads and none is launched while it winds down
\* (Runner.cpp:80-124).
THEOREM EveryServiceKeepsTheContract == SvcSpec => ServicesKeepTheContract
<1>1. ContractInv /\ [SvcNext]_svcVars
        => [\A s \in ActiveSvcs : [Contract(s)!Next]_<<State[s], at[s] # "None">>]_svcVars
  BY ContractStep DEF AllGood, Good, Keeps
<1>2. QED
  BY <1>1, ContractInit, ContractInvHolds, PTL DEF SvcSpec, ServicesKeepTheContract

\* Nothing undoes a stop: a service that has a thread and has been told to stop
\* does not become ACTIVE again before that thread has returned, whatever calls
\* of start() and start_child come meanwhile.
StopsAreNotUndone ==
  [][\A s \in ActiveSvcs :
       at[s] # "None" /\ State[s] \in {"STOP_REQUESTED", "STOPPING"} =>
         State'[s] \in {"STOP_REQUESTED", "STOPPING", "STOPPED", "EXITED", "ERROR"}]_svcVars

\* The safety half of what a stop promises, for the services of any program
\* (Runner.cpp:104-124, 189-214).
THEOREM StopsAreCarriedOut == SvcSpec => StopsAreNotUndone
<1>1. ASSUME ContractInv, [SvcNext]_svcVars, NEW s \in ActiveSvcs,
             at[s] # "None", State[s] \in {"STOP_REQUESTED", "STOPPING"}
      PROVE  State'[s] \in {"STOP_REQUESTED", "STOPPING", "STOPPED", "EXITED", "ERROR"}
  <2>1. [Contract(s)!Next]_<<State[s], at[s] # "None">>
    BY <1>1, ContractStep DEF AllGood, Good, Keeps
  <2>2. QED
    BY <1>1, <2>1 DEF Contract!Next, Contract!Launch, Contract!Spawn, Contract!LaunchFails,
       Contract!Initialise, Contract!Leave, Contract!RequestStop, Contract!WindDown, Contract!Return,
       Contract!Launchable
<1>2. ContractInv /\ [SvcNext]_svcVars
        => [\A s \in ActiveSvcs :
              at[s] # "None" /\ State[s] \in {"STOP_REQUESTED", "STOPPING"} =>
                State'[s] \in {"STOP_REQUESTED", "STOPPING", "STOPPED", "EXITED", "ERROR"}]_svcVars
  BY <1>1
<1>3. QED
  BY <1>2, ContractInvHolds, PTL DEF SvcSpec, StopsAreNotUndone

-----------------------------------------------------------------------------
(* What steps do to the flags of services. The main thread's view of the   *)
(* applications is undisturbed by other threads.                           *)

AppsUndisturbed(S) ==
  /\ UNCHANGED IsInit
  /\ \A a \in S : IsStarted'[a] = IsStarted[a] /\ (a \in PassiveApps => at'[a] = at[a])

LEMMA HooksDisturbNoApp ==
  ASSUME SvcTypeOK, NEW s \in Svcs, CallChild(s)
  PROVE  AppsUndisturbed(Apps)
<1>1. PICK c \in ChildrenOf(s) : start_child(s, c)
  BY DEF CallChild
<1>2. c \in Children /\ c \notin Apps
  BY SvcsAreDisjoint, ServicesAssumption
<1>3. \A a \in Apps : a # c /\ a \in Svcs
  BY <1>2 DEF Svcs
<1>4. CASE BeginStart(c)
  <2>1. UNCHANGED <<IsInit, at>> /\ IsStarted' \in {IsStarted, [IsStarted EXCEPT ![c] = TRUE]}
    BY <1>4 DEF BeginStart
  <2>2. QED
    BY <1>3, <2>1 DEF AppsUndisturbed, SvcTypeOK
<1>5. CASE UNCHANGED <<IsInit, IsStarted, State, at, i, pending>>
  BY <1>5 DEF AppsUndisturbed
<1>6. QED
  BY <1>1, <1>4, <1>5 DEF start_child

LEMMA RunDisturbsOneApp ==
  ASSUME SvcTypeOK, NEW s \in Svcs, Run(s)
  PROVE  AppsUndisturbed(IF s \in PassiveApps THEN Apps \ {s} ELSE Apps)
<1> USE DEF AppsUndisturbed, SvcTypeOK
<1> USE SvcsAreDisjoint
<1>1. ASSUME NEW c \in ChildrenOf(s), FinishCall(c)
      PROVE  AppsUndisturbed(Apps)
  <2>1. c \in Children /\ c \notin Apps
    BY ServicesAssumption
  <2>2. QED
    BY <1>1, <2>1 DEF FinishCall, FinishStart, FinishStop
<1>2. CASE PreRunInit(s)
  BY <1>2 DEF PreRunInit, Goes, ActiveSvcs
<1>3. CASE TestState(s)
  BY <1>3 DEF TestState, Goes
<1>4. CASE Process(s)
  BY <1>4 DEF Process, Goes
<1>5. CASE StopChild(s)
  <2>1. registry[s][i[s]] \in Children
    BY <1>5 DEF StopChild
  <2>2. registry[s][i[s]] \notin Apps
    BY <2>1, ServicesAssumption
  <2>3. QED
    BY <1>5, <2>2 DEF StopChild, BeginStop
<1>6. CASE ChildrenStopped(s)
  BY <1>6 DEF ChildrenStopped, Goes
<1>7. CASE Cleanup(s)
  BY <1>7 DEF Cleanup, Goes, ActiveSvcs
<1>8. CASE Return(s)
  BY <1>8 DEF Return, Goes
<1>9. QED
  BY <1>1, <1>2, <1>3, <1>4, <1>5, <1>6, <1>7, <1>8 DEF Run

\* In the hooks of a passive application: a step of the thread that runs it
\* disturbs nothing the main thread looks at, or goes on to the next hook, or
\* returns from the last.
LEMMA PassiveRun ==
  ASSUME SvcTypeOK, NEW s \in PassiveApps, Run(s),
         at[s] \in {"None", "PreRunInit", "StopChildren", "Cleanup"}
  PROVE  \/ AppsUndisturbed(Apps)
         \/ at[s] # "None" /\ at' = [at EXCEPT ![s] = "None"]
         \/ /\ at[s] = "StopChildren" /\ at' = [at EXCEPT ![s] = "Cleanup"]
            /\ IsStarted' = IsStarted
<1> USE SvcsAreDisjoint
<1>1. ASSUME NEW c \in ChildrenOf(s), FinishCall(c)
      PROVE  AppsUndisturbed(Apps)
  <2>1. c \in Children /\ \A a \in Apps : a # c /\ a \in Svcs
    BY ServicesAssumption
  <2>2. QED
    BY <1>1, <2>1 DEF FinishCall, FinishStart, FinishStop, AppsUndisturbed, SvcTypeOK
<1>2. ASSUME StopChild(s)
      PROVE  AppsUndisturbed(Apps)
  <2>1. registry[s][i[s]] \in Children
    BY <1>2 DEF StopChild, SvcTypeOK
  <2>2. \A a \in Apps : a # registry[s][i[s]] /\ a \in Svcs
    BY <2>1, ServicesAssumption
  <2>3. QED
    BY <1>2, <2>2 DEF StopChild, BeginStop, AppsUndisturbed, SvcTypeOK
<1>3. CASE PreRunInit(s) \/ TestState(s) \/ Process(s) \/ ChildrenStopped(s) \/ Cleanup(s) \/ Return(s)
  BY <1>3 DEF PreRunInit, TestState, Process, ChildrenStopped, Cleanup, Return, Goes, ActiveSvcs
<1>4. QED
  BY <1>1, <1>2, <1>3 DEF Run

FlagsKept(S) ==
  /\ UNCHANGED IsInit
  /\ \A s \in S : IsStarted'[s] = IsStarted[s] /\ (s \in pending' <=> s \in pending)

LEMMA CallFlags ==
  ASSUME SvcTypeOK, NEW s \in ActiveSvcs, BeginStart(s) \/ BeginStop(s) \/ FinishCall(s)
  PROVE  /\ FlagsKept(Svcs \ {s})
         /\ BeginStart(s) => IsInit[s]
         /\ BeginStop(s) => IsInit[s]
         /\ FinishCall(s) => s \in pending /\ s \notin pending'
BY SvcsAreDisjoint DEF BeginStart, BeginStop, FinishCall, FinishStart, FinishStop, MayStart,
   MayStop, FlagsKept, SvcTypeOK

LEMMA AppIsNoChild ==
  ASSUME NEW s \in Svcs, NEW c \in ChildrenOf(s)
  PROVE  \A a \in Apps : a # c /\ a \in Svcs
BY ChildIsNoApp, SvcsAreDisjoint

\* A child's call keeps the flags of all applications.
LEMMA ChildCallFlags ==
  ASSUME SvcTypeOK, NEW s \in Svcs, NEW c \in ChildrenOf(s),
         \/ BeginStart(c) \/ BeginStop(c) \/ FinishCall(c)
         \/ UNCHANGED <<IsInit, IsStarted, pending>>
  PROVE  FlagsKept(Apps)
<1>1. c \in ActiveSvcs /\ \A a \in Apps : a # c /\ a \in Svcs
  BY ChildIsNoApp, AppIsNoChild
<1>2. CASE BeginStart(c) \/ BeginStop(c) \/ FinishCall(c)
  BY <1>1, <1>2, CallFlags DEF FlagsKept
<1>3. CASE UNCHANGED <<IsInit, IsStarted, pending>>
  BY <1>3 DEF FlagsKept
<1>4. QED
  BY <1>2, <1>3

LEMMA CallChildFlags ==
  ASSUME SvcTypeOK, NEW s \in Svcs, CallChild(s)
  PROVE  FlagsKept(Apps)
<1>1. PICK c \in ChildrenOf(s) : start_child(s, c)
  BY DEF CallChild
<1>2. BeginStart(c) \/ UNCHANGED <<IsInit, IsStarted, pending>>
  BY <1>1 DEF start_child
<1>3. QED
  BY <1>2, ChildCallFlags

\* The services of which it can be said that they are initialised when they
\* are started: the main thread does not clean them up meanwhile.
Covered == Svcs \ UNION {ChildrenOf(a) : a \in Apps \ PassiveApps}

CoveredInit == \A s \in Covered : IsStarted[s] \/ s \in pending => IsInit[s]

LEMMA CallKeepsCovered ==
  ASSUME SvcTypeOK, CoveredInit, NEW s \in ActiveSvcs,
         BeginStart(s) \/ BeginStop(s) \/ FinishCall(s)
  PROVE  CoveredInit'
<1>1. FlagsKept(Svcs \ {s}) /\ (s \in Covered => IsInit[s])
  BY CallFlags DEF CoveredInit
<1>2. \A r \in Covered : r \in Svcs
  BY DEF Covered
<1>3. QED
  BY <1>1, <1>2 DEF FlagsKept, CoveredInit

LEMMA ChildCallKeepsCovered ==
  ASSUME SvcTypeOK, CoveredInit, NEW s \in Svcs, NEW c \in ChildrenOf(s),
         \/ BeginStart(c) \/ BeginStop(c) \/ FinishCall(c)
         \/ UNCHANGED <<IsInit, IsStarted, pending>>
  PROVE  CoveredInit'
<1>1. c \in ActiveSvcs
  BY ChildIsNoApp
<1>2. CASE UNCHANGED <<IsInit, IsStarted, pending>>
  BY <1>2 DEF CoveredInit
<1>3. QED
  BY <1>1, <1>2, CallKeepsCovered

LEMMA CallChildKeepsCovered ==
  ASSUME SvcTypeOK, CoveredInit, NEW s \in Svcs, CallChild(s)
  PROVE  CoveredInit'
<1>1. PICK c \in ChildrenOf(s) : start_child(s, c)
  BY DEF CallChild
<1>2. BeginStart(c) \/ UNCHANGED <<IsInit, IsStarted, pending>>
  BY <1>1 DEF start_child
<1>3. QED
  BY <1>2, ChildCallKeepsCovered

\* A thread's step disturbs no application's flags, except that a passive one
\* becomes started or stopped when its hooks return.
LEMMA RunKeepsCovered ==
  ASSUME SvcTypeOK, OwnChildren, CoveredInit, NEW s \in Svcs, Run(s),
         s \in PassiveApps /\ at[s] # "None" => IsInit[s]
  PROVE  CoveredInit' /\ FlagsKept(IF s \in PassiveApps THEN Apps \ {s} ELSE Apps)
<1> USE SvcsAreDisjoint
<1>1. ASSUME NEW c \in ChildrenOf(s), FinishCall(c)
      PROVE  CoveredInit' /\ FlagsKept(Apps)
  BY <1>1, ChildCallKeepsCovered, ChildCallFlags
<1>2. ASSUME StopChild(s)
      PROVE  CoveredInit' /\ FlagsKept(Apps)
  <2> DEFINE c == registry[s][i[s]]
  <2>1. c \in ChildrenOf(s)
    BY <1>2 DEF StopChild, OwnChildren, SvcTypeOK
  <2> HIDE DEF c
  <2>2. BeginStop(c) \/ UNCHANGED <<IsInit, IsStarted, pending>>
    BY <1>2 DEF StopChild, c
  <2>3. QED
    BY <2>1, <2>2, ChildCallKeepsCovered, ChildCallFlags
<1>3. ASSUME \/ PreRunInit(s) \/ TestState(s) \/ Process(s)
             \/ ChildrenStopped(s) \/ Cleanup(s) \/ Return(s)
      PROVE  CoveredInit' /\ FlagsKept(IF s \in PassiveApps THEN Apps \ {s} ELSE Apps)
  <2>1. UNCHANGED <<IsInit, pending>>
    BY <1>3 DEF PreRunInit, TestState, Process, ChildrenStopped, Cleanup, Return
  <2>2. CASE IsStarted' = IsStarted
    BY <2>1, <2>2 DEF CoveredInit, FlagsKept
  <2>3. CASE s \in PassiveApps /\ at[s] # "None" /\ \E b \in BOOLEAN : IsStarted' = [IsStarted EXCEPT ![s] = b]
    <3>1. CoveredInit'
      BY <2>1, <2>3 DEF CoveredInit, SvcTypeOK, Covered
    <3>2. FlagsKept(Apps \ {s})
      BY <2>1, <2>3 DEF FlagsKept, SvcTypeOK
    <3>3. QED
      BY <2>3, <3>1, <3>2
  <2>4. QED
    BY <1>3, <2>2, <2>3 DEF PreRunInit, TestState, Process, ChildrenStopped, Cleanup, Return, Goes
<1>4. FlagsKept(Apps) => FlagsKept(Apps \ {s})
  BY DEF FlagsKept
<1>5. QED
  BY <1>1, <1>2, <1>3, <1>4 DEF Run

\* Of the calls on an application only the cleanup needs more: no call on it or
\* on a child of a passive one may be under way.
LEMMA CallAppKeepsCovered ==
  ASSUME SvcTypeOK, CoveredInit, NEW a \in Apps, CallApp(a),
         CleanupApp(a) => a \notin pending /\ (a \in PassiveApps => BetweenCalls(a))
  PROVE  CoveredInit' /\ \A b \in Apps \ {a} : IsStarted'[b] = IsStarted[b] /\ (b \in pending' <=> b \in pending)
<1> USE SvcsAreDisjoint
<1> DEFINE Others == \A b \in Apps \ {a} : IsStarted'[b] = IsStarted[b] /\ (b \in pending' <=> b \in pending)
<1>1. ASSUME NEW ok \in BOOLEAN, InitApp(a, ok)
      PROVE  CoveredInit' /\ Others
  <2>1. PICK inits \in SUBSET ChildrenOf(a) :
          IsInit' = [s \in Svcs |-> IsInit[s] \/ s \in inits \/ (s = a /\ ok)]
    BY <1>1 DEF InitApp
  <2>2. UNCHANGED <<IsStarted, pending>>
    BY <1>1 DEF InitApp
  <2>3. CoveredInit'
    BY <2>1, <2>2 DEF CoveredInit, Covered, SvcTypeOK
  <2>4. QED
    BY <2>2, <2>3
<1>2. CASE CleanupApp(a)
  <2>1. PICK cleaned \in SUBSET ({a} \cup {c \in ChildrenOf(a) : ~IsStarted[c]}) :
          IsInit' = [s \in Svcs |-> IsInit[s] /\ s \notin cleaned]
    BY <1>2 DEF CleanupApp
  <2>2. ~IsStarted[a] /\ UNCHANGED <<IsStarted, pending>>
    BY <1>2 DEF CleanupApp
  <2>3. ASSUME NEW s \in Covered, IsStarted[s] \/ s \in pending
        PROVE  s \notin cleaned
    <3>1. CASE s = a
      BY <1>2, <2>2, <2>3, <3>1
    <3>2. CASE s # a
      <4>1. s \in cleaned => s \in ChildrenOf(a) /\ ~IsStarted[s]
        BY <2>1, <3>2
      <4>2. s \in ChildrenOf(a) => a \in PassiveApps
        BY DEF Covered
      <4>3. QED
        BY <1>2, <2>3, <4>1, <4>2 DEF BetweenCalls
    <3>3. QED
      BY <3>1, <3>2
  <2>4. CoveredInit'
    BY <2>1, <2>2, <2>3 DEF CoveredInit, Covered, SvcTypeOK
  <2>5. QED
    BY <2>2, <2>4
<1>3. CASE StartPassive(a) \/ StopPassive(a)
  BY <1>3 DEF StartPassive, StopPassive, CoveredInit
<1>4. ASSUME a \in ActiveSvcs, BeginStart(a) \/ BeginStop(a) \/ FinishCall(a)
      PROVE  CoveredInit' /\ Others
  BY <1>4, CallKeepsCovered, CallFlags DEF FlagsKept
<1>5. FinishCall(a) => a \in ActiveSvcs
  BY DEF FinishCall, FinishStart, FinishStop, SvcTypeOK
<1>6. QED
  BY <1>1, <1>2, <1>3, <1>4, <1>5 DEF CallApp

-----------------------------------------------------------------------------
(* The stop of a passive application. In the loop of stop_children, every  *)
(* child before the index has been stopped, or its stop() is under way; a  *)
(* start() never is, if none was when the loop began.                      *)

StopLoop(a) ==
  /\ at[a] # "StopChildren" => i[a] = 1
  /\ at[a] = "StopChildren" =>
       /\ \A c \in ChildrenOf(a) \cap pending : IsStarted[c]
       /\ \A n \in DOMAIN registry[a] :
            n < i[a] => registry[a][n] \in pending \/ ~IsStarted[registry[a][n]]
  /\ at[a] = "Cleanup" =>
       /\ ChildrenOf(a) \cap pending = {}
       /\ \A n \in DOMAIN registry[a] : ~IsStarted[registry[a][n]]

\* A step that does nothing to an application, its registry and its children.
LeftAlone(a) ==
  /\ at'[a] = at[a] /\ i'[a] = i[a] /\ registry'[a] = registry[a]
  /\ \A c \in ChildrenOf(a) : IsStarted'[c] = IsStarted[c] /\ (c \in pending' <=> c \in pending)

LEMMA LeftAloneKeepsStopLoop ==
  ASSUME OwnChildren, NEW a \in PassiveApps, StopLoop(a), LeftAlone(a)
  PROVE  StopLoop(a)'
<1>1. \A n \in DOMAIN registry[a] : registry[a][n] \in ChildrenOf(a)
  BY SvcsAreDisjoint DEF OwnChildren
<1>2. ChildrenOf(a) \cap pending' = ChildrenOf(a) \cap pending
  BY DEF LeftAlone
<1>3. QED
  BY <1>1, <1>2 DEF LeftAlone, StopLoop

LEMMA FamiliesApart ==
  ASSUME NEW a \in Svcs, NEW s \in Svcs, a # s, NEW c \in ChildrenOf(s)
  PROVE  c \notin ChildrenOf(a)
BY DEF ChildrenOf

\* What another service does with its children leaves an application alone.
LEMMA OthersChildren ==
  ASSUME SvcTypeOK, NEW a \in PassiveApps, NEW s \in Svcs, s # a, NEW c \in ChildrenOf(s),
         BeginStart(c) \/ BeginStop(c) \/ FinishCall(c)
  PROVE  /\ at'[a] = at[a]
         /\ \A d \in ChildrenOf(a) :
              IsStarted'[d] = IsStarted[d] /\ (d \in pending' <=> d \in pending)
<1>1. c \in ActiveSvcs /\ c # a /\ a \in Svcs /\ \A d \in ChildrenOf(a) : d \in Svcs /\ d # c
  BY ChildIsNoApp, FamiliesApart, SvcsAreDisjoint, ServicesAssumption
<1>2. FlagsKept(Svcs \ {c})
  BY <1>1, CallFlags
<1>3. at'[a] = at[a]
  BY <1>1 DEF BeginStart, BeginStop, FinishCall, FinishStart, FinishStop, SvcTypeOK
<1>4. QED
  BY <1>1, <1>2, <1>3 DEF FlagsKept

LEMMA RunByOthers ==
  ASSUME SvcTypeOK, OwnChildren, NEW a \in PassiveApps, NEW s \in Svcs, s # a, Run(s)
  PROVE  LeftAlone(a)
<1> USE SvcsAreDisjoint
<1>1. SvcTypeOK /\ OwnChildren /\ Run(s) /\ a \in Svcs
  OBVIOUS
<1>2. ASSUME NEW c \in ChildrenOf(s), FinishCall(c)
      PROVE  LeftAlone(a)
  <2>1. UNCHANGED <<i, registry>>
    BY <1>2 DEF FinishCall, FinishStart, FinishStop
  <2>2. QED
    BY <1>1, <1>2, <2>1, OthersChildren DEF LeftAlone
<1>3. CASE StopChild(s)
  <2> DEFINE c == registry[s][i[s]]
  <2>1. c \in ChildrenOf(s)
    BY <1>1, <1>3 DEF StopChild, OwnChildren, SvcTypeOK
  <2>2. i'[a] = i[a] /\ registry' = registry
    BY <1>1, <1>3 DEF StopChild, BeginStop, SvcTypeOK
  <2> HIDE DEF c
  <2>3. CASE BeginStop(c)
    BY <1>1, <2>1, <2>2, <2>3, OthersChildren DEF LeftAlone
  <2>4. CASE UNCHANGED <<IsInit, IsStarted, State, at, pending, registry>>
    BY <1>1, <2>2, <2>4 DEF LeftAlone
  <2>5. QED
    BY <1>3, <2>3, <2>4 DEF StopChild, c
<1>4. CASE \/ PreRunInit(s) \/ TestState(s) \/ Process(s)
           \/ ChildrenStopped(s) \/ Cleanup(s) \/ Return(s)
  <2>1. UNCHANGED <<pending, registry>>
    BY <1>4 DEF PreRunInit, TestState, Process, ChildrenStopped, Cleanup, Return
  <2>2. at'[a] = at[a] /\ i'[a] = i[a]
    BY <1>1, <1>4 DEF PreRunInit, TestState, Process, ChildrenStopped, Cleanup, Return,
       Goes, SvcTypeOK
  <2>3. \A c \in ChildrenOf(a) : IsStarted'[c] = IsStarted[c]
    <3>1. IsStarted' = IsStarted \/ (s \in PassiveApps /\ \E b \in BOOLEAN : IsStarted' = [IsStarted EXCEPT ![s] = b])
      BY <1>4 DEF PreRunInit, TestState, Process, ChildrenStopped, Cleanup, Return
    <3>2. s \in PassiveApps => s \notin ChildrenOf(a)
      BY <1>1, ChildIsNoApp, ServicesAssumption
    <3>3. QED
      BY <1>1, <3>1, <3>2 DEF SvcTypeOK
  <2>4. QED
    BY <1>1, <2>1, <2>2, <2>3 DEF LeftAlone
<1>5. QED
  BY <1>1, <1>2, <1>3, <1>4 DEF Run

\* The application's own thread, that is, its caller in one of its hooks. Its
\* runner has no loop.
LEMMA RunByItself ==
  ASSUME SvcTypeOK, OwnChildren, CoveredInit, NEW a \in PassiveApps, StopLoop(a), Run(a),
         at[a] \notin {"Run", "Process"}
  PROVE  StopLoop(a)'
<1> USE SvcsAreDisjoint
<1>1. /\ SvcTypeOK /\ OwnChildren /\ Run(a) /\ a \in Svcs /\ a \notin ActiveSvcs
      /\ StopLoop(a)
  BY DEF ActiveSvcs
<1>2. ASSUME NEW c \in ChildrenOf(a), FinishCall(c)
      PROVE  StopLoop(a)'
  <2>1. /\ UNCHANGED <<i, registry>> /\ pending' = pending \ {c} /\ c \in pending
        /\ IsStarted[c] => IsStarted' = [IsStarted EXCEPT ![c] = FALSE]
    BY <1>2 DEF FinishCall, FinishStart, FinishStop
  <2>2. c \in ActiveSvcs /\ c # a
    BY <1>1, ChildIsNoApp
  <2>3. at'[a] = at[a]
    BY <1>1, <1>2, <2>2 DEF FinishCall, FinishStart, FinishStop, SvcTypeOK
  <2>4. CASE at[a] \in {"None", "PreRunInit", "Run", "Process", "Return"}
    BY <1>1, <2>1, <2>3, <2>4 DEF StopLoop
  <2>5. CASE at[a] = "StopChildren"
    <3>1. IsStarted' = [IsStarted EXCEPT ![c] = FALSE]
      BY <1>1, <2>1, <2>5 DEF StopLoop
    <3>2. \A d \in Svcs : IsStarted'[d] = IF d = c THEN FALSE ELSE IsStarted[d]
      BY <1>1, <3>1 DEF SvcTypeOK
    <3>3. \A n \in DOMAIN registry[a] : registry[a][n] \in Svcs
      BY <1>1 DEF OwnChildren
    <3>4. \A d \in ChildrenOf(a) : d \in Svcs
      OBVIOUS
    <3>5. QED
      BY <1>1, <2>1, <2>3, <2>5, <3>2, <3>3, <3>4 DEF StopLoop
  <2>6. at[a] # "Cleanup"
    BY <1>1, <2>1 DEF StopLoop
  <2>7. QED
    BY <1>1, <2>4, <2>5, <2>6 DEF SvcTypeOK, Position
<1>3. CASE StopChild(a)
  <2> DEFINE c == registry[a][i[a]]
  <2>1. /\ c \in ChildrenOf(a) /\ i[a] \in DOMAIN registry[a] /\ i[a] \in Nat
        /\ at[a] = "StopChildren" /\ ChildrenOf(a) \cap pending = {}
        /\ i'[a] = i[a] + 1
    BY <1>1, <1>3 DEF StopChild, OwnChildren, SvcTypeOK, BetweenCalls
  <2>2. c \in ActiveSvcs /\ c \in Covered /\ c \in Svcs
    <3>1. c \in ActiveSvcs
      BY <1>1, <2>1, ChildIsNoApp
    <3>2. \A b \in Apps \ PassiveApps : c \notin ChildrenOf(b)
      BY <1>1, <2>1, FamiliesApart
    <3>3. QED
      BY <3>1, <3>2 DEF Covered
  <2>3. \A n \in DOMAIN registry[a] : n < i[a] => ~IsStarted[registry[a][n]]
    BY <1>1, <2>1 DEF StopLoop, OwnChildren
  <2>4. \A n \in DOMAIN registry[a] :
          n \in Nat /\ registry[a][n] \in Svcs /\ registry[a][n] \in ChildrenOf(a)
    BY <1>1 DEF OwnChildren, SvcTypeOK
  <2>5. ~MayStop(c) => ~IsStarted[c]
    BY <2>2 DEF MayStop, CoveredInit
  <2>6. UNCHANGED <<at, registry>> /\ (BeginStop(c) \/ (~MayStop(c) /\ UNCHANGED <<IsStarted, pending>>))
    BY <1>3 DEF StopChild, BeginStop
  <2>7. \A n \in Nat : n < i[a] + 1 => n < i[a] \/ n = i[a]
    BY <2>1
  <2>8. /\ pending' = pending \/ (pending' = pending \cup {c} /\ IsStarted' = IsStarted /\ IsStarted[c])
        /\ c \in pending' \/ ~IsStarted'[c]
        /\ \A d \in Svcs : IsStarted'[d] => IsStarted[d]
    <3>1. CASE BeginStop(c)
      BY <1>1, <2>2, <3>1 DEF BeginStop, MayStop, SvcTypeOK
    <3>2. CASE ~MayStop(c) /\ UNCHANGED <<IsStarted, pending>>
      BY <2>5, <3>2
    <3>3. QED
      BY <2>6, <3>1, <3>2
  <2>9. \A d \in ChildrenOf(a) \cap pending' : IsStarted'[d]
    BY <2>1, <2>8
  <2>10. \A n \in DOMAIN registry[a] :
           n < i'[a] => registry[a][n] \in pending' \/ ~IsStarted'[registry[a][n]]
    <3>1. ASSUME NEW n \in DOMAIN registry[a], n < i'[a]
          PROVE  registry[a][n] \in pending' \/ ~IsStarted'[registry[a][n]]
      <4>1. n < i[a] \/ n = i[a]
        BY <2>1, <2>4, <2>7, <3>1
      <4>2. QED
        BY <2>3, <2>4, <2>8, <4>1
    <3>2. QED
      BY <3>1
  <2>11. QED
    BY <2>1, <2>6, <2>9, <2>10 DEF StopLoop
<1>4. CASE ChildrenStopped(a)
  <2>1. /\ at[a] = "StopChildren" /\ at'[a] = "Cleanup" /\ i'[a] = 1
        /\ ChildrenOf(a) \cap pending = {} /\ UNCHANGED <<IsStarted, pending, registry>>
        /\ i[a] > Len(registry[a])
    BY <1>1, <1>4 DEF ChildrenStopped, Goes, BetweenCalls, SvcTypeOK
  <2>2. \A n \in DOMAIN registry[a] : n < i[a]
    <3>1. Len(registry[a]) \in Nat /\ DOMAIN registry[a] = 1..Len(registry[a]) /\ i[a] \in Nat
      BY <1>1 DEF SvcTypeOK
    <3>2. QED
      BY <2>1, <3>1
  <2>3. \A n \in DOMAIN registry[a] : ~IsStarted[registry[a][n]]
    BY <1>1, <2>1, <2>2 DEF StopLoop, OwnChildren
  <2>4. QED
    BY <2>1, <2>3 DEF StopLoop
<1>5. CASE PreRunInit(a) \/ Cleanup(a) \/ Return(a)
  <2>1. /\ at'[a] = "None" /\ ChildrenOf(a) \cap pending' = {} /\ i'[a] = i[a]
        /\ at[a] # "StopChildren"
    BY <1>1, <1>5 DEF PreRunInit, Cleanup, Return, Goes, BetweenCalls, SvcTypeOK
  <2>2. QED
    BY <1>1, <2>1 DEF StopLoop
<1>6. ~TestState(a) /\ ~Process(a)
  BY <1>1 DEF TestState, Process, Goes
<1>7. QED
  BY <1>1, <1>2, <1>3, <1>4, <1>5, <1>6 DEF Run

\* start_child, in a hook of any service or between the main thread's calls.
LEMMA CallChildKeepsStopLoop ==
  ASSUME SvcTypeOK, OwnChildren, NEW a \in PassiveApps, StopLoop(a), NEW s \in Svcs, CallChild(s),
         s = a => at[a] \in {"None", "PreRunInit"}
  PROVE  StopLoop(a)' /\ (s # a => LeftAlone(a))
<1> USE SvcsAreDisjoint
<1>1. PICK c \in ChildrenOf(s) : start_child(s, c)
  BY DEF CallChild
<1>2. i' = i /\ a \in Svcs
  BY <1>1 DEF start_child, BeginStart
<1>3. CASE s = a
  <2>1. c # a /\ c \in ActiveSvcs
    BY ChildIsNoApp, ServicesAssumption
  <2>2. at'[a] = at[a]
    BY <1>1, <2>1 DEF start_child, BeginStart
  <2>3. QED
    BY <1>2, <1>3, <2>2 DEF StopLoop
<1>4. CASE s # a
  <2>1. registry'[a] = registry[a]
    BY <1>1, <1>2, <1>4 DEF start_child, SvcTypeOK
  <2>2. CASE BeginStart(c)
    BY <1>2, <1>4, <2>1, <2>2, OthersChildren, LeftAloneKeepsStopLoop DEF LeftAlone
  <2>3. CASE UNCHANGED <<IsInit, IsStarted, State, at, i, pending>>
    BY <2>1, <2>3, LeftAloneKeepsStopLoop DEF LeftAlone
  <2>4. QED
    BY <1>1, <1>4, <2>2, <2>3 DEF start_child
<1>5. QED
  BY <1>3, <1>4

\* A call on an application, by the main thread: a passive application must have
\* no child with a call under way when its stop begins.
LEMMA CallAppKeepsStopLoop ==
  ASSUME SvcTypeOK, OwnChildren, NEW a \in PassiveApps, StopLoop(a), NEW b \in Apps, CallApp(b),
         b = a /\ StopPassive(b) => BetweenCalls(a)
  PROVE  /\ StopLoop(a)'
         /\ registry' = registry
         /\ \A c \in ChildrenOf(a) : c \in pending' <=> c \in pending
<1> USE SvcsAreDisjoint
<1> DEFINE Goal == /\ StopLoop(a)'
                   /\ registry' = registry
                   /\ \A c \in ChildrenOf(a) : c \in pending' <=> c \in pending
<1>1. \A c \in ChildrenOf(a) : c # b /\ c \in Svcs
  BY AppIsNoChild
<1>2. LeftAlone(a) /\ registry' = registry => Goal
  BY LeftAloneKeepsStopLoop DEF LeftAlone
<1>3. CASE InitApp(b, TRUE) \/ InitApp(b, FALSE) \/ CleanupApp(b)
  <2>1. UNCHANGED <<IsStarted, at, i, pending, registry>>
    BY <1>3 DEF InitApp, CleanupApp
  <2>2. QED
    BY <1>2, <2>1 DEF LeftAlone
<1>4. ASSUME b \in ActiveSvcs, registry' = registry, i' = i,
             BeginStart(b) \/ BeginStop(b) \/ FinishCall(b)
      PROVE  Goal
  <2>1. a # b /\ a \in Svcs
    BY <1>4 DEF ActiveSvcs
  <2>2. at'[a] = at[a]
    BY <1>4, <2>1 DEF BeginStart, BeginStop, FinishCall, FinishStart, FinishStop, SvcTypeOK
  <2>3. FlagsKept(Svcs \ {b})
    BY <1>4, CallFlags
  <2>4. QED
    BY <1>1, <1>2, <1>4, <2>2, <2>3 DEF LeftAlone, FlagsKept
<1>5. CASE StartPassive(b) \/ StopPassive(b)
  <2>1. UNCHANGED <<IsStarted, i, pending, registry>> /\ at[b] = "None"
    BY <1>5 DEF StartPassive, StopPassive
  <2>2. CASE b # a
    <3>1. at'[a] = at[a]
      BY <1>5, <2>2 DEF StartPassive, StopPassive, SvcTypeOK
    <3>2. QED
      BY <1>2, <2>1, <3>1 DEF LeftAlone
  <2>3. CASE b = a /\ StartPassive(b)
    <3>1. at'[a] = "PreRunInit"
      BY <2>3 DEF StartPassive, SvcTypeOK
    <3>2. QED
      BY <2>1, <2>3, <3>1 DEF StopLoop
  <2>4. CASE b = a /\ StopPassive(b)
    <3>1. at'[a] = "StopChildren" /\ i[a] = 1 /\ ChildrenOf(a) \cap pending = {}
      BY <2>1, <2>4 DEF StopPassive, SvcTypeOK, StopLoop, BetweenCalls
    <3>2. \A n \in DOMAIN registry[a] : ~(n < 1)
      BY DEF SvcTypeOK
    <3>3. QED
      BY <2>1, <3>1, <3>2 DEF StopLoop
  <2>5. QED
    BY <1>5, <2>2, <2>3, <2>4
<1>6. FinishCall(b) => b \in ActiveSvcs /\ registry' = registry /\ i' = i
  BY DEF FinishCall, FinishStart, FinishStop, SvcTypeOK
<1>7. (BeginStart(b) => i' = i) /\ (BeginStop(b) => registry' = registry)
  BY DEF BeginStart, BeginStop
<1>8. QED
  BY <1>3, <1>4, <1>5, <1>6, <1>7 DEF CallApp

\* At the cleanup every child in the list has been told to stop.
LEMMA StopLoopEnds ==
  ASSUME OwnChildren, NEW a \in PassiveApps, StopLoop(a), at[a] = "Cleanup",
         NEW c \in Children, IsRegistered(a, c)
  PROVE  ~IsStarted[c] /\ c \notin pending
<1>1. PICK n \in DOMAIN registry[a] : registry[a][n] = c
  BY DEF IsRegistered
<1>2. c \in ChildrenOf(a)
  BY <1>1, SvcsAreDisjoint DEF OwnChildren
<1>3. QED
  BY <1>1, <1>2 DEF StopLoop

=============================================================================
