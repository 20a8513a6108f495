--------------------------- MODULE SvcRunnerProofs ---------------------------
(***************************************************************************)
(* Proofs about SvcRunner, for any set of thread names.                    *)
(*                                                                         *)
(* AtMostOneRun is not inductive by itself: that start() finds no thread   *)
(* depends on Os::Thread::state_ telling the truth about every thread that *)
(* has begun (FlagTellsTheTruth), and, for one that has not, on State      *)
(* being STARTING while it waits (RunOwnsItsState), so that start() cannot *)
(* have got past its first test (OwnerActsOnFreshState). IInv is their     *)
(* conjunction, and it is inductive.                                       *)
(***************************************************************************)
EXTENDS SvcRunner, TLAPS

FlagTellsTheTruth ==
  \A t \in Threads : pc[t] \notin {"None", "Created"} => state_ = "RUNNING"

\* While the thread is at these places the owner is not in the middle of a
\* change of State that it decided on earlier.
OwnerStandsBack ==
  /\ \A t \in Threads :
       /\ pc[t] \in {"Created", "SmStart", "PreRunInit", "Stopping", "StopCleanup"} =>
            ctl \notin {"MarkStarting", "ThreadStart", "StartError", "MarkStop"}
       /\ pc[t] \in {"Process", "ExitCleanup"} =>
            ctl \notin {"MarkStarting", "ThreadStart", "StartError"}

IInv ==
  /\ TypeOK
  /\ AtMostOneRun
  /\ FlagTellsTheTruth
  /\ OwnerStandsBack
  /\ RunOwnsItsState
  /\ OwnerActsOnFreshState

LEMMA TypeOKStep ==
  ASSUME TypeOK, [Next]_vars
  PROVE  TypeOK'
<1> USE DEF TypeOK, State_t, ThreadState, ThreadPC, OwnerPC
<1>1. CASE OwnerCalls
  BY <1>1 DEF OwnerCalls, CallInit, CallStart, CallStop, CallCleanup, OwnerStep
<1>2. CASE OwnerContinues
  BY <1>2 DEF OwnerContinues, OwnerStep, AppInit, RunnerStart, MarkStarting,
              CreateThread, ThreadStartFails, StartError, Started, RunnerStop,
              MarkStop, Stopped, AppCleanup
<1>3. ASSUME NEW t \in Threads, ThreadNext(t)
      PROVE  TypeOK'
  BY <1>3 DEF ThreadNext, ThreadStep, ThreadBegin, TaskSmStart, PreRunInit,
              TaskSmRun, Process, ExitCleanup, TaskSmFinish, MarkStopping,
              StopCleanup, ThreadReturn
<1>4. CASE UNCHANGED vars
  BY <1>4 DEF vars
<1>5. QED
  BY <1>1, <1>2, <1>3, <1>4 DEF Next

\* Type correctness: every field keeps to the values its C++ type declares.
THEOREM TypeCorrect == Spec => []TypeOK
<1>1. Init => TypeOK
  BY DEF Init, TypeOK, State_t, ThreadState, ThreadPC, OwnerPC
<1>2. QED
  BY <1>1, TypeOKStep, PTL DEF Spec

LEMMA InitHolds == Init => IInv
  BY DEF Init, IInv, TypeOK, State_t, ThreadState, ThreadPC, OwnerPC, AtMostOneRun,
         FlagTellsTheTruth, OwnerStandsBack, RunOwnsItsState,
         OwnerActsOnFreshState

\* The owner's steps keep the inductive invariant.
LEMMA OwnerKeepsInv ==
  ASSUME IInv, TypeOK', OwnerCalls \/ OwnerContinues
  PROVE  IInv'
<1> USE DEF IInv, TypeOK, State_t, ThreadState, ThreadPC, OwnerPC,
            AtMostOneRun, FlagTellsTheTruth, OwnerStandsBack, RunOwnsItsState, OwnerActsOnFreshState,
            OwnerStep
<1>1. CASE CallInit \/ CallStart \/ CallStop \/ CallCleanup \/ AppInit \/ AppCleanup
  BY <1>1 DEF CallInit, CallStart, CallStop, CallCleanup, AppInit, AppCleanup
<1>2. CASE RunnerStart
  BY <1>2 DEF RunnerStart, Startable
<1>3. CASE MarkStarting
  BY <1>3 DEF MarkStarting, Startable
<1>4. CASE CreateThread
  BY <1>4 DEF CreateThread
<1>5. CASE ThreadStartFails \/ Started \/ Stopped
  BY <1>5 DEF ThreadStartFails, Started, Stopped
<1>6. CASE StartError
  BY <1>6 DEF StartError
<1>7. CASE RunnerStop
  BY <1>7 DEF RunnerStop
<1>8. CASE MarkStop
  BY <1>8 DEF MarkStop
<1>9. QED
  BY <1>1, <1>2, <1>3, <1>4, <1>5, <1>6, <1>7, <1>8 DEF OwnerCalls, OwnerContinues

\* So do the thread's.
LEMMA ThreadKeepsInv ==
  ASSUME IInv, TypeOK', NEW t \in Threads, ThreadNext(t)
  PROVE  IInv'
<1> USE DEF IInv, TypeOK, State_t, ThreadState, ThreadPC, OwnerPC,
            AtMostOneRun, FlagTellsTheTruth, OwnerStandsBack,
            RunOwnsItsState, OwnerActsOnFreshState, ThreadStep
<1>1. CASE ThreadBegin(t)
  BY <1>1 DEF ThreadBegin
<1>2. CASE TaskSmStart(t)
  BY <1>2 DEF TaskSmStart
<1>3. CASE PreRunInit(t)
  BY <1>3 DEF PreRunInit
<1>4. CASE TaskSmRun(t)
  BY <1>4 DEF TaskSmRun, Startable
<1>5. CASE Process(t)
  BY <1>5 DEF Process
<1>6. CASE ExitCleanup(t)
  BY <1>6 DEF ExitCleanup
<1>7. CASE TaskSmFinish(t)
  BY <1>7 DEF TaskSmFinish, Startable
<1>8. CASE MarkStopping(t)
  BY <1>8 DEF MarkStopping
<1>9. CASE StopCleanup(t)
  BY <1>9 DEF StopCleanup
<1>10. CASE ThreadReturn(t)
  BY <1>10 DEF ThreadReturn
<1>11. QED
  BY <1>1, <1>2, <1>3, <1>4, <1>5, <1>6, <1>7, <1>8, <1>9, <1>10 DEF ThreadNext

THEOREM InvHolds == Spec => []IInv
<1>1. IInv /\ [Next]_vars => IInv'
  <2> SUFFICES ASSUME IInv, [Next]_vars
               PROVE  IInv'
    OBVIOUS
  <2>1. TypeOK'
    BY TypeOKStep DEF IInv
  <2>2. CASE OwnerCalls \/ OwnerContinues
    BY <2>1, <2>2, OwnerKeepsInv
  <2>3. CASE \E t \in Threads : ThreadNext(t)
    BY <2>1, <2>3, ThreadKeepsInv
  <2>4. CASE UNCHANGED vars
    BY <2>4 DEF vars, IInv, TypeOK, AtMostOneRun, FlagTellsTheTruth,
                OwnerStandsBack, RunOwnsItsState, OwnerActsOnFreshState
  <2>5. QED
    BY <2>2, <2>3, <2>4 DEF Next
<1>2. QED
  BY <1>1, InitHolds, PTL DEF Spec

\* Mutual exclusion of the runs of a service: the two unsynchronised tests in
\* iActiveRunnerExt::start and Os::Thread::start keep a second thread out.
THEOREM MutualExclusion == Spec => []AtMostOneRun
<1>1. IInv => AtMostOneRun
  BY DEF IInv
<1>2. QED
  BY <1>1, InvHolds, PTL

\* The thread's delayed writes to State land where they were meant to, but for
\* a stop request that comes late (Runner.cpp:147-199).
THEOREM DelayedWritesAreSafe == Spec => []RunOwnsItsState
<1>1. IInv => RunOwnsItsState
  BY DEF IInv
<1>2. QED
  BY <1>1, InvHolds, PTL

\* What the owner has read from State still holds when it acts on it, but for a
\* run that has ended meanwhile (Runner.cpp:83-119).
THEOREM OwnerIsUpToDate == Spec => []OwnerActsOnFreshState
<1>1. IInv => OwnerActsOnFreshState
  BY DEF IInv
<1>2. QED
  BY <1>1, InvHolds, PTL

-----------------------------------------------------------------------------
(* A busy state always has somebody at work.                               *)

LEMMA OwnerKeepsBusyStates ==
  ASSUME IInv, IInv', BusyStateHasARun, OwnerCalls \/ OwnerContinues
  PROVE  BusyStateHasARun'
<1> USE DEF BusyStateHasARun, OwnerStep
<1>1. CASE CallInit \/ CallStart \/ CallStop \/ CallCleanup \/ AppInit \/ AppCleanup
  BY <1>1 DEF CallInit, CallStart, CallStop, CallCleanup, AppInit, AppCleanup
<1>2. CASE RunnerStart \/ MarkStarting \/ StartError \/ Started
  BY <1>2 DEF RunnerStart, MarkStarting, StartError, Started
<1>3. CASE CreateThread
  <2> PICK t \in Threads : pc[t] = "None" /\ pc' = [pc EXCEPT ![t] = "Created"]
    BY <1>3 DEF CreateThread
  <2>1. pc'[t] = "Created" /\ State' = "STARTING"
    BY <1>3 DEF CreateThread, IInv, TypeOK, OwnerActsOnFreshState
  <2>2. QED
    BY <2>1
<1>4. CASE ThreadStartFails \/ RunnerStop \/ MarkStop \/ Stopped
  BY <1>4 DEF ThreadStartFails, RunnerStop, MarkStop, Stopped
<1>5. QED
  BY <1>1, <1>2, <1>3, <1>4 DEF OwnerCalls, OwnerContinues

\* A thread that changes State is the only one there is, so nobody else's
\* claim to a busy state is lost with it.
LEMMA ThreadKeepsBusyStates ==
  ASSUME IInv, BusyStateHasARun, NEW t \in Threads, ThreadNext(t)
  PROVE  BusyStateHasARun'
<1>1. /\ pc[t] # "None"
      /\ \A u \in Threads : pc[u] # "None" => u = t
  BY DEF IInv, TypeOK, AtMostOneRun, ThreadNext, ThreadStep, ThreadBegin,
         TaskSmStart, PreRunInit, TaskSmRun, Process, ExitCleanup,
         TaskSmFinish, MarkStopping, StopCleanup, ThreadReturn
<1> USE <1>1 DEF IInv, TypeOK, BusyStateHasARun, RunOwnsItsState, ThreadStep
<1>2. CASE ThreadBegin(t) \/ TaskSmStart(t) \/ PreRunInit(t)
  BY <1>2 DEF ThreadBegin, TaskSmStart, PreRunInit
<1>3. CASE TaskSmRun(t) \/ Process(t) \/ ExitCleanup(t)
  BY <1>3 DEF TaskSmRun, Process, ExitCleanup
<1>4. CASE TaskSmFinish(t) \/ MarkStopping(t) \/ StopCleanup(t) \/ ThreadReturn(t)
  BY <1>4 DEF TaskSmFinish, MarkStopping, StopCleanup, ThreadReturn
<1>5. QED
  BY <1>2, <1>3, <1>4 DEF ThreadNext

\* No thread dies or is refused with the runner left STARTING, ACTIVE or
\* STOPPING, states that start() would never leave again.
THEOREM BusyStatesAreServed == Spec => []BusyStateHasARun
<1>1. Init => BusyStateHasARun
  BY DEF Init, BusyStateHasARun
<1>2. IInv /\ IInv' /\ BusyStateHasARun /\ [Next]_vars => BusyStateHasARun'
  <2> SUFFICES ASSUME IInv, IInv', BusyStateHasARun, [Next]_vars
               PROVE  BusyStateHasARun'
    OBVIOUS
  <2>1. CASE UNCHANGED vars
    BY <2>1 DEF vars, BusyStateHasARun
  <2>2. QED
    BY <2>1, OwnerKeepsBusyStates, ThreadKeepsBusyStates DEF Next
<1>3. QED
  BY <1>1, <1>2, InvHolds, PTL DEF Spec

-----------------------------------------------------------------------------
(* Refinement of RunnerContract.                                           *)

Live == \E t \in Threads : pc[t] # "None"

LEMMA OwnerStepsKeepContract ==
  ASSUME IInv, OwnerCalls \/ OwnerContinues
  PROVE  [Contract!Next]_(Contract!vars)
<1> USE DEF OwnerStep, Contract!vars, Contract!Next
<1>1. CASE \/ CallInit \/ CallStart \/ CallStop \/ CallCleanup \/ AppInit \/ AppCleanup
           \/ RunnerStart \/ ThreadStartFails \/ Started \/ RunnerStop \/ Stopped
  BY <1>1 DEF CallInit, CallStart, CallStop, CallCleanup, AppInit, AppCleanup,
              RunnerStart, ThreadStartFails, Started, RunnerStop, Stopped
<1>2. CASE MarkStarting
  BY <1>2 DEF MarkStarting, IInv, OwnerActsOnFreshState, Startable,
              Contract!Launch, Contract!Launchable
<1>3. CASE CreateThread
  <2>1. State = "STARTING" /\ UNCHANGED State
    BY <1>3 DEF CreateThread, IInv, OwnerActsOnFreshState
  <2>2. \A u \in Threads : pc[u] = "None"
    \* A thread that has begun would have set state_, and one that has not
    \* would have kept start() from getting here.
    BY <1>3 DEF CreateThread, IInv, TypeOK, ThreadPC, FlagTellsTheTruth, OwnerStandsBack
  <2>3. \E t \in Threads : pc'[t] # "None"
    BY <1>3 DEF CreateThread, IInv, TypeOK
  <2>4. QED
    BY <2>1, <2>2, <2>3 DEF Contract!Spawn
<1>4. CASE StartError
  BY <1>4 DEF StartError, IInv, OwnerActsOnFreshState, Contract!LaunchFails
<1>5. CASE MarkStop
  BY <1>5 DEF MarkStop, IInv, OwnerActsOnFreshState, Contract!RequestStop
<1>6. QED
  BY <1>1, <1>2, <1>3, <1>4, <1>5 DEF OwnerCalls, OwnerContinues

LEMMA ThreadStepsKeepContract ==
  ASSUME IInv, BusyStateHasARun, NEW t \in Threads, ThreadNext(t)
  PROVE  [Contract!Next]_(Contract!vars)
<1>1. /\ pc[t] # "None"
      /\ \A u \in Threads : pc[u] # "None" => u = t
  BY DEF IInv, TypeOK, AtMostOneRun, ThreadNext, ThreadStep, ThreadBegin,
         TaskSmStart, PreRunInit, TaskSmRun, Process, ExitCleanup,
         TaskSmFinish, MarkStopping, StopCleanup, ThreadReturn
<1>2. ASSUME pc'[t] # "None"
      PROVE  Live /\ Live'
  BY <1>1, <1>2 DEF Live
<1> USE DEF IInv, TypeOK, RunOwnsItsState, ThreadStep, Contract!vars, Contract!Next, Live
<1>3. CASE ThreadBegin(t) \/ TaskSmStart(t) \/ TaskSmRun(t) \/ TaskSmFinish(t)
  BY <1>2, <1>3 DEF ThreadBegin, TaskSmStart, TaskSmRun, TaskSmFinish
<1>4. CASE PreRunInit(t)
  BY <1>2, <1>4 DEF PreRunInit, Contract!Initialise
<1>5. CASE Process(t) \/ ExitCleanup(t)
  BY <1>2, <1>5 DEF Process, ExitCleanup, Contract!Leave
<1>6. CASE MarkStopping(t) \/ StopCleanup(t)
  BY <1>2, <1>6 DEF MarkStopping, StopCleanup, Contract!WindDown
<1>7. CASE ThreadReturn(t)
  <2>1. State \notin {"ACTIVE", "STOPPING"} /\ UNCHANGED State
    BY <1>1, <1>7 DEF ThreadReturn, BusyStateHasARun
  <2>2. Live /\ ~Live'
    BY <1>1, <1>7 DEF ThreadReturn
  <2>3. QED
    BY <2>1, <2>2 DEF Contract!Return
<1>8. QED
  BY <1>3, <1>4, <1>5, <1>6, <1>7 DEF ThreadNext

\* The fine-grained runner implements the contract: each store to State that
\* another thread can see is one of the contract's transitions, and a thread
\* is created only when there is none.
THEOREM Refinement == Spec => ImplementsContract
<1>1. Init => Contract!Init
  BY DEF Init, Contract!Init
<1>2. IInv /\ BusyStateHasARun /\ [Next]_vars => [Contract!Next]_(Contract!vars)
  <2> SUFFICES ASSUME IInv, BusyStateHasARun, [Next]_vars
               PROVE  [Contract!Next]_(Contract!vars)
    OBVIOUS
  <2>1. CASE UNCHANGED vars
    BY <2>1 DEF vars, Contract!vars
  <2>2. QED
    BY <2>1, OwnerStepsKeepContract, ThreadStepsKeepContract DEF Next
<1>3. QED
  BY <1>1, <1>2, InvHolds, BusyStatesAreServed, PTL
     DEF Spec, ImplementsContract, Contract!Spec

=============================================================================
