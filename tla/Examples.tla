------------------------------ MODULE Examples ------------------------------
(***************************************************************************)
(* The two example programs ActiveWithChildren and PassiveWithChildren: an *)
(* application with two children, and the main() that calls it. It is      *)
(* Services with the hooks of the examples, none of which fails, and with  *)
(* the messages they exchange. Which program runs is chosen at the start.  *)
(*                                                                         *)
(* The sleeps between main()'s calls order nothing: a call may come before *)
(* or after anything the other threads do. What is left out is the end of  *)
(* main(), which destroys the application and ends the process.            *)
(***************************************************************************)
EXTENDS Services

CONSTANTS
  Child1, Child2,  \* for each application, its two members
  CmdDepth,        \* depth of ExampleApp::cmd_handler
  LocalDepth,      \* depth of Child2::local_m_handler
  Iterations       \* the initial value of Child1::iters_left

ASSUME ExamplesAssumption ==
  /\ {Child1, Child2} \subseteq [Apps -> Children]
  /\ \A a \in Apps : Child1[a] # Child2[a] /\ {Child1[a], Child2[a]} = ChildrenOf(a)
  /\ {CmdDepth, LocalDepth, Iterations} \subseteq Nat \ {0}

VARIABLES
  app,         \* the application of the program that runs
  main,        \* the call in main() that is next or in progress
  cmds,        \* the queue of cmd_handler, in the program with an active application
  local_cmds,  \* the number of messages in the queue of local_m_handler
  iters_left   \* Child1::iters_left

vars == <<svcVars, app, main, cmds, local_cmds, iters_left>>

Commands == {"StartChild1", "StartChild2", "CommunicateWithChild"}

\* The calls of main() one after the other.
ActiveMain ==
  <<"init", "start", "StartChild1", "StartChild2", "CommunicateWithChild",
    "stop", "cleanup", "return">>

\* process() of the passive application, called in between, counts its calls and
\* returns, for nobody to look at.
PassiveMain == <<"init", "start", "StartChild2", "stop", "cleanup", "return">>

Main == IF app \in PassiveApps THEN PassiveMain ELSE ActiveMain

TypeOK ==
  /\ SvcTypeOK
  /\ app \in Apps
  /\ main \in 1..Len(Main)
  /\ cmds \in Seq(Commands)
  /\ Len(cmds) <= CmdDepth
  /\ local_cmds \in 0..LocalDepth
  /\ iters_left \in 0..Iterations

Init ==
  /\ SvcInit
  /\ app \in Apps
  /\ main = 1
  /\ cmds = << >>
  /\ local_cmds = 0
  /\ iters_left = Iterations

msgVars == <<cmds, local_cmds, iters_left>>

-----------------------------------------------------------------------------
(* main().                                                                 *)

\* main() is at one of these calls, and not inside the start() or stop() of a
\* child that a hook or handler in this thread has called.
At(calls) ==
  /\ Main[main] \in calls
  /\ app \in PassiveApps => BetweenCalls(app)

Continue == main' = main + 1 /\ UNCHANGED app

\* app_init subscribes the handler and initialises both children.
CallInit ==
  /\ At({"init"})
  /\ InitApp(app, TRUE)
  /\ \A c \in ChildrenOf(app) : IsInit'[c]
  /\ Continue
  /\ UNCHANGED msgVars

\* start() and stop() of the application. That of a passive one runs its hooks,
\* in this thread, and returns when they have.
CallStart ==
  /\ At({"start"})
  /\ \/ /\ app \in ActiveSvcs \ pending
        /\ BeginStart(app)
        /\ UNCHANGED <<registry, main, app>>
     \/ (FinishStart(app) \/ StartPassive(app)) /\ UNCHANGED <<main, app>>
     \/ IsStarted[app] /\ Continue /\ UNCHANGED svcVars
  /\ UNCHANGED msgVars

CallStop ==
  /\ At({"stop"})
  /\ \/ /\ app \in ActiveSvcs \ pending
        /\ BeginStop(app)
        /\ UNCHANGED <<i, main, app>>
     \/ (FinishStop(app) \/ StopPassive(app)) /\ UNCHANGED <<main, app>>
     \/ ~IsStarted[app] /\ Continue /\ UNCHANGED svcVars
  /\ UNCHANGED msgVars

\* QueuedRouter::receive
Enqueue(cmd) == cmds' = IF Len(cmds) < CmdDepth THEN Append(cmds, cmd) ELSE cmds

\* send_cmd. The router of the passive application is not queued: its handler
\* runs in this thread, and what it starts is started when send_cmd returns.
send_cmd ==
  /\ At(Commands)
  /\ \/ /\ app \in ActiveSvcs
        /\ Enqueue(Main[main])
        /\ UNCHANGED svcVars
     \/ /\ app \in PassiveApps
        /\ start_child(app, Child2[app])
        /\ UNCHANGED cmds
  /\ Continue
  /\ UNCHANGED <<local_cmds, iters_left>>

\* app_cleanup cleans up both children, of which one that is started refuses.
CallCleanup ==
  /\ At({"cleanup"})
  /\ CleanupApp(app)
  /\ \A s \in {app} \cup ChildrenOf(app) : IsStarted[s] \/ ~IsInit'[s]
  /\ Continue
  /\ UNCHANGED msgVars

MainCalls == CallInit \/ CallStart \/ CallStop \/ send_cmd \/ CallCleanup

-----------------------------------------------------------------------------
(* The hooks and handlers.                                                 *)

\* pre_run_init of the passive application starts its first child.
StartFirstChild(a) ==
  /\ a \in PassiveApps
  /\ at[a] = "PreRunInit" /\ BetweenCalls(a)
  /\ start_child(a, Child1[a])
  /\ UNCHANGED <<app, main, msgVars>>

\* The other services have the default, which returns OK.
PreRunInitReturns(s) ==
  /\ PreRunInit(s)
  /\ IF s \in PassiveApps THEN IsRegistered(s, Child1[s]) ELSE State'[s] = "ACTIVE"
  /\ UNCHANGED <<app, main, msgVars>>

\* As HandleCmd, with the last message left in the queue.
HandleCmdButLast(a) ==
  /\ at[a] = "Process" /\ BetweenCalls(a) /\ Len(cmds) > 1
  /\ cmds' = Tail(cmds)
  /\ \/ Head(cmds) = "StartChild1" /\ start_child(a, Child1[a]) /\ UNCHANGED local_cmds
     \/ Head(cmds) = "StartChild2" /\ start_child(a, Child2[a]) /\ UNCHANGED local_cmds
     \/ /\ Head(cmds) = "CommunicateWithChild"
        /\ local_cmds' = IF local_cmds < LocalDepth THEN local_cmds + 1 ELSE local_cmds
        /\ UNCHANGED svcVars
  /\ UNCHANGED <<app, main, iters_left>>

\* In process_msg_queue, the active application's run_loop takes a command and
\* its handler runs, which starts a child or sends the second one a message.
HandleCmd(a) ==
  /\ at[a] = "Process" /\ BetweenCalls(a) /\ cmds # << >>
  /\ cmds' = Tail(cmds)
  /\ \/ Head(cmds) = "StartChild1" /\ start_child(a, Child1[a]) /\ UNCHANGED local_cmds
     \/ Head(cmds) = "StartChild2" /\ start_child(a, Child2[a]) /\ UNCHANGED local_cmds
     \/ /\ Head(cmds) = "CommunicateWithChild"
        /\ local_cmds' = IF local_cmds < LocalDepth THEN local_cmds + 1 ELSE local_cmds
        /\ UNCHANGED svcVars
  /\ UNCHANGED <<app, main, iters_left>>

\* The run_loop of the second child, in the same way.
HandleLocalCmd(c) ==
  /\ c = Child2[app] /\ at[c] = "Process" /\ local_cmds > 0
  /\ local_cmds' = local_cmds - 1
  /\ UNCHANGED <<svcVars, app, main, cmds, iters_left>>

\* process_msg_queue returns when the queue is empty.
QueueIsEmpty(s) == (s = app => cmds = << >>) /\ (s = Child2[app] => local_cmds = 0)

\* As OneShot, looking at the counter before it counts.
OneShotLooksFirst(c) ==
  /\ iters_left' = iters_left - 1
  /\ at'[c] = IF iters_left = 0 THEN "StopChildren" ELSE "Run"

\* run_loop of the active application's first child.
OneShot(c) ==
  /\ iters_left' = iters_left - 1
  /\ at'[c] = IF iters_left' = 0 THEN "StopChildren" ELSE "Run"

\* run_loop returns: OK, but for the first child's last call, which is DONE.
ProcessReturns(s) ==
  /\ Process(s)
  /\ State' = State
  /\ QueueIsEmpty(s)
  /\ IF s = Child1[app] /\ app \in ActiveSvcs
     THEN OneShot(s)
     ELSE at'[s] = "Run" /\ UNCHANGED iters_left
  /\ UNCHANGED <<app, main, cmds, local_cmds>>

\* post_run_cleanup returns OK or DONE.
CleanupReturns(s) ==
  /\ Cleanup(s)
  /\ s \in ActiveSvcs => State'[s] \in {"STOPPED", "EXITED"}
  /\ UNCHANGED <<app, main, msgVars>>

\* The steps of the runner that no hook decides.
RunnerStep(s) ==
  /\ \/ \E c \in ChildrenOf(s) : FinishCall(c)
     \/ TestState(s) \/ StopChild(s) \/ ChildrenStopped(s) \/ Return(s)
  /\ UNCHANGED <<app, main, msgVars>>

ThreadStep(s) ==
  \/ StartFirstChild(s) \/ PreRunInitReturns(s)
  \/ s \in Apps /\ HandleCmd(s)
  \/ HandleLocalCmd(s) \/ ProcessReturns(s) \/ CleanupReturns(s) \/ RunnerStep(s)

Next == MainCalls \/ \E s \in Svcs : ThreadStep(s)

Spec == Init /\ [][Next]_vars

\* Threads are scheduled, main()'s too: its sleeps end.
FairSpec == Spec /\ WF_vars(MainCalls) /\ \A s \in Svcs : WF_vars(ThreadStep(s))

-----------------------------------------------------------------------------
(* Properties.                                                             *)

\* No command stays in the application's queue for good, unless it has
\* ended: the commands that come while it handles others, or waits for none,
\* are handled too (ActiveWithChildren.cpp:148-155).
CommandsAreHandled == (cmds # << >>) ~> (cmds = << >> \/ at[app] = "None")

\* "One shot child task. Loops 5 times and exits" (ActiveWithChildren.cpp:32):
\* once ACTIVE it ends, and if nobody stops it, after the last of its loops.
OneShotEnds ==
  \A a \in Apps \ PassiveApps :
    LET c == Child1[a] IN
      (app = a /\ State[c] = "ACTIVE")
      ~> (at[c] = "None" /\ (State[c] = "EXITED" => iters_left = 0))

=============================================================================
