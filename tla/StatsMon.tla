------------------------------ MODULE StatsMon ------------------------------
(***************************************************************************)
(* The messaging example: the main thread runs a MsgScheduler and changes  *)
(* the message table of the statistics application while that             *)
(* application's thread works off its queues. A change of the table        *)
(* reaches the subscription of the statistics pipe through the observer,   *)
(* in the main thread; a message reaches the pipe through CmdBroker; and   *)
(* what the pipe has queued is handled when a scheduled wakeup comes.      *)
(*                                                                         *)
(* The program is in its main loop. The queues are BlockingMsgQueues with  *)
(* one sender, that is, bounded FIFOs (see BlockingMsgQueue).              *)
(***************************************************************************)
EXTENDS MsgIds

CONSTANTS
  Ids,          \* the message IDs that the table is asked to take
  InitialTbl,   \* the entries of the table when it is constructed
  SchedTbl,     \* the scheduler's entries in use: [MsgId, WakeupCount]
  WakeupId,     \* the ID of stats_mon::WakeupMsg
  WakeupDepth,  \* depth of the queue of the wakeup pipe
  StatsDepth,   \* depth of the queue of the statistics pipe
  CounterLimit, \* wkup_count_ is counted modulo this, a multiple of the periods
  MaxCopies     \* bound on the copies of one ID in the subscription

ASSUME StatsMonAssumption ==
  /\ Ids \subseteq MsgId_t
  /\ MsgIdRsvd \notin Ids
  /\ InitialTbl \in Seq(Ids)
  /\ \A k, n \in DOMAIN InitialTbl : InitialTbl[k] = InitialTbl[n] => k = n
  /\ SchedTbl \in Seq([MsgId : Ids \cup {WakeupId}, WakeupCount : Nat \ {0}])
  /\ WakeupId \in MsgId_t
  /\ WakeupId \notin Ids
  /\ {WakeupDepth, StatsDepth, CounterLimit, MaxCopies} \subseteq Nat \ {0}

VARIABLES
  msg_tbl,      \* MsgTbl::msg_tbl_, a vector that nothing lengthens
  copies,       \* how often each ID is in the IdList of the pipe's subscription
  registered,   \* CmdBroker has the pipe's subscription
  removed,      \* history: the IDs whose last change in the table was remove_id
  wkup_count,   \* MsgScheduler::wkup_count_
  entry,        \* the entry MsgScheduler::run has come to, 0 outside run
  wakeup_queue, \* the number of messages in the queue of the wakeup pipe
  stats_queue,  \* the queue of the statistics pipe
  pc            \* where the application's thread is in run_loop

vars == <<msg_tbl, copies, registered, removed, wkup_count, entry,
          wakeup_queue, stats_queue, pc>>

Slots == DOMAIN InitialTbl

TypeOK ==
  /\ msg_tbl \in [Slots -> Ids \cup {MsgIdRsvd}]
  /\ copies \in [Ids -> 0..MaxCopies]
  /\ registered \in BOOLEAN
  /\ removed \in SUBSET Ids
  /\ wkup_count \in 0..(CounterLimit - 1)
  /\ entry \in 0..Len(SchedTbl)
  /\ wakeup_queue \in 0..WakeupDepth
  /\ stats_queue \in Seq(Ids)
  /\ Len(stats_queue) <= StatsDepth
  /\ pc \in {"Wait", "Drain", "More"}

\* The observer is added when the table has its entries: it hears of none.
Init ==
  /\ msg_tbl = InitialTbl
  /\ copies = [id \in Ids |-> 0]
  /\ registered = FALSE
  /\ removed = {}
  /\ wkup_count = 0
  /\ entry = 0
  /\ wakeup_queue = 0
  /\ stats_queue = << >>
  /\ pc = "Wait"

tableVars == <<msg_tbl, copies, registered, removed>>
schedVars == <<wkup_count, entry>>
queueVars == <<wakeup_queue, stats_queue>>

-----------------------------------------------------------------------------
(* The table and its observer, in the main thread between two periods of   *)
(* the scheduler.                                                          *)

is_subscribed(id) == copies[id] > 0

\* push_back, whether the ID is there or not.
subscribe(id) ==
  /\ copies[id] < MaxCopies
  /\ copies' = [copies EXCEPT ![id] = @ + 1]

\* As unsubscribe, with an erase of a single element.
unsubscribe_one(id) ==
  copies' = [copies EXCEPT ![id] = IF @ = 0 THEN 0 ELSE @ - 1]

\* erase-remove takes out every copy.
unsubscribe(id) == copies' = [copies EXCEPT ![id] = 0]

\* notification(EntryAdded): the pipe's subscription gets the ID, and CmdBroker
\* the subscription, which it takes once.
EntryAdded(id) == subscribe(id) /\ registered' = TRUE

EntryRemoved(id) == unsubscribe(id) /\ UNCHANGED registered

find(id) == {n \in Slots : msg_tbl[n] = id}

\* find_unused_entry as it is called in add_id: the first entry for which the
\* test in the code is true.
find_unused_entry ==
  {n \in Slots : /\ msg_tbl[n] # MsgIdRsvd
                 /\ \A k \in 1..(n - 1) : msg_tbl[k] = MsgIdRsvd}

\* As add_id, without the search for the ID.
add_id_unsearched(id) ==
  /\ \E n \in find_unused_entry : msg_tbl' = [msg_tbl EXCEPT ![n] = id]
  /\ EntryAdded(id)
  /\ removed' = removed \ {id}

\* As add_id, without the event.
add_id_unannounced(id) ==
  /\ find(id) = {}
  /\ \E n \in find_unused_entry : msg_tbl' = [msg_tbl EXCEPT ![n] = id]
  /\ removed' = removed \ {id}
  /\ UNCHANGED <<copies, registered>>

\* ID_ALREADY_IN_TBL and the TBL_FULL of a table without an entry to take change
\* nothing. The status is left out: it is TBL_FULL also when the ID was taken in.
add_id(id) ==
  /\ find(id) = {}
  /\ \E n \in find_unused_entry : msg_tbl' = [msg_tbl EXCEPT ![n] = id]
  /\ EntryAdded(id)
  /\ removed' = removed \ {id}

\* No ID is in the table twice, so the first entry found is the only one.
remove_id(id) ==
  /\ \E n \in find(id) : msg_tbl' = [msg_tbl EXCEPT ![n] = MsgIdRsvd]
  /\ EntryRemoved(id)
  /\ removed' = removed \cup {id}

ChangeTable ==
  /\ entry = 0
  /\ \E id \in Ids : add_id(id) \/ remove_id(id)
  /\ UNCHANGED <<schedVars, queueVars, pc>>

-----------------------------------------------------------------------------
(* The scheduler, in the main thread.                                      *)

\* A period has passed.
Tick ==
  /\ entry = 0
  /\ SchedTbl # << >>
  /\ wkup_count' = (wkup_count + 1) % CounterLimit
  /\ entry' = 1
  /\ UNCHANGED <<tableVars, queueVars, pc>>

Due(e) == wkup_count % e.WakeupCount = 0

\* As EnqueueWakeup, with a slot of the ring left free.
EnqueueWakeupOffByOne ==
  wakeup_queue' = IF wakeup_queue + 1 < WakeupDepth THEN wakeup_queue + 1 ELSE wakeup_queue

\* As EnqueueStats, into a queue that is full.
EnqueueStatsOffByOne(id) ==
  stats_queue' = IF Len(stats_queue) <= StatsDepth
                 THEN Append(stats_queue, id) ELSE stats_queue

\* QueuedRouter::receive and queued_dynamic_pipe::receive: a full queue drops
\* the message.
EnqueueWakeup ==
  wakeup_queue' = IF wakeup_queue < WakeupDepth THEN wakeup_queue + 1 ELSE wakeup_queue

EnqueueStats(id) ==
  stats_queue' = IF Len(stats_queue) < StatsDepth
                 THEN Append(stats_queue, id) ELSE stats_queue

\* iApp::send_cmd: the wakeup pipe is subscribed to its message for good, the
\* statistics pipe to what its list says now.
send_cmd(id) ==
  IF id = WakeupId
  THEN EnqueueWakeup /\ UNCHANGED stats_queue
  ELSE /\ IF registered /\ is_subscribed(id)
          THEN EnqueueStats(id) ELSE UNCHANGED stats_queue
       /\ UNCHANGED wakeup_queue

\* One entry of the loop in run.
RunEntry ==
  /\ entry # 0
  /\ IF Due(SchedTbl[entry]) THEN send_cmd(SchedTbl[entry].MsgId) ELSE UNCHANGED queueVars
  /\ entry' = IF entry = Len(SchedTbl) THEN 0 ELSE entry + 1
  /\ UNCHANGED <<tableVars, wkup_count, pc>>

-----------------------------------------------------------------------------
(* The application's thread: run_loop. A timeout only brings it back to    *)
(* the same wait.                                                          *)

\* front of the wakeup queue, in receive_msgs and in the loop behind it.
TakeWakeup ==
  /\ pc \in {"Wait", "More"}
  /\ wakeup_queue > 0
  /\ wakeup_queue' = wakeup_queue - 1
  /\ pc' = "Drain"
  /\ UNCHANGED <<tableVars, schedVars, stats_queue>>

NoMoreWakeups ==
  /\ pc = "More"
  /\ wakeup_queue = 0
  /\ pc' = "Wait"
  /\ UNCHANGED <<tableVars, schedVars, queueVars>>

\* process_stats_messages handles a message of the pipe, which is not asked
\* again whether it still accepts it.
HandleStats ==
  /\ pc = "Drain"
  /\ stats_queue # << >>
  /\ stats_queue' = Tail(stats_queue)
  /\ UNCHANGED <<tableVars, schedVars, wakeup_queue, pc>>

Drained ==
  /\ pc = "Drain"
  /\ stats_queue = << >>
  /\ pc' = "More"
  /\ UNCHANGED <<tableVars, schedVars, queueVars>>

run_loop == TakeWakeup \/ NoMoreWakeups \/ HandleStats \/ Drained

Scheduler == Tick \/ RunEntry

Next == ChangeTable \/ Scheduler \/ run_loop

Spec == Init /\ [][Next]_vars

\* The main loop never ends and the application's thread is scheduled. No change
\* of the table is owed.
FairSpec == Spec /\ WF_vars(Scheduler) /\ WF_vars(run_loop)

-----------------------------------------------------------------------------
(* Properties.                                                             *)

\* No new message of an ID that was taken out of the table is put into the queue,
\* where earlier ones may still wait, however often the ID was put in: the subscription's list holds several copies of an ID
\* that was overwritten and added again (StatsMsgTbl.hpp:166, Broker.hpp:134).
RemovedIsUnsubscribed == \A id \in removed : ~is_subscribed(id)

\* Table and subscription keep step: what was put into the table is
\* delivered while it is there. The entries that the table was constructed
\* with, which no event announced, are delivered only when added again.
TableIsSubscribed ==
  \A n \in Slots :
    msg_tbl[n] \in {MsgIdRsvd, InitialTbl[n]} \/ is_subscribed(msg_tbl[n])

\* The table never holds an ID twice, although entries are overwritten and
\* cleared in any order: remove_id stops at the first (StatsMsgTbl.hpp:95).
NoIdTwice ==
  \A k, n \in Slots :
    msg_tbl[k] = msg_tbl[n] /\ msg_tbl[k] # MsgIdRsvd => k = n

\* Every message that the pipe has queued is handled in the end: wakeups keep
\* coming, and one that is dropped because the queue of depth one is full is
\* made good by the one that fills it (App.hpp:39-52, StatsHandler.hpp:148-162).
EveryStatsMessageIsHandled ==
  <>[](stats_queue # << >>) => []<><<HandleStats>>_vars

-----------------------------------------------------------------------------
(* What the repository says of the table and the code does not do.         *)

\* "ID does not already exist. Find next avail entry" and "Tbl not full, found
\* entry. Add id" (StatsMsgTbl.hpp:120, 124): adding an ID takes no other one
\* out of the table.
AddKeepsTheOthers ==
  [][\A id \in Ids, n \in Slots :
       add_id(id) /\ msg_tbl[n] # MsgIdRsvd => \E k \in Slots : msg_tbl'[k] = msg_tbl[n]]_vars

=============================================================================
