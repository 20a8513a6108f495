--------------------------- MODULE StatsMonProofs ---------------------------
(***************************************************************************)
(* Theorems about the messaging example: types, and that the message table *)
(* and the subscription keep step, for any IDs, tables and queue depths.   *)
(* At the end, those about the message identifiers of MsgIds.              *)
(***************************************************************************)
EXTENDS StatsMon, TLAPS, Integers

LEMMA Constants ==
  /\ WakeupDepth \in Nat \ {0} /\ StatsDepth \in Nat \ {0}
  /\ CounterLimit \in Nat \ {0} /\ MaxCopies \in Nat \ {0}
  /\ MsgIdRsvd \notin Ids
  /\ InitialTbl \in Seq(Ids)
  /\ InitialTbl \in [Slots -> Ids]
BY StatsMonAssumption DEF Slots

-----------------------------------------------------------------------------
(* Types.                                                                  *)

\* The parts of TypeOK about the table and its subscription.
TableTypeOK ==
  /\ msg_tbl \in [Slots -> Ids \cup {MsgIdRsvd}]
  /\ copies \in [Ids -> 0..MaxCopies]
  /\ registered \in BOOLEAN
  /\ removed \in SUBSET Ids

LEMMA AddTypes ==
  ASSUME TableTypeOK, NEW id \in Ids, add_id(id)
  PROVE  TableTypeOK'
<1>1. PICK n \in find_unused_entry : msg_tbl' = [msg_tbl EXCEPT ![n] = id]
  BY DEF add_id
<1>2. msg_tbl' \in [Slots -> Ids \cup {MsgIdRsvd}]
  BY <1>1 DEF TableTypeOK, find_unused_entry
<1>3. copies' \in [Ids -> 0..MaxCopies]
  BY Constants DEF add_id, EntryAdded, subscribe, TableTypeOK
<1>4. QED
  BY <1>2, <1>3 DEF add_id, EntryAdded, TableTypeOK

LEMMA RemoveTypes ==
  ASSUME TableTypeOK, NEW id \in Ids, remove_id(id)
  PROVE  TableTypeOK'
<1>1. PICK n \in find(id) : msg_tbl' = [msg_tbl EXCEPT ![n] = MsgIdRsvd]
  BY DEF remove_id
<1>2. msg_tbl' \in [Slots -> Ids \cup {MsgIdRsvd}]
  BY <1>1 DEF TableTypeOK, find
<1>3. copies' \in [Ids -> 0..MaxCopies]
  BY Constants DEF remove_id, EntryRemoved, unsubscribe, TableTypeOK
<1>4. QED
  BY <1>2, <1>3 DEF remove_id, EntryRemoved, TableTypeOK

\* A message that is sent to the pipes respects the depths of their queues.
LEMMA SendTypes ==
  ASSUME TypeOK, NEW id \in Ids \cup {WakeupId}, send_cmd(id)
  PROVE  /\ wakeup_queue' \in 0..WakeupDepth
         /\ stats_queue' \in Seq(Ids)
         /\ Len(stats_queue') <= StatsDepth
<1>1. wakeup_queue' \in 0..WakeupDepth
  BY Constants DEF send_cmd, EnqueueWakeup, TypeOK
<1>2. CASE stats_queue' = stats_queue
  BY <1>1, <1>2 DEF TypeOK
<1>3. CASE id \in Ids /\ EnqueueStats(id)
  <2>1. stats_queue \in Seq(Ids) /\ Len(stats_queue) \in Nat
    BY DEF TypeOK
  <2>2. /\ Append(stats_queue, id) \in Seq(Ids)
        /\ Len(Append(stats_queue, id)) = Len(stats_queue) + 1
    BY <1>3, <2>1
  <2>3. QED
    BY <1>1, <1>3, <2>1, <2>2, Constants DEF EnqueueStats, TypeOK
<1>4. QED
  BY <1>1, <1>2, <1>3 DEF send_cmd, EnqueueWakeup

LEMMA TypeOKStep ==
  ASSUME TypeOK, [Next]_vars
  PROVE  TypeOK'
<1> USE Constants
<1>1. CASE ChangeTable
  <2>1. TableTypeOK
    BY DEF TypeOK, TableTypeOK
  <2>2. PICK id \in Ids : add_id(id) \/ remove_id(id)
    BY <1>1 DEF ChangeTable
  <2>3. TableTypeOK'
    BY <2>1, <2>2, AddTypes, RemoveTypes
  <2>4. QED
    BY <1>1, <2>3 DEF ChangeTable, schedVars, queueVars, TypeOK, TableTypeOK
<1>2. CASE Tick
  <2>1. wkup_count' \in 0..(CounterLimit - 1)
    BY <1>2 DEF Tick, TypeOK
  <2>2. Len(SchedTbl) \in Nat /\ entry' \in 0..Len(SchedTbl)
    BY <1>2, StatsMonAssumption DEF Tick, TypeOK
  <2>3. QED
    BY <1>2, <2>1, <2>2 DEF Tick, tableVars, queueVars, TypeOK
<1>3. CASE RunEntry
  <2>1. /\ Len(SchedTbl) \in Nat
        /\ entry \in 1..Len(SchedTbl)
        /\ SchedTbl[entry].MsgId \in Ids \cup {WakeupId}
    <3>1. SchedTbl \in Seq([MsgId : Ids \cup {WakeupId}, WakeupCount : Nat \ {0}])
      BY StatsMonAssumption
    <3>2. Len(SchedTbl) \in Nat /\ entry \in 1..Len(SchedTbl)
      BY <1>3, <3>1 DEF RunEntry, TypeOK
    <3> DEFINE E == [MsgId : Ids \cup {WakeupId}, WakeupCount : Nat \ {0}]
    <3>3. \A e \in E : e.MsgId \in Ids \cup {WakeupId}
      OBVIOUS
    <3>4. SchedTbl \in Seq(E)
      BY <3>1
    <3> HIDE DEF E
    <3>5. SchedTbl[entry] \in E
      BY <3>2, <3>4
    <3>6. QED
      BY <3>2, <3>3, <3>5
  <2>2. entry' \in 0..Len(SchedTbl)
    BY <1>3, <2>1 DEF RunEntry
  <2>3. CASE send_cmd(SchedTbl[entry].MsgId)
    BY <1>3, <2>1, <2>2, <2>3, SendTypes DEF RunEntry, tableVars, TypeOK
  <2>4. CASE UNCHANGED queueVars
    BY <1>3, <2>2, <2>4 DEF RunEntry, tableVars, queueVars, TypeOK
  <2>5. QED
    BY <1>3, <2>3, <2>4 DEF RunEntry
<1>4. CASE TakeWakeup
  BY <1>4 DEF TakeWakeup, tableVars, schedVars, TypeOK
<1>5. CASE NoMoreWakeups
  BY <1>5 DEF NoMoreWakeups, tableVars, schedVars, queueVars, TypeOK
<1>6. CASE HandleStats
  <2>1. stats_queue' \in Seq(Ids) /\ Len(stats_queue') <= StatsDepth
    BY <1>6 DEF HandleStats, TypeOK
  <2>2. QED
    BY <1>6, <2>1 DEF HandleStats, tableVars, schedVars, TypeOK
<1>7. CASE Drained
  BY <1>7 DEF Drained, tableVars, schedVars, queueVars, TypeOK
<1>8. CASE UNCHANGED vars
  BY <1>8 DEF vars, TypeOK
<1>9. QED
  BY <1>1, <1>2, <1>3, <1>4, <1>5, <1>6, <1>7, <1>8 DEF Next, Scheduler, run_loop

LEMMA TypeOKInit == Init => TypeOK
<1>1. Init => wkup_count \in 0..(CounterLimit - 1) /\ entry \in 0..Len(SchedTbl)
  <2>1. Len(SchedTbl) \in Nat
    BY StatsMonAssumption
  <2>2. 0 \in 0..(CounterLimit - 1) /\ 0 \in 0..Len(SchedTbl)
    BY <2>1, Constants
  <2>3. QED
    BY <2>2 DEF Init
<1>2. Init => /\ msg_tbl \in [Slots -> Ids \cup {MsgIdRsvd}]
              /\ copies \in [Ids -> 0..MaxCopies]
              /\ registered \in BOOLEAN /\ removed \in SUBSET Ids
  <2>1. InitialTbl \in [Slots -> Ids \cup {MsgIdRsvd}]
    BY Constants
  <2>2. [id \in Ids |-> 0] \in [Ids -> 0..MaxCopies]
    BY Constants
  <2>3. QED
    BY <2>1, <2>2, Zenon DEF Init
<1>3. Init => /\ wakeup_queue \in 0..WakeupDepth
              /\ stats_queue \in Seq(Ids) /\ Len(stats_queue) <= StatsDepth
  <2>1. << >> \in Seq(Ids) /\ Len(<< >>) = 0
    OBVIOUS
  <2>2. QED
    BY <2>1, Constants DEF Init
<1>4. Init => pc \in {"Wait", "Drain", "More"}
  BY DEF Init
<1>5. QED
  BY <1>1, <1>2, <1>3, <1>4 DEF TypeOK

\* Type correctness; with it the depths of both queues, for any depths and any
\* table of the scheduler.
THEOREM TypeCorrect == Spec => []TypeOK
BY TypeOKInit, TypeOKStep, PTL DEF Spec

-----------------------------------------------------------------------------
(* Table and subscription. That a removal takes the ID's only entry out of *)
(* the table needs NoIdTwice, or the entry that is left would be one that  *)
(* is not subscribed.                                                      *)

TableInv ==
  /\ TypeOK
  /\ NoIdTwice
  /\ TableIsSubscribed
  /\ RemovedIsUnsubscribed

LEMMA AddKeepsTableInv ==
  ASSUME TableInv, NEW id \in Ids, add_id(id)
  PROVE  NoIdTwice' /\ TableIsSubscribed' /\ RemovedIsUnsubscribed'
<1> USE DEF TableInv, TypeOK
<1>1. PICK n \in Slots : msg_tbl' = [msg_tbl EXCEPT ![n] = id]
  BY DEF add_id, find_unused_entry
<1>2. \A k \in Slots : msg_tbl[k] # id
  BY DEF add_id, find
<1>3. \A k \in Slots : msg_tbl'[k] = IF k = n THEN id ELSE msg_tbl[k]
  BY <1>1
<1>4. copies'[id] > 0 /\ \A x \in Ids : x # id => copies'[x] = copies[x]
  BY Constants DEF add_id, EntryAdded, subscribe
<1>5. NoIdTwice'
  BY <1>2, <1>3 DEF NoIdTwice
<1>6. TableIsSubscribed'
  <2>1. ASSUME NEW k \in Slots, msg_tbl'[k] \notin {MsgIdRsvd, InitialTbl[k]}
        PROVE  copies'[msg_tbl'[k]] > 0
    <3>1. CASE k = n
      BY <1>3, <1>4, <3>1
    <3>2. CASE k # n
      <4>1. msg_tbl'[k] = msg_tbl[k] /\ msg_tbl[k] \in Ids /\ msg_tbl[k] # id
        BY <1>2, <1>3, <2>1, <3>2
      <4>2. copies[msg_tbl[k]] > 0
        BY <2>1, <4>1 DEF TableIsSubscribed, is_subscribed
      <4>3. QED
        BY <1>4, <4>1, <4>2
    <3>3. QED
      BY <3>1, <3>2
  <2>2. QED
    BY <2>1 DEF TableIsSubscribed, is_subscribed
<1>7. RemovedIsUnsubscribed'
  BY <1>4 DEF RemovedIsUnsubscribed, is_subscribed, add_id
<1>8. QED
  BY <1>5, <1>6, <1>7

LEMMA RemoveKeepsTableInv ==
  ASSUME TableInv, NEW id \in Ids, remove_id(id)
  PROVE  NoIdTwice' /\ TableIsSubscribed' /\ RemovedIsUnsubscribed'
<1> USE DEF TableInv, TypeOK
<1>1. PICK n \in Slots : msg_tbl[n] = id /\ msg_tbl' = [msg_tbl EXCEPT ![n] = MsgIdRsvd]
  BY DEF remove_id, find
<1>2. \A k \in Slots : k # n => msg_tbl[k] # id
  BY <1>1, Constants DEF NoIdTwice
<1>3. \A k \in Slots : msg_tbl'[k] = IF k = n THEN MsgIdRsvd ELSE msg_tbl[k]
  BY <1>1
<1>4. copies'[id] = 0 /\ \A x \in Ids : x # id => copies'[x] = copies[x]
  BY DEF remove_id, EntryRemoved, unsubscribe
<1>5. NoIdTwice'
  BY <1>3 DEF NoIdTwice
<1>6. TableIsSubscribed'
  BY <1>2, <1>3, <1>4 DEF TableIsSubscribed, is_subscribed
<1>7. RemovedIsUnsubscribed'
  BY <1>4 DEF RemovedIsUnsubscribed, is_subscribed, remove_id
<1>8. QED
  BY <1>5, <1>6, <1>7

LEMMA TableInvStep ==
  ASSUME TableInv, [Next]_vars
  PROVE  TableInv'
<1>1. TypeOK'
  BY TypeOKStep DEF TableInv
<1>2. CASE ChangeTable
  <2>1. PICK id \in Ids : add_id(id) \/ remove_id(id)
    BY <1>2 DEF ChangeTable
  <2>2. QED
    BY <1>1, <2>1, AddKeepsTableInv, RemoveKeepsTableInv DEF TableInv
<1>3. CASE UNCHANGED tableVars
  BY <1>1, <1>3 DEF tableVars, TableInv, NoIdTwice, TableIsSubscribed,
     RemovedIsUnsubscribed, is_subscribed
<1>4. QED
  BY <1>2, <1>3 DEF Next, Scheduler, run_loop, Tick, RunEntry, TakeWakeup,
     NoMoreWakeups, HandleStats, Drained, vars, tableVars

LEMMA TableInvInit == Init => TableInv
<1>1. Init => NoIdTwice
  BY StatsMonAssumption DEF Init, NoIdTwice, Slots
<1>2. Init => TableIsSubscribed /\ RemovedIsUnsubscribed
  BY DEF Init, TableIsSubscribed, RemovedIsUnsubscribed
<1>3. QED
  BY <1>1, <1>2, TypeOKInit DEF TableInv

THEOREM TableInvHolds == Spec => []TableInv
BY TableInvInit, TableInvStep, PTL DEF Spec

\* The table never holds an ID twice, whatever is overwritten (StatsMsgTbl.hpp:
\* 109-143): the search of remove_id may stop at the first entry.
THEOREM NoDuplicates == Spec => []NoIdTwice
<1>1. TableInv => NoIdTwice
  BY DEF TableInv
<1>2. QED
  BY <1>1, TableInvHolds, PTL

\* An ID whose last change was a removal is not subscribed, however often it was
\* in the subscription's list (StatsMsgTbl.hpp:95, Broker.hpp:98-102).
THEOREM RemovalUnsubscribes == Spec => []RemovedIsUnsubscribed
<1>1. TableInv => RemovedIsUnsubscribed
  BY DEF TableInv
<1>2. QED
  BY <1>1, TableInvHolds, PTL

\* What was put into the table is subscribed as long as it is there
\* (StatsHandler.hpp:175-209).
THEOREM AdditionSubscribes == Spec => []TableIsSubscribed
<1>1. TableInv => TableIsSubscribed
  BY DEF TableInv
<1>2. QED
  BY <1>1, TableInvHolds, PTL

-----------------------------------------------------------------------------
(* Message identifiers, for all bytes.                                     *)

\* Unpacking an identifier gives what was packed into it (Message.hpp:94-123):
\* no field reaches into another.
THEOREM UnpackingInvertsPacking ==
  ASSUME NEW m \in Byte, NEW t \in Byte, NEW f \in Byte
  PROVE  /\ to_msg_id(m, t, f) \in MsgId_t
         /\ to_mod_id(to_msg_id(m, t, f)) = m
         /\ to_msg_type_id(to_msg_id(m, t, f)) = t
         /\ to_func_id(to_msg_id(m, t, f)) = f
<1> DEFINE id == to_msg_id(m, t, f)
<1>1. /\ m \in Int /\ t \in Int /\ f \in Int
      /\ 0 <= m /\ m <= 255 /\ 0 <= t /\ t <= 255 /\ 0 <= f /\ f <= 255
  BY DEF Byte
<1>2. id = 65536 * m + 256 * t + f
  BY <1>1 DEF to_msg_id
<1>3. id \in MsgId_t
  BY <1>1, <1>2 DEF MsgId_t
<1>4. id % 256 = f /\ id \div 256 = 256 * m + t
  BY <1>1, <1>2
<1>5. (256 * m + t) % 256 = t
  BY <1>1
<1>6. id \div 65536 = m
  BY <1>1, <1>2
<1>7. m % 256 = m
  BY <1>1
<1> HIDE DEF id
<1>8. QED
  BY <1>3, <1>4, <1>5, <1>6, <1>7 DEF to_mod_id, to_msg_type_id, to_func_id, id

\* The ID that ConvertToTlmId derives from any message of a module's function is
\* that of the module's telemetry message of that function (Message.hpp:82-87),
\* so that the further conversions in find_by_req_id change nothing.
THEOREM ConversionGivesTelemetry ==
  ASSUME NEW m \in Byte, NEW t \in Byte, NEW f \in Byte
  PROVE  ConvertToTlmId(to_msg_id(m, t, f)) = telemetry(m, f)
<1> DEFINE id == to_msg_id(m, t, f)
<1>1. /\ m \in Int /\ t \in Int /\ f \in Int
      /\ 0 <= m /\ m <= 255 /\ 0 <= t /\ t <= 255 /\ 0 <= f /\ f <= 255
  BY DEF Byte
<1>2. id = 65536 * m + 256 * t + f
  BY <1>1 DEF to_msg_id
<1>3. id % 256 = f /\ id \div 65536 = m
  BY <1>1, <1>2
<1> HIDE DEF id
<1>4. ConvertToTlmId(id) = m * 65536 + 2 * 256 + f
  BY <1>3 DEF ConvertToTlmId, MsgType_t
<1>5. QED
  BY <1>4 DEF id, telemetry, to_msg_id, MsgType_t

\* An identifier tells its message apart from every other one: two messages
\* with one identifier have the same owner, type and function.
THEOREM IdsAreUnique ==
  ASSUME NEW m \in Byte, NEW t \in Byte, NEW f \in Byte,
         NEW n \in Byte, NEW u \in Byte, NEW g \in Byte,
         to_msg_id(m, t, f) = to_msg_id(n, u, g)
  PROVE  m = n /\ t = u /\ f = g
<1>1. /\ to_mod_id(to_msg_id(m, t, f)) = m
      /\ to_msg_type_id(to_msg_id(m, t, f)) = t
      /\ to_func_id(to_msg_id(m, t, f)) = f
  BY UnpackingInvertsPacking
<1>2. /\ to_mod_id(to_msg_id(n, u, g)) = n
      /\ to_msg_type_id(to_msg_id(n, u, g)) = u
      /\ to_func_id(to_msg_id(n, u, g)) = g
  BY UnpackingInvertsPacking
<1>3. QED
  BY <1>1, <1>2

\* The request that TlmReqHandler makes of a telemetry message (TlmReqHandler.hpp:
\* 91-94) converts back to that message's identifier, whichever function it is.
THEOREM RequestsNameTheirTelemetry ==
  ASSUME NEW m \in Byte, NEW f \in Byte
  PROVE  ConvertToTlmId(MakeReqMsg(m, telemetry(m, f))) = telemetry(m, f)
<1>1. MsgType_t.TLM \in Byte /\ MsgType_t.TLM_REQ \in Byte
  BY DEF MsgType_t, Byte
<1>2. to_func_id(telemetry(m, f)) = f
  BY <1>1, UnpackingInvertsPacking DEF telemetry
<1>3. MakeReqMsg(m, telemetry(m, f)) = to_msg_id(m, MsgType_t.TLM_REQ, f)
  BY <1>2 DEF MakeReqMsg, telemetry_request
<1>4. QED
  BY <1>1, <1>3, ConversionGivesTelemetry

=============================================================================
