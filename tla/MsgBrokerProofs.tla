-------------------------- MODULE MsgBrokerProofs --------------------------
(***************************************************************************)
(* Theorems about MsgBroker, for all sets of threads, pipes, buffers and   *)
(* message IDs, any capacity of queues and pool.                           *)
(***************************************************************************)
EXTENDS MsgBroker, FiniteSetTheorems, SequenceTheorems, TLAPS

-----------------------------------------------------------------------------
(* The inductive invariant.                                                *)

\* A thread is idle when it has no buffer, and routes when it has the lock.
Positions ==
  /\ \A s \in Senders : pc[s] \in SenderPC
  /\ \A p \in QueuedPipes : pc[p] \in ConsumerPC
  /\ \A t \in Threads : buf[t] = NoBuf <=> pc[t] = "Idle"
  /\ \A s \in Senders : pc[s] = "Receive" <=> lock_ = s

NoneTwice(list) == \A i, j \in DOMAIN list : list[i] = list[j] => i = j

\* A pipe is in the broker's list once, a buffer in a queue once.
Lists ==
  /\ NoneTwice(routers)
  /\ \A p \in QueuedPipes : NoneTwice(queue[p])

\* Nobody but its thread shortens a queue.
Fronts ==
  \A p \in QueuedPipes :
    pc[p] = "Process" => queue[p] # <<>> /\ buf[p] = Head(queue[p])

\* A sender has its buffer for itself until routing begins; the pipes that
\* are still to come do not have it, and those that have it got nothing since.
Routing ==
  /\ \A s, t \in Senders : buf[s] = buf[t] /\ buf[s] # NoBuf => s = t
  /\ \A s \in Senders, p \in QueuedPipes : \A k \in DOMAIN queue[p] :
       /\ pc[s] = "Lock" => queue[p][k] # buf[s]
       /\ pc[s] = "Receive" /\ queue[p][k] = buf[s] =>
            /\ k = Len(queue[p])
            /\ \A n \in DOMAIN routers : routers[n] = p => n < next[s]

\* HoldersKeepTheBuffer and NothingIsLost, buffer by buffer.
BufInv(b) ==
  /\ ThreadsSharing(b) # {} \/ QueuesSharing(b) # {} =>
       b \in heap /\ ref[b] = Shares(b) /\ Owners(b) = {}
  /\ Owners(b) # {} => b \in heap /\ \E t : Owners(b) = {t}
  /\ b \in heap /\ size[b] = "Message" =>
       ThreadsSharing(b) # {} \/ QueuesSharing(b) # {} \/ Owners(b) # {}

IInv ==
  /\ TypeOK
  /\ Positions
  /\ Lists
  /\ Fronts
  /\ Routing
  /\ \A b \in Bufs : BufInv(b)
  /\ PoolAccounts
  /\ OneOrderForAll

-----------------------------------------------------------------------------
(* The pool.                                                               *)

LEMMA CounterSteps ==
  ASSUME NEW n \in Counter
  PROVE  Incr(n) \in Counter /\ Decr(n) \in Counter
BY NumItemsAssumption, CounterLimitAssumption DEF Counter, Incr, Decr

LEMMA AllocateKeepsType ==
  ASSUME PoolTypeOK, NEW b, Allocate(b)
  PROVE  PoolTypeOK'
<1>1. /\ AllocCount' \in Counter /\ ItemsInUse' \in Counter
      /\ WaterMark' \in Counter /\ ReleaseCount' \in Counter
  BY CounterSteps DEF PoolTypeOK, Allocate
<1>2. heap' \subseteq Bufs
  BY DEF PoolTypeOK, Allocate
<1>3. QED
  BY <1>1, <1>2 DEF PoolTypeOK

LEMMA ReleaseKeepsType ==
  ASSUME PoolTypeOK, NEW b, PoolRelease(b)
  PROVE  PoolTypeOK'
<1>1. /\ AllocCount' \in Counter /\ ItemsInUse' \in Counter
      /\ WaterMark' \in Counter /\ ReleaseCount' \in Counter
  BY CounterSteps DEF PoolTypeOK, PoolRelease
<1>2. heap' \subseteq Bufs
  BY DEF PoolTypeOK, PoolRelease
<1>3. QED
  BY <1>1, <1>2 DEF PoolTypeOK

\* Counters that are in step stay in step, also where they wrap.
LEMMA Wraps ==
  ASSUME NEW r \in Counter, NEW n \in Counter
  PROVE  (r + n) % CounterLimit = IF r + n < CounterLimit THEN r + n ELSE r + n - CounterLimit
<1>1. CounterLimit \in Nat /\ CounterLimit > 0 /\ r \in Nat /\ n \in Nat
      /\ r < CounterLimit /\ n < CounterLimit
  BY NumItemsAssumption, CounterLimitAssumption DEF Counter
<1>2. QED
  BY <1>1

LEMMA AllocateKeepsAccounts ==
  ASSUME PoolTypeOK, PoolAccounts, NEW b \in Bufs, Allocate(b)
  PROVE  PoolAccounts'
<1>1. IsFiniteSet(heap)
  BY BufsAssumption, FS_Subset DEF PoolTypeOK
<1>2. Cardinality(heap') = Cardinality(heap) + 1
  BY <1>1, FS_AddElement DEF Allocate
<1>3. /\ CounterLimit \in Nat /\ NumItems \in Nat /\ NumItems < CounterLimit
      /\ ItemsInUse < NumItems
  BY NumItemsAssumption, CounterLimitAssumption DEF Allocate, mem_avail
<1>4. ItemsInUse' = ItemsInUse + 1
  BY <1>3 DEF Allocate, Incr, PoolTypeOK, Counter
<1>5. ItemsInUse' <= WaterMark' /\ WaterMark' <= NumItems
  BY <1>3, <1>4 DEF Allocate, Incr, PoolTypeOK, PoolAccounts, Counter
<1>6. AllocCount' = (ReleaseCount' + ItemsInUse') % CounterLimit
  <2>1. PoolTypeOK'
    BY AllocateKeepsType
  <2>2. /\ ReleaseCount \in Counter /\ ItemsInUse \in Counter /\ AllocCount \in Counter
        /\ ItemsInUse' \in Counter
    BY <2>1 DEF PoolTypeOK
  <2>3. (ReleaseCount + ItemsInUse) % CounterLimit =
          IF ReleaseCount + ItemsInUse < CounterLimit THEN ReleaseCount + ItemsInUse
          ELSE ReleaseCount + ItemsInUse - CounterLimit
    BY <2>2, Wraps
  <2>4. (ReleaseCount + ItemsInUse') % CounterLimit =
          IF ReleaseCount + ItemsInUse' < CounterLimit THEN ReleaseCount + ItemsInUse'
          ELSE ReleaseCount + ItemsInUse' - CounterLimit
    BY <2>2, Wraps
  <2>5. AllocCount' = Incr(AllocCount) /\ ReleaseCount' = ReleaseCount
    BY DEF Allocate
  <2>6. AllocCount = (ReleaseCount + ItemsInUse) % CounterLimit
    BY DEF PoolAccounts
  <2>7. QED
    BY <1>3, <1>4, <2>2, <2>3, <2>4, <2>5, <2>6 DEF Incr, Counter
<1>7. QED
  BY <1>2, <1>4, <1>5, <1>6 DEF PoolAccounts

LEMMA ReleaseKeepsAccounts ==
  ASSUME PoolTypeOK, PoolAccounts, NEW b \in heap, PoolRelease(b)
  PROVE  PoolAccounts'
<1>1. IsFiniteSet(heap)
  BY BufsAssumption, FS_Subset DEF PoolTypeOK
<1>2. Cardinality(heap') = Cardinality(heap) - 1
  BY <1>1, FS_RemoveElement DEF PoolRelease
<1>3. Cardinality(heap) # 0
  BY <1>1, FS_EmptySet
<1>4. /\ CounterLimit \in Nat /\ NumItems \in Nat /\ NumItems < CounterLimit
  BY NumItemsAssumption, CounterLimitAssumption
<1>5. ItemsInUse' = ItemsInUse - 1
  BY <1>3 DEF PoolRelease, Decr, PoolAccounts
<1>6. ItemsInUse' <= WaterMark' /\ WaterMark' <= NumItems
  BY <1>4, <1>5 DEF PoolRelease, PoolTypeOK, PoolAccounts, Counter
<1>7. AllocCount' = (ReleaseCount' + ItemsInUse') % CounterLimit
  <2>1. PoolTypeOK'
    BY ReleaseKeepsType
  <2>2. /\ ReleaseCount \in Counter /\ ItemsInUse \in Counter /\ AllocCount \in Counter
        /\ ItemsInUse' \in Counter /\ ReleaseCount' \in Counter
    BY <2>1 DEF PoolTypeOK
  <2>3. (ReleaseCount + ItemsInUse) % CounterLimit =
          IF ReleaseCount + ItemsInUse < CounterLimit THEN ReleaseCount + ItemsInUse
          ELSE ReleaseCount + ItemsInUse - CounterLimit
    BY <2>2, Wraps
  <2>4. (ReleaseCount' + ItemsInUse') % CounterLimit =
          IF ReleaseCount' + ItemsInUse' < CounterLimit THEN ReleaseCount' + ItemsInUse'
          ELSE ReleaseCount' + ItemsInUse' - CounterLimit
    BY <2>2, Wraps
  <2>5. AllocCount' = AllocCount /\ ReleaseCount' = Incr(ReleaseCount)
    BY DEF PoolRelease
  <2>6. AllocCount = (ReleaseCount + ItemsInUse) % CounterLimit
    BY DEF PoolAccounts
  <2>7. QED
    BY <1>4, <1>5, <2>2, <2>3, <2>4, <2>5, <2>6 DEF Incr, Counter
<1>8. QED
  BY <1>2, <1>5, <1>6, <1>7 DEF PoolAccounts

-----------------------------------------------------------------------------
(* Lists.                                                                  *)

\* A pipe is taken out of the list.
LEMMA RemoveAtProperties ==
  ASSUME NEW S, NEW list \in Seq(S), NEW n \in DOMAIN list
  PROVE  /\ RemoveAt(list, n) \in Seq(S)
         /\ NoneTwice(list) => NoneTwice(RemoveAt(list, n))
<1>1. /\ Len(list) \in Nat /\ DOMAIN list = 1..Len(list) /\ n \in 1..Len(list)
      /\ \A k \in 1..Len(list) : list[k] \in S
  OBVIOUS
<1> DEFINE front == SubSeq(list, 1, n - 1)
           back  == SubSeq(list, n + 1, Len(list))
<1>2. /\ front \in Seq(S) /\ Len(front) = n - 1
      /\ \A k \in 1..(n - 1) : front[k] = list[k]
  BY <1>1
<1>3. /\ back \in Seq(S) /\ Len(back) = Len(list) - n
      /\ \A k \in 1..(Len(list) - n) : back[k] = list[k + n]
  BY <1>1
<1> HIDE DEF front, back
<1> DEFINE rest == front \o back
<1>4. /\ rest \in Seq(S) /\ Len(rest) = Len(list) - 1
      /\ DOMAIN rest = 1..(Len(list) - 1)
  <2>1. rest \in Seq(S) /\ Len(rest) = Len(front) + Len(back)
    BY <1>2, <1>3, ConcatProperties
  <2>2. Len(front) + Len(back) = Len(list) - 1
    BY <1>1, <1>2, <1>3
  <2>3. DOMAIN rest = 1..Len(rest)
    BY <2>1
  <2>4. QED
    BY <2>1, <2>2, <2>3
<1>5. \A k \in 1..(Len(list) - 1) : k < n => rest[k] = list[k]
  BY <1>1, <1>2, <1>3, ConcatProperties
<1>6. \A k \in 1..(Len(list) - 1) : k >= n => rest[k] = list[k + 1]
  <2> SUFFICES ASSUME NEW k \in 1..(Len(list) - 1), k >= n
               PROVE  rest[k] = list[k + 1]
    OBVIOUS
  <2>1. k - (n - 1) \in 1..(Len(list) - n) /\ k > n - 1 /\ k <= (n - 1) + (Len(list) - n)
    BY <1>1
  <2>2. rest[k] = back[k - (n - 1)]
    BY <1>1, <1>2, <1>3, <2>1, ConcatProperties
  <2>3. back[k - (n - 1)] = list[(k - (n - 1)) + n]
    BY <1>3, <2>1
  <2>4. (k - (n - 1)) + n = k + 1
    BY <1>1
  <2>5. QED
    BY <2>2, <2>3, <2>4
<1> HIDE DEF rest
<1>7. NoneTwice(list) => NoneTwice(rest)
  BY <1>1, <1>4, <1>5, <1>6 DEF NoneTwice
<1>8. RemoveAt(list, n) = rest
  BY DEF RemoveAt, front, back, rest
<1>9. QED
  BY <1>4, <1>7, <1>8

LEMMA AppendKeepsNoneTwice ==
  ASSUME NEW S, NEW list \in Seq(S), NEW e \in S, NoneTwice(list),
         \A k \in DOMAIN list : list[k] # e
  PROVE  NoneTwice(Append(list, e))
<1>1. /\ Len(list) \in Nat /\ DOMAIN list = 1..Len(list)
  OBVIOUS
<1>2. DOMAIN Append(list, e) = 1..(Len(list) + 1)
  BY AppendProperties
<1>3. \A k \in 1..(Len(list) + 1) :
        Append(list, e)[k] = IF k = Len(list) + 1 THEN e ELSE list[k]
  BY <1>1, AppendProperties
<1>4. QED
  BY <1>1, <1>2, <1>3 DEF NoneTwice

LEMMA TailKeepsNoneTwice ==
  ASSUME NEW S, NEW list \in Seq(S), list # <<>>, NoneTwice(list)
  PROVE  NoneTwice(Tail(list))
<1>1. /\ Len(list) \in Nat \ {0} /\ DOMAIN list = 1..Len(list)
  OBVIOUS
<1>2. DOMAIN Tail(list) = 1..(Len(list) - 1)
  BY <1>1, HeadTailProperties
<1>3. \A k \in 1..(Len(list) - 1) : Tail(list)[k] = list[k + 1]
  BY <1>1, HeadTailProperties
<1>4. QED
  BY <1>1, <1>2, <1>3 DEF NoneTwice

-----------------------------------------------------------------------------
(* Who shares a buffer.                                                    *)

LEMMA SharesAreFinite ==
  ASSUME NEW b
  PROVE  /\ IsFiniteSet(ThreadsSharing(b)) /\ IsFiniteSet(QueuesSharing(b))
         /\ Cardinality(ThreadsSharing(b)) \in Nat
         /\ Cardinality(QueuesSharing(b)) \in Nat
         /\ ThreadsSharing(b) = {} <=> Cardinality(ThreadsSharing(b)) = 0
         /\ QueuesSharing(b) = {} <=> Cardinality(QueuesSharing(b)) = 0
<1>1. IsFiniteSet(Senders) /\ IsFiniteSet(QueuedPipes)
  BY BrokerAssumption
<1>2. IsFiniteSet(Threads)
  BY <1>1, FS_Union DEF Threads
<1>3. ThreadsSharing(b) \in SUBSET Threads /\ QueuesSharing(b) \in SUBSET QueuedPipes
  BY DEF ThreadsSharing, QueuesSharing
<1>4. IsFiniteSet(ThreadsSharing(b)) /\ IsFiniteSet(QueuesSharing(b))
  BY <1>1, <1>2, <1>3, FS_Subset
<1>5. QED
  BY <1>4, FS_CardinalityType, FS_EmptySet

\* A buffer that is shared has a count to be taken from.
LEMMA SharedIsCounted ==
  ASSUME NEW b \in Bufs, BufInv(b), ThreadsSharing(b) # {} \/ QueuesSharing(b) # {}
  PROVE  /\ b \in heap /\ Owners(b) = {}
         /\ ref[b] = Cardinality(ThreadsSharing(b)) + Cardinality(QueuesSharing(b))
         /\ ref[b] \in Nat \ {0}
<1>1. b \in heap /\ Owners(b) = {} /\ ref[b] = Shares(b)
  BY DEF BufInv
<1>2. QED
  BY <1>1, SharesAreFinite DEF Shares

\* The same after a step.
SharingNext(b) == ThreadsSharing(b)'
QueuesNext(b)  == QueuesSharing(b)'
OwnersNext(b)  == Owners(b)'
BufInvNext(b)  == BufInv(b)'

Owning == {"Held", "SendBuf", "Release"}

Moves(t, to, c) == pc' = [pc EXCEPT ![t] = to] /\ buf' = [buf EXCEPT ![t] = c]

LEMMA ThreadMoves ==
  ASSUME TypeOK, NEW t \in Threads, NEW to, NEW c, NEW b, Moves(t, to, c)
  PROVE  /\ c = b /\ to \in Sharing => SharingNext(b) = ThreadsSharing(b) \cup {t}
         /\ c # b \/ to \notin Sharing => SharingNext(b) = ThreadsSharing(b) \ {t}
         /\ c = b /\ to \in Owning => OwnersNext(b) = Owners(b) \cup {t}
         /\ c # b \/ to \notin Owning => OwnersNext(b) = Owners(b) \ {t}
<1>1. /\ \A u \in Threads : pc'[u] = IF u = t THEN to ELSE pc[u]
      /\ \A u \in Threads : buf'[u] = IF u = t THEN c ELSE buf[u]
  BY DEF TypeOK, Moves
<1>2. QED
  BY <1>1 DEF ThreadsSharing, Owners, SharingNext, OwnersNext, Owning

LEMMA ThreadLeaves ==
  ASSUME TypeOK, NEW t \in Threads, NEW to, NEW c, NEW b, Moves(t, to, c), c # b
  PROVE  SharingNext(b) = ThreadsSharing(b) \ {t} /\ OwnersNext(b) = Owners(b) \ {t}
BY ThreadMoves

LEMMA OwnsNothing ==
  ASSUME TypeOK, NEW t \in Threads, NEW to, NEW c, NEW b, Moves(t, to, c), to \notin Owning
  PROVE  OwnersNext(b) = Owners(b) \ {t}
<1>1. /\ \A u \in Threads : pc'[u] = IF u = t THEN to ELSE pc[u]
      /\ \A u \in Threads : buf'[u] = IF u = t THEN c ELSE buf[u]
  BY DEF TypeOK, Moves
<1>2. QED
  BY <1>1 DEF Owners, OwnersNext, Owning

QueueBecomes(p, list) == queue' = [queue EXCEPT ![p] = list]

LEMMA QueueMoves ==
  ASSUME TypeOK, NEW p \in QueuedPipes, NEW list, NEW b, QueueBecomes(p, list)
  PROVE  /\ Contains(list, b) => QueuesNext(b) = QueuesSharing(b) \cup {p}
         /\ ~Contains(list, b) => QueuesNext(b) = QueuesSharing(b) \ {p}
<1>1. \A q \in QueuedPipes : queue'[q] = IF q = p THEN list ELSE queue[q]
  BY DEF TypeOK, QueueBecomes
<1>2. QED
  BY <1>1 DEF QueuesSharing, QueuesNext

LEMMA QueuesStay ==
  ASSUME NEW b, queue' = queue
  PROVE  QueuesNext(b) = QueuesSharing(b)
BY DEF QueuesSharing, QueuesNext

\* What a step that leaves a buffer alone does to it.
Untouched(b) ==
  /\ SharingNext(b) = ThreadsSharing(b)
  /\ QueuesNext(b) = QueuesSharing(b)
  /\ OwnersNext(b) = Owners(b)
  /\ (b \in heap' <=> b \in heap)
  /\ ref'[b] = ref[b]
  /\ size'[b] = size[b]

LEMMA UntouchedKeepsBufInv ==
  ASSUME NEW b, BufInv(b), Untouched(b)
  PROVE  BufInvNext(b)
BY DEF BufInv, Untouched, Shares, BufInvNext, SharingNext, QueuesNext, OwnersNext

\* The thread of a pipe is one of its pipe's threads only.
LEMMA ThreadKinds ==
  /\ Senders \subseteq Threads /\ QueuedPipes \subseteq Threads
  /\ Senders \cap QueuedPipes = {}
BY BrokerAssumption DEF Threads

-----------------------------------------------------------------------------
(* What each step does to the holders of a buffer.                         *)

\* A thread that is not idle has a buffer, which it owns or shares.
LEMMA OwnedOrShared ==
  ASSUME IInv, NEW t \in Threads, pc[t] # "Idle"
  PROVE  /\ buf[t] \in Bufs
         /\ pc[t] \in Owning => /\ Owners(buf[t]) = {t}
                                /\ buf[t] \in heap
                                /\ ThreadsSharing(buf[t]) = {}
                                /\ QueuesSharing(buf[t]) = {}
         /\ pc[t] \in Sharing => /\ t \in ThreadsSharing(buf[t])
                                 /\ buf[t] \in heap
                                 /\ Owners(buf[t]) = {}
<1>1. buf[t] \in Bufs
  BY DEF IInv, TypeOK, Positions
<1>2. BufInv(buf[t])
  BY <1>1 DEF IInv
<1>3. CASE pc[t] \in Owning
  <2>1. t \in Owners(buf[t]) /\ pc[t] \notin Sharing
    BY <1>3 DEF Owners, Owning, Sharing
  <2>2. QED
    BY <1>1, <1>2, <2>1 DEF BufInv
<1>4. CASE pc[t] \in Sharing
  <2>1. t \in ThreadsSharing(buf[t]) /\ pc[t] \notin Owning
    BY <1>4 DEF ThreadsSharing, Owning, Sharing
  <2>2. QED
    BY <1>1, <1>2, <2>1 DEF BufInv
<1>5. QED
  BY <1>1, <1>3, <1>4

LEMMA IdleHasNothing ==
  ASSUME IInv, NEW t \in Threads, pc[t] = "Idle", NEW b \in Bufs
  PROVE  buf[t] # b /\ t \notin ThreadsSharing(b) /\ t \notin Owners(b)
<1>1. buf[t] = NoBuf
  BY DEF IInv, Positions
<1>2. QED
  BY <1>1, BrokerAssumption DEF ThreadsSharing, Owners

\* The new buffer is nobody's.
LEMMA AllocatedIsOwned ==
  ASSUME IInv, NEW s \in Senders, NEW c \in Bufs, NEW to \in {"SendBuf", "Held"}, NEW sz,
         ThreadStepWith(s, "Idle", to, c), Allocate(c), Construct(c, sz), UNCHANGED brokerVars
  PROVE  \A b \in Bufs : BufInvNext(b)
<1>1. s \in Threads /\ TypeOK /\ (\A b \in Bufs : BufInv(b))
  BY ThreadKinds DEF IInv
<1>2. /\ pc[s] = "Idle"
      /\ Moves(s, to, c) /\ queue' = queue
      /\ c \notin heap /\ heap' = heap \cup {c}
      /\ ref' = [ref EXCEPT ![c] = 1] /\ size' = [size EXCEPT ![c] = sz]
      /\ to \in Owning /\ to \notin Sharing
  BY DEF ThreadStepWith, ThreadStep, brokerVars, Allocate, Construct, Sharing, Owning, Moves
<1>3. BufInvNext(c)
  <2>1. ThreadsSharing(c) = {} /\ QueuesSharing(c) = {} /\ Owners(c) = {}
    BY <1>1, <1>2 DEF BufInv
  <2>2. SharingNext(c) = {} /\ QueuesNext(c) = {} /\ OwnersNext(c) = {s}
    BY <1>1, <1>2, <2>1, ThreadMoves, QueuesStay
  <2>3. QED
    BY <1>2, <2>2 DEF BufInv, BufInvNext, SharingNext, QueuesNext, OwnersNext
<1>4. ASSUME NEW b \in Bufs, b # c PROVE BufInvNext(b)
  <2>1. s \notin ThreadsSharing(b) /\ s \notin Owners(b)
    BY <1>1, <1>2, IdleHasNothing
  <2>2. SharingNext(b) = ThreadsSharing(b) /\ OwnersNext(b) = Owners(b)
    <3>1. SharingNext(b) = ThreadsSharing(b) \ {s} /\ OwnersNext(b) = Owners(b) \ {s}
      BY <1>1, <1>2, <1>4, ThreadMoves
    <3>2. QED
      BY <2>1, <3>1
  <2>3. (b \in heap' <=> b \in heap) /\ ref'[b] = ref[b] /\ size'[b] = size[b]
    BY <1>1, <1>2, <1>4 DEF TypeOK
  <2>4. QED
    BY <1>1, <1>2, <2>2, <2>3, QueuesStay, UntouchedKeepsBufInv DEF Untouched
<1>5. QED
  BY <1>3, <1>4

\* A buffer is deleted by its owner.
LEMMA DeletedByItsOwner ==
  ASSUME IInv, NEW t \in Threads, pc[t] \in {"Held", "Release"},
         ThreadStepWith(t, pc[t], "Idle", NoBuf), PoolRelease(buf[t]), Destroy(buf[t]),
         UNCHANGED brokerVars
  PROVE  buf[t] \in heap /\ \A b \in Bufs : BufInvNext(b)
<1> PICK c \in Bufs : c = buf[t]
  BY OwnedOrShared
<1>1. TypeOK /\ (\A b \in Bufs : BufInv(b)) /\ NoBuf \notin Bufs
  BY BrokerAssumption DEF IInv
<1>2. c \in heap /\ Owners(c) = {t} /\ ThreadsSharing(c) = {} /\ QueuesSharing(c) = {}
  BY OwnedOrShared DEF Owning
<1>3. /\ Moves(t, "Idle", NoBuf) /\ queue' = queue
      /\ heap' = heap \ {c}
      /\ ref' = [ref EXCEPT ![c] = 0] /\ size' = [size EXCEPT ![c] = "Message"]
  BY DEF ThreadStepWith, ThreadStep, brokerVars, PoolRelease, Destroy, Moves
<1>4. BufInvNext(c)
  <2>1. SharingNext(c) = {} /\ QueuesNext(c) = {} /\ OwnersNext(c) = {}
    <3>1. "Idle" \notin Sharing /\ "Idle" \notin Owning
      BY DEF Sharing, Owning
    <3>2. SharingNext(c) = ThreadsSharing(c) \ {t} /\ OwnersNext(c) = Owners(c) \ {t}
      BY <1>1, <1>3, <3>1, ThreadMoves
    <3>3. QED
      BY <1>2, <1>3, <3>2, QueuesStay
  <2>2. c \notin heap'
    BY <1>3
  <2>3. QED
    BY <2>1, <2>2 DEF BufInv, BufInvNext, SharingNext, QueuesNext, OwnersNext
<1>5. ASSUME NEW b \in Bufs, b # c PROVE BufInvNext(b)
  <2>1. t \notin ThreadsSharing(b) /\ t \notin Owners(b)
    BY <1>5 DEF ThreadsSharing, Owners
  <2>2. SharingNext(b) = ThreadsSharing(b) /\ OwnersNext(b) = Owners(b)
    <3>1. NoBuf # b
      BY <1>1
    <3>2. SharingNext(b) = ThreadsSharing(b) \ {t} /\ OwnersNext(b) = Owners(b) \ {t}
      BY <1>1, <1>3, <3>1, ThreadMoves
    <3>3. QED
      BY <2>1, <3>2
  <2>3. (b \in heap' <=> b \in heap) /\ ref'[b] = ref[b] /\ size'[b] = size[b]
    BY <1>1, <1>3, <1>5 DEF TypeOK
  <2>4. QED
    BY <1>1, <1>3, <2>2, <2>3, QueuesStay, UntouchedKeepsBufInv DEF Untouched
<1>6. QED
  BY <1>2, <1>4, <1>5

LEMMA OthersAreUntouched ==
  ASSUME TypeOK, NEW t \in Threads, NEW to, NEW c, Moves(t, to, c),
         NEW b, BufInv(b), buf[t] # b, c # b,
         QueuesNext(b) = QueuesSharing(b), heap' = heap, ref'[b] = ref[b], size'[b] = size[b]
  PROVE  BufInvNext(b)
<1>1. SharingNext(b) = ThreadsSharing(b) \ {t} /\ OwnersNext(b) = Owners(b) \ {t}
  BY ThreadMoves
<1>2. t \notin ThreadsSharing(b) /\ t \notin Owners(b)
  BY DEF ThreadsSharing, Owners
<1>3. SharingNext(b) = ThreadsSharing(b) /\ OwnersNext(b) = Owners(b)
  BY <1>1, <1>2
<1>4. QED
  BY <1>3, UntouchedKeepsBufInv DEF Untouched

LEMMA MovesInPlace ==
  ASSUME TypeOK, NEW t \in Threads, NEW from, NEW to, ThreadStep(t, from, to), buf' = buf
  PROVE  Moves(t, to, buf[t])
BY DEF TypeOK, ThreadStep, Moves

\* A step of a thread that goes on owning, or sharing, its buffer.
LEMMA SameHolders ==
  ASSUME IInv, NEW t \in Threads, NEW from, NEW to, ThreadStep(t, from, to),
         buf' = buf, queue' = queue, heap' = heap, ref' = ref, size' = size,
         {from, to} \subseteq Sharing \/ {from, to} \subseteq Owning
  PROVE  \A b \in Bufs : BufInvNext(b)
<1> SUFFICES ASSUME NEW b \in Bufs PROVE BufInvNext(b)
  OBVIOUS
<1>1. TypeOK /\ BufInv(b) /\ pc[t] = from
  BY DEF IInv, ThreadStep
<1>2. /\ \A u \in Threads : pc'[u] = IF u = t THEN to ELSE pc[u]
      /\ \A u \in Threads : buf'[u] = buf[u]
  BY <1>1 DEF TypeOK, ThreadStep
<1>3. SharingNext(b) = ThreadsSharing(b)
  BY <1>1, <1>2 DEF SharingNext, ThreadsSharing, Sharing, Owning
<1>4. OwnersNext(b) = Owners(b)
  BY <1>1, <1>2 DEF OwnersNext, Owners, Sharing, Owning
<1>5. QED
  BY <1>1, <1>3, <1>4, QueuesStay, UntouchedKeepsBufInv DEF Untouched

\* The owner of a buffer shares it from now on, with nobody, or forgets it.
LEMMA SendBufKeepsHolders ==
  ASSUME IInv, NEW s \in Senders, send_buf(s)
  PROVE  \A b \in Bufs : BufInvNext(b)
<1>1. s \in Threads /\ TypeOK /\ (\A b \in Bufs : BufInv(b)) /\ NoBuf \notin Bufs
  BY ThreadKinds, BrokerAssumption DEF IInv
<1>2. pc[s] = "SendBuf" /\ heap' = heap /\ queue' = queue /\ size' = size
  BY DEF send_buf, ThreadStep, ThreadStepWith, poolVars, brokerVars, bufVars
<1> PICK c \in Bufs : c = buf[s]
  BY <1>1, <1>2, OwnedOrShared
<1>3. c \in heap /\ Owners(c) = {s} /\ ThreadsSharing(c) = {} /\ QueuesSharing(c) = {}
  BY <1>1, <1>2, OwnedOrShared DEF Owning
<1>4. /\ "Lock" \in Sharing /\ "Lock" \notin Owning
      /\ "Idle" \notin Sharing /\ "Idle" \notin Owning
  BY DEF Sharing, Owning
<1>5. QueuesNext(c) = {} /\ \A b \in Bufs : QueuesNext(b) = QueuesSharing(b)
  BY <1>2, <1>3, QueuesStay
<1>6. CASE size[c] = "Message"
  <2>1. Moves(s, "Lock", c) /\ ref' = [ref EXCEPT ![c] = 1]
    BY <1>1, <1>6, MovesInPlace DEF send_buf
  <2>2. BufInvNext(c)
    <3>1. SharingNext(c) = ThreadsSharing(c) \cup {s} /\ OwnersNext(c) = Owners(c) \ {s}
      BY <1>1, <1>4, <2>1, ThreadMoves
    <3>2. SharingNext(c) = {s} /\ OwnersNext(c) = {}
      BY <1>3, <3>1
    <3>3. Cardinality(SharingNext(c)) = 1 /\ Cardinality(QueuesNext(c)) = 0
      BY <1>5, <3>2, FS_Singleton, FS_EmptySet
    <3>4. ref'[c] = 1 /\ c \in heap'
      BY <1>1, <1>2, <1>3, <2>1 DEF TypeOK
    <3>5. QED
      BY <1>5, <3>2, <3>3, <3>4 DEF BufInv, Shares, BufInvNext, SharingNext, QueuesNext, OwnersNext
  <2>3. \A b \in Bufs : b # c => ref'[b] = ref[b]
    BY <1>1, <2>1 DEF TypeOK
  <2>4. QED
    BY <1>1, <1>2, <1>5, <2>1, <2>2, <2>3, OthersAreUntouched
<1>7. CASE size[c] # "Message"
  <2>1. Moves(s, "Idle", NoBuf) /\ ref' = ref
    BY <1>7 DEF send_buf, ThreadStepWith, ThreadStep, Moves, bufVars
  <2>2. \A b \in Bufs : NoBuf # b
    BY <1>1
  <2>3. BufInvNext(c)
    <3>1. NoBuf # c
      BY <2>2
    <3>2. SharingNext(c) = ThreadsSharing(c) \ {s} /\ OwnersNext(c) = Owners(c) \ {s}
      <4>1. TypeOK /\ s \in Threads /\ Moves(s, "Idle", NoBuf)
        BY <1>1, <2>1
      <4>2. QED
        BY <3>1, <4>1, ThreadLeaves
    <3>3. SharingNext(c) = {} /\ OwnersNext(c) = {}
      BY <1>3, <3>2
    <3>4. size'[c] # "Message"
      BY <1>2, <1>7
    <3>5. QED
      BY <1>5, <3>3, <3>4 DEF BufInv, BufInvNext, SharingNext, QueuesNext, OwnersNext
  <2>4. QED
    BY <1>1, <1>2, <1>5, <2>1, <2>2, <2>3, OthersAreUntouched
<1>8. QED
  BY <1>6, <1>7

LEMMA StillShared ==
  ASSUME NEW c, c \in heap', OwnersNext(c) = {},
         SharingNext(c) # {} \/ QueuesNext(c) # {},
         ref'[c] = Cardinality(SharingNext(c)) + Cardinality(QueuesNext(c))
  PROVE  BufInvNext(c)
BY DEF BufInv, Shares, BufInvNext, SharingNext, QueuesNext, OwnersNext

LEMMA ContainsAppend ==
  ASSUME NEW S, NEW list \in Seq(S), NEW e \in S, NEW b
  PROVE  Contains(Append(list, e), b) <=> Contains(list, b) \/ b = e
<1>1. Len(list) \in Nat /\ Len(Append(list, e)) = Len(list) + 1
  BY AppendProperties
<1>2. \A k \in 1..(Len(list) + 1) :
        Append(list, e)[k] = IF k = Len(list) + 1 THEN e ELSE list[k]
  BY <1>1, AppendProperties
<1>3. QED
  BY <1>1, <1>2 DEF Contains

LEMMA ContainsTail ==
  ASSUME NEW S, NEW list \in Seq(S), list # <<>>, NoneTwice(list), NEW b
  PROVE  Contains(Tail(list), b) <=> Contains(list, b) /\ b # Head(list)
<1>1. Len(list) \in Nat \ {0} /\ DOMAIN list = 1..Len(list) /\ Head(list) = list[1]
  OBVIOUS
<1>2. Len(Tail(list)) = Len(list) - 1
  BY HeadTailProperties
<1>3. \A k \in 1..(Len(list) - 1) : Tail(list)[k] = list[k + 1]
  BY <1>2, HeadTailProperties
<1>4. ASSUME Contains(Tail(list), b) PROVE Contains(list, b) /\ b # Head(list)
  <2>1. PICK k \in 1..(Len(list) - 1) : list[k + 1] = b
    BY <1>2, <1>3, <1>4 DEF Contains
  <2>2. k + 1 \in 1..Len(list) /\ 1 \in 1..Len(list) /\ k + 1 # 1
    BY <1>1
  <2>3. QED
    BY <1>1, <2>1, <2>2 DEF Contains, NoneTwice
<1>5. ASSUME Contains(list, b), b # Head(list) PROVE Contains(Tail(list), b)
  <2>1. PICK k \in 1..Len(list) : list[k] = b
    BY <1>5 DEF Contains
  <2>2. k - 1 \in 1..(Len(list) - 1) /\ (k - 1) + 1 = k
    BY <1>1, <1>5, <2>1
  <2>3. Tail(list)[k - 1] = b
    BY <1>3, <2>1, <2>2
  <2>4. QED
    BY <1>2, <2>2, <2>3 DEF Contains
<1>6. QED
  BY <1>4, <1>5

\* A queue takes a copy of the shared message of a sender that routes it.
LEMMA ReceiveKeepsHolders ==
  ASSUME IInv, NEW s \in Senders, Receive(s)
  PROVE  \A b \in Bufs : BufInvNext(b)
<1>1. s \in Threads /\ TypeOK /\ (\A b \in Bufs : BufInv(b))
  BY ThreadKinds DEF IInv
<1>2. /\ pc[s] = "Receive" /\ heap' = heap /\ size' = size /\ pc' = pc /\ buf' = buf
      /\ next[s] \in DOMAIN routers
  BY DEF Receive, poolVars
<1> PICK c \in Bufs : c = buf[s]
  BY <1>1, <1>2, OwnedOrShared
<1>3. c \in heap /\ Owners(c) = {} /\ s \in ThreadsSharing(c)
  BY <1>1, <1>2, OwnedOrShared DEF Sharing
<1>4. \A b \in Bufs : SharingNext(b) = ThreadsSharing(b) /\ OwnersNext(b) = Owners(b)
  BY <1>2 DEF SharingNext, OwnersNext, ThreadsSharing, Owners
<1> DEFINE p == routers[next[s]]
           Keep == id[c] \in ids[p] /\ p \in QueuedPipes /\ Len(queue[p]) < Depth
<1>5. CASE ~Keep
  <2>1. queue' = queue /\ ref' = ref
    BY <1>5 DEF Receive
  <2>2. QED
    BY <1>1, <1>2, <1>4, <2>1, QueuesStay, UntouchedKeepsBufInv DEF Untouched
<1>6. CASE Keep
  <2>1. PICK q \in QueuedPipes : q = p
    BY <1>6
  <2>2. /\ QueueBecomes(q, Append(queue[q], c)) /\ ref' = [ref EXCEPT ![c] = @ + 1]
    BY <1>6, <2>1 DEF Receive, QueueBecomes
  <2>3. queue[q] \in Seq(Bufs)
    BY <1>1 DEF TypeOK
  <2>4. q \notin QueuesSharing(c)
    <3>1. SUFFICES ASSUME NEW k \in DOMAIN queue[q], queue[q][k] = c PROVE FALSE
      BY <2>3 DEF QueuesSharing, Contains
    <3>2. next[s] < next[s]
      BY <1>2, <2>1, <3>1 DEF IInv, Routing
    <3>3. next[s] \in Nat
      BY <1>1 DEF TypeOK
    <3>4. QED
      BY <3>2, <3>3
  <2>5. BufInvNext(c)
    <3>1. QueuesNext(c) = QueuesSharing(c) \cup {q}
      <4>1. Contains(Append(queue[q], c), c)
        BY <2>3, ContainsAppend
      <4>2. QED
        BY <1>1, <2>2, <4>1, QueueMoves
    <3>2. Cardinality(QueuesNext(c)) = Cardinality(QueuesSharing(c)) + 1
      BY <2>4, <3>1, FS_AddElement, SharesAreFinite
    <3>3. ref'[c] = ref[c] + 1
      BY <1>1, <2>2 DEF TypeOK
    <3>4. ref[c] = Cardinality(ThreadsSharing(c)) + Cardinality(QueuesSharing(c))
      BY <1>1, <1>3, SharedIsCounted
    <3>5. ref'[c] = Cardinality(SharingNext(c)) + Cardinality(QueuesNext(c))
      BY <1>4, <3>2, <3>3, <3>4, SharesAreFinite
    <3>6. QED
      BY <1>2, <1>3, <1>4, <3>5, StillShared
  <2>6. ASSUME NEW b \in Bufs, b # c PROVE BufInvNext(b)
    <3>1. Contains(Append(queue[q], c), b) <=> Contains(queue[q], b)
      BY <2>3, <2>6, ContainsAppend
    <3>2. QueuesNext(b) = QueuesSharing(b)
      <4>1. CASE Contains(queue[q], b)
        <5>1. QueuesNext(b) = QueuesSharing(b) \cup {q}
          BY <1>1, <2>2, <3>1, <4>1, QueueMoves
        <5>2. q \in QueuesSharing(b)
          BY <4>1 DEF QueuesSharing
        <5>3. QED
          BY <5>1, <5>2
      <4>2. CASE ~Contains(queue[q], b)
        <5>1. QueuesNext(b) = QueuesSharing(b) \ {q}
          BY <1>1, <2>2, <3>1, <4>2, QueueMoves
        <5>2. q \notin QueuesSharing(b)
          BY <4>2 DEF QueuesSharing
        <5>3. QED
          BY <5>1, <5>2
      <4>3. QED
        BY <4>1, <4>2
    <3>3. ref'[b] = ref[b]
      BY <1>1, <2>2, <2>6 DEF TypeOK
    <3>4. QED
      BY <1>1, <1>2, <1>4, <3>2, <3>3, UntouchedKeepsBufInv DEF Untouched
  <2>7. QED
    BY <2>5, <2>6
<1>7. QED
  BY <1>5, <1>6

\* A pipe's thread copies the shared message at the front.
LEMMA TakeFrontKeepsHolders ==
  ASSUME IInv, NEW p \in QueuedPipes, TakeFront(p)
  PROVE  \A b \in Bufs : BufInvNext(b)
<1>1. p \in Threads /\ TypeOK /\ (\A b \in Bufs : BufInv(b))
  BY ThreadKinds DEF IInv
<1>2. /\ pc[p] = "Idle" /\ queue[p] # <<>> /\ queue[p] \in Seq(Bufs)
      /\ heap' = heap /\ size' = size /\ queue' = queue
  BY <1>1 DEF TakeFront, ThreadStepWith, ThreadStep, poolVars, brokerVars, TypeOK
<1> PICK c \in Bufs : c = Head(queue[p])
  BY <1>2, HeadTailProperties
<1>3. Moves(p, "Process", c) /\ ref' = [ref EXCEPT ![c] = @ + 1]
  BY DEF TakeFront, ThreadStepWith, ThreadStep, Moves
<1>4. p \in QueuesSharing(c)
  <2>1. 1 \in 1..Len(queue[p]) /\ queue[p][1] = c
    BY <1>2
  <2>2. QED
    BY <2>1 DEF QueuesSharing, Contains
<1>5. /\ c \in heap /\ Owners(c) = {}
      /\ ref[c] = Cardinality(ThreadsSharing(c)) + Cardinality(QueuesSharing(c))
  BY <1>1, <1>4, SharedIsCounted
<1>6. \A b \in Bufs : QueuesNext(b) = QueuesSharing(b)
  BY <1>2, QueuesStay
<1>7. p \notin ThreadsSharing(c)
  BY <1>1, <1>2, IdleHasNothing
<1>8. BufInvNext(c)
  <2>1. "Process" \in Sharing /\ "Process" \notin Owning
    BY DEF Sharing, Owning
  <2>2. SharingNext(c) = ThreadsSharing(c) \cup {p}
    BY <1>1, <1>3, <2>1, ThreadMoves
  <2>3. OwnersNext(c) = Owners(c) \ {p}
    BY <1>1, <1>3, <2>1, OwnsNothing
  <2>4. Cardinality(SharingNext(c)) = Cardinality(ThreadsSharing(c)) + 1
    BY <1>7, <2>2, FS_AddElement, SharesAreFinite
  <2>5. ref'[c] = ref[c] + 1
    BY <1>1, <1>3 DEF TypeOK
  <2>6. ref'[c] = Cardinality(SharingNext(c)) + Cardinality(QueuesNext(c))
    BY <1>5, <1>6, <2>4, <2>5, SharesAreFinite
  <2>7. OwnersNext(c) = {} /\ SharingNext(c) # {}
    BY <1>5, <2>2, <2>3
  <2>8. QED
    BY <1>2, <1>5, <2>6, <2>7, StillShared
<1>9. ASSUME NEW b \in Bufs, b # c PROVE BufInvNext(b)
  <2>1. buf[p] # b
    BY <1>1, <1>2, IdleHasNothing
  <2>2. ref'[b] = ref[b]
    BY <1>1, <1>3, <1>9 DEF TypeOK
  <2>3. QED
    BY <1>1, <1>2, <1>3, <1>6, <1>9, <2>1, <2>2, OthersAreUntouched
<1>10. QED
  BY <1>8, <1>9

\* The shared message in the queue goes, that of the thread stays.
LEMMA PopFrontKeepsHolders ==
  ASSUME IInv, NEW p \in QueuedPipes, PopFront(p)
  PROVE  \A b \in Bufs : BufInvNext(b)
<1>1. p \in Threads /\ TypeOK /\ (\A b \in Bufs : BufInv(b))
  BY ThreadKinds DEF IInv
<1>2. /\ pc[p] = "Process" /\ heap' = heap /\ size' = size /\ buf' = buf
      /\ queue[p] # <<>> /\ buf[p] = Head(queue[p]) /\ NoneTwice(queue[p])
      /\ queue[p] \in Seq(Bufs)
  BY <1>1 DEF PopFront, ThreadStep, poolVars, IInv, Fronts, Lists, TypeOK
<1> PICK c \in Bufs : c = buf[p]
  BY <1>1, <1>2, OwnedOrShared
<1>3. /\ Moves(p, "Drop", c) /\ QueueBecomes(p, Tail(queue[p])) /\ ref' = [ref EXCEPT ![c] = @ - 1]
  BY <1>1, <1>2, MovesInPlace DEF PopFront, QueueBecomes
<1>4. p \in ThreadsSharing(c) /\ p \in QueuesSharing(c)
  <2>1. 1 \in 1..Len(queue[p]) /\ queue[p][1] = c
    BY <1>2
  <2>2. p \in QueuesSharing(c)
    BY <2>1 DEF QueuesSharing, Contains
  <2>3. QED
    BY <1>1, <1>2, <2>2 DEF ThreadsSharing, Sharing
<1>5. /\ c \in heap /\ Owners(c) = {}
      /\ ref[c] = Cardinality(ThreadsSharing(c)) + Cardinality(QueuesSharing(c))
  BY <1>1, <1>4, SharedIsCounted
<1>6. BufInvNext(c)
  <2>1. "Drop" \in Sharing /\ "Drop" \notin Owning
    BY DEF Sharing, Owning
  <2>2. SharingNext(c) = ThreadsSharing(c) \cup {p}
    BY <1>1, <1>3, <2>1, ThreadMoves
  <2>3. OwnersNext(c) = Owners(c) \ {p}
    BY <1>1, <1>3, <2>1, OwnsNothing
  <2>4. SharingNext(c) = ThreadsSharing(c) /\ OwnersNext(c) = {}
    BY <1>4, <1>5, <2>2, <2>3
  <2>5. ~Contains(Tail(queue[p]), c)
    BY <1>2, ContainsTail
  <2>6. QueuesNext(c) = QueuesSharing(c) \ {p}
    BY <1>1, <1>3, <2>5, QueueMoves
  <2>7. Cardinality(QueuesNext(c)) = Cardinality(QueuesSharing(c)) - 1
    BY <1>4, <2>6, FS_RemoveElement, SharesAreFinite
  <2>8. ref'[c] = ref[c] - 1
    BY <1>1, <1>3 DEF TypeOK
  <2>9. ref'[c] = Cardinality(SharingNext(c)) + Cardinality(QueuesNext(c))
    BY <1>5, <2>4, <2>7, <2>8, SharesAreFinite
  <2>10. QED
    BY <1>2, <1>4, <1>5, <2>4, <2>9, StillShared
<1>7. ASSUME NEW b \in Bufs, b # c PROVE BufInvNext(b)
  <2>1. Contains(Tail(queue[p]), b) <=> Contains(queue[p], b)
    BY <1>2, <1>7, ContainsTail
  <2>2. QueuesNext(b) = QueuesSharing(b)
    <3>1. CASE Contains(queue[p], b)
      <4>1. QueuesNext(b) = QueuesSharing(b) \cup {p}
        BY <1>1, <1>3, <2>1, <3>1, QueueMoves
      <4>2. p \in QueuesSharing(b)
        BY <3>1 DEF QueuesSharing
      <4>3. QED
        BY <4>1, <4>2
    <3>2. CASE ~Contains(queue[p], b)
      <4>1. QueuesNext(b) = QueuesSharing(b) \ {p}
        BY <1>1, <1>3, <2>1, <3>2, QueueMoves
      <4>2. p \notin QueuesSharing(b)
        BY <3>2 DEF QueuesSharing
      <4>3. QED
        BY <4>1, <4>2
    <3>3. QED
      BY <3>1, <3>2
  <2>3. ref'[b] = ref[b]
    BY <1>1, <1>3, <1>7 DEF TypeOK
  <2>4. QED
    BY <1>1, <1>2, <1>3, <1>7, <2>2, <2>3, OthersAreUntouched
<1>8. QED
  BY <1>6, <1>7

\* The last one that shares a buffer becomes its owner.
LEMMA DropKeepsHolders ==
  ASSUME IInv, NEW t \in Threads, Drop(t)
  PROVE  \A b \in Bufs : BufInvNext(b)
<1>1. TypeOK /\ (\A b \in Bufs : BufInv(b)) /\ (\A b \in Bufs : NoBuf # b)
  BY BrokerAssumption DEF IInv
<1>2. pc[t] = "Drop" /\ heap' = heap /\ size' = size /\ queue' = queue
  BY DEF Drop, ThreadStep, ThreadStepWith, poolVars, brokerVars
<1> PICK c \in Bufs : c = buf[t]
  BY <1>1, <1>2, OwnedOrShared
<1>3. ref' = [ref EXCEPT ![c] = @ - 1]
  BY DEF Drop
<1>4. t \in ThreadsSharing(c) /\ Owners(c) = {} /\ c \in heap
  BY <1>2, OwnedOrShared DEF Sharing
<1>5. ref[c] = Cardinality(ThreadsSharing(c)) + Cardinality(QueuesSharing(c))
  BY <1>1, <1>4, SharedIsCounted
<1>6. \A b \in Bufs : QueuesNext(b) = QueuesSharing(b)
  BY <1>2, QueuesStay
<1>7. Cardinality(ThreadsSharing(c) \ {t}) = Cardinality(ThreadsSharing(c)) - 1
  BY <1>4, FS_RemoveElement, SharesAreFinite
<1>8. IsFiniteSet(ThreadsSharing(c) \ {t})
  BY FS_RemoveElement, SharesAreFinite
<1>9. \A b \in Bufs : b # c => ref'[b] = ref[b]
  BY <1>1, <1>3 DEF TypeOK
<1>10. CASE ref[c] = 1
  <2>1. Moves(t, "Release", c)
    BY <1>1, <1>10, MovesInPlace DEF Drop
  <2>2. BufInvNext(c)
    <3>1. "Release" \notin Sharing /\ "Release" \in Owning
      BY DEF Sharing, Owning
    <3>2. SharingNext(c) = ThreadsSharing(c) \ {t}
      BY <1>1, <2>1, <3>1, ThreadMoves
    <3>3. OwnersNext(c) = Owners(c) \cup {t}
      BY <1>1, <2>1, <3>1, ThreadMoves
    <3>4. Cardinality(ThreadsSharing(c)) # 0
      BY <1>4, SharesAreFinite
    <3>5. Cardinality(ThreadsSharing(c)) = 1 /\ Cardinality(QueuesSharing(c)) = 0
      BY <1>5, <1>10, <3>4, SharesAreFinite
    <3>6. SharingNext(c) = {}
      BY <1>7, <1>8, <3>2, <3>5, FS_EmptySet
    <3>7. QueuesNext(c) = {}
      BY <1>6, <3>5, SharesAreFinite
    <3>8. OwnersNext(c) = {t}
      BY <1>4, <3>3
    <3>9. QED
      BY <1>2, <1>4, <3>6, <3>7, <3>8 DEF BufInv, BufInvNext, SharingNext, QueuesNext, OwnersNext
  <2>3. QED
    BY <1>1, <1>2, <1>6, <1>9, <2>1, <2>2, OthersAreUntouched
<1>11. CASE ref[c] # 1
  <2>1. Moves(t, "Idle", NoBuf)
    BY <1>11 DEF Drop, ThreadStepWith, ThreadStep, Moves
  <2>2. BufInvNext(c)
    <3>1. NoBuf # c
      BY <1>1
    <3>2. SharingNext(c) = ThreadsSharing(c) \ {t} /\ OwnersNext(c) = Owners(c) \ {t}
      BY <1>1, <2>1, <3>1, ThreadLeaves
    <3>3. ref'[c] = ref[c] - 1
      BY <1>1, <1>3 DEF TypeOK
    <3>4. ref'[c] = Cardinality(SharingNext(c)) + Cardinality(QueuesNext(c))
      BY <1>5, <1>6, <1>7, <3>2, <3>3, SharesAreFinite
    <3>5. SharingNext(c) # {} \/ QueuesNext(c) # {}
      <4>1. SUFFICES ASSUME SharingNext(c) = {}, QueuesNext(c) = {} PROVE FALSE
        OBVIOUS
      <4>2. Cardinality(SharingNext(c)) = 0 /\ Cardinality(QueuesNext(c)) = 0
        BY <4>1, FS_EmptySet
      <4>3. ref[c] = 1
        BY <1>5, <3>3, <3>4, <4>2, SharesAreFinite
      <4>4. QED
        BY <1>11, <4>3
    <3>6. OwnersNext(c) = {}
      BY <1>4, <3>2
    <3>7. QED
      BY <1>2, <1>4, <3>4, <3>5, <3>6, StillShared
  <2>3. QED
    BY <1>1, <1>2, <1>6, <1>9, <2>1, <2>2, OthersAreUntouched
<1>12. QED
  BY <1>10, <1>11

\* The steps of a thread that allocates, deletes or does neither.
LEMMA AllocationStep ==
  ASSUME IInv, NEW s \in Senders, Send(s) \/ get_message_buf(s)
  PROVE  \E c \in Bufs, to \in {"SendBuf", "Held"}, sz \in {"Message", "TooSmall"} :
           ThreadStepWith(s, "Idle", to, c) /\ Allocate(c) /\ Construct(c, sz) /\ UNCHANGED brokerVars
BY DEF Send, get_message_buf

LEMMA ReleaseStep ==
  ASSUME NEW t, return_message_buf(t) \/ Release(t)
  PROVE  /\ pc[t] \in {"Held", "Release"} /\ ThreadStepWith(t, pc[t], "Idle", NoBuf)
         /\ PoolRelease(buf[t]) /\ Destroy(buf[t]) /\ UNCHANGED brokerVars
BY DEF return_message_buf, Release, ThreadStepWith, ThreadStep

\* Pipes that come, go, subscribe and unsubscribe.
PipeStep ==
  \/ \E p \in Pipes : register_pipe(p) \/ unregister_pipe(p)
  \/ \E p \in Pipes, i \in MsgIds : subscribe(p, i) \/ unsubscribe(p, i)

LEMMA Steps ==
  ASSUME [Next]_vars
  PROVE  \/ \E s \in Senders :
              \/ Send(s) \/ get_message_buf(s) \/ return_message_buf(s) \/ CallSendBuf(s)
              \/ send_buf(s) \/ Lock(s) \/ Receive(s) \/ Unlock(s)
         \/ \E p \in QueuedPipes : TakeFront(p) \/ PopFront(p)
         \/ \E t \in Threads : Drop(t) \/ Release(t)
         \/ PipeStep
         \/ UNCHANGED vars
BY DEF Next, Continue, PipeStep

LEMMA HoldersStep ==
  ASSUME IInv, [Next]_vars
  PROVE  \A b \in Bufs : BufInv(b)'
<1> SUFFICES \A b \in Bufs : BufInvNext(b)
  BY DEF BufInvNext
<1>1. ASSUME NEW s \in Senders, Send(s) \/ get_message_buf(s)
      PROVE  \A b \in Bufs : BufInvNext(b)
  BY <1>1, AllocationStep, AllocatedIsOwned
<1>2. ASSUME NEW t \in Threads, return_message_buf(t) \/ Release(t)
      PROVE  \A b \in Bufs : BufInvNext(b)
  BY <1>2, ReleaseStep, DeletedByItsOwner
<1>3. ASSUME NEW s \in Senders, CallSendBuf(s)
      PROVE  \A b \in Bufs : BufInvNext(b)
  <2>1. /\ ThreadStep(s, "Held", "SendBuf") /\ buf' = buf /\ queue' = queue /\ heap' = heap
        /\ ref' = ref /\ size' = size
    BY <1>3 DEF CallSendBuf, poolVars, brokerVars, bufVars
  <2>2. s \in Threads /\ {"Held", "SendBuf"} \subseteq Owning
    BY ThreadKinds DEF Owning
  <2>3. QED
    BY <2>1, <2>2, SameHolders
<1>4. ASSUME NEW s \in Senders, Lock(s) \/ Unlock(s)
      PROVE  \A b \in Bufs : BufInvNext(b)
  <2>1. /\ ThreadStep(s, "Lock", "Receive") \/ ThreadStep(s, "Receive", "Drop")
        /\ buf' = buf /\ queue' = queue /\ heap' = heap /\ ref' = ref /\ size' = size
    BY <1>4 DEF Lock, Unlock, poolVars, bufVars
  <2>2. s \in Threads /\ {"Lock", "Receive"} \subseteq Sharing /\ {"Receive", "Drop"} \subseteq Sharing
    BY ThreadKinds DEF Sharing
  <2>3. QED
    BY <2>1, <2>2, SameHolders
<1>5. CASE PipeStep \/ UNCHANGED vars
  <2>1. pc' = pc /\ buf' = buf /\ queue' = queue /\ heap' = heap /\ ref' = ref /\ size' = size
    BY <1>5 DEF PipeStep, register_pipe, unregister_pipe, subscribe, unsubscribe,
                vars, poolVars, bufVars, threadVars, brokerVars
  <2>2. \A b \in Bufs : SharingNext(b) = ThreadsSharing(b) /\ OwnersNext(b) = Owners(b)
    BY <2>1 DEF SharingNext, OwnersNext, ThreadsSharing, Owners
  <2>3. \A b \in Bufs : BufInv(b)
    BY DEF IInv
  <2>4. QED
    BY <2>1, <2>2, <2>3, QueuesStay, UntouchedKeepsBufInv DEF Untouched
<1>6. Senders \subseteq Threads
  BY ThreadKinds
<1>7. QED
  BY <1>1, <1>2, <1>3, <1>4, <1>5, <1>6, Steps, SendBufKeepsHolders, ReceiveKeepsHolders,
     TakeFrontKeepsHolders, PopFrontKeepsHolders, DropKeepsHolders

-----------------------------------------------------------------------------
(* The other parts of the invariant.                                       *)

LEMMA PoolStep ==
  ASSUME IInv, [Next]_vars
  PROVE  PoolTypeOK' /\ PoolAccounts'
<1>1. PoolTypeOK /\ PoolAccounts
  BY DEF IInv, TypeOK
<1>2. ASSUME NEW s \in Senders, Send(s) \/ get_message_buf(s)
      PROVE  PoolTypeOK' /\ PoolAccounts'
  <2>1. PICK c \in Bufs : Allocate(c)
    BY <1>2, AllocationStep
  <2>2. QED
    BY <1>1, <2>1, AllocateKeepsType, AllocateKeepsAccounts
<1>3. ASSUME NEW t \in Threads, return_message_buf(t) \/ Release(t)
      PROVE  PoolTypeOK' /\ PoolAccounts'
  <2>1. buf[t] \in heap /\ PoolRelease(buf[t])
    BY <1>3, ReleaseStep, DeletedByItsOwner
  <2>2. QED
    BY <1>1, <2>1, ReleaseKeepsType, ReleaseKeepsAccounts
<1>4. CASE UNCHANGED poolVars
  BY <1>1, <1>4 DEF poolVars, PoolTypeOK, PoolAccounts
<1>5. ASSUME NEW s \in Senders, CallSendBuf(s) \/ send_buf(s) \/ Lock(s) \/ Receive(s) \/ Unlock(s)
      PROVE  UNCHANGED poolVars
  BY <1>5 DEF CallSendBuf, send_buf, Lock, Receive, Unlock
<1>6. ASSUME NEW p \in QueuedPipes, TakeFront(p) \/ PopFront(p)
      PROVE  UNCHANGED poolVars
  BY <1>6 DEF TakeFront, PopFront
<1>7. ASSUME NEW t \in Threads, Drop(t)
      PROVE  UNCHANGED poolVars
  BY <1>7 DEF Drop
<1>8. CASE PipeStep \/ UNCHANGED vars
  BY <1>4, <1>8 DEF PipeStep, register_pipe, unregister_pipe, subscribe, unsubscribe, vars
<1>9. Senders \subseteq Threads
  BY ThreadKinds
<1>10. QED
  BY <1>2, <1>3, <1>4, <1>5, <1>6, <1>7, <1>8, <1>9, Steps

\* What a pipe's coming and going does to the broker's list.
LEMMA RoutersStep ==
  ASSUME routers \in Seq(Pipes), NoneTwice(routers), NEW p \in Pipes,
         register_pipe(p) \/ unregister_pipe(p)
  PROVE  routers' \in Seq(Pipes) /\ NoneTwice(routers')
<1>1. CASE register_pipe(p) /\ ~Contains(routers, p)
  <2>1. routers' = Append(routers, p)
    BY <1>1 DEF register_pipe
  <2>2. \A k \in DOMAIN routers : routers[k] # p
    BY <1>1 DEF Contains
  <2>3. QED
    BY <2>1, <2>2, AppendProperties, AppendKeepsNoneTwice
<1>2. CASE register_pipe(p) /\ Contains(routers, p)
  BY <1>2 DEF register_pipe
<1>3. CASE unregister_pipe(p)
  BY <1>3, RemoveAtProperties DEF unregister_pipe
<1>4. QED
  BY <1>1, <1>2, <1>3

TypesNext ==
  /\ lock_' \in Senders \cup {NoThread}
  /\ routers' \in Seq(Pipes)
  /\ ids' \in [Pipes -> SUBSET MsgIds]
  /\ queue' \in [QueuedPipes -> Seq(Bufs)]
  /\ size' \in [Bufs -> {"Message", "TooSmall"}]
  /\ id' \in [Bufs -> MsgIds]
  /\ ref' \in [Bufs -> Nat]
  /\ pc' \in [Threads -> SenderPC \cup ConsumerPC]
  /\ buf' \in [Threads -> Bufs \cup {NoBuf}]
  /\ next' \in [Senders -> Nat]

LEMMA AnyIdIsId == AnyId \in MsgIds
BY BrokerAssumption DEF AnyId

LEMMA TypeStep ==
  ASSUME IInv, [Next]_vars
  PROVE  TypeOK'
<1> SUFFICES TypesNext
  BY PoolStep DEF TypesNext, TypeOK
<1>1. TypeOK /\ Senders \subseteq Threads /\ QueuedPipes \subseteq Threads
  BY ThreadKinds DEF IInv
<1>2. {"Idle", "Held", "SendBuf", "Lock", "Receive", "Drop", "Release", "Process"}
        \subseteq SenderPC \cup ConsumerPC
  BY DEF SenderPC, ConsumerPC
<1>3. ASSUME NEW s \in Senders, Send(s) \/ get_message_buf(s)
      PROVE  TypesNext
  <2>1. PICK c \in Bufs, to \in {"SendBuf", "Held"}, sz \in {"Message", "TooSmall"} :
          ThreadStepWith(s, "Idle", to, c) /\ Construct(c, sz) /\ UNCHANGED brokerVars
    BY <1>3, AllocationStep
  <2>2. QED
    BY <1>1, <1>2, <2>1 DEF TypeOK, TypesNext, ThreadStepWith, ThreadStep, Construct, brokerVars
<1>4. ASSUME NEW t \in Threads, return_message_buf(t) \/ Release(t)
      PROVE  TypesNext
  <2>1. /\ buf[t] \in Bufs
        /\ ThreadStepWith(t, pc[t], "Idle", NoBuf) /\ Destroy(buf[t]) /\ UNCHANGED brokerVars
    BY <1>4, ReleaseStep, OwnedOrShared
  <2>2. QED
    BY <1>1, <1>2, <2>1, AnyIdIsId
    DEF TypeOK, TypesNext, ThreadStepWith, ThreadStep, Destroy, brokerVars
<1>5. ASSUME NEW s \in Senders, CallSendBuf(s) \/ Lock(s) \/ Unlock(s)
      PROVE  TypesNext
  <2>1. pc' \in [Threads -> SenderPC \cup ConsumerPC]
    BY <1>1, <1>2, <1>5 DEF TypeOK, CallSendBuf, Lock, Unlock, ThreadStep
  <2>2. next' \in [Senders -> Nat] /\ lock_' \in Senders \cup {NoThread}
    BY <1>1, <1>5 DEF TypeOK, CallSendBuf, Lock, Unlock, brokerVars
  <2>3. /\ routers' = routers /\ ids' = ids /\ queue' = queue
        /\ size' = size /\ id' = id /\ ref' = ref /\ buf' = buf
    BY <1>5 DEF CallSendBuf, Lock, Unlock, brokerVars, bufVars
  <2>4. QED
    BY <1>1, <2>1, <2>2, <2>3 DEF TypeOK, TypesNext
<1>6. ASSUME NEW s \in Senders, send_buf(s)
      PROVE  TypesNext
  <2>1. pc' \in [Threads -> SenderPC \cup ConsumerPC]
    BY <1>1, <1>2, <1>6 DEF TypeOK, send_buf, ThreadStepWith, ThreadStep
  <2>2. ref' \in [Bufs -> Nat]
    <3>1. ref' = ref \/ ref' = [ref EXCEPT ![buf[s]] = 1]
      BY <1>6 DEF send_buf, bufVars
    <3>2. ref \in [Bufs -> Nat] /\ 1 \in Nat
      BY <1>1 DEF TypeOK
    <3>3. CASE ref' = ref
      BY <3>2, <3>3
    <3>4. CASE ref' = [ref EXCEPT ![buf[s]] = 1]
      BY <3>2, <3>4
    <3>5. QED
      BY <3>1, <3>3, <3>4
  <2>5. buf' \in [Threads -> Bufs \cup {NoBuf}]
    <3>1. buf' = buf \/ buf' = [buf EXCEPT ![s] = NoBuf]
      BY <1>6 DEF send_buf, ThreadStepWith
    <3>2. QED
      BY <1>1, <3>1 DEF TypeOK
  <2>3. /\ lock_' = lock_ /\ routers' = routers /\ ids' = ids /\ queue' = queue
        /\ size' = size /\ id' = id /\ next' = next
    BY <1>6 DEF send_buf, ThreadStepWith, brokerVars, bufVars
  <2>4. QED
    BY <1>1, <2>1, <2>2, <2>3, <2>5 DEF TypeOK, TypesNext
<1>7. ASSUME NEW s \in Senders, Receive(s)
      PROVE  TypesNext
  <2>1. buf[s] \in Bufs
    BY <1>1, <1>7, OwnedOrShared DEF Receive
  <2>2. ASSUME NEW p \in QueuedPipes PROVE Append(queue[p], buf[s]) \in Seq(Bufs)
    BY <1>1, <2>1, AppendProperties DEF TypeOK
  <2>3. next' \in [Senders -> Nat] /\ ref' \in [Bufs -> Nat]
    BY <1>1, <1>7, <2>1 DEF TypeOK, Receive
  <2>4. queue' \in [QueuedPipes -> Seq(Bufs)]
    BY <1>1, <1>7, <2>2 DEF TypeOK, Receive
  <2>5. QED
    BY <1>1, <1>7, <2>3, <2>4 DEF TypeOK, TypesNext, Receive
<1>8. ASSUME NEW p \in QueuedPipes, TakeFront(p)
      PROVE  TypesNext
  <2>1. Head(queue[p]) \in Bufs
    BY <1>1, <1>8, HeadTailProperties DEF TypeOK, TakeFront
  <2>2. QED
    BY <1>1, <1>2, <1>8, <2>1 DEF TypeOK, TypesNext, TakeFront, ThreadStepWith, ThreadStep, brokerVars
<1>9. ASSUME NEW p \in QueuedPipes, PopFront(p)
      PROVE  TypesNext
  <2>1. /\ pc[p] = "Process" /\ queue[p] # <<>> /\ buf[p] = Head(queue[p])
    BY <1>9 DEF PopFront, ThreadStep, IInv, Fronts
  <2>2. buf[p] \in Bufs /\ p \in ThreadsSharing(buf[p])
    BY <1>1, <2>1, OwnedOrShared DEF Sharing
  <2>3. ref[buf[p]] \in Nat \ {0}
    BY <2>2, SharedIsCounted DEF IInv
  <2>4. Tail(queue[p]) \in Seq(Bufs)
    BY <1>1, <2>1, HeadTailProperties DEF TypeOK
  <2>5. ref' \in [Bufs -> Nat] /\ queue' \in [QueuedPipes -> Seq(Bufs)]
    BY <1>1, <1>9, <2>1, <2>2, <2>3, <2>4 DEF TypeOK, PopFront
  <2>6. QED
    BY <1>1, <1>2, <1>9, <2>5 DEF TypeOK, TypesNext, PopFront, ThreadStep
<1>10. ASSUME NEW t \in Threads, Drop(t)
      PROVE  TypesNext
  <2>1. pc[t] = "Drop"
    BY <1>10 DEF Drop, ThreadStepWith, ThreadStep
  <2>2. buf[t] \in Bufs /\ t \in ThreadsSharing(buf[t])
    BY <2>1, OwnedOrShared DEF Sharing
  <2>3. ref[buf[t]] \in Nat \ {0}
    BY <2>2, SharedIsCounted DEF IInv
  <2>4. ref' \in [Bufs -> Nat]
    BY <1>1, <1>10, <2>2, <2>3 DEF TypeOK, Drop
  <2>5. QED
    BY <1>1, <1>2, <1>10, <2>4 DEF TypeOK, TypesNext, Drop, ThreadStepWith, ThreadStep, brokerVars
<1>11. ASSUME NEW p \in Pipes, register_pipe(p) \/ unregister_pipe(p)
       PROVE  TypesNext
  <2>1. routers' \in Seq(Pipes)
    BY <1>1, <1>11, RoutersStep DEF TypeOK, IInv, Lists
  <2>2. QED
    BY <1>1, <1>11, <2>1
    DEF TypeOK, TypesNext, register_pipe, unregister_pipe, bufVars, threadVars
<1>12. ASSUME NEW p \in Pipes, NEW i \in MsgIds, subscribe(p, i) \/ unsubscribe(p, i)
       PROVE  TypesNext
  <2>1. ids' \in [Pipes -> SUBSET MsgIds]
    BY <1>1, <1>12 DEF TypeOK, subscribe, unsubscribe
  <2>2. QED
    BY <1>1, <1>12, <2>1 DEF TypeOK, TypesNext, subscribe, unsubscribe, bufVars, threadVars
<1>13. CASE PipeStep
  BY <1>11, <1>12, <1>13 DEF PipeStep
<1>14. CASE UNCHANGED vars
  <2>1. /\ lock_' = lock_ /\ routers' = routers /\ ids' = ids /\ queue' = queue
        /\ size' = size /\ id' = id /\ ref' = ref /\ pc' = pc /\ buf' = buf /\ next' = next
    BY <1>14 DEF vars, brokerVars, bufVars, threadVars
  <2>2. QED
    BY <1>1, <2>1 DEF TypeOK, TypesNext
<1>15. QED
  BY <1>1, <1>3, <1>4, <1>5, <1>6, <1>7, <1>8, <1>9, <1>10, <1>13, <1>14, Steps

\* The step of one thread: the others stay where they are.
LEMMA OneThread ==
  ASSUME TypeOK, NEW t \in Threads, NEW from, NEW to, ThreadStep(t, from, to)
  PROVE  pc[t] = from /\ pc'[t] = to /\ \A u \in Threads : u # t => pc'[u] = pc[u]
BY DEF TypeOK, ThreadStep

LEMMA OneThreadWith ==
  ASSUME TypeOK, NEW t \in Threads, NEW from, NEW to, NEW c, ThreadStepWith(t, from, to, c)
  PROVE  /\ pc[t] = from /\ pc'[t] = to /\ \A u \in Threads : u # t => pc'[u] = pc[u]
         /\ buf'[t] = c /\ \A u \in Threads : u # t => buf'[u] = buf[u]
         /\ next' = next
BY OneThread DEF TypeOK, ThreadStepWith

PositionsNext ==
  /\ \A s \in Senders : pc'[s] \in SenderPC
  /\ \A p \in QueuedPipes : pc'[p] \in ConsumerPC
  /\ \A t \in Threads : buf'[t] = NoBuf <=> pc'[t] = "Idle"
  /\ \A s \in Senders : pc'[s] = "Receive" <=> lock_' = s

LEMMA PositionsStep ==
  ASSUME IInv, [Next]_vars
  PROVE  PositionsNext
<1>1. /\ TypeOK /\ Positions /\ Senders \subseteq Threads /\ QueuedPipes \subseteq Threads
      /\ Senders \cap QueuedPipes = {} /\ Threads = Senders \cup QueuedPipes
      /\ NoBuf \notin Bufs /\ NoThread \notin Senders
  BY ThreadKinds, BrokerAssumption DEF IInv, Threads
\* A step that takes or gives back a buffer.
<1>2. ASSUME NEW s \in Senders, NEW c \in Bufs, NEW to \in {"SendBuf", "Held"},
             ThreadStepWith(s, "Idle", to, c), UNCHANGED brokerVars
      PROVE  PositionsNext
  BY <1>1, <1>2, OneThreadWith DEF Positions, PositionsNext, SenderPC, brokerVars
<1>3. ASSUME NEW t \in Threads, NEW from \in {"Held", "SendBuf", "Release", "Drop"},
             ThreadStepWith(t, from, "Idle", NoBuf), UNCHANGED brokerVars
      PROVE  PositionsNext
  BY <1>1, <1>3, OneThreadWith DEF Positions, PositionsNext, SenderPC, ConsumerPC, brokerVars
\* A step that goes on with one.
<1>4. ASSUME NEW s \in Senders, ThreadStep(s, "Held", "SendBuf") \/ ThreadStep(s, "SendBuf", "Lock"),
             buf' = buf, UNCHANGED brokerVars
      PROVE  PositionsNext
  BY <1>1, <1>4, OneThread DEF Positions, PositionsNext, SenderPC, brokerVars
<1>5. ASSUME NEW s \in Senders, Lock(s)
      PROVE  PositionsNext
  BY <1>1, <1>5, OneThread DEF Positions, PositionsNext, SenderPC, Lock
<1>6. ASSUME NEW s \in Senders, Unlock(s)
      PROVE  PositionsNext
  BY <1>1, <1>6, OneThread DEF Positions, PositionsNext, SenderPC, Unlock
<1>7. ASSUME NEW t \in Threads, ThreadStep(t, "Drop", "Release"), buf' = buf, UNCHANGED brokerVars
      PROVE  PositionsNext
  BY <1>1, <1>7, OneThread DEF Positions, PositionsNext, SenderPC, ConsumerPC, brokerVars
<1>8. ASSUME NEW p \in QueuedPipes, NEW c \in Bufs, ThreadStepWith(p, "Idle", "Process", c),
             UNCHANGED brokerVars
      PROVE  PositionsNext
  BY <1>1, <1>8, OneThreadWith DEF Positions, PositionsNext, ConsumerPC, brokerVars
<1>9. ASSUME NEW p \in QueuedPipes, PopFront(p)
      PROVE  PositionsNext
  BY <1>1, <1>9, OneThread DEF Positions, PositionsNext, ConsumerPC, PopFront
<1>10. CASE pc' = pc /\ buf' = buf /\ lock_' = lock_
  BY <1>1, <1>10 DEF Positions, PositionsNext
\* Each step is of one of these kinds.
<1>11. ASSUME NEW s \in Senders, Send(s) \/ get_message_buf(s)
       PROVE  PositionsNext
  BY <1>2, <1>11, AllocationStep
<1>12. ASSUME NEW t \in Threads, return_message_buf(t) \/ Release(t)
       PROVE  PositionsNext
  BY <1>3, <1>12, ReleaseStep
<1>13. ASSUME NEW s \in Senders, CallSendBuf(s) \/ send_buf(s)
       PROVE  PositionsNext
  BY <1>1, <1>3, <1>4, <1>13 DEF CallSendBuf, send_buf
<1>14. ASSUME NEW s \in Senders, Receive(s)
       PROVE  PositionsNext
  BY <1>10, <1>14 DEF Receive
<1>15. ASSUME NEW p \in QueuedPipes, TakeFront(p)
       PROVE  PositionsNext
  <2>1. Head(queue[p]) \in Bufs
    BY <1>1, <1>15, HeadTailProperties DEF TypeOK, TakeFront
  <2>2. QED
    BY <1>8, <1>15, <2>1 DEF TakeFront
<1>16. ASSUME NEW t \in Threads, Drop(t)
       PROVE  PositionsNext
  BY <1>3, <1>7, <1>16 DEF Drop
<1>17. CASE PipeStep \/ UNCHANGED vars
  BY <1>10, <1>17 DEF PipeStep, register_pipe, unregister_pipe, subscribe, unsubscribe,
                      vars, threadVars, brokerVars
<1>18. QED
  BY <1>1, <1>5, <1>6, <1>9, <1>11, <1>12, <1>13, <1>14, <1>15, <1>16, <1>17, Steps

-----------------------------------------------------------------------------
(* The order of lists and queues.                                          *)

\* The router that a message has come to, and what its queue does with it.
LEMMA ReceiveCases ==
  ASSUME IInv, NEW s \in Senders, Receive(s)
  PROVE  /\ pc[s] = "Receive" /\ buf[s] \in Bufs /\ next[s] \in DOMAIN routers
         /\ pc' = pc /\ buf' = buf /\ routers' = routers /\ lock_' = lock_
         /\ next' = [next EXCEPT ![s] = @ + 1]
         /\ \/ queue' = queue
            \/ \E q \in QueuedPipes :
                 /\ routers[next[s]] = q
                 /\ QueueBecomes(q, Append(queue[q], buf[s]))
                 /\ \A k \in DOMAIN queue[q] : queue[q][k] # buf[s]
<1>1. /\ pc[s] = "Receive" /\ next[s] \in DOMAIN routers
      /\ pc' = pc /\ buf' = buf /\ routers' = routers /\ lock_' = lock_
      /\ next' = [next EXCEPT ![s] = @ + 1]
  BY DEF Receive
<1>2. buf[s] \in Bufs
  BY <1>1, ThreadKinds, OwnedOrShared
<1>3. CASE queue' # queue
  <2>1. PICK q \in QueuedPipes :
          routers[next[s]] = q /\ QueueBecomes(q, Append(queue[q], buf[s]))
    BY <1>3 DEF Receive, QueueBecomes
  <2>2. ASSUME NEW k \in DOMAIN queue[q], queue[q][k] = buf[s] PROVE FALSE
    <3>1. next[s] < next[s]
      BY <1>1, <2>1, <2>2 DEF IInv, Routing
    <3>2. next[s] \in Nat
      BY DEF IInv, TypeOK
    <3>3. QED
      BY <3>1, <3>2
  <2>3. QED
    BY <1>1, <1>2, <2>1, <2>2
<1>4. QED
  BY <1>1, <1>2, <1>3

\* The steps that change neither the broker's list nor a queue.
LEMMA QuietSteps ==
  ASSUME [Next]_vars
  PROVE  \/ \E s \in Senders : Receive(s)
         \/ \E p \in QueuedPipes : PopFront(p)
         \/ PipeStep
         \/ routers' = routers /\ queue' = queue
BY Steps DEF Send, get_message_buf, return_message_buf, CallSendBuf, send_buf, Lock, Unlock,
             TakeFront, Drop, Release, vars, brokerVars

ListsNext == NoneTwice(routers') /\ \A p \in QueuedPipes : NoneTwice(queue'[p])

LEMMA PipesLeaveTheRest ==
  ASSUME PipeStep
  PROVE  /\ queue' = queue /\ pc' = pc /\ buf' = buf /\ next' = next /\ lock_' = lock_
         /\ routers' # routers => lock_ = NoThread
BY DEF PipeStep, register_pipe, unregister_pipe, subscribe, unsubscribe, threadVars

LEMMA ListsStep ==
  ASSUME IInv, [Next]_vars
  PROVE  ListsNext
<1>1. TypeOK /\ NoneTwice(routers) /\ \A p \in QueuedPipes : NoneTwice(queue[p])
  BY DEF IInv, Lists
<1>2. \A p \in QueuedPipes : queue[p] \in Seq(Bufs)
  BY <1>1 DEF TypeOK
<1>3. ASSUME NEW q \in QueuedPipes, NEW list, QueueBecomes(q, list), NoneTwice(list),
             routers' = routers
      PROVE  ListsNext
  <2>1. \A p \in QueuedPipes : queue'[p] = IF p = q THEN list ELSE queue[p]
    BY <1>1, <1>3 DEF TypeOK, QueueBecomes
  <2>2. QED
    BY <1>1, <1>3, <2>1 DEF ListsNext
<1>4. CASE routers' = routers /\ queue' = queue
  BY <1>1, <1>4 DEF ListsNext
<1>5. ASSUME NEW s \in Senders, Receive(s)
      PROVE  ListsNext
  <2>1. CASE queue' = queue
    BY <1>4, <1>5, <2>1, ReceiveCases
  <2>2. CASE queue' # queue
    <3>1. PICK q \in QueuedPipes : /\ QueueBecomes(q, Append(queue[q], buf[s]))
                                   /\ \A k \in DOMAIN queue[q] : queue[q][k] # buf[s]
      BY <1>5, <2>2, ReceiveCases
    <3>2. buf[s] \in Bufs /\ routers' = routers
      BY <1>5, ReceiveCases
    <3>3. NoneTwice(Append(queue[q], buf[s]))
      BY <1>1, <1>2, <3>1, <3>2, AppendKeepsNoneTwice
    <3>4. QED
      BY <1>3, <3>1, <3>2, <3>3
  <2>3. QED
    BY <2>1, <2>2
<1>6. ASSUME NEW q \in QueuedPipes, PopFront(q)
      PROVE  ListsNext
  <2>1. queue[q] # <<>> /\ QueueBecomes(q, Tail(queue[q])) /\ routers' = routers
    BY <1>1, <1>6 DEF PopFront, ThreadStep, QueueBecomes, IInv, Fronts
  <2>2. NoneTwice(Tail(queue[q]))
    BY <1>1, <1>2, <2>1, TailKeepsNoneTwice
  <2>3. QED
    BY <1>3, <2>1, <2>2
<1>7. CASE PipeStep
  <2>1. queue' = queue
    BY <1>7, PipesLeaveTheRest
  <2>2. NoneTwice(routers')
    <3>1. CASE routers' = routers
      BY <1>1, <3>1
    <3>2. CASE \E p \in Pipes : register_pipe(p) \/ unregister_pipe(p)
      BY <1>1, <3>2, RoutersStep DEF TypeOK
    <3>3. QED
      BY <1>7, <3>1, <3>2 DEF PipeStep, subscribe, unsubscribe
  <2>3. QED
    BY <1>1, <2>1, <2>2 DEF ListsNext
<1>8. QED
  BY <1>4, <1>5, <1>6, <1>7, QuietSteps

FrontsNext ==
  \A p \in QueuedPipes :
    pc'[p] = "Process" => queue'[p] # <<>> /\ buf'[p] = Head(queue'[p])

LEMMA FrontsStep ==
  ASSUME IInv, [Next]_vars
  PROVE  FrontsNext
<1>1. /\ TypeOK /\ Fronts /\ Senders \subseteq Threads /\ QueuedPipes \subseteq Threads
      /\ Senders \cap QueuedPipes = {}
  BY ThreadKinds DEF IInv
\* No pipe begins with a message.
<1>2. CASE /\ queue' = queue
           /\ \A p \in QueuedPipes : pc'[p] = "Process" => pc[p] = "Process" /\ buf'[p] = buf[p]
  BY <1>1, <1>2 DEF Fronts, FrontsNext
<1>3. ASSUME NEW t \in Threads, NEW from, NEW to, NEW c, to # "Process",
             ThreadStepWith(t, from, to, c), queue' = queue
      PROVE  FrontsNext
  BY <1>1, <1>2, <1>3, OneThreadWith
<1>4. ASSUME NEW t \in Threads, NEW from, NEW to, to # "Process",
             ThreadStep(t, from, to), buf' = buf, queue' = queue
      PROVE  FrontsNext
  BY <1>1, <1>2, <1>4, OneThread
<1>5. ASSUME NEW s \in Senders,
             \/ Send(s) \/ get_message_buf(s) \/ CallSendBuf(s)
             \/ send_buf(s) \/ Lock(s) \/ Unlock(s)
      PROVE  FrontsNext
  BY <1>1, <1>3, <1>4, <1>5
  DEF Send, get_message_buf, CallSendBuf, send_buf, Lock, Unlock, brokerVars
<1>6. ASSUME NEW t \in Threads, return_message_buf(t) \/ Drop(t) \/ Release(t)
      PROVE  FrontsNext
  BY <1>3, <1>4, <1>6 DEF return_message_buf, Drop, Release, brokerVars
<1>7. ASSUME NEW s \in Senders, Receive(s)
      PROVE  FrontsNext
  <2>1. buf[s] \in Bufs /\ pc' = pc /\ buf' = buf
    BY <1>7, ReceiveCases
  <2>2. CASE queue' = queue
    BY <1>2, <2>1, <2>2
  <2>3. CASE queue' # queue
    <3>1. PICK q \in QueuedPipes : QueueBecomes(q, Append(queue[q], buf[s]))
      BY <1>7, <2>3, ReceiveCases
    <3>2. \A p \in QueuedPipes :
            queue'[p] = IF p = q THEN Append(queue[q], buf[s]) ELSE queue[p]
      BY <1>1, <3>1 DEF TypeOK, QueueBecomes
    <3>3. queue[q] \in Seq(Bufs)
      BY <1>1 DEF TypeOK
    <3>4. queue[q] # <<>> => /\ Append(queue[q], buf[s]) # <<>>
                             /\ Head(Append(queue[q], buf[s])) = Head(queue[q])
      BY <2>1, <3>3, AppendProperties
    <3>5. QED
      BY <1>1, <2>1, <3>2, <3>4 DEF Fronts, FrontsNext
  <2>4. QED
    BY <2>2, <2>3
<1>8. ASSUME NEW q \in QueuedPipes, TakeFront(q)
      PROVE  FrontsNext
  <2>1. /\ queue[q] # <<>> /\ queue' = queue
        /\ ThreadStepWith(q, "Idle", "Process", Head(queue[q]))
    BY <1>8 DEF TakeFront, brokerVars
  <2>2. QED
    BY <1>1, <2>1, OneThreadWith DEF Fronts, FrontsNext
<1>9. ASSUME NEW q \in QueuedPipes, PopFront(q)
      PROVE  FrontsNext
  <2>1. ThreadStep(q, "Process", "Drop") /\ buf' = buf
    BY <1>9 DEF PopFront
  <2>2. \A p \in QueuedPipes : p # q => queue'[p] = queue[p]
    BY <1>1, <1>9 DEF TypeOK, PopFront
  <2>3. pc'[q] = "Drop" /\ \A p \in QueuedPipes : p # q => pc'[p] = pc[p]
    BY <1>1, <2>1, OneThread
  <2>4. QED
    BY <1>1, <2>1, <2>2, <2>3 DEF Fronts, FrontsNext
<1>10. CASE PipeStep
  BY <1>2, <1>10, PipesLeaveTheRest
<1>11. CASE UNCHANGED vars
  BY <1>2, <1>11 DEF vars, brokerVars, threadVars
<1>12. QED
  BY <1>1, <1>5, <1>6, <1>7, <1>8, <1>9, <1>10, <1>11, Steps

RoutingNext ==
  /\ \A s, t \in Senders : buf'[s] = buf'[t] /\ buf'[s] # NoBuf => s = t
  /\ \A s \in Senders, p \in QueuedPipes : \A k \in DOMAIN queue'[p] :
       /\ pc'[s] = "Lock" => queue'[p][k] # buf'[s]
       /\ pc'[s] = "Receive" /\ queue'[p][k] = buf'[s] =>
            /\ k = Len(queue'[p])
            /\ \A n \in DOMAIN routers' : routers'[n] = p => n < next'[s]

\* The mutex and the list: what a sender's place in the list means to others.
LEMMA RoutingReceive ==
  ASSUME IInv, NEW s \in Senders, Receive(s)
  PROVE  RoutingNext
<1>1. TypeOK /\ Positions /\ NoneTwice(routers) /\ Routing
  BY DEF IInv, Lists
<1>2. /\ pc[s] = "Receive" /\ next[s] \in DOMAIN routers /\ pc' = pc /\ buf' = buf
      /\ routers' = routers /\ buf[s] \in Bufs
  BY ReceiveCases
<1>3. next'[s] = next[s] + 1 /\ next[s] \in Nat
  BY <1>1, ReceiveCases DEF TypeOK
<1>4. buf[s] # NoBuf
  BY <1>2, BrokerAssumption
<1>5. \A u \in Senders : u # s => pc[u] # "Receive" /\ buf[u] # buf[s]
  BY <1>1, <1>2, <1>4 DEF Positions, Routing
<1>6. \A n \in DOMAIN routers : n \in Nat
  BY <1>1 DEF TypeOK
<1>7. CASE queue' = queue
  BY <1>1, <1>2, <1>3, <1>5, <1>6, <1>7 DEF Routing, RoutingNext
<1>8. CASE queue' # queue
  <2>1. PICK q \in QueuedPipes : /\ routers[next[s]] = q
                                 /\ QueueBecomes(q, Append(queue[q], buf[s]))
                                 /\ \A k \in DOMAIN queue[q] : queue[q][k] # buf[s]
    BY <1>8, ReceiveCases
  <2>2. /\ \A p \in QueuedPipes : p # q => queue'[p] = queue[p]
        /\ queue'[q] = Append(queue[q], buf[s])
    BY <1>1, <2>1 DEF TypeOK, QueueBecomes
  <2>3. queue[q] \in Seq(Bufs)
    BY <1>1 DEF TypeOK
  <2>4. /\ Len(queue'[q]) = Len(queue[q]) + 1 /\ Len(queue[q]) \in Nat
        /\ DOMAIN queue'[q] = 1..(Len(queue[q]) + 1) /\ DOMAIN queue[q] = 1..Len(queue[q])
        /\ queue'[q][Len(queue[q]) + 1] = buf[s]
        /\ \A k \in 1..Len(queue[q]) : queue'[q][k] = queue[q][k]
    BY <1>2, <2>2, <2>3, AppendProperties
  <2>5. ASSUME NEW u \in Senders, NEW p \in QueuedPipes, NEW k \in DOMAIN queue'[p]
        PROVE  /\ pc'[u] = "Lock" => queue'[p][k] # buf'[u]
               /\ pc'[u] = "Receive" /\ queue'[p][k] = buf'[u] =>
                    /\ k = Len(queue'[p])
                    /\ \A n \in DOMAIN routers' : routers'[n] = p => n < next'[u]
    <3>1. CASE p # q
      BY <1>1, <1>2, <1>3, <1>5, <1>6, <2>2, <2>5, <3>1 DEF Routing
    <3>2. CASE p = q /\ k \in DOMAIN queue[q]
      BY <1>1, <1>2, <1>5, <2>1, <2>4, <2>5, <3>2 DEF Routing
    <3>3. CASE p = q /\ k = Len(queue[q]) + 1
      <4>1. queue'[p][k] = buf[s] /\ k = Len(queue'[p])
        BY <2>4, <3>3
      <4>2. \A n \in DOMAIN routers : routers[n] = p => n < next'[s]
        <5>1. \A n \in DOMAIN routers : routers[n] = q => n = next[s]
          BY <1>1, <1>2, <2>1 DEF NoneTwice
        <5>2. QED
          BY <1>3, <3>3, <5>1
      <4>3. QED
        BY <1>2, <1>5, <4>1, <4>2
    <3>4. QED
      BY <2>4, <2>5, <3>1, <3>2, <3>3
  <2>6. \A u, t \in Senders : buf'[u] = buf'[t] /\ buf'[u] # NoBuf => u = t
    BY <1>1, <1>2 DEF Routing
  <2>7. QED
    BY <2>5, <2>6 DEF RoutingNext
<1>9. QED
  BY <1>7, <1>8

\* The place of a buffer in a queue is counted from the front.
LEMMA RoutingPopFront ==
  ASSUME IInv, NEW q \in QueuedPipes, PopFront(q)
  PROVE  RoutingNext
<1>1. /\ TypeOK /\ Routing /\ Senders \subseteq Threads /\ QueuedPipes \subseteq Threads
      /\ Senders \cap QueuedPipes = {}
  BY ThreadKinds DEF IInv
<1>2. /\ ThreadStep(q, "Process", "Drop") /\ buf' = buf /\ next' = next /\ routers' = routers
      /\ queue[q] # <<>>
  BY <1>1 DEF PopFront, ThreadStep, IInv, Fronts
<1>3. \A s \in Senders : pc'[s] = pc[s]
  BY <1>1, <1>2, OneThread
<1>4. /\ \A p \in QueuedPipes : p # q => queue'[p] = queue[p]
      /\ queue'[q] = Tail(queue[q])
  BY <1>1 DEF TypeOK, PopFront
<1>5. queue[q] \in Seq(Bufs)
  BY <1>1 DEF TypeOK
<1>6. /\ Len(queue[q]) \in Nat \ {0} /\ Len(queue'[q]) = Len(queue[q]) - 1
      /\ DOMAIN queue'[q] = 1..(Len(queue[q]) - 1) /\ DOMAIN queue[q] = 1..Len(queue[q])
      /\ \A k \in 1..(Len(queue[q]) - 1) : queue'[q][k] = queue[q][k + 1]
  BY <1>2, <1>4, <1>5, HeadTailProperties
<1>7. ASSUME NEW s \in Senders, NEW p \in QueuedPipes, NEW k \in DOMAIN queue'[p]
      PROVE  /\ pc'[s] = "Lock" => queue'[p][k] # buf'[s]
             /\ pc'[s] = "Receive" /\ queue'[p][k] = buf'[s] =>
                  /\ k = Len(queue'[p])
                  /\ \A n \in DOMAIN routers' : routers'[n] = p => n < next'[s]
  <2>1. CASE p # q
    BY <1>1, <1>2, <1>3, <1>4, <1>7, <2>1 DEF Routing
  <2>2. CASE p = q
    <3>1. k + 1 \in DOMAIN queue[q] /\ queue'[q][k] = queue[q][k + 1] /\ k \in Int
      BY <1>6, <1>7, <2>2
    <3>2. /\ pc[s] = "Lock" => queue[q][k + 1] # buf[s]
          /\ pc[s] = "Receive" /\ queue[q][k + 1] = buf[s] =>
               /\ k + 1 = Len(queue[q])
               /\ \A n \in DOMAIN routers : routers[n] = q => n < next[s]
      BY <1>1, <3>1 DEF Routing
    <3>3. k + 1 = Len(queue[q]) => k = Len(queue'[q])
      BY <1>6, <3>1
    <3>4. QED
      BY <1>2, <1>3, <2>2, <3>1, <3>2, <3>3
  <2>3. QED
    BY <2>1, <2>2
<1>8. \A s, t \in Senders : buf'[s] = buf'[t] /\ buf'[s] # NoBuf => s = t
  BY <1>1, <1>2 DEF Routing
<1>9. QED
  BY <1>7, <1>8 DEF RoutingNext

LEMMA RoutingStep ==
  ASSUME IInv, [Next]_vars
  PROVE  RoutingNext
<1>1. /\ TypeOK /\ Positions /\ Routing /\ Senders \subseteq Threads
      /\ QueuedPipes \subseteq Threads /\ Senders \cap QueuedPipes = {}
      /\ NoBuf \notin Bufs /\ NoThread \notin Senders
  BY ThreadKinds, BrokerAssumption DEF IInv
\* Nobody begins to route.
<1>2. CASE /\ queue' = queue /\ routers' = routers
           /\ \A s, t \in Senders : buf'[s] = buf'[t] /\ buf'[s] # NoBuf => s = t
           /\ \A s \in Senders : \/ pc'[s] \notin {"Lock", "Receive"}
                                 \/ pc'[s] = pc[s] /\ buf'[s] = buf[s] /\ next'[s] = next[s]
  BY <1>1, <1>2 DEF Routing, RoutingNext
<1>3. ASSUME NEW s \in Senders, Send(s) \/ get_message_buf(s)
      PROVE  RoutingNext
  <2>1. PICK c \in Bufs, to \in {"SendBuf", "Held"} :
          ThreadStepWith(s, "Idle", to, c) /\ Allocate(c) /\ UNCHANGED brokerVars
    BY <1>3, AllocationStep
  <2>2. \A u \in Senders : buf[u] # c
    <3>1. SUFFICES ASSUME NEW u \in Senders, buf[u] = c PROVE FALSE
      OBVIOUS
    <3>2. pc[u] # "Idle" /\ pc[u] \in SenderPC
      BY <1>1, <3>1 DEF Positions
    <3>3. pc[u] \in Owning \cup Sharing
      BY <3>2 DEF SenderPC, Owning, Sharing
    <3>4. c \in heap
      BY <1>1, <3>1, <3>2, <3>3, OwnedOrShared
    <3>5. QED
      BY <2>1, <3>4 DEF Allocate
  <2>3. /\ pc'[s] = to /\ buf'[s] = c /\ next' = next
        /\ \A u \in Senders : u # s => pc'[u] = pc[u] /\ buf'[u] = buf[u]
    BY <1>1, <2>1, OneThreadWith
  <2>4. \A u, t \in Senders : buf'[u] = buf'[t] /\ buf'[u] # NoBuf => u = t
    BY <1>1, <2>2, <2>3 DEF Routing
  <2>5. QED
    BY <1>2, <2>1, <2>3, <2>4 DEF brokerVars
<1>4. ASSUME NEW t \in Threads, NEW from, ThreadStepWith(t, from, "Idle", NoBuf),
             UNCHANGED brokerVars
      PROVE  RoutingNext
  <2>1. /\ pc'[t] = "Idle" /\ buf'[t] = NoBuf /\ next' = next
        /\ \A u \in Threads : u # t => pc'[u] = pc[u] /\ buf'[u] = buf[u]
    BY <1>1, <1>4, OneThreadWith
  <2>2. \A u, v \in Senders : buf'[u] = buf'[v] /\ buf'[u] # NoBuf => u = v
    BY <1>1, <2>1 DEF Routing
  <2>3. QED
    BY <1>1, <1>2, <1>4, <2>1, <2>2 DEF brokerVars
<1>5. ASSUME NEW t \in Threads, NEW from, NEW to, ThreadStep(t, from, to), buf' = buf,
             to \notin {"Lock", "Receive"}, routers' = routers, queue' = queue,
             \A u \in Senders : u # t => next'[u] = next[u]
      PROVE  RoutingNext
  <2>1. pc'[t] = to /\ \A u \in Threads : u # t => pc'[u] = pc[u]
    BY <1>1, <1>5, OneThread
  <2>2. \A u, v \in Senders : buf'[u] = buf'[v] /\ buf'[u] # NoBuf => u = v
    BY <1>1, <1>5 DEF Routing
  <2>3. QED
    BY <1>1, <1>2, <1>5, <2>1, <2>2
<1>6. ASSUME NEW s \in Senders, ThreadStep(s, "SendBuf", "Lock"), buf' = buf, next' = next,
             UNCHANGED brokerVars
      PROVE  RoutingNext
  <2>1. /\ pc[s] = "SendBuf" /\ pc'[s] = "Lock"
        /\ \A u \in Senders : u # s => pc'[u] = pc[u]
    BY <1>1, <1>6, OneThread
  <2>2. QueuesSharing(buf[s]) = {}
    BY <1>1, <2>1, OwnedOrShared DEF Owning
  <2>3. \A p \in QueuedPipes : \A k \in DOMAIN queue[p] : queue[p][k] # buf[s]
    <3>1. \A p \in QueuedPipes : DOMAIN queue[p] = 1..Len(queue[p])
      BY <1>1 DEF TypeOK
    <3>2. QED
      BY <2>2, <3>1 DEF QueuesSharing, Contains
  <2>4. QED
    BY <1>1, <1>6, <2>1, <2>3 DEF Routing, RoutingNext, brokerVars
<1>7. ASSUME NEW s \in Senders, Lock(s)
      PROVE  RoutingNext
  <2>1. /\ pc[s] = "Lock" /\ pc'[s] = "Receive"
        /\ \A u \in Senders : u # s => pc'[u] = pc[u]
        /\ buf' = buf /\ next' = next /\ queue' = queue /\ routers' = routers
    BY <1>1, <1>7, OneThread DEF Lock
  <2>2. QED
    BY <1>1, <2>1 DEF Routing, RoutingNext
<1>8. ASSUME NEW s \in Senders, CallSendBuf(s) \/ send_buf(s) \/ Unlock(s)
      PROVE  RoutingNext
  <2>1. CASE CallSendBuf(s)
    BY <1>1, <1>5, <2>1 DEF CallSendBuf, brokerVars
  <2>2. CASE send_buf(s)
    BY <1>1, <1>4, <1>6, <2>2 DEF send_buf
  <2>3. CASE Unlock(s)
    <3>1. \A u \in Senders : u # s => next'[u] = next[u]
      BY <1>1, <2>3 DEF Unlock, TypeOK
    <3>2. QED
      BY <1>1, <1>5, <2>3, <3>1 DEF Unlock
  <2>4. QED
    BY <1>8, <2>1, <2>2, <2>3
<1>9. ASSUME NEW t \in Threads, return_message_buf(t) \/ Release(t)
      PROVE  RoutingNext
  BY <1>4, <1>9, ReleaseStep
<1>10. ASSUME NEW t \in Threads, Drop(t)
       PROVE  RoutingNext
  BY <1>4, <1>5, <1>10 DEF Drop, brokerVars
<1>11. ASSUME NEW p \in QueuedPipes, TakeFront(p)
       PROVE  RoutingNext
  <2>1. /\ \A u \in Senders : pc'[u] = pc[u] /\ buf'[u] = buf[u]
        /\ next' = next /\ queue' = queue /\ routers' = routers
    BY <1>1, <1>11, OneThreadWith DEF TakeFront, brokerVars
  <2>2. QED
    BY <1>1, <1>2, <2>1 DEF Routing
<1>12. CASE PipeStep
  <2>1. /\ queue' = queue /\ pc' = pc /\ buf' = buf /\ next' = next
        /\ routers' # routers => lock_ = NoThread
    BY <1>12, PipesLeaveTheRest
  <2>2. routers' # routers => \A s \in Senders : pc[s] # "Receive"
    BY <1>1, <2>1 DEF Positions
  <2>3. QED
    BY <1>1, <2>1, <2>2 DEF Routing, RoutingNext
<1>13. CASE UNCHANGED vars
  BY <1>1, <1>2, <1>13 DEF vars, brokerVars, threadVars, Routing
<1>14. QED
  BY <1>1, <1>3, <1>7, <1>8, <1>9, <1>10, <1>11, <1>12, <1>13, Steps, RoutingReceive, RoutingPopFront

-----------------------------------------------------------------------------
(* The order that queues have messages in.                                 *)

\* What two lists both have is in the same order in both.
Agree(a, b) ==
  \A i, j \in DOMAIN a, k, l \in DOMAIN b : a[i] = b[k] /\ a[j] = b[l] => (i < j <=> k < l)

LEMMA NoneTwiceAgrees ==
  ASSUME NEW a, NoneTwice(a)
  PROVE  Agree(a, a)
BY DEF NoneTwice, Agree

LEMMA AgreeBothWays ==
  ASSUME NEW a, NEW b, Agree(a, b)
  PROVE  Agree(b, a)
BY DEF Agree

LEMMA AppendAgrees ==
  ASSUME NEW S, NEW a \in Seq(S), NEW b \in Seq(S), NEW e \in S, Agree(a, b),
         \A k \in DOMAIN a : a[k] # e, \A k \in DOMAIN b : b[k] = e => k = Len(b)
  PROVE  Agree(Append(a, e), b)
<1> DEFINE c == Append(a, e)
           n == Len(a) + 1
<1>1. /\ Len(a) \in Nat /\ DOMAIN a = 1..Len(a) /\ DOMAIN c = 1..n
      /\ c[n] = e /\ \A k \in 1..Len(a) : c[k] = a[k]
  BY AppendProperties
<1>2. Len(b) \in Nat /\ DOMAIN b = 1..Len(b)
  OBVIOUS
<1> HIDE DEF c
<1>3. SUFFICES ASSUME NEW i \in 1..n, NEW j \in 1..n, NEW k \in 1..Len(b), NEW l \in 1..Len(b),
                      c[i] = b[k], c[j] = b[l]
               PROVE  i < j <=> k < l
  BY <1>1, <1>2 DEF Agree, c
<1>4. CASE i # n /\ j # n
  <2>1. i \in DOMAIN a /\ j \in DOMAIN a /\ a[i] = b[k] /\ a[j] = b[l]
    BY <1>1, <1>3, <1>4
  <2>2. QED
    BY <1>2, <2>1 DEF Agree
<1>5. CASE i = n
  <2>1. k = Len(b)
    BY <1>1, <1>2, <1>3, <1>5
  <2>2. QED
    BY <1>1, <1>2, <1>5, <2>1
<1>6. CASE i # n /\ j = n
  <2>1. l = Len(b) /\ b[l] = e
    BY <1>1, <1>2, <1>3, <1>6
  <2>2. i \in DOMAIN a /\ b[k] # e
    BY <1>1, <1>3, <1>6
  <2>3. QED
    BY <1>1, <1>2, <1>6, <2>1, <2>2
<1>7. QED
  BY <1>4, <1>5, <1>6

LEMMA TailAgrees ==
  ASSUME NEW S, NEW a \in Seq(S), NEW b, a # <<>>, Agree(a, b)
  PROVE  Agree(Tail(a), b)
<1>1. /\ Len(a) \in Nat \ {0} /\ DOMAIN a = 1..Len(a) /\ DOMAIN Tail(a) = 1..(Len(a) - 1)
      /\ \A k \in 1..(Len(a) - 1) : Tail(a)[k] = a[k + 1]
  BY HeadTailProperties
<1>2. SUFFICES ASSUME NEW i \in 1..(Len(a) - 1), NEW j \in 1..(Len(a) - 1),
                      NEW k \in DOMAIN b, NEW l \in DOMAIN b, Tail(a)[i] = b[k], Tail(a)[j] = b[l]
               PROVE  i < j <=> k < l
  BY <1>1 DEF Agree
<1>3. /\ i + 1 \in DOMAIN a /\ j + 1 \in DOMAIN a /\ a[i + 1] = b[k] /\ a[j + 1] = b[l]
      /\ i + 1 < j + 1 <=> i < j
  BY <1>1, <1>2
<1>4. QED
  BY <1>3 DEF Agree

AllAgree == \A p, q \in QueuedPipes : Agree(queue[p], queue[q])

LEMMA OrderIsAgreement == OneOrderForAll <=> AllAgree
BY DEF OneOrderForAll, AllAgree, Agree

\* One queue changes and goes on agreeing with the others.
LEMMA OneQueueChanges ==
  ASSUME TypeOK, AllAgree, NEW q \in QueuedPipes, NEW list, QueueBecomes(q, list),
         NoneTwice(list), \A p \in QueuedPipes : p # q => Agree(list, queue[p])
  PROVE  AllAgree'
<1>1. /\ queue'[q] = list
      /\ \A p \in QueuedPipes : p # q => queue'[p] = queue[p]
  BY DEF TypeOK, QueueBecomes
<1>2. Agree(list, list)
  BY NoneTwiceAgrees
<1>3. \A p \in QueuedPipes : p # q => Agree(queue[p], list)
  BY AgreeBothWays
<1>4. \A p, r \in QueuedPipes : Agree(queue'[p], queue'[r])
  BY <1>1, <1>2, <1>3 DEF AllAgree
<1>5. QED
  BY <1>4 DEF AllAgree, Agree

LEMMA OrderStep ==
  ASSUME IInv, [Next]_vars
  PROVE  OneOrderForAll'
<1> SUFFICES AllAgree'
  BY OrderIsAgreement DEF OneOrderForAll, AllAgree, Agree
<1>1. TypeOK /\ AllAgree /\ \A p \in QueuedPipes : queue[p] \in Seq(Bufs) /\ NoneTwice(queue[p])
  BY OrderIsAgreement DEF IInv, TypeOK, Lists
<1>2. CASE queue' = queue
  BY <1>1, <1>2 DEF AllAgree, Agree
<1>3. ASSUME NEW s \in Senders, Receive(s), queue' # queue
      PROVE  AllAgree'
  <2>1. PICK q \in QueuedPipes : /\ QueueBecomes(q, Append(queue[q], buf[s]))
                                 /\ \A k \in DOMAIN queue[q] : queue[q][k] # buf[s]
    BY <1>3, ReceiveCases
  <2>2. buf[s] \in Bufs /\ pc[s] = "Receive"
    BY <1>3, ReceiveCases
  <2>3. \A p \in QueuedPipes : \A k \in DOMAIN queue[p] :
          queue[p][k] = buf[s] => k = Len(queue[p])
    BY <2>2 DEF IInv, Routing
  <2>4. NoneTwice(Append(queue[q], buf[s]))
    BY <1>1, <2>1, <2>2, AppendKeepsNoneTwice
  <2>5. ASSUME NEW p \in QueuedPipes PROVE Agree(Append(queue[q], buf[s]), queue[p])
    <3>1. Agree(queue[q], queue[p])
      BY <1>1 DEF AllAgree
    <3>2. QED
      BY <1>1, <2>1, <2>2, <2>3, <3>1, AppendAgrees
  <2>6. QED
    BY <1>1, <2>1, <2>4, <2>5, OneQueueChanges
<1>4. ASSUME NEW q \in QueuedPipes, PopFront(q)
      PROVE  AllAgree'
  <2>1. queue[q] # <<>> /\ QueueBecomes(q, Tail(queue[q]))
    BY <1>1, <1>4 DEF PopFront, ThreadStep, QueueBecomes, IInv, Fronts
  <2>2. NoneTwice(Tail(queue[q]))
    BY <1>1, <2>1, TailKeepsNoneTwice
  <2>3. ASSUME NEW p \in QueuedPipes PROVE Agree(Tail(queue[q]), queue[p])
    <3>1. Agree(queue[q], queue[p])
      BY <1>1 DEF AllAgree
    <3>2. QED
      BY <1>1, <2>1, <3>1, TailAgrees
  <2>4. QED
    BY <1>1, <2>1, <2>2, <2>3, OneQueueChanges
<1>5. CASE PipeStep
  BY <1>2, <1>5, PipesLeaveTheRest
<1>6. QED
  BY <1>2, <1>3, <1>4, <1>5, QuietSteps

-----------------------------------------------------------------------------
(* The invariant holds.                                                    *)

LEMMA InitHolds == Init => IInv
<1> SUFFICES ASSUME Init PROVE IInv
  OBVIOUS
<1>1. /\ heap = {} /\ ItemsInUse = 0 /\ WaterMark = 0 /\ AllocCount = 0 /\ ReleaseCount = 0
  BY DEF Init, PoolInit
<1>2. 0 \in Counter /\ NumItems \in Nat /\ CounterLimit \in Nat \ {0}
  BY NumItemsAssumption, CounterLimitAssumption DEF Counter
<1>3. TypeOK
  <2>1. PoolTypeOK
    BY <1>1, <1>2 DEF PoolTypeOK
  <2>2. <<>> \in Seq(Pipes) /\ <<>> \in Seq(Bufs)
    OBVIOUS
  <2>3. QED
    BY <2>1, <2>2, AnyIdIsId DEF Init, TypeOK, SenderPC
<1>4. /\ routers = <<>> /\ lock_ = NoThread
      /\ \A p \in QueuedPipes : queue[p] = <<>>
      /\ \A t \in Threads : pc[t] = "Idle" /\ buf[t] = NoBuf
  BY DEF Init
<1>5. \A n \in DOMAIN <<>> : FALSE
  OBVIOUS
<1>6. Positions /\ Fronts
  BY <1>4, ThreadKinds, BrokerAssumption DEF Positions, Fronts, SenderPC, ConsumerPC
<1>7. Lists /\ Routing /\ OneOrderForAll
  BY <1>4, <1>5, ThreadKinds DEF Lists, NoneTwice, Routing, OneOrderForAll
<1>8. PoolAccounts
  BY <1>1, <1>2, FS_EmptySet DEF PoolAccounts
<1>9. ASSUME NEW b \in Bufs PROVE BufInv(b)
  <2>1. ThreadsSharing(b) = {} /\ Owners(b) = {}
    BY <1>4 DEF ThreadsSharing, Owners, Sharing
  <2>2. QueuesSharing(b) = {}
    <3>1. ~Contains(<<>>, b)
      BY DEF Contains
    <3>2. QED
      BY <1>4, <3>1 DEF QueuesSharing
  <2>3. QED
    BY <1>1, <2>1, <2>2 DEF BufInv
<1>10. QED
  BY <1>3, <1>6, <1>7, <1>8, <1>9 DEF IInv

LEMMA StepHolds == IInv /\ [Next]_vars => IInv'
<1> SUFFICES ASSUME IInv, [Next]_vars PROVE IInv'
  OBVIOUS
<1>1. TypeOK' /\ PoolAccounts' /\ OneOrderForAll' /\ \A b \in Bufs : BufInv(b)'
  BY TypeStep, PoolStep, OrderStep, HoldersStep
<1>2. Positions'
  BY PositionsStep DEF PositionsNext, Positions
<1>3. Lists'
  BY ListsStep DEF ListsNext, Lists, NoneTwice
<1>4. Fronts'
  BY FrontsStep DEF FrontsNext, Fronts
<1>5. Routing'
  BY RoutingStep DEF RoutingNext, Routing
<1>6. QED
  BY <1>1, <1>2, <1>3, <1>4, <1>5 DEF IInv

LEMMA Invariant == Spec => []IInv
BY InitHolds, StepHolds, PTL DEF Spec

\* In every reachable state each variable has its type: no reference count
\* goes below zero, and a pipe's queue holds buffers only.
THEOREM TypeCorrect == Spec => []TypeOK
<1>1. IInv => TypeOK
  BY DEF IInv
<1>2. QED
  BY <1>1, Invariant, PTL

\* A buffer is there, and its count is the number of shared messages of it, as
\* long as a thread or a queue holds one, and exactly one thread deletes it:
\* the atomic count of Pkt.hpp, without a lock, is enough.
THEOREM HoldersAreSafe == Spec => []HoldersKeepTheBuffer
<1>1. ASSUME IInv PROVE HoldersKeepTheBuffer
  <2> SUFFICES ASSUME NEW b \in Bufs
               PROVE  /\ Shares(b) > 0 => b \in heap /\ ref[b] = Shares(b) /\ Owners(b) = {}
                      /\ Owners(b) # {} => b \in heap /\ Cardinality(Owners(b)) = 1
    BY DEF HoldersKeepTheBuffer
  <2>1. BufInv(b)
    BY <1>1 DEF IInv
  <2>2. Shares(b) > 0 => ThreadsSharing(b) # {} \/ QueuesSharing(b) # {}
    BY SharesAreFinite DEF Shares
  <2>3. Owners(b) # {} => Cardinality(Owners(b)) = 1
    BY <2>1, FS_Singleton DEF BufInv
  <2>4. QED
    BY <2>1, <2>2, <2>3 DEF BufInv
<1>2. QED
  BY <1>1, Invariant, PTL

\* A buffer that has room for a message and is out of the pool has a holder,
\* so that send and the pipes never leak one, whoever lets go of it last.
THEOREM NoBufferIsLost == Spec => []NothingIsLost
<1>1. ASSUME IInv PROVE NothingIsLost
  <2> SUFFICES ASSUME NEW b \in heap, size[b] = "Message"
               PROVE  Shares(b) > 0 \/ Owners(b) # {}
    BY DEF NothingIsLost
  <2>1. BufInv(b)
    BY <1>1 DEF IInv, TypeOK, PoolTypeOK
  <2>2. ThreadsSharing(b) # {} \/ QueuesSharing(b) # {} => Shares(b) > 0
    BY SharesAreFinite DEF Shares
  <2>3. QED
    BY <2>1, <2>2 DEF BufInv
<1>2. QED
  BY <1>1, Invariant, PTL

\* The counters of the pool agree with the buffers that are out, for counters
\* of any width and also after they have wrapped.
THEOREM PoolIsAccountedFor == Spec => []PoolAccounts
<1>1. IInv => PoolAccounts
  BY DEF IInv
<1>2. QED
  BY <1>1, Invariant, PTL

\* However many threads send and pipes come and go, two pipes have the messages
\* that both wait with in the same order: lock_ orders whole deliveries.
THEOREM DeliveryIsInOneOrder == Spec => []OneOrderForAll
<1>1. IInv => OneOrderForAll
  BY DEF IInv
<1>2. QED
  BY <1>1, Invariant, PTL

-----------------------------------------------------------------------------
(* Every buffer lives as SharedBuffer says.                                *)

PhaseNext(b)  == PhaseOf(b)'
SharesNext(b) == Shares(b)'

LEMMA HoldersCounted ==
  ASSUME NEW S, NEW Q, S \subseteq Threads, Q \subseteq QueuedPipes
  PROVE  /\ IsFiniteSet(S) /\ IsFiniteSet(Q)
         /\ Cardinality(S) + Cardinality(Q) \in Nat
         /\ S # {} \/ Q # {} <=> Cardinality(S) + Cardinality(Q) > 0
<1>1. IsFiniteSet(Threads) /\ IsFiniteSet(QueuedPipes)
  BY BrokerAssumption, FS_Union DEF Threads
<1>2. IsFiniteSet(S) /\ IsFiniteSet(Q)
  BY <1>1, FS_Subset
<1>3. /\ Cardinality(S) \in Nat /\ Cardinality(Q) \in Nat
      /\ (S = {} <=> Cardinality(S) = 0) /\ (Q = {} <=> Cardinality(Q) = 0)
  BY <1>2, FS_CardinalityType, FS_EmptySet
<1>4. QED
  BY <1>2, <1>3

\* What is known of a buffer's phase from its holders, in one state ...
LEMMA PhaseIs ==
  ASSUME NEW b \in Bufs, BufInv(b)
  PROVE  /\ b \notin heap => PhaseOf(b) = "Pooled" /\ Shares(b) = 0
         /\ ThreadsSharing(b) # {} \/ QueuesSharing(b) # {} =>
              PhaseOf(b) = "Shared" /\ Shares(b) = ref[b] /\ Shares(b) \in Nat \ {0}
         /\ \A t : Owners(b) = {t} =>
              Shares(b) = 0 /\ PhaseOf(b) = IF pc[t] = "Release" THEN "Dying" ELSE "Owned"
<1>1. /\ Shares(b) \in Nat
      /\ ThreadsSharing(b) # {} \/ QueuesSharing(b) # {} <=> Shares(b) > 0
  BY HoldersCounted DEF Shares, ThreadsSharing, QueuesSharing
<1>2. QED
  BY <1>1 DEF BufInv, PhaseOf

\* ... and in the next.
LEMMA PhaseWillBe ==
  ASSUME NEW b \in Bufs, BufInvNext(b)
  PROVE  /\ b \notin heap' => PhaseNext(b) = "Pooled" /\ SharesNext(b) = 0
         /\ SharingNext(b) # {} \/ QueuesNext(b) # {} =>
              PhaseNext(b) = "Shared" /\ SharesNext(b) = ref'[b] /\ SharesNext(b) \in Nat \ {0}
         /\ \A t : OwnersNext(b) = {t} =>
              SharesNext(b) = 0 /\ PhaseNext(b) = IF pc'[t] = "Release" THEN "Dying" ELSE "Owned"
         /\ b \in heap' /\ SharingNext(b) = {} /\ QueuesNext(b) = {} /\ OwnersNext(b) = {} =>
              SharesNext(b) = 0 /\ PhaseNext(b) = "Lost"
<1>1. SharesNext(b) = Cardinality(SharingNext(b)) + Cardinality(QueuesNext(b))
  BY DEF SharesNext, SharingNext, QueuesNext, Shares
<1>2. SharingNext(b) \subseteq Threads /\ QueuesNext(b) \subseteq QueuedPipes
  BY DEF SharingNext, QueuesNext, ThreadsSharing, QueuesSharing
<1>3. /\ SharesNext(b) \in Nat
      /\ SharingNext(b) # {} \/ QueuesNext(b) # {} <=> SharesNext(b) > 0
  BY <1>1, <1>2, HoldersCounted
<1>4. PhaseNext(b) = IF b \notin heap' THEN "Pooled"
                     ELSE IF SharesNext(b) > 0 THEN "Shared"
                     ELSE IF \E t \in OwnersNext(b) : pc'[t] = "Release" THEN "Dying"
                     ELSE IF OwnersNext(b) # {} THEN "Owned"
                     ELSE "Lost"
  BY DEF PhaseNext, PhaseOf, SharesNext, OwnersNext
<1>5. /\ SharingNext(b) # {} \/ QueuesNext(b) # {} =>
           b \in heap' /\ ref'[b] = SharesNext(b) /\ OwnersNext(b) = {}
      /\ OwnersNext(b) # {} => b \in heap'
  BY DEF BufInvNext, BufInv, SharingNext, QueuesNext, OwnersNext, SharesNext
<1>6. QED
  BY <1>3, <1>4, <1>5

\* The steps of SharedBuffer, and none.
Lives(b) == [Buffer(b)!Next]_<<PhaseOf(b), Shares(b), id[b]>>

LEMMA LifeSteps ==
  ASSUME NEW b, id \in [Bufs -> MsgIds], id' \in [Bufs -> MsgIds], b \in Bufs,
         \/ /\ PhaseOf(b) = "Pooled" /\ PhaseNext(b) = "Owned" /\ SharesNext(b) = Shares(b)
         \/ /\ PhaseOf(b) \in {"Owned", "Dying"} /\ PhaseNext(b) = "Pooled"
            /\ SharesNext(b) = Shares(b)
         \/ /\ id'[b] = id[b]
            /\ \/ PhaseOf(b) = "Owned" /\ PhaseNext(b) = "Lost" /\ SharesNext(b) = Shares(b)
               \/ PhaseOf(b) = "Owned" /\ PhaseNext(b) = "Shared" /\ SharesNext(b) = 1
               \/ /\ PhaseOf(b) = "Shared" /\ PhaseNext(b) = "Shared"
                  /\ \/ SharesNext(b) = Shares(b) + 1
                     \/ SharesNext(b) = Shares(b) - 1 /\ Shares(b) # 1
               \/ /\ PhaseOf(b) = "Shared" /\ PhaseNext(b) = "Dying" /\ Shares(b) = 1
                  /\ SharesNext(b) = 0
               \/ PhaseNext(b) = PhaseOf(b) /\ SharesNext(b) = Shares(b)
  PROVE  Lives(b)
<1>1. id'[b] \in MsgIds
  OBVIOUS
<1>2. QED
  BY <1>1 DEF Lives, PhaseNext, SharesNext, Buffer!Next, Buffer!Becomes, Buffer!Take, Buffer!GiveBack,
     Buffer!Lose, Buffer!Share, Buffer!Copy, Buffer!Drop, Buffer!Delete

\* A step of a thread is none of the life of a buffer it does not work with.
LEMMA BystanderStays ==
  ASSUME NEW b \in Bufs, NEW t,
         \A u \in Threads : u # t => pc'[u] = pc[u] /\ buf'[u] = buf[u],
         buf[t] # b, buf'[t] # b,
         QueuesNext(b) = QueuesSharing(b), b \in heap' <=> b \in heap, id'[b] = id[b]
  PROVE  Lives(b)
<1>1. SharingNext(b) = ThreadsSharing(b)
  BY DEF SharingNext, ThreadsSharing
<1>2. /\ OwnersNext(b) = Owners(b)
      /\ \A u \in Owners(b) : pc'[u] = pc[u]
  BY DEF OwnersNext, Owners
<1>3. Shares(b)' = Shares(b)
  BY <1>1 DEF Shares, SharingNext, QueuesNext
<1>4. PhaseOf(b)' = PhaseOf(b)
  BY <1>2, <1>3 DEF PhaseOf, OwnersNext
<1>5. QED
  BY <1>3, <1>4 DEF Lives

\* Allocation: the buffer is new, and its owner's.
LEMMA AllocationLives ==
  ASSUME IInv, IInv', NEW s \in Senders, Send(s) \/ get_message_buf(s), NEW b \in Bufs
  PROVE  Lives(b)
<1>1. PICK c \in Bufs, to \in {"SendBuf", "Held"}, sz \in {"Message", "TooSmall"} :
        ThreadStepWith(s, "Idle", to, c) /\ Allocate(c) /\ Construct(c, sz) /\ UNCHANGED brokerVars
  BY AllocationStep
<1>2. /\ TypeOK /\ TypeOK' /\ s \in Threads /\ BufInv(b) /\ BufInvNext(b)
      /\ buf[s] = NoBuf /\ NoBuf \notin Bufs
  BY <1>1, ThreadKinds, BrokerAssumption DEF IInv, Positions, BufInvNext, ThreadStepWith, ThreadStep
<1>3. /\ pc'[s] = to /\ buf'[s] = c
      /\ \A u \in Threads : u # s => pc'[u] = pc[u] /\ buf'[u] = buf[u]
      /\ c \notin heap /\ heap' = heap \cup {c}
      /\ QueuesNext(b) = QueuesSharing(b)
  BY <1>1, <1>2, OneThreadWith, QueuesStay DEF Allocate, brokerVars
<1>4. \A u \in Threads : u # s => pc'[u] = pc[u] /\ buf'[u] = buf[u]
  BY <1>3
<1>5. CASE b # c
  <2>1. id'[b] = id[b]
    BY <1>1, <1>2, <1>5 DEF Construct, TypeOK
  <2>2. buf[s] # b /\ buf'[s] # b /\ (b \in heap' <=> b \in heap)
    BY <1>2, <1>3, <1>5
  <2>3. QED
    BY <1>3, <1>4, <2>1, <2>2, BystanderStays
<1>6. CASE b = c
  <2>1. s \in OwnersNext(b)
    BY <1>2, <1>3, <1>6 DEF OwnersNext, Owners
  <2>2. PICK t : OwnersNext(b) = {t}
    BY <1>2, <2>1 DEF BufInvNext, BufInv, OwnersNext
  <2>3. t = s /\ pc'[s] # "Release"
    BY <1>3, <2>1, <2>2
  <2>4. PhaseNext(b) = "Owned" /\ SharesNext(b) = 0
    BY <1>2, <2>2, <2>3, PhaseWillBe
  <2>5. PhaseOf(b) = "Pooled" /\ Shares(b) = 0
    BY <1>2, <1>3, <1>6, PhaseIs
  <2>6. QED
    BY <1>2, <2>4, <2>5, LifeSteps DEF TypeOK
<1>7. QED
  BY <1>5, <1>6

\* The deletion, by the owner of an unsent buffer or by whoever dropped the
\* last copy.
LEMMA DeletionLives ==
  ASSUME IInv, IInv', NEW t \in Threads, return_message_buf(t) \/ Release(t), NEW b \in Bufs
  PROVE  Lives(b)
<1>1. /\ pc[t] \in {"Held", "Release"} /\ ThreadStepWith(t, pc[t], "Idle", NoBuf)
      /\ PoolRelease(buf[t]) /\ Destroy(buf[t]) /\ UNCHANGED brokerVars
  BY ReleaseStep
<1>2. /\ TypeOK /\ TypeOK' /\ BufInv(b) /\ BufInvNext(b) /\ NoBuf \notin Bufs
      /\ buf[t] \in Bufs /\ Owners(buf[t]) = {t}
  BY <1>1, OwnedOrShared, BrokerAssumption DEF IInv, BufInvNext, Owning
<1>3. /\ \A u \in Threads : u # t => pc'[u] = pc[u] /\ buf'[u] = buf[u]
      /\ buf'[t] = NoBuf
      /\ QueuesNext(b) = QueuesSharing(b)
  BY <1>1, <1>2, OneThreadWith, QueuesStay DEF brokerVars
<1>4. heap' = heap \ {buf[t]}
  BY <1>1 DEF PoolRelease
<1>5. CASE b # buf[t]
  <2>1. id'[b] = id[b]
    BY <1>1, <1>2, <1>5 DEF Destroy, TypeOK
  <2>2. buf'[t] # b /\ (b \in heap' <=> b \in heap)
    BY <1>2, <1>3, <1>4, <1>5
  <2>3. QED
    BY <1>3, <1>5, <2>1, <2>2, BystanderStays
<1>6. CASE b = buf[t]
  <2>1. PhaseOf(b) \in {"Owned", "Dying"} /\ Shares(b) = 0
    BY <1>2, <1>6, PhaseIs
  <2>2. PhaseNext(b) = "Pooled" /\ SharesNext(b) = 0
    BY <1>2, <1>4, <1>6, PhaseWillBe
  <2>3. QED
    BY <1>2, <2>1, <2>2, LifeSteps DEF TypeOK
<1>7. QED
  BY <1>5, <1>6

\* The steps of a thread with a buffer, up to its deletion.
LEMMA WorkersStep ==
  ASSUME IInv, NEW t \in Threads,
         \/ t \in Senders /\ (CallSendBuf(t) \/ send_buf(t) \/ Lock(t) \/ Receive(t) \/ Unlock(t))
         \/ t \in QueuedPipes /\ (TakeFront(t) \/ PopFront(t))
         \/ Drop(t)
  PROVE  /\ \A u \in Threads : u # t => pc'[u] = pc[u] /\ buf'[u] = buf[u]
         /\ UNCHANGED <<heap, id, size>>
         /\ TakeFront(t) \/ buf'[t] \in {buf[t], NoBuf}
<1>1. TypeOK
  BY DEF IInv
<1>2. CASE CallSendBuf(t)
  BY <1>1, <1>2, OneThread DEF CallSendBuf, poolVars, bufVars
<1>3. CASE send_buf(t)
  BY <1>1, <1>3, OneThread, OneThreadWith DEF send_buf, poolVars, bufVars
<1>4. CASE Lock(t)
  BY <1>1, <1>4, OneThread DEF Lock, poolVars, bufVars
<1>5. CASE Receive(t)
  BY <1>5 DEF Receive, poolVars
<1>6. CASE Unlock(t)
  BY <1>1, <1>6, OneThread DEF Unlock, poolVars, bufVars
<1>7. CASE TakeFront(t)
  BY <1>1, <1>7, OneThreadWith DEF TakeFront, poolVars
<1>8. CASE PopFront(t)
  BY <1>1, <1>8, OneThread DEF PopFront, poolVars
<1>9. CASE Drop(t)
  BY <1>1, <1>9, OneThread, OneThreadWith DEF Drop, poolVars
<1>10. QED
  BY <1>2, <1>3, <1>4, <1>5, <1>6, <1>7, <1>8, <1>9

\* A thread whose buffer it owned or shared before a step, and shares after it.
LEMMA StillSharing ==
  ASSUME IInv, IInv', NEW t \in Threads, NEW b \in Bufs, id'[b] = id[b],
         ThreadsSharing(b) # {} \/ QueuesSharing(b) # {},
         pc'[t] \in Sharing, buf'[t] = b,
         ref'[b] \in {ref[b], ref[b] + 1, ref[b] - 1}
  PROVE  Lives(b)
<1>1. /\ TypeOK /\ TypeOK' /\ BufInv(b) /\ BufInvNext(b)
      /\ t \in SharingNext(b)
  BY DEF IInv, BufInvNext, SharingNext, ThreadsSharing
<1>2. PhaseOf(b) = "Shared" /\ Shares(b) = ref[b] /\ Shares(b) \in Nat \ {0}
  BY <1>1, PhaseIs
<1>3. PhaseNext(b) = "Shared" /\ SharesNext(b) = ref'[b] /\ SharesNext(b) \in Nat \ {0}
  BY <1>1, PhaseWillBe
<1>4. \/ SharesNext(b) = Shares(b) + 1
      \/ SharesNext(b) = Shares(b)
      \/ SharesNext(b) = Shares(b) - 1 /\ Shares(b) # 1
  BY <1>2, <1>3
<1>5. QED
  BY <1>1, <1>2, <1>3, <1>4, LifeSteps DEF TypeOK

\* A sender's steps with its buffer.
LEMMA SenderLives ==
  ASSUME IInv, IInv', NEW s \in Senders, NEW b \in Bufs, b = buf[s], UNCHANGED <<heap, id>>,
         CallSendBuf(s) \/ send_buf(s) \/ Lock(s) \/ Receive(s) \/ Unlock(s)
  PROVE  Lives(b)
<1>1. /\ TypeOK /\ TypeOK' /\ s \in Threads /\ BufInv(b) /\ BufInvNext(b) /\ id'[b] = id[b]
      /\ NoBuf \notin Bufs
  BY ThreadKinds, BrokerAssumption DEF IInv, BufInvNext
<1>2. pc[s] # "Idle"
  BY DEF CallSendBuf, send_buf, Lock, Receive, Unlock, ThreadStep, ThreadStepWith
<1>3. CASE CallSendBuf(s) \/ send_buf(s)
  <2>1. pc[s] \in {"Held", "SendBuf"}
    BY <1>3 DEF CallSendBuf, send_buf, ThreadStep, ThreadStepWith
  <2>2. Owners(b) = {s} /\ ThreadsSharing(b) = {} /\ QueuesSharing(b) = {} /\ b \in heap
    BY <1>1, <1>2, <2>1, OwnedOrShared DEF Owning
  <2>3. PhaseOf(b) = "Owned" /\ Shares(b) = 0
    BY <1>1, <2>1, <2>2, PhaseIs
  <2>4. CASE CallSendBuf(s)
    <3>1. pc'[s] = "SendBuf" /\ buf'[s] = b
      BY <1>1, <2>4, OneThread DEF CallSendBuf
    <3>2. s \in OwnersNext(b)
      BY <1>1, <3>1 DEF OwnersNext, Owners
    <3>3. OwnersNext(b) = {s}
      BY <1>1, <3>2 DEF BufInvNext, BufInv, OwnersNext
    <3>4. PhaseNext(b) = "Owned" /\ SharesNext(b) = 0
      BY <1>1, <3>1, <3>3, PhaseWillBe
    <3>5. QED
      BY <1>1, <2>3, <3>4, LifeSteps DEF TypeOK
  <2>5. CASE send_buf(s) /\ size[b] = "Message"
    <3>1. pc'[s] = "Lock" /\ buf'[s] = b /\ ref'[b] = 1
      BY <1>1, <2>5, OneThread DEF send_buf, TypeOK
    <3>2. s \in SharingNext(b)
      BY <1>1, <3>1 DEF SharingNext, ThreadsSharing, Sharing
    <3>3. PhaseNext(b) = "Shared" /\ SharesNext(b) = 1
      BY <1>1, <3>1, <3>2, PhaseWillBe
    <3>4. QED
      BY <1>1, <2>3, <3>3, LifeSteps DEF TypeOK
  <2>6. CASE send_buf(s) /\ size[b] # "Message"
    <3>1. Moves(s, "Idle", NoBuf) /\ queue' = queue
      BY <2>6 DEF send_buf, ThreadStepWith, ThreadStep, Moves, brokerVars
    <3>2. NoBuf # b
      BY <1>1
    <3>3. SharingNext(b) = ThreadsSharing(b) \ {s} /\ OwnersNext(b) = Owners(b) \ {s}
      BY <1>1, <3>1, <3>2, ThreadLeaves
    <3>4. SharingNext(b) = {} /\ OwnersNext(b) = {} /\ QueuesNext(b) = {} /\ b \in heap'
      BY <2>2, <3>1, <3>3, QueuesStay
    <3>5. PhaseNext(b) = "Lost" /\ SharesNext(b) = 0
      BY <1>1, <3>4, PhaseWillBe
    <3>6. QED
      BY <1>1, <2>3, <3>5, LifeSteps DEF TypeOK
  <2>7. QED
    BY <1>3, <2>4, <2>5, <2>6
<1>4. CASE Lock(s) \/ Receive(s) \/ Unlock(s)
  <2>1. /\ pc[s] \in Sharing /\ pc'[s] \in Sharing /\ buf'[s] = b
        /\ ref'[b] \in {ref[b], ref[b] + 1}
    <3>1. CASE Lock(s) \/ Unlock(s)
      BY <1>1, <3>1, OneThread DEF Lock, Unlock, bufVars, Sharing
    <3>2. CASE Receive(s)
      BY <1>1, <3>2 DEF Receive, Sharing, TypeOK
    <3>3. QED
      BY <1>4, <3>1, <3>2
  <2>2. s \in ThreadsSharing(b)
    BY <1>1, <2>1 DEF ThreadsSharing
  <2>3. QED
    BY <1>1, <2>1, <2>2, StillSharing
<1>5. QED
  BY <1>3, <1>4

\* A pipe's thread takes a copy of the front, which the queue holds, and drops
\* the queue's when it has processed the message.
LEMMA ConsumerLives ==
  ASSUME IInv, IInv', NEW p \in QueuedPipes, NEW b \in Bufs, b = buf'[p], UNCHANGED <<heap, id>>,
         TakeFront(p) \/ PopFront(p)
  PROVE  Lives(b)
<1>1. TypeOK /\ p \in Threads /\ id'[b] = id[b]
  BY ThreadKinds DEF IInv
<1>2. CASE TakeFront(p)
  <2>1. /\ queue[p] # <<>> /\ b = Head(queue[p]) /\ pc'[p] = "Process"
        /\ ref'[b] = ref[b] + 1
    BY <1>1, <1>2, OneThreadWith DEF TakeFront, TypeOK
  <2>2. Contains(queue[p], b)
    <3>1. queue[p] \in Seq(Bufs)
      BY <1>1 DEF TypeOK
    <3>2. 1 \in DOMAIN queue[p] /\ queue[p][1] = b
      BY <2>1, <3>1
    <3>3. QED
      BY <3>1, <3>2 DEF Contains
  <2>3. p \in QueuesSharing(b)
    BY <2>2 DEF QueuesSharing
  <2>4. QED
    BY <1>1, <2>1, <2>3, StillSharing DEF Sharing
<1>3. CASE PopFront(p)
  <2>1. pc[p] = "Process" /\ pc'[p] = "Drop" /\ buf' = buf
    BY <1>1, <1>3, OneThread DEF PopFront
  <2>2. Head(queue[p]) = b
    BY <2>1 DEF IInv, Fronts
  <2>3. ref'[b] = ref[b] - 1
    BY <1>1, <1>3, <2>2 DEF PopFront, TypeOK
  <2>4. p \in ThreadsSharing(b)
    BY <1>1, <2>1 DEF ThreadsSharing, Sharing
  <2>5. QED
    BY <1>1, <2>1, <2>3, <2>4, StillSharing DEF Sharing
<1>4. QED
  BY <1>2, <1>3

\* The copy that is dropped is the last one exactly when the count is one.
LEMMA DropLives ==
  ASSUME IInv, IInv', NEW t \in Threads, NEW b \in Bufs, b = buf[t], UNCHANGED <<heap, id>>, Drop(t)
  PROVE  Lives(b)
<1>1. /\ TypeOK /\ TypeOK' /\ BufInv(b) /\ BufInvNext(b) /\ id'[b] = id[b] /\ NoBuf \notin Bufs
      /\ pc[t] = "Drop" /\ queue' = queue
  BY BrokerAssumption DEF IInv, BufInvNext, Drop, ThreadStep, ThreadStepWith, brokerVars
<1>2. t \in ThreadsSharing(b)
  BY <1>1 DEF ThreadsSharing, Sharing
<1>3. PhaseOf(b) = "Shared" /\ Shares(b) = ref[b] /\ Shares(b) \in Nat \ {0}
  BY <1>1, <1>2, PhaseIs
<1>4. CASE ref[b] = 1
  <2>1. pc'[t] = "Release" /\ buf'[t] = b
    BY <1>1, <1>4, OneThread DEF Drop
  <2>2. t \in OwnersNext(b)
    BY <1>1, <2>1 DEF OwnersNext, Owners
  <2>3. OwnersNext(b) = {t}
    BY <1>1, <2>2 DEF BufInvNext, BufInv, OwnersNext
  <2>4. PhaseNext(b) = "Dying" /\ SharesNext(b) = 0
    BY <1>1, <2>1, <2>3, PhaseWillBe
  <2>5. QED
    BY <1>1, <1>3, <1>4, <2>4, LifeSteps DEF TypeOK
<1>5. CASE ref[b] # 1
  <2>1. Moves(t, "Idle", NoBuf)
    BY <1>1, <1>5 DEF Drop, ThreadStepWith, ThreadStep, Moves
  <2>2. NoBuf # b
    BY <1>1
  <2>3. SharingNext(b) = ThreadsSharing(b) \ {t} /\ QueuesNext(b) = QueuesSharing(b)
    BY <1>1, <2>1, <2>2, ThreadLeaves, QueuesStay
  <2>4. Cardinality(SharingNext(b)) = Cardinality(ThreadsSharing(b)) - 1
    BY <1>2, <2>3, SharesAreFinite, FS_RemoveElement
  <2>5. SharesNext(b) = Shares(b) - 1
    BY <2>3, <2>4, SharesAreFinite DEF SharesNext, Shares, SharingNext, QueuesNext
  <2>6. Shares(b) > 1
    BY <1>3, <1>5
  <2>7. SharingNext(b) # {} \/ QueuesNext(b) # {}
    <3>1. SharesNext(b) = Cardinality(SharingNext(b)) + Cardinality(QueuesNext(b))
      BY DEF SharesNext, Shares, SharingNext, QueuesNext
    <3>2. SharesNext(b) # 0
      BY <1>3, <2>5, <2>6
    <3>3. QED
      BY <3>1, <3>2, FS_EmptySet
  <2>8. PhaseNext(b) = "Shared"
    BY <1>1, <2>7, PhaseWillBe
  <2>9. Shares(b) # 1 /\ id \in [Bufs -> MsgIds] /\ id' \in [Bufs -> MsgIds]
    BY <1>1, <1>3, <1>5 DEF TypeOK
  <2>10. QED
    BY <1>1, <1>3, <2>5, <2>8, <2>9, LifeSteps
<1>6. QED
  BY <1>4, <1>5

\* What a thread does to its own buffer it does to no other queue's content.
LEMMA OtherBuffersInQueues ==
  ASSUME IInv, NEW t \in Threads, NEW b \in Bufs, buf[t] # b, buf'[t] # b,
         \/ t \in Senders /\ (CallSendBuf(t) \/ send_buf(t) \/ Lock(t) \/ Receive(t) \/ Unlock(t))
         \/ t \in QueuedPipes /\ (TakeFront(t) \/ PopFront(t))
         \/ Drop(t)
  PROVE  QueuesNext(b) = QueuesSharing(b)
<1>1. TypeOK
  BY DEF IInv
<1>2. CASE queue' = queue
  BY <1>2, QueuesStay
<1>3. CASE t \in Senders /\ Receive(t) /\ queue' # queue
  <2>1. PICK q \in QueuedPipes : QueueBecomes(q, Append(queue[q], buf[t]))
    BY <1>3, ReceiveCases
  <2>2. \A p \in QueuedPipes : Contains(queue'[p], b) <=> Contains(queue[p], b)
    <3>1. ASSUME NEW p \in QueuedPipes
          PROVE  Contains(queue'[p], b) <=> Contains(queue[p], b)
      <4>1. CASE p = q
        <5>1. buf[t] \in Bufs /\ queue[p] \in Seq(Bufs)
          BY <1>1, <1>3, ReceiveCases DEF TypeOK
        <5>2. queue'[p] = Append(queue[p], buf[t])
          BY <1>1, <2>1, <4>1 DEF QueueBecomes, TypeOK
        <5>3. QED
          BY <5>1, <5>2, ContainsAppend
      <4>2. CASE p # q
        BY <1>1, <2>1, <4>2 DEF QueueBecomes, TypeOK
      <4>3. QED
        BY <4>1, <4>2
    <3>2. QED
      BY <3>1
  <2>3. QED
    BY <2>2 DEF QueuesNext, QueuesSharing
<1>4. CASE t \in QueuedPipes /\ PopFront(t)
  <2>1. /\ queue' = [queue EXCEPT ![t] = Tail(queue[t])] /\ pc[t] = "Process"
        /\ queue[t] # <<>> /\ Head(queue[t]) = buf[t] /\ queue[t] \in Seq(Bufs)
        /\ NoneTwice(queue[t])
    BY <1>1, <1>4 DEF PopFront, ThreadStep, IInv, Fronts, Lists, TypeOK
  <2>2. Contains(Tail(queue[t]), b) <=> Contains(queue[t], b)
    BY <2>1, ContainsTail
  <2>3. QED
    BY <1>1, <2>1, <2>2 DEF QueuesNext, QueuesSharing, TypeOK
<1>5. QED
  BY <1>2, <1>3, <1>4 DEF CallSendBuf, send_buf, Lock, Unlock, TakeFront, Drop, brokerVars

LEMMA WorkersLive ==
  ASSUME IInv, IInv', NEW t \in Threads, NEW b \in Bufs,
         \/ t \in Senders /\ (CallSendBuf(t) \/ send_buf(t) \/ Lock(t) \/ Receive(t) \/ Unlock(t))
         \/ t \in QueuedPipes /\ (TakeFront(t) \/ PopFront(t))
         \/ Drop(t)
  PROVE  Lives(b)
<1>1. /\ \A u \in Threads : u # t => pc'[u] = pc[u] /\ buf'[u] = buf[u]
      /\ UNCHANGED <<heap, id, size>>
      /\ TakeFront(t) \/ buf'[t] \in {buf[t], NoBuf}
  BY WorkersStep
<1>2. NoBuf \notin Bufs
  BY BrokerAssumption
<1>3. CASE buf[t] # b /\ buf'[t] # b
  <2>1. QueuesNext(b) = QueuesSharing(b)
    BY <1>3, OtherBuffersInQueues
  <2>2. b \in heap' <=> b \in heap
    BY <1>1
  <2>3. QED
    BY <1>1, <1>3, <2>1, <2>2, BystanderStays
<1>4. CASE buf[t] = b \/ buf'[t] = b
  <2>1. CASE t \in Senders /\ (CallSendBuf(t) \/ send_buf(t) \/ Lock(t) \/ Receive(t) \/ Unlock(t))
    <3>1. ~TakeFront(t)
      BY <2>1 DEF TakeFront, ThreadStepWith, ThreadStep, CallSendBuf, send_buf, Lock, Receive, Unlock
    <3>2. buf[t] = b
      BY <1>1, <1>2, <1>4, <3>1
    <3>3. QED
      BY <1>1, <2>1, <3>2, SenderLives
  <2>2. CASE t \in QueuedPipes /\ (TakeFront(t) \/ PopFront(t))
    <3>1. CASE TakeFront(t)
      <4>1. pc[t] = "Idle"
        BY <3>1 DEF TakeFront, ThreadStepWith, ThreadStep
      <4>2. buf'[t] = b
        BY <1>2, <1>4, <4>1 DEF IInv, Positions
      <4>3. QED
        BY <1>1, <2>2, <4>2, ConsumerLives
    <3>2. CASE PopFront(t)
      BY <1>1, <1>4, <2>2, <3>2, ConsumerLives DEF PopFront
    <3>3. QED
      BY <2>2, <3>1, <3>2
  <2>3. CASE Drop(t)
    <3>1. ~TakeFront(t)
      BY <2>3 DEF TakeFront, ThreadStepWith, ThreadStep, Drop
    <3>2. buf[t] = b
      BY <1>1, <1>2, <1>4, <3>1
    <3>3. QED
      BY <1>1, <2>3, <3>2, DropLives
  <2>4. QED
    BY <2>1, <2>2, <2>3
<1>5. QED
  BY <1>3, <1>4

LEMMA EveryStepLives ==
  ASSUME IInv, IInv', [Next]_vars, NEW b \in Bufs
  PROVE  Lives(b)
<1>1. CASE PipeStep \/ UNCHANGED vars
  <2>1. UNCHANGED <<pc, buf, queue, heap, id>>
    BY <1>1 DEF PipeStep, register_pipe, unregister_pipe, subscribe, unsubscribe,
                vars, poolVars, bufVars, threadVars, brokerVars
  <2>2. Shares(b)' = Shares(b) /\ PhaseOf(b)' = PhaseOf(b) /\ id'[b] = id[b]
    BY <2>1 DEF Shares, ThreadsSharing, QueuesSharing, PhaseOf, Owners
  <2>3. QED
    BY <2>2 DEF Lives
<1>2. QED
  BY <1>1, Steps, ThreadKinds, AllocationLives, DeletionLives, WorkersLive

LEMMA LifeBegins ==
  ASSUME Init, NEW b \in Bufs
  PROVE  Buffer(b)!Init
<1>1. IInv /\ b \notin heap /\ id[b] \in MsgIds
  BY InitHolds DEF IInv, TypeOK, Init, PoolInit
<1>2. PhaseOf(b) = "Pooled" /\ Shares(b) = 0
  BY <1>1, PhaseIs DEF IInv
<1>3. QED
  BY <1>1, <1>2 DEF Buffer!Init

\* Refinement: under any number of senders, pipes and handlers every buffer of
\* the pool lives as SharedBuffer says. A message that is shared is not written
\* again, and only whoever drops the last copy deletes it (Broker.hpp:202-209).
THEOREM BuffersImplementTheirLife == Spec => BuffersAreShared
<1>1. Init => \A b \in Bufs : Buffer(b)!Init
  BY LifeBegins
<1>2. IInv /\ IInv' /\ [Next]_vars
        => [\A b \in Bufs : [Buffer(b)!Next]_<<PhaseOf(b), Shares(b), id[b]>>]_vars
  BY EveryStepLives DEF Lives
<1>3. QED
  BY <1>1, <1>2, Invariant, PTL DEF Spec, BuffersAreShared


\* What every handler relies on: as long as anybody has a copy of a message, the
\* message in the buffer stays what it was, although the buffers are reused and
\* nobody who reads holds a lock.
SharedMessagesStay ==
  [][\A b \in Bufs : Shares(b) > 0 /\ Shares(b)' > 0 => id'[b] = id[b]]_vars

\* No step replaces a message that is shared before and after it
\* (Pkt.hpp:12-22, Broker.cpp:19-32).
THEOREM ReadersSeeOneMessage == Spec => SharedMessagesStay
<1>1. ASSUME IInv, IInv', [Next]_vars, NEW b \in Bufs, Shares(b) > 0, SharesNext(b) > 0
      PROVE  id'[b] = id[b]
  <2>1. Lives(b) /\ BufInv(b) /\ BufInvNext(b)
    BY <1>1, EveryStepLives DEF IInv, BufInvNext
  <2>2. ThreadsSharing(b) # {} \/ QueuesSharing(b) # {}
    BY <1>1, SharesAreFinite DEF Shares
  <2>3. PhaseOf(b) = "Shared"
    BY <2>1, <2>2, PhaseIs
  <2>4. SharingNext(b) # {} \/ QueuesNext(b) # {}
    <3>1. SharesNext(b) = Cardinality(SharingNext(b)) + Cardinality(QueuesNext(b))
      BY DEF SharesNext, Shares, SharingNext, QueuesNext
    <3>2. QED
      BY <1>1, <3>1, FS_EmptySet
  <2>5. PhaseOf(b)' = "Shared"
    BY <2>1, <2>4, PhaseWillBe DEF PhaseNext
  <2>6. QED
    BY <2>1, <2>3, <2>5
       DEF Lives, Buffer!Next, Buffer!Becomes, Buffer!Take, Buffer!GiveBack, Buffer!Lose, Buffer!Share,
           Buffer!Copy, Buffer!Drop, Buffer!Delete
<1>2. IInv /\ IInv' /\ [Next]_vars
        => [\A b \in Bufs : Shares(b) > 0 /\ Shares(b)' > 0 => id'[b] = id[b]]_vars
  BY <1>1 DEF SharesNext
<1>3. QED
  BY <1>2, Invariant, PTL DEF Spec, SharedMessagesStay

=============================================================================
