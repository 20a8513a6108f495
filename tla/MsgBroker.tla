------------------------------ MODULE MsgBroker ------------------------------
(***************************************************************************)
(* The message broker with the pool its buffers come from, the threads     *)
(* that send through it and the pipes it delivers to. A message is written *)
(* once, into a buffer of the pool, and routed by reference: every holder  *)
(* has a shared_message, and the one that drops the last one returns the   *)
(* buffer.                                                                 *)
(*                                                                         *)
(* Two kinds of pipe: a direct one handles the message inside receive; a   *)
(* queued one keeps a shared_message in a bounded queue, which a thread of *)
(* its own works off later. etl::message_broker and etl::shared_message    *)
(* are not part of the source tree and are modelled from their use. The    *)
(* copies of the shared_message that receive and each router take by value *)
(* live and die while sm of send_buf holds the buffer and are not counted. *)
(*                                                                         *)
(* Assumed of the program: nobody uses a buffer after handing it to        *)
(* send_buf or return_message_buf (Broker.hpp:202, 231-236), a handler     *)
(* does not call the broker it is called from, and a pipe's list of        *)
(* message IDs is not resized while the broker reads it.                   *)
(***************************************************************************)
EXTENDS MsgBufPool, SequencesExt

CONSTANTS
  Senders,      \* threads that call the broker
  QueuedPipes,  \* pipes with a queue, and the threads that work it off
  DirectPipes,  \* pipes that handle a message at once
  MsgIds,       \* message IDs in use
  Depth,        \* capacity of a pipe's queue
  NoBuf,        \* a null Buf*
  NoThread      \* the owner of a free mutex

ASSUME BrokerAssumption ==
  /\ IsFiniteSet(Senders) /\ IsFiniteSet(QueuedPipes)
  /\ Senders \cap QueuedPipes = {}
  /\ MsgIds # {}
  /\ Depth \in Nat
  /\ NoBuf \notin Bufs
  /\ NoThread \notin Senders

VARIABLES
  lock_,    \* owner of Broker::lock_
  routers,  \* the registered pipes, in the order of the broker's list
  ids,      \* ids[p]: the message IDs pipe p is subscribed to
  queue,    \* queue[p]: the shared messages in queued pipe p, oldest first
  size,     \* size[b]: whether msg_sz_ has room for an iBaseMsg
  id,       \* id[b]: the ID of the message in b
  ref,      \* ref[b]: ref_count_
  pc,       \* pc[t]: where thread t is
  buf,      \* buf[t]: the buffer thread t works with
  next      \* next[t]: the position in routers that receive has come to

brokerVars == <<lock_, routers, ids, queue>>
bufVars    == <<size, id, ref>>
threadVars == <<pc, buf, next>>
vars       == <<poolVars, brokerVars, bufVars, threadVars>>

Pipes   == QueuedPipes \cup DirectPipes
Threads == Senders \cup QueuedPipes

SenderPC   == {"Idle", "Held", "SendBuf", "Lock", "Receive", "Drop", "Release"}
ConsumerPC == {"Idle", "Process", "Drop", "Release"}

TypeOK ==
  /\ PoolTypeOK
  /\ lock_ \in Senders \cup {NoThread}
  /\ routers \in Seq(Pipes)
  /\ ids \in [Pipes -> SUBSET MsgIds]
  /\ queue \in [QueuedPipes -> Seq(Bufs)]
  /\ size \in [Bufs -> {"Message", "TooSmall"}]
  /\ id \in [Bufs -> MsgIds]
  /\ ref \in [Bufs -> Nat]
  /\ pc \in [Threads -> SenderPC \cup ConsumerPC]
  /\ buf \in [Threads -> Bufs \cup {NoBuf}]
  /\ next \in [Senders -> Nat]

AnyId == CHOOSE i \in MsgIds : TRUE

Init ==
  /\ PoolInit
  /\ lock_ = NoThread
  /\ routers = <<>>
  /\ ids = [p \in Pipes |-> {}]
  /\ queue = [p \in QueuedPipes |-> <<>>]
  /\ size = [b \in Bufs |-> "Message"]
  /\ id = [b \in Bufs |-> AnyId]
  /\ ref = [b \in Bufs |-> 0]
  /\ pc = [t \in Threads |-> "Idle"]
  /\ buf = [t \in Threads |-> NoBuf]
  /\ next = [s \in Senders |-> 1]

ThreadStep(t, from, to) ==
  /\ pc[t] = from
  /\ pc' = [pc EXCEPT ![t] = to]

ThreadStepWith(t, from, to, b) ==
  /\ ThreadStep(t, from, to)
  /\ buf' = [buf EXCEPT ![t] = b]
  /\ UNCHANGED next

-----------------------------------------------------------------------------
(* Buffers.                                                                *)

\* The Buf in b is constructed, with a reference count of one.
Construct(b, sz) ==
  /\ size' = [size EXCEPT ![b] = sz]
  /\ \E i \in MsgIds : id' = [id EXCEPT ![b] = i]
  /\ ref' = [ref EXCEPT ![b] = 1]

\* What was in the memory of b is gone.
Destroy(b) ==
  /\ size' = [size EXCEPT ![b] = "Message"]
  /\ id' = [id EXCEPT ![b] = AnyId]
  /\ ref' = [ref EXCEPT ![b] = 0]

\* send: the buffer is allocated and the message written into it. When the
\* pool is exhausted send counts the failure and nothing else happens.
Send(s) == \E b \in Bufs :
  /\ ThreadStepWith(s, "Idle", "SendBuf", b)
  /\ Allocate(b)
  /\ Construct(b, "Message")
  /\ UNCHANGED brokerVars

\* get_message_buf, of whatever size, and the caller writing a message into it.
get_message_buf(s) == \E b \in Bufs, sz \in {"Message", "TooSmall"} :
  /\ ThreadStepWith(s, "Idle", "Held", b)
  /\ Allocate(b)
  /\ Construct(b, sz)
  /\ UNCHANGED brokerVars

return_message_buf(s) ==
  /\ ThreadStepWith(s, "Held", "Idle", NoBuf)
  /\ PoolRelease(buf[s])
  /\ Destroy(buf[s])
  /\ UNCHANGED brokerVars

\* The caller of get_message_buf calls send_buf.
CallSendBuf(s) ==
  /\ ThreadStep(s, "Held", "SendBuf")
  /\ UNCHANGED <<poolVars, brokerVars, bufVars, buf, next>>

\* As send_buf, counting sm on top of the one a buffer is constructed with.
send_buf_counted_twice(s) ==
  \/ /\ ThreadStep(s, "SendBuf", "Lock")
     /\ size[buf[s]] = "Message"
     /\ ref' = [ref EXCEPT ![buf[s]] = @ + 1]
     /\ UNCHANGED <<poolVars, brokerVars, size, id, buf, next>>
  \/ /\ ThreadStepWith(s, "SendBuf", "Idle", NoBuf)
     /\ size[buf[s]] = "TooSmall"
     /\ UNCHANGED <<poolVars, brokerVars, bufVars>>

\* send_buf makes the shared message sm, which sets the count to one. A
\* buffer too small for a message is neither sent nor returned.
send_buf(s) ==
  \/ /\ ThreadStep(s, "SendBuf", "Lock")
     /\ size[buf[s]] = "Message"
     /\ ref' = [ref EXCEPT ![buf[s]] = 1]
     /\ UNCHANGED <<poolVars, brokerVars, size, id, buf, next>>
  \/ /\ ThreadStepWith(s, "SendBuf", "Idle", NoBuf)
     /\ size[buf[s]] = "TooSmall"
     /\ UNCHANGED <<poolVars, brokerVars, bufVars>>

\* As Lock, without the mutex.
LockNothing(s) ==
  /\ ThreadStep(s, "Lock", "Receive")
  /\ lock_' = s
  /\ UNCHANGED <<poolVars, routers, ids, queue, bufVars, buf, next>>

Lock(s) ==
  /\ ThreadStep(s, "Lock", "Receive")
  /\ lock_ = NoThread
  /\ lock_' = s
  /\ UNCHANGED <<poolVars, routers, ids, queue, bufVars, buf, next>>

\* As Receive, without the count of the queue's shared message.
ReceiveUncounted(s) ==
  /\ pc[s] = "Receive"
  /\ next[s] \in DOMAIN routers
  /\ next' = [next EXCEPT ![s] = @ + 1]
  /\ LET p == routers[next[s]]
         Keep == id[buf[s]] \in ids[p] /\ p \in QueuedPipes /\ Len(queue[p]) < Depth
     IN  queue' = IF Keep THEN [queue EXCEPT ![p] = Append(@, buf[s])] ELSE queue
  /\ UNCHANGED <<poolVars, lock_, routers, ids, bufVars, pc, buf>>

\* The message goes to the next router of the list, if that is subscribed. A
\* queued pipe with room keeps a copy of the shared message; a full one drops
\* it; a direct one is through with it when its handler returns.
Receive(s) ==
  /\ pc[s] = "Receive"
  /\ next[s] \in DOMAIN routers
  /\ next' = [next EXCEPT ![s] = @ + 1]
  /\ LET p == routers[next[s]]
         Keep == id[buf[s]] \in ids[p] /\ p \in QueuedPipes /\ Len(queue[p]) < Depth
     IN  /\ queue' = IF Keep THEN [queue EXCEPT ![p] = Append(@, buf[s])] ELSE queue
         /\ ref' = IF Keep THEN [ref EXCEPT ![buf[s]] = @ + 1] ELSE ref
  /\ UNCHANGED <<poolVars, lock_, routers, ids, size, id, pc, buf>>

\* receive has come to the end of the list.
Unlock(s) ==
  /\ next[s] \notin DOMAIN routers
  /\ ThreadStep(s, "Receive", "Drop")
  /\ lock_' = NoThread
  /\ next' = [next EXCEPT ![s] = 1]
  /\ UNCHANGED <<poolVars, routers, ids, queue, bufVars, buf>>

-----------------------------------------------------------------------------
(* A queued pipe's own thread.                                             *)

\* As TakeFront, working with the queue's shared message itself.
TakeFrontUncopied(p) ==
  /\ queue[p] # <<>>
  /\ ThreadStepWith(p, "Idle", "Process", Head(queue[p]))
  /\ UNCHANGED <<poolVars, brokerVars, size, id, ref>>

\* It copies the shared message at the front ...
TakeFront(p) ==
  /\ queue[p] # <<>>
  /\ ThreadStepWith(p, "Idle", "Process", Head(queue[p]))
  /\ ref' = [ref EXCEPT ![Head(queue[p])] = @ + 1]
  /\ UNCHANGED <<poolVars, brokerVars, size, id>>

\* ... and, when the message is processed, pops the one in the queue.
PopFront(p) ==
  /\ ThreadStep(p, "Process", "Drop")
  /\ queue' = [queue EXCEPT ![p] = Tail(@)]
  /\ ref' = [ref EXCEPT ![Head(queue[p])] = @ - 1]
  /\ UNCHANGED <<poolVars, lock_, routers, ids, size, id, buf, next>>

-----------------------------------------------------------------------------
(* The end of a shared message, the sender's or the pipe's.                *)

\* ~shared_message: whoever brings the count to zero releases the buffer.
Drop(t) ==
  /\ \/ /\ ThreadStep(t, "Drop", "Release")
        /\ ref[buf[t]] = 1
        /\ UNCHANGED <<buf, next>>
     \/ /\ ThreadStepWith(t, "Drop", "Idle", NoBuf)
        /\ ref[buf[t]] # 1
  /\ ref' = [ref EXCEPT ![buf[t]] = @ - 1]
  /\ UNCHANGED <<poolVars, brokerVars, size, id>>

Release(t) ==
  /\ ThreadStepWith(t, "Release", "Idle", NoBuf)
  /\ PoolRelease(buf[t])
  /\ Destroy(buf[t])
  /\ UNCHANGED brokerVars

-----------------------------------------------------------------------------
(* Pipes come and go.                                                      *)

\* A subscription of the same router is replaced, so that a pipe is in the
\* list at most once.
register_pipe(p) ==
  /\ lock_ = NoThread
  /\ routers' = IF Contains(routers, p) THEN routers ELSE Append(routers, p)
  /\ UNCHANGED <<poolVars, lock_, ids, queue, bufVars, threadVars>>

unregister_pipe(p) ==
  /\ lock_ = NoThread
  /\ \E n \in DOMAIN routers : routers[n] = p /\ routers' = RemoveAt(routers, n)
  /\ UNCHANGED <<poolVars, lock_, ids, queue, bufVars, threadVars>>

\* iPipe::subscribe and unsubscribe take no lock.
subscribe(p, i) ==
  /\ ids' = [ids EXCEPT ![p] = @ \cup {i}]
  /\ UNCHANGED <<poolVars, lock_, routers, queue, bufVars, threadVars>>

unsubscribe(p, i) ==
  /\ ids' = [ids EXCEPT ![p] = @ \ {i}]
  /\ UNCHANGED <<poolVars, lock_, routers, queue, bufVars, threadVars>>

\* A thread goes on with a call it has begun.
Continue(t) ==
  \/ /\ t \in Senders
     /\ send_buf(t) \/ Lock(t) \/ Receive(t) \/ Unlock(t)
  \/ t \in QueuedPipes /\ PopFront(t)
  \/ Drop(t)
  \/ Release(t)

Next ==
  \/ \E s \in Senders :
       Send(s) \/ get_message_buf(s) \/ return_message_buf(s) \/ CallSendBuf(s)
  \/ \E t \in Threads : Continue(t)
  \/ \E p \in QueuedPipes : TakeFront(p)
  \/ \E p \in Pipes : register_pipe(p) \/ unregister_pipe(p)
  \/ \E p \in Pipes, i \in MsgIds : subscribe(p, i) \/ unsubscribe(p, i)

Spec == Init /\ [][Next]_vars

\* A call that was begun goes on, except that nothing is promised to a thread
\* that waits for lock_, which other senders may take first for ever; and a
\* pipe's thread works its queue off. Nobody is obliged to send.
FairSpec ==
  /\ Spec
  /\ \A t \in Threads : WF_vars(Continue(t))
  /\ \A p \in QueuedPipes : WF_vars(TakeFront(p))

-----------------------------------------------------------------------------
(* Properties.                                                             *)

\* The threads and the queues that hold a shared message of b.
Sharing == {"Lock", "Receive", "Process", "Drop"}
ThreadsSharing(b) == {t \in Threads : buf[t] = b /\ pc[t] \in Sharing}
QueuesSharing(b)  == {p \in QueuedPipes : Contains(queue[p], b)}
Shares(b) == Cardinality(ThreadsSharing(b)) + Cardinality(QueuesSharing(b))

\* The threads that have b to themselves: it is not sent yet, or it is about to
\* be deleted.
Owners(b) == {t \in Threads : buf[t] = b /\ pc[t] \in {"Held", "SendBuf", "Release"}}

\* The count of a buffer is passed from thread to thread without a lock
\* (Pkt.hpp:12-22, 73-77). It is the number of shared messages of that buffer,
\* so that no thread and no queue holds a buffer that is deleted, and of all
\* the threads that let go of it exactly one deletes it, when nobody else
\* has it.
HoldersKeepTheBuffer ==
  \A b \in Bufs :
    /\ Shares(b) > 0 => b \in heap /\ ref[b] = Shares(b) /\ Owners(b) = {}
    /\ Owners(b) # {} => b \in heap /\ Cardinality(Owners(b)) = 1

\* A buffer with room for a message is either held by somebody, who will let go
\* of it, or back in the pool: whichever way the receivers and the sender drop
\* it, and also when no pipe or only full ones were subscribed (Broker.hpp:207).
NothingIsLost ==
  \A b \in heap : size[b] = "Message" => Shares(b) > 0 \/ Owners(b) # {}

\* Where a buffer is in its life.
PhaseOf(b) ==
  IF b \notin heap THEN "Pooled"
  ELSE IF Shares(b) > 0 THEN "Shared"
  ELSE IF \E t \in Owners(b) : pc[t] = "Release" THEN "Dying"
  ELSE IF Owners(b) # {} THEN "Owned"
  ELSE "Lost"

Buffer(b) ==
  INSTANCE SharedBuffer WITH phase <- PhaseOf(b), copies <- Shares(b), msg <- id[b], Msgs <- MsgIds

\* Refinement: whatever the threads do to each other, every buffer lives as
\* SharedBuffer says. What a handler reads is what was sent, until the last
\* handler is through with it, and it is deleted once (Broker.hpp:202-209,
\* Pkt.hpp:12-22).
BuffersAreShared ==
  /\ \A b \in Bufs : Buffer(b)!Init
  /\ [][\A b \in Bufs : [Buffer(b)!Next]_<<PhaseOf(b), Shares(b), id[b]>>]_vars

\* The pool has no list of its buffers, only counters that operations on two
\* paths change (Pool.cpp:15-45, 81-120): they agree with each other and with
\* the heap, and the pool never has more buffers out than it is made for.
PoolAccounts ==
  /\ ItemsInUse = Cardinality(heap)
  /\ ItemsInUse <= WaterMark
  /\ WaterMark <= NumItems
  /\ AllocCount = (ReleaseCount + ItemsInUse) % CounterLimit

\* A pipe gets a message at most once, however often it registers while
\* messages are sent, and pipes that both have two messages waiting have them
\* in the same order, whatever threads sent them (Broker.cpp:24-26).
OneOrderForAll ==
  \A p, q \in QueuedPipes :
    \A i, j \in DOMAIN queue[p], k, l \in DOMAIN queue[q] :
      queue[p][i] = queue[q][k] /\ queue[p][j] = queue[q][l] => (i < j <=> k < l)

\* A buffer that routing has begun with comes back to the pool.
SentBuffersComeBack ==
  \A b \in Bufs :
    (QueuesSharing(b) # {} \/ \E s \in Senders : buf[s] = b /\ pc[s] \in {"Receive", "Drop"})
      ~> (b \notin heap)

=============================================================================
