-------------------------- MODULE BlockingMsgQueue --------------------------
(***************************************************************************)
(* The queue between the threads that send messages to a component and the *)
(* component's own thread: BlockingMsgQueue (a ring buffer without locks   *)
(* and a counting semaphore) and the QueuedRouter around it.               *)
(*                                                                         *)
(* The ring is etl::queue_spsc_atomic, which is not part of the source     *)
(* tree; it is modelled from how it is documented to work: the producer    *)
(* alone stores the index write, the consumer alone stores read, one slot  *)
(* stays free, and a slot is filled before write is published. Each access *)
(* to an index, a slot or the semaphore is a step.                         *)
(*                                                                         *)
(* Producers is a set because nothing in QueuedRouter or iApp::send_cmd    *)
(* keeps several threads from sending to one router. The queue is correct  *)
(* for one producer; see TokenMeansMessage.                                *)
(***************************************************************************)
EXTENDS Integers, Sequences, FiniteSets

CONSTANTS
  Producers,  \* threads that call QueuedRouter::receive
  Messages,   \* messages the router accepts
  NoMessage,  \* what an empty slot holds
  Depth       \* TMsgLimit, the QDepth of the queue

ASSUME DepthAssumption == Depth \in Nat \ {0}
ASSUME NoMessageAssumption == NoMessage \notin Messages

VARIABLES
  slots,   \* the ring's storage
  write,   \* index of the next slot to fill
  read,    \* index of the oldest message
  sem,     \* value of the semaphore Sem
  ppc,     \* ppc[p]: where producer p is in emplace
  msg,     \* msg[p]: the message p is sending
  wr,      \* wr[p]: the write index that p loaded
  cpc,     \* where the consumer is in process_msg_queue
  value    \* the packet the consumer dequeues into

vars == <<slots, write, read, sem, ppc, msg, wr, cpc, value>>

ringVars     == <<slots, write, read, sem>>
producerVars == <<ppc, msg, wr>>
consumerVars == <<cpc, value>>

Slots == 0 .. Depth

NextIndex(i) == IF i = Depth THEN 0 ELSE i + 1

\* "Stored" and "Full" are the answers of the last call of emplace.
ProducerPC == {"Stored", "Full", "LoadWrite", "CheckFull", "Fill", "Publish", "Give"}
ConsumerPC == {"Idle", "Wait", "Try", "Front", "Pop", "Handle", "Aborted"}

TypeOK ==
  /\ slots \in [Slots -> Messages \cup {NoMessage}]
  /\ write \in Slots
  /\ read \in Slots
  /\ sem \in Nat
  /\ ppc \in [Producers -> ProducerPC]
  /\ msg \in [Producers -> Messages \cup {NoMessage}]
  /\ wr \in [Producers -> Slots]
  /\ cpc \in ConsumerPC
  /\ value \in Messages \cup {NoMessage}

Init ==
  /\ slots = [i \in Slots |-> NoMessage]
  /\ write = 0
  /\ read = 0
  /\ sem = 0
  /\ ppc = [p \in Producers |-> "Stored"]
  /\ msg = [p \in Producers |-> NoMessage]
  /\ wr = [p \in Producers |-> 0]
  /\ cpc = "Idle"
  /\ value = NoMessage

-----------------------------------------------------------------------------
(* A producer: QueuedRouter::receive and BlockingMsgQueue::emplace.        *)

ProducerStep(p, from, to) ==
  /\ ppc[p] = from
  /\ ppc' = [ppc EXCEPT ![p] = to]
  /\ UNCHANGED consumerVars

\* A message the router accepts is handed to emplace.
Receive(p) ==
  /\ \/ ProducerStep(p, "Stored", "LoadWrite")
     \/ ProducerStep(p, "Full", "LoadWrite")
  /\ \E m \in Messages : msg' = [msg EXCEPT ![p] = m]
  /\ UNCHANGED <<ringVars, wr>>

LoadWrite(p) ==
  /\ ProducerStep(p, "LoadWrite", "CheckFull")
  /\ wr' = [wr EXCEPT ![p] = write]
  /\ UNCHANGED <<ringVars, msg>>

\* The index after write has reached read: the queue is full, emplace returns
\* false and QueuedRouter::receive drops the message without a word.
CheckFull(p) ==
  /\ ProducerStep(p, "CheckFull", IF NextIndex(wr[p]) = read THEN "Full" ELSE "Fill")
  /\ UNCHANGED <<ringVars, msg, wr>>

Fill(p) ==
  /\ ProducerStep(p, "Fill", "Publish")
  /\ slots' = [slots EXCEPT ![wr[p]] = msg[p]]
  /\ UNCHANGED <<write, read, sem, msg, wr>>

Publish(p) ==
  /\ ProducerStep(p, "Publish", "Give")
  /\ write' = NextIndex(wr[p])
  /\ UNCHANGED <<slots, read, sem, msg, wr>>

\* As Give, waking the consumer only when it may be asleep.
GiveIfEmpty(p) ==
  /\ ProducerStep(p, "Give", "Stored")
  /\ sem' = IF sem = 0 THEN 1 ELSE sem
  /\ UNCHANGED <<slots, write, read, msg, wr>>

\* Sem.give().
Give(p) ==
  /\ ProducerStep(p, "Give", "Stored")
  /\ sem' = sem + 1
  /\ UNCHANGED <<slots, write, read, msg, wr>>

\* The steps of a call that was begun.
Producer(p) ==
  LoadWrite(p) \/ CheckFull(p) \/ Fill(p) \/ Publish(p) \/ Give(p)

-----------------------------------------------------------------------------
(* The consumer: QueuedRouter::process_msg_queue and its calls of front.   *)

ConsumerStep(from, to) ==
  /\ cpc = from
  /\ cpc' = to
  /\ UNCHANGED producerVars

\* The component's run loop calls process_msg_queue (or receive_msgs, which
\* differs in its answer only).
CallProcess ==
  /\ ConsumerStep("Idle", "Wait")
  /\ UNCHANGED <<ringVars, value>>

\* As Take, without counting down.
TakeForgetsCount(from) ==
  /\ ConsumerStep(from, "Front")
  /\ sem > 0
  /\ UNCHANGED <<ringVars, value>>

\* As Take, whether or not there is a token.
TakeUnchecked(from) ==
  /\ ConsumerStep(from, "Front")
  /\ sem' = sem - 1
  /\ UNCHANGED <<slots, write, read, value>>

\* Sem.take(timeout) or Sem.take() gets a token.
Take(from) ==
  /\ ConsumerStep(from, "Front")
  /\ sem > 0
  /\ sem' = sem - 1
  /\ UNCHANGED <<slots, write, read, value>>

\* sem_timedwait times out, or is interrupted by a signal: both only when it
\* had to wait. sem_trywait fails, which ends the loop over the messages.
TakeFails(from) ==
  /\ ConsumerStep(from, "Idle")
  /\ sem = 0
  /\ UNCHANGED <<ringVars, value>>

\* queue.front copies the oldest message. ETFW_ASSERT stops the program if
\* there is none.
Front ==
  /\ ConsumerStep("Front", IF read = write THEN "Aborted" ELSE "Pop")
  /\ value' = IF read = write THEN value ELSE slots[read]
  /\ UNCHANGED ringVars

\* As Pop, leaving the message in the ring.
PopForgotten ==
  /\ ConsumerStep("Pop", "Handle")
  /\ UNCHANGED <<ringVars, value>>

\* queue.pop destroys it and frees the slot.
Pop ==
  /\ ConsumerStep("Pop", "Handle")
  /\ slots' = [slots EXCEPT ![read] = NoMessage]
  /\ read' = NextIndex(read)
  /\ UNCHANGED <<write, sem, value>>

\* process_pkt hands the message to the component; then comes the next one.
ProcessPkt ==
  /\ ConsumerStep("Handle", "Try")
  /\ UNCHANGED <<ringVars, value>>

Consumer ==
  \/ CallProcess
  \/ Take("Wait") \/ TakeFails("Wait")
  \/ Take("Try") \/ TakeFails("Try")
  \/ Front
  \/ Pop
  \/ ProcessPkt

Next ==
  \/ \E p \in Producers : Receive(p) \/ Producer(p)
  \/ Consumer

Spec == Init /\ [][Next]_vars

\* The component keeps calling process_msg_queue from its run loop, and a
\* sender that is in emplace goes on. Nobody is obliged to send.
FairSpec ==
  /\ Spec
  /\ WF_vars(Consumer)
  /\ \A p \in Producers : WF_vars(Producer(p))

-----------------------------------------------------------------------------
(* Properties.                                                             *)

\* The messages in the ring, oldest first.
Count == IF write >= read THEN write - read ELSE write - read + Depth + 1

Contents == [i \in 1 .. Count |-> slots[(read + i - 1) % (Depth + 1)]]

\* 1 if the consumer holds a token for a message it has not popped yet.
TokensHeld == IF cpc \in {"Front", "Pop"} THEN 1 ELSE 0

\* The number of producers that have published a message and not yet given its
\* token.
TokensOwed == Cardinality({p \in Producers : ppc[p] = "Give"})

\* The assertion in BlockingMsgQueue::front, "Sem available but queue is empty"
\* (BlockingMsgQueue.hpp:52, 64), never fails. It holds for one producer. Two
\* threads inside emplace may claim the same slot and give two tokens for it,
\* and the consumer aborts on the second.
TokenMeansMessage == cpc # "Aborted"

\* The semaphore and the ring are two counters of the same messages, updated in
\* different steps by different threads. No message is stranded in the ring
\* without a token, where only a later one would bring it out, and no token is
\* left without a message.
TokensMatchMessages == sem + TokensHeld + TokensOwed = Count

\* What the callers see of the queue: the messages whose token was given, the
\* calls of the producers and the call of the consumer.
QueueSeen == SubSeq(Contents, 1, sem + TokensHeld)

PutSeen ==
  [p \in Producers |->
     CASE ppc[p] = "Stored" -> [call |-> "stored"]
       [] ppc[p] = "Full"   -> [call |-> "full"]
       [] OTHER             -> [call |-> "pending", msg |-> msg[p]]]

GetSeen ==
  CASE cpc = "Idle"   -> [call |-> "nothing"]
    [] cpc = "Handle" -> [call |-> "got", msg |-> value]
    [] OTHER          -> [call |-> "asked"]

\* Refinement, for one producer: seen by its callers the queue is a BoundedFifo.
\* A put takes effect when its token is given, a get when its slot is freed.
Fifo == INSTANCE BoundedFifo WITH q <- QueueSeen, put <- PutSeen, get <- GetSeen

ImplementsFifo == Fifo!Spec

\* A message in the ring is taken out in the end, though the consumer sleeps on
\* the semaphore and never looks at the ring without a token.
EveryMessageIsTaken ==
  \A i \in Slots : (slots[i] # NoMessage) ~> (slots[i] = NoMessage)

=============================================================================
