----------------------- MODULE BlockingMsgQueueProofs -----------------------
(***************************************************************************)
(* Proofs about BlockingMsgQueue, for any depth, any messages and, but for *)
(* type correctness, one producer. That the semaphore's tokens match the   *)
(* messages in the ring depends on the producer's loaded index still being *)
(* the write index, and on the slot it found free still being free, when   *)
(* it publishes (ProducerIsAlone): what a second producer would break.     *)
(* That the queue is a BoundedFifo depends besides on messages staying in  *)
(* place from being filled in to being popped (MessagesAreInPlace).        *)
(***************************************************************************)
EXTENDS BlockingMsgQueue, FiniteSetTheorems, SequenceTheorems, TLAPS

OneProducer == \E p : Producers = {p}

ProducerIsAlone ==
  \A p \in Producers :
    /\ ppc[p] \in {"CheckFull", "Fill", "Publish"} => wr[p] = write
    /\ ppc[p] \in {"Fill", "Publish"} => Count < Depth

IInv ==
  /\ TypeOK
  /\ ProducerIsAlone
  /\ TokensMatchMessages
  /\ TokenMeansMessage

-----------------------------------------------------------------------------
(* The ring's arithmetic.                                                  *)

LEMMA NextIndexType ==
  ASSUME NEW i \in Slots
  PROVE  NextIndex(i) \in Slots
  BY DepthAssumption DEF Slots, NextIndex

\* The ring holds between none and Depth messages; it is empty when the two
\* indices are equal and full when write is about to reach read.
LEMMA CountRange ==
  ASSUME read \in Slots, write \in Slots
  PROVE  /\ Count \in 0 .. Depth
         /\ Count = 0 <=> read = write
         /\ Count = Depth <=> NextIndex(write) = read
  BY DepthAssumption DEF Slots, Count, NextIndex

\* Publishing adds a message to a ring that is not full, popping takes one from
\* a ring that is not empty.
LEMMA CountPublish ==
  ASSUME read \in Slots, write \in Slots, Count < Depth,
         write' = NextIndex(write), read' = read
  PROVE  Count' = Count + 1
  BY DepthAssumption DEF Slots, Count, NextIndex

LEMMA CountPop ==
  ASSUME read \in Slots, write \in Slots, Count > 0,
         read' = NextIndex(read), write' = write
  PROVE  Count' = Count - 1
  BY DepthAssumption DEF Slots, Count, NextIndex

\* With one producer, at most one token is owed. (f is ppc, in this state or in
\* the next.)
LEMMA OwedByOne ==
  ASSUME NEW p, Producers = {p}, NEW f
  PROVE  Cardinality({x \in Producers : f[x] = "Give"}) = IF f[p] = "Give" THEN 1 ELSE 0
<1>1. CASE f[p] = "Give"
  <2>1. {x \in Producers : f[x] = "Give"} = {p}
    BY <1>1
  <2>2. QED
    BY <1>1, <2>1, FS_Singleton
<1>2. CASE f[p] # "Give"
  <2>1. {x \in Producers : f[x] = "Give"} = {}
    BY <1>2
  <2>2. QED
    BY <1>2, <2>1, FS_EmptySet
<1>3. QED
  BY <1>1, <1>2

-----------------------------------------------------------------------------
(* Type correctness.                                                       *)

LEMMA TypeOKStep ==
  ASSUME TypeOK, [Next]_vars
  PROVE  TypeOK'
<1> USE DEF TypeOK, ProducerPC, ConsumerPC, ringVars, producerVars, consumerVars
<1>1. ASSUME NEW p \in Producers, Receive(p) \/ Producer(p)
      PROVE  TypeOK'
  <2>1. CASE Receive(p)
    BY <2>1 DEF Receive, ProducerStep
  <2>2. CASE LoadWrite(p) \/ CheckFull(p) \/ Fill(p)
    BY <2>2 DEF LoadWrite, CheckFull, Fill, ProducerStep
  <2>3. CASE Publish(p) \/ Give(p)
    BY <2>3, NextIndexType DEF Publish, Give, ProducerStep
  <2>4. QED
    BY <1>1, <2>1, <2>2, <2>3 DEF Producer
<1>2. CASE Consumer
  BY <1>2, NextIndexType
     DEF Consumer, ConsumerStep, CallProcess, Take, TakeFails, Front, Pop, ProcessPkt
<1>3. CASE UNCHANGED vars
  BY <1>3 DEF vars
<1>4. QED
  BY <1>1, <1>2, <1>3 DEF Next

\* The indices stay inside the ring and the semaphore above zero, with any
\* number of producers.
THEOREM TypeCorrect == Spec => []TypeOK
<1>1. Init => TypeOK
  BY DepthAssumption DEF Init, TypeOK, ProducerPC, ConsumerPC, Slots
<1>2. QED
  BY <1>1, TypeOKStep, PTL DEF Spec

-----------------------------------------------------------------------------
(* One producer: tokens and messages.                                      *)

LEMMA ProducerKeepsInv ==
  ASSUME IInv, TypeOK', NEW p, Producers = {p}, Receive(p) \/ Producer(p)
  PROVE  IInv'
<1> USE DEF IInv, TypeOK, ringVars, consumerVars, ProducerStep
<1>1. /\ TokensOwed = IF ppc[p] = "Give" THEN 1 ELSE 0
      /\ TokensOwed' = IF ppc'[p] = "Give" THEN 1 ELSE 0
  BY OwedByOne DEF TokensOwed
<1>2. Count \in 0 .. Depth /\ (Count = Depth <=> NextIndex(write) = read)
  BY CountRange
<1>3. TokensHeld' = TokensHeld /\ TokenMeansMessage'
  BY DEF Receive, Producer, LoadWrite, CheckFull, Fill, Publish, Give,
         TokensHeld, TokenMeansMessage
<1>4. CASE Receive(p) \/ LoadWrite(p) \/ CheckFull(p) \/ Fill(p)
  <2>1. UNCHANGED <<write, read, sem>> /\ ppc[p] # "Give" /\ ppc'[p] # "Give"
    BY <1>4 DEF Receive, LoadWrite, CheckFull, Fill
  <2>2. Count' = Count
    BY <2>1 DEF Count
  <2>3. TokensMatchMessages'
    BY <1>1, <1>3, <2>1, <2>2 DEF TokensMatchMessages
  <2>4. ProducerIsAlone'
    BY <1>2, <1>4, <2>1, <2>2, DepthAssumption
       DEF ProducerIsAlone, Receive, LoadWrite, CheckFull, Fill
  <2>5. QED
    BY <1>3, <2>3, <2>4
<1>5. CASE Publish(p)
  <2>1. Count < Depth /\ wr[p] = write
    BY <1>5 DEF Publish, ProducerIsAlone
  <2>2. Count' = Count + 1
    BY <1>5, <2>1, CountPublish DEF Publish
  <2>3. TokensMatchMessages'
    BY <1>1, <1>2, <1>3, <1>5, <2>2 DEF Publish, TokensMatchMessages, TokensHeld
  <2>4. ProducerIsAlone'
    BY <1>5 DEF Publish, ProducerIsAlone
  <2>5. QED
    BY <1>3, <2>3, <2>4
<1>6. CASE Give(p)
  <2>1. Count' = Count
    BY <1>6 DEF Give, Count
  <2>2. TokensMatchMessages'
    BY <1>1, <1>3, <1>6, <2>1 DEF Give, TokensMatchMessages, TokensHeld
  <2>3. ProducerIsAlone'
    BY <1>6 DEF Give, ProducerIsAlone
  <2>4. QED
    BY <1>3, <2>2, <2>3
<1>7. QED
  BY <1>4, <1>5, <1>6 DEF Producer

LEMMA ConsumerKeepsInv ==
  ASSUME IInv, TypeOK', OneProducer, Consumer
  PROVE  IInv'
<1> USE DEF IInv, TypeOK, ringVars, producerVars, consumerVars, ConsumerStep
<1>1. TokensOwed \in 0 .. 1 /\ TokensOwed' = TokensOwed
  BY OwedByOne
     DEF OneProducer, Consumer, CallProcess, Take, TakeFails, Front, Pop,
         ProcessPkt, TokensOwed
<1>2. Count \in 0 .. Depth /\ (Count = 0 <=> read = write)
  BY CountRange
<1>3. CASE UNCHANGED <<write, read>>
  <2>1. Count' = Count /\ ProducerIsAlone'
    BY <1>3 DEF Count, ProducerIsAlone, Consumer, CallProcess, Take, TakeFails,
                Front, Pop, ProcessPkt
  <2>2. TokenMeansMessage' /\ TokensMatchMessages'
    <3>1. CASE CallProcess \/ TakeFails("Wait") \/ TakeFails("Try") \/ ProcessPkt
      BY <1>1, <2>1, <3>1 DEF CallProcess, TakeFails, ProcessPkt, TokensHeld,
         TokenMeansMessage, TokensMatchMessages
    <3>2. CASE Take("Wait") \/ Take("Try")
      BY <1>1, <2>1, <3>2 DEF Take, TokensHeld, TokenMeansMessage, TokensMatchMessages
    <3>3. CASE Front
      \* The token in hand counts a message, so the ring is not empty.
      <4>1. TokensHeld = 1 /\ sem + 1 + TokensOwed = Count
        BY <3>3 DEF Front, TokensHeld, TokensMatchMessages
      <4>2. read # write
        BY <1>1, <1>2, <4>1
      <4>3. cpc' = "Pop" /\ UNCHANGED sem
        BY <3>3, <4>2 DEF Front
      <4>4. QED
        BY <1>1, <2>1, <4>1, <4>3 DEF TokensHeld, TokenMeansMessage, TokensMatchMessages
    <3>4. CASE Pop
      BY <1>3, <3>4, DepthAssumption DEF Pop, NextIndex, Slots
    <3>5. QED
      BY <3>1, <3>2, <3>3, <3>4 DEF Consumer
  <2>3. QED
    BY <2>1, <2>2
<1>4. CASE Pop
  <2>1. Count > 0
    BY <1>1, <1>2, <1>4 DEF Pop, TokensHeld, TokensMatchMessages
  <2>2. Count' = Count - 1
    BY <1>4, <2>1, CountPop DEF Pop
  <2>3. TokenMeansMessage' /\ TokensMatchMessages'
    BY <1>1, <1>2, <1>4, <2>2 DEF Pop, TokensHeld, TokenMeansMessage, TokensMatchMessages
  <2>4. ProducerIsAlone'
    BY <1>2, <1>4, <2>2, DepthAssumption DEF Pop, ProducerIsAlone
  <2>5. QED
    BY <2>3, <2>4
<1>5. QED
  BY <1>3, <1>4 DEF Consumer, CallProcess, Take, TakeFails, Front, ProcessPkt

LEMMA InvHolds ==
  ASSUME OneProducer
  PROVE  Spec => []IInv
<1>1. Init => IInv
  <2> SUFFICES ASSUME Init
               PROVE  IInv
    OBVIOUS
  <2>1. TokensOwed = 0
    BY OwedByOne DEF OneProducer, Init, TokensOwed
  <2>2. QED
    BY <2>1, DepthAssumption
       DEF Init, IInv, TypeOK, ProducerPC, ConsumerPC, Slots, ProducerIsAlone,
           TokensMatchMessages, TokenMeansMessage, TokensHeld, Count
<1>2. IInv /\ [Next]_vars => IInv'
  <2> SUFFICES ASSUME IInv, [Next]_vars
               PROVE  IInv'
    OBVIOUS
  <2>1. TypeOK'
    BY TypeOKStep DEF IInv
  <2>2. CASE \E p \in Producers : Receive(p) \/ Producer(p)
    BY <2>1, <2>2, ProducerKeepsInv DEF OneProducer
  <2>3. CASE Consumer
    BY <2>1, <2>3, ConsumerKeepsInv
  <2>4. CASE UNCHANGED vars
    BY <2>4 DEF vars, IInv, TypeOK, ProducerIsAlone, TokensMatchMessages,
                TokenMeansMessage, TokensHeld, TokensOwed, Count
  <2>5. QED
    BY <2>2, <2>3, <2>4 DEF Next
<1>3. QED
  BY <1>1, <1>2, PTL DEF Spec

\* With one sender the assertion in front() never fails, whatever the depth.
THEOREM FrontNeverAborts ==
  ASSUME OneProducer
  PROVE  Spec => []TokenMeansMessage
<1>1. IInv => TokenMeansMessage
  BY DEF IInv
<1>2. QED
  BY <1>1, InvHolds, PTL

\* With one sender semaphore and ring agree: no message without its token.
THEOREM TokensAgree ==
  ASSUME OneProducer
  PROVE  Spec => []TokensMatchMessages
<1>1. IInv => TokensMatchMessages
  BY DEF IInv
<1>2. QED
  BY <1>1, InvHolds, PTL

-----------------------------------------------------------------------------
(* One producer: the refinement.                                           *)

\* A message that is on its way in or out is where it is expected to be.
MessagesAreInPlace ==
  /\ \A p \in Producers :
       /\ ppc[p] \in {"Publish", "Give"} => slots[wr[p]] = msg[p]
       /\ ppc[p] = "Give" => write = NextIndex(wr[p])
  /\ cpc = "Pop" => value = slots[read]

RInv == IInv /\ MessagesAreInPlace

\* The slot of the i-th message of a ring that starts at r.
At(r, i) == IF r + i - 1 <= Depth THEN r + i - 1 ELSE r + i - 1 - (Depth + 1)

\* What a slot holds.
Cells == Messages \cup {NoMessage}

\* The first n of c messages in a ring, as QueueSeen has them.
Seen(ring, r, c, n) == SubSeq([i \in 1 .. c |-> ring[(r + i - 1) % (Depth + 1)]], 1, n)

IsListOf(list, ring, r, n) ==
  /\ list \in Seq(Cells) /\ Len(list) = n
  /\ \A i \in 1 .. n : list[i] = ring[At(r, i)]

LEMMA SeenProperties ==
  ASSUME NEW ring \in [Slots -> Cells], NEW r \in Slots,
         NEW c \in 0 .. Depth, NEW n \in 0 .. c
  PROVE  IsListOf(Seen(ring, r, c, n), ring, r, n)
<1> DEFINE all == [i \in 1 .. c |-> ring[(r + i - 1) % (Depth + 1)]]
<1>1. ASSUME NEW i \in 1 .. c PROVE (r + i - 1) % (Depth + 1) = At(r, i) /\ At(r, i) \in Slots
  BY DepthAssumption DEF At, Slots
<1>2. \A i \in 1 .. c : all[i] = ring[At(r, i)] /\ all[i] \in Cells
  BY <1>1
<1> HIDE DEF all
<1>3. /\ SubSeq(all, 1, n) \in Seq(Cells) /\ Len(SubSeq(all, 1, n)) = n
      /\ \A i \in 1 .. n : SubSeq(all, 1, n)[i] = all[i]
  <2>1. \A i \in 1 .. n : all[i] \in Cells /\ 1 + i - 1 = i
    BY <1>2
  <2>2. n - 1 + 1 = n /\ n \in Int /\ 1 \in Int /\ (IF 1 <= n THEN n - 1 + 1 ELSE 0) = n
    OBVIOUS
  <2>3. /\ SubSeq(all, 1, n) \in Seq(Cells)
        /\ Len(SubSeq(all, 1, n)) = IF 1 <= n THEN n - 1 + 1 ELSE 0
        /\ \A i \in 1 .. n - 1 + 1 : SubSeq(all, 1, n)[i] = all[1 + i - 1]
    BY <2>1, <2>2, SubSeqProperties
  <2>4. QED
    BY <2>1, <2>2, <2>3
<1>4. Seen(ring, r, c, n) = SubSeq(all, 1, n)
  BY DEF Seen, all
<1>5. QED
  BY <1>2, <1>3, <1>4 DEF IsListOf

\* Filling a free slot and publishing it changes nothing that is seen.
LEMMA SeenUnchanged ==
  ASSUME NEW ring \in [Slots -> Cells], NEW ring2 \in [Slots -> Cells], NEW r \in Slots,
         NEW c \in 0 .. Depth, NEW c2 \in 0 .. Depth, NEW n \in 0 .. c, n <= c2,
         \A i \in 1 .. n : ring2[At(r, i)] = ring[At(r, i)]
  PROVE  Seen(ring2, r, c2, n) = Seen(ring, r, c, n)
<1>1. n \in 0 .. c2
  OBVIOUS
<1>2. IsListOf(Seen(ring, r, c, n), ring, r, n)
  BY SeenProperties
<1>3. IsListOf(Seen(ring2, r, c2, n), ring2, r, n)
  BY <1>1, SeenProperties
<1>4. QED
  BY <1>2, <1>3, SeqEqual DEF IsListOf

LEMMA SeenGrows ==
  ASSUME NEW ring \in [Slots -> Cells], NEW r \in Slots,
         NEW c \in 0 .. Depth, NEW n \in 0 .. c, n < c
  PROVE  Seen(ring, r, c, n + 1) = Append(Seen(ring, r, c, n), ring[At(r, n + 1)])
<1> DEFINE old == Seen(ring, r, c, n)
           new == Seen(ring, r, c, n + 1)
           e   == ring[At(r, n + 1)]
<1>1. n + 1 \in 0 .. c /\ n \in Nat
  OBVIOUS
<1>2. IsListOf(old, ring, r, n)
  BY SeenProperties
<1>3. IsListOf(new, ring, r, n + 1)
  BY <1>1, SeenProperties
<1>4. e \in Cells
  BY <1>1, <1>3, ElementOfSeq DEF IsListOf
<1> HIDE DEF old, new, e
<1>5. /\ Append(old, e) \in Seq(Cells) /\ Len(Append(old, e)) = n + 1
      /\ \A i \in 1 .. n : Append(old, e)[i] = old[i]
      /\ Append(old, e)[n + 1] = e
  BY <1>2, <1>4, AppendProperties DEF IsListOf
<1>6. \A i \in 1 .. n + 1 : Append(old, e)[i] = new[i]
  BY <1>1, <1>2, <1>3, <1>5 DEF e, IsListOf
<1>7. new = Append(old, e)
  BY <1>3, <1>5, <1>6, SeqEqual DEF IsListOf
<1>8. QED
  BY <1>7 DEF old, new, e

\* Popping the slot at r, whatever becomes of it.
LEMMA SeenShrinks ==
  ASSUME NEW ring \in [Slots -> Cells], NEW ring2 \in [Slots -> Cells], NEW r \in Slots,
         NEW c \in 1 .. Depth, NEW n \in 1 .. c,
         \A i \in Slots : i # r => ring2[i] = ring[i]
  PROVE  /\ Seen(ring, r, c, n) # <<>>
         /\ Head(Seen(ring, r, c, n)) = ring[r]
         /\ Seen(ring2, NextIndex(r), c - 1, n - 1) = Tail(Seen(ring, r, c, n))
<1> DEFINE old == Seen(ring, r, c, n)
           new == Seen(ring2, NextIndex(r), c - 1, n - 1)
<1>1. c - 1 \in 0 .. Depth /\ n - 1 \in 0 .. (c - 1) /\ NextIndex(r) \in Slots
      /\ n \in 0 .. c /\ c \in 0 .. Depth
  BY NextIndexType, DepthAssumption
<1>2. IsListOf(old, ring, r, n)
  BY <1>1, SeenProperties
<1>3. IsListOf(new, ring2, NextIndex(r), n - 1)
  BY <1>1, SeenProperties
<1>4. \A i \in 1 .. n - 1 : /\ At(NextIndex(r), i) = At(r, i + 1)
                            /\ At(r, i + 1) \in Slots /\ At(r, i + 1) # r
  BY DepthAssumption DEF At, NextIndex, Slots
<1>5. At(r, 1) = r /\ 1 \in 1 .. n
  BY DepthAssumption DEF At, Slots
<1> HIDE DEF old, new
<1>6. old # <<>> /\ Head(old) = ring[r]
  BY <1>2, <1>5 DEF IsListOf
<1>7. /\ Tail(old) \in Seq(Cells) /\ Len(Tail(old)) = n - 1
      /\ \A i \in 1 .. n - 1 : Tail(old)[i] = old[i + 1]
  BY <1>2, <1>6, HeadTailProperties DEF IsListOf
<1>8. \A i \in 1 .. n - 1 : new[i] = Tail(old)[i]
  <2> SUFFICES ASSUME NEW i \in 1 .. n - 1 PROVE new[i] = Tail(old)[i]
    OBVIOUS
  <2>1. new[i] = ring2[At(r, i + 1)] /\ ring2[At(r, i + 1)] = ring[At(r, i + 1)]
    BY <1>3, <1>4 DEF IsListOf
  <2>2. i + 1 \in 1 .. n
    OBVIOUS
  <2>3. QED
    BY <1>2, <1>7, <2>1, <2>2 DEF IsListOf
<1>9. new = Tail(old)
  BY <1>3, <1>7, <1>8, SeqEqual DEF IsListOf
<1>10. QED
  BY <1>6, <1>9 DEF old, new

\* Where the producer's slot is, seen from the oldest message.
LEMMA SlotOfWrite ==
  ASSUME read \in Slots, write \in Slots
  PROVE  /\ \A i \in 1 .. Depth : i <= Count => At(read, i) # write
         /\ \A w \in Slots : write = NextIndex(w) /\ Count > 0 => At(read, Count) = w
BY DepthAssumption DEF At, Count, NextIndex, Slots

LEMMA QueueIsSeen == QueueSeen = Seen(slots, read, Count, sem + TokensHeld)
BY DEF QueueSeen, Seen, Contents

LEMMA QueueIsSeenNext == QueueSeen' = Seen(slots', read', Count', sem' + TokensHeld')
BY DEF QueueSeen, Seen, Contents

\* What PutSeen has for a producer.
PutOf(at, m) ==
  CASE at = "Stored" -> Fifo!Stored
    [] at = "Full"   -> Fifo!Full
    [] OTHER         -> Fifo!Pending(m)

LEMMA PutChanges ==
  ASSUME NEW p, Producers = {p}
  PROVE  /\ PutSeen[p] = PutOf(ppc[p], msg[p])
         /\ PutSeen' = [PutSeen EXCEPT ![p] = PutOf(ppc'[p], msg'[p])]
         /\ PutOf(ppc'[p], msg'[p]) = PutOf(ppc[p], msg[p]) => PutSeen' = PutSeen
BY DEF PutSeen, PutOf, Fifo!Stored, Fifo!Full, Fifo!Pending

LEMMA PutAnswers ==
  ASSUME NEW at, NEW m
  PROVE  PutOf(at, m) \in {Fifo!Stored, Fifo!Full} <=> at \in {"Stored", "Full"}
BY DEF PutOf, Fifo!Stored, Fifo!Full, Fifo!Pending

LEMMA RingNumbers ==
  ASSUME RInv, NEW p, Producers = {p}
  PROVE  /\ TypeOK /\ Count \in 0 .. Depth
         /\ sem + TokensHeld \in 0 .. Count /\ TokensHeld \in 0 .. 1
         /\ sem + TokensHeld = IF ppc[p] = "Give" THEN Count - 1 ELSE Count
<1>1. TokensOwed = IF ppc[p] = "Give" THEN 1 ELSE 0
  BY OwedByOne DEF TokensOwed
<1>2. TypeOK /\ sem + TokensHeld + TokensOwed = Count /\ sem \in Nat
  BY DEF RInv, IInv, TypeOK, TokensMatchMessages
<1>3. Count \in 0 .. Depth
  BY <1>2, CountRange DEF TypeOK
<1>4. QED
  BY <1>1, <1>2, <1>3 DEF TokensHeld

LEMMA InPlaceStep ==
  ASSUME RInv, OneProducer, [Next]_vars
  PROVE  MessagesAreInPlace'
<1> PICK p : Producers = {p}
  BY DEF OneProducer
<1>1. /\ TypeOK /\ MessagesAreInPlace /\ ProducerIsAlone
      /\ Count \in 0 .. Depth
      /\ sem + TokensHeld = IF ppc[p] = "Give" THEN Count - 1 ELSE Count
  BY RingNumbers DEF RInv, IInv
<1> USE DEF MessagesAreInPlace, TypeOK, ringVars, producerVars, consumerVars, ProducerStep,
            ConsumerStep
<1>2. CASE Receive(p) \/ LoadWrite(p) \/ CheckFull(p) \/ Publish(p) \/ Give(p)
  BY <1>1, <1>2 DEF Receive, LoadWrite, CheckFull, Publish, Give, ProducerIsAlone
<1>3. CASE Fill(p)
  <2>1. cpc = "Pop" => read # write
    BY <1>1, <1>3, CountRange DEF Fill, TokensHeld
  <2>2. QED
    BY <1>1, <1>3, <2>1 DEF Fill, ProducerIsAlone
<1>4. CASE CallProcess \/ ProcessPkt \/ Front
  BY <1>1, <1>4 DEF CallProcess, ProcessPkt, Front
<1>5. CASE Take("Wait") \/ Take("Try") \/ TakeFails("Wait") \/ TakeFails("Try")
  BY <1>1, <1>5 DEF Take, TakeFails
<1>6. CASE Pop
  \* The message in the producer's hands is not the one that is popped.
  <2>1. ppc[p] \in {"Publish", "Give"} => wr[p] # read
    <3>1. CASE ppc[p] = "Publish"
      BY <1>1, <1>6, <3>1, CountRange DEF Pop, TokensHeld, ProducerIsAlone
    <3>2. CASE ppc[p] = "Give"
      <4>1. Count - 1 > 0 /\ write = NextIndex(wr[p])
        BY <1>1, <1>6, <3>2 DEF Pop, TokensHeld
      <4>2. wr[p] = read => Count = 1
        BY <1>1, <4>1, DepthAssumption DEF Count, NextIndex, Slots
      <4>3. QED
        BY <1>1, <4>1, <4>2
    <3>3. QED
      BY <3>1, <3>2
  <2>2. QED
    BY <1>1, <1>6, <2>1 DEF Pop
<1>7. CASE UNCHANGED vars
  BY <1>1, <1>7 DEF vars
<1>8. QED
  BY <1>2, <1>3, <1>4, <1>5, <1>6, <1>7 DEF Next, Producer, Consumer

LEMMA RInvHolds ==
  ASSUME OneProducer
  PROVE  Spec => []RInv
<1>1. Init => MessagesAreInPlace
  BY DEF Init, MessagesAreInPlace
<1>2. IInv /\ MessagesAreInPlace /\ [Next]_vars => MessagesAreInPlace'
  BY InPlaceStep DEF RInv
<1>3. IInv /\ MessagesAreInPlace => RInv
  BY DEF RInv
<1>4. QED
  BY <1>1, <1>2, <1>3, InvHolds, PTL DEF Spec

FifoStep == [Fifo!Next]_(Fifo!vars)

LEMMA ProducerStepsAreFifo ==
  ASSUME RInv, NEW p, Producers = {p}, Receive(p) \/ Producer(p), TypeOK'
  PROVE  FifoStep
<1> DEFINE n == sem + TokensHeld
<1>1. /\ p \in Producers /\ slots \in [Slots -> Cells] /\ slots' \in [Slots -> Cells]
      /\ read \in Slots /\ write \in Slots /\ wr[p] \in Slots /\ sem \in Nat
      /\ ppc[p] \in ProducerPC /\ ppc \in [Producers -> ProducerPC]
      /\ msg \in [Producers -> Cells]
  BY RingNumbers DEF TypeOK, Cells
<1>2. /\ Count \in 0 .. Depth /\ n \in 0 .. Count
      /\ n = IF ppc[p] = "Give" THEN Count - 1 ELSE Count
      /\ Depth \in Nat /\ Count \in Nat /\ n \in Nat /\ n <= Count /\ Count <= Depth
  <2>1. /\ Count \in 0 .. Depth /\ n \in 0 .. Count /\ Depth \in Nat
        /\ n = IF ppc[p] = "Give" THEN Count - 1 ELSE Count
    BY RingNumbers, DepthAssumption
  <2>2. QED
    BY <2>1
<1>3. /\ GetSeen' = GetSeen /\ TokensHeld' = TokensHeld /\ read' = read
  BY DEF Receive, Producer, LoadWrite, CheckFull, Fill, Publish, Give, ProducerStep,
         GetSeen, TokensHeld, ringVars, consumerVars
<1> HIDE DEF n
\* The call and the refusal change no message.
<1>4. CASE Receive(p) \/ LoadWrite(p) \/ CheckFull(p)
  <2>1. QueueSeen' = QueueSeen
    BY <1>3, <1>4, QueueIsSeen, QueueIsSeenNext
       DEF ringVars, Count, Receive, LoadWrite, CheckFull
  <2>2. CASE Receive(p)
    <3>1. PutSeen[p] \in {Fifo!Stored, Fifo!Full}
      BY <2>2, PutChanges, PutAnswers DEF Receive, ProducerStep
    <3>2. PICK m \in Messages : msg' = [msg EXCEPT ![p] = m]
      BY <2>2 DEF Receive
    <3>3. ppc'[p] = "LoadWrite" /\ msg'[p] = m
      BY <1>1, <2>2, <3>2 DEF Receive, ProducerStep
    <3>4. PutSeen' = [PutSeen EXCEPT ![p] = Fifo!Pending(m)]
      BY <3>3, PutChanges DEF PutOf
    <3>5. Fifo!CallPut(p)
      BY <1>3, <2>1, <3>1, <3>4 DEF Fifo!CallPut
    <3>6. QED
      BY <1>1, <3>5 DEF FifoStep, Fifo!Next
  <2>3. CASE LoadWrite(p) \/ CheckFull(p)
    <3>1. /\ ppc[p] \in {"LoadWrite", "CheckFull"} /\ msg' = msg
          /\ \/ ppc'[p] \in {"CheckFull", "Fill"}
             \/ ppc[p] = "CheckFull" /\ ppc'[p] = "Full" /\ NextIndex(wr[p]) = read
      BY <1>1, <2>3 DEF LoadWrite, CheckFull, ProducerStep
    <3>2. CASE ppc'[p] \in {"CheckFull", "Fill"}
      <4>1. PutSeen' = PutSeen
        BY <3>1, <3>2, PutChanges DEF PutOf
      <4>2. QED
        BY <1>3, <2>1, <4>1 DEF FifoStep, Fifo!vars
    <3>3. CASE ppc'[p] = "Full"
      <4>1. PutSeen[p] \notin {Fifo!Stored, Fifo!Full} /\ PutSeen' = [PutSeen EXCEPT ![p] = Fifo!Full]
        BY <3>1, <3>3, PutChanges, PutAnswers DEF PutOf
      <4>2. Count = Depth
        BY <1>1, <3>1, <3>3, CountRange DEF RInv, IInv, ProducerIsAlone
      <4>3. Len(QueueSeen) = Depth
        <5>1. IsListOf(QueueSeen, slots, read, n)
          BY <1>1, <1>2, QueueIsSeen, SeenProperties DEF n
        <5>2. QED
          BY <1>2, <3>1, <3>3, <4>2, <5>1 DEF IsListOf
      <4>4. Fifo!Refuse(p)
        BY <1>3, <2>1, <4>1, <4>3 DEF Fifo!Refuse
      <4>5. QED
        BY <1>1, <4>4 DEF FifoStep, Fifo!Next
    <3>4. QED
      BY <3>1, <3>2, <3>3
  <2>4. QED
    BY <1>4, <2>2, <2>3
\* The slot that is filled, and published, is not seen yet.
<1>5. CASE Fill(p) \/ Publish(p)
  <2>1. PutSeen' = PutSeen
    BY <1>1, <1>5, PutChanges DEF PutOf, Fill, Publish, ProducerStep
  <2>2. wr[p] = write /\ Count < Depth /\ ppc[p] # "Give" /\ sem' = sem
    BY <1>5 DEF Fill, Publish, ProducerStep, RInv, IInv, ProducerIsAlone
  <2>3. \A i \in 1 .. n : slots'[At(read, i)] = slots[At(read, i)]
    <3>1. \A i \in 1 .. n : At(read, i) # write
      <4>1. \A i \in 1 .. n : i \in 1 .. Depth /\ i <= Count
        BY <1>2
      <4>2. QED
        BY <1>1, <4>1, SlotOfWrite
    <3>2. \A i \in 1 .. n : At(read, i) \in Slots
      BY <1>1, <1>2, DepthAssumption DEF At, Slots
    <3>3. QED
      BY <1>1, <1>5, <2>2, <3>1, <3>2 DEF Fill, Publish
  <2>4. Count' \in {Count, Count + 1}
    <3>1. CASE Fill(p)
      BY <3>1 DEF Fill, Count
    <3>2. CASE Publish(p)
      BY <1>1, <1>3, <2>2, <3>2, CountPublish DEF Publish
    <3>3. QED
      BY <1>5, <3>1, <3>2
  <2>5. Count' \in 0 .. Depth /\ n <= Count'
    BY <1>2, <2>2, <2>4
  <2>6. Seen(slots', read, Count', n) = Seen(slots, read, Count, n)
    BY <1>1, <1>2, <2>3, <2>5, SeenUnchanged
  <2>7. QueueSeen' = QueueSeen
    BY <1>3, <2>2, <2>6, QueueIsSeen, QueueIsSeenNext DEF n
  <2>8. QED
    BY <1>3, <2>1, <2>7 DEF FifoStep, Fifo!vars
\* The token makes it the last of those that are seen.
<1>6. CASE Give(p)
  <2>1. /\ ppc[p] = "Give" /\ ppc'[p] = "Stored" /\ sem' = sem + 1
        /\ slots' = slots /\ write' = write /\ Count' = Count
    BY <1>1, <1>3, <1>6 DEF Give, ProducerStep, Count
  <2>2. /\ PutSeen[p] \notin {Fifo!Stored, Fifo!Full} /\ PutSeen[p] = Fifo!Pending(msg[p])
        /\ PutSeen' = [PutSeen EXCEPT ![p] = Fifo!Stored]
    BY <2>1, PutChanges, PutAnswers DEF PutOf
  <2>3. n < Count /\ n + 1 = Count /\ Count > 0
    BY <1>2, <2>1
  <2>4. slots[At(read, n + 1)] = msg[p]
    <3>1. write = NextIndex(wr[p]) /\ slots[wr[p]] = msg[p]
      BY <1>1, <2>1 DEF RInv, MessagesAreInPlace
    <3>2. At(read, Count) = wr[p]
      BY <1>1, <2>3, <3>1, SlotOfWrite
    <3>3. QED
      BY <2>3, <3>1, <3>2
  <2>5. QueueSeen' = Append(QueueSeen, msg[p])
    <3>1. Seen(slots, read, Count, n + 1) = Append(Seen(slots, read, Count, n), slots[At(read, n + 1)])
      BY <1>1, <1>2, <2>3, SeenGrows
    <3>2. sem' + TokensHeld' = n + 1
      BY <1>1, <1>3, <2>1 DEF n, TokensHeld
    <3>3. QED
      BY <1>3, <2>1, <2>4, <3>1, <3>2, QueueIsSeen, QueueIsSeenNext DEF n
  <2>6. Len(QueueSeen) < Depth
    <3>1. IsListOf(QueueSeen, slots, read, n)
      BY <1>1, <1>2, QueueIsSeen, SeenProperties DEF n
    <3>2. QED
      BY <1>2, <2>3, <3>1 DEF IsListOf
  <2>7. PutSeen[p].msg = msg[p]
    BY <2>2 DEF Fifo!Pending
  <2>8. Fifo!Store(p)
    BY <1>3, <2>2, <2>5, <2>6, <2>7 DEF Fifo!Store
  <2>9. QED
    BY <1>1, <2>8 DEF FifoStep, Fifo!Next
<1>7. QED
  BY <1>4, <1>5, <1>6 DEF Producer

LEMMA ConsumerStepsAreFifo ==
  ASSUME RInv, OneProducer, Consumer, TypeOK', TokenMeansMessage'
  PROVE  FifoStep
<1> PICK p : Producers = {p}
  BY DEF OneProducer
<1> DEFINE n == sem + TokensHeld
<1>1. /\ slots \in [Slots -> Cells] /\ slots' \in [Slots -> Cells]
      /\ read \in Slots /\ write \in Slots /\ sem \in Nat /\ Depth \in Nat
  BY RingNumbers, DepthAssumption DEF TypeOK, Cells
<1>2. /\ Count \in 0 .. Depth /\ n \in 0 .. Count /\ TokensHeld \in 0 .. 1
  BY RingNumbers
<1>3. PutSeen' = PutSeen
  BY DEF Consumer, CallProcess, Take, TakeFails, Front, Pop, ProcessPkt, ConsumerStep,
         producerVars, PutSeen
<1>4. cpc = "Pop" => value = slots[read]
  BY DEF RInv, MessagesAreInPlace
<1>5. ASSUME slots' = slots, read' = read, write' = write, sem' + TokensHeld' = n
      PROVE  QueueSeen' = QueueSeen
  BY <1>5, QueueIsSeen, QueueIsSeenNext DEF Count
<1>6. CASE CallProcess \/ ProcessPkt
  <2>1. QueueSeen' = QueueSeen
    BY <1>5, <1>6 DEF CallProcess, ProcessPkt, ConsumerStep, ringVars, TokensHeld
  <2>2. GetSeen # Fifo!Asked /\ GetSeen' = Fifo!Asked
    BY <1>6 DEF CallProcess, ProcessPkt, ConsumerStep, GetSeen, Fifo!Asked
  <2>3. Fifo!CallGet
    BY <1>3, <2>1, <2>2 DEF Fifo!CallGet
  <2>4. QED
    BY <2>3 DEF FifoStep, Fifo!Next
<1>7. CASE Take("Wait") \/ Take("Try")
  <2>1. QueueSeen' = QueueSeen
    BY <1>1, <1>5, <1>7 DEF Take, ConsumerStep, TokensHeld
  <2>2. GetSeen' = GetSeen
    BY <1>7 DEF Take, ConsumerStep, GetSeen
  <2>3. QED
    BY <1>3, <2>1, <2>2 DEF FifoStep, Fifo!vars
<1>8. CASE TakeFails("Wait") \/ TakeFails("Try")
  <2>1. QueueSeen' = QueueSeen
    BY <1>5, <1>8 DEF TakeFails, ConsumerStep, ringVars, TokensHeld
  <2>2. n = 0
    BY <1>8 DEF TakeFails, ConsumerStep, TokensHeld
  <2>3. QueueSeen = <<>>
    <3>1. IsListOf(QueueSeen, slots, read, n)
      BY <1>1, <1>2, QueueIsSeen, SeenProperties
    <3>2. QED
      BY <2>2, <3>1, EmptySeq DEF IsListOf
  <2>4. GetSeen = Fifo!Asked /\ GetSeen' = Fifo!Nothing
    BY <1>8 DEF TakeFails, ConsumerStep, GetSeen, Fifo!Asked, Fifo!Nothing
  <2>5. Fifo!ReportEmpty
    BY <1>3, <2>1, <2>3, <2>4 DEF Fifo!ReportEmpty
  <2>6. QED
    BY <2>5 DEF FifoStep, Fifo!Next
<1>9. CASE Front
  <2>1. cpc = "Front" /\ cpc' = "Pop"
    BY <1>9 DEF Front, ConsumerStep, TokenMeansMessage
  <2>2. QueueSeen' = QueueSeen
    BY <1>5, <1>9, <2>1 DEF Front, ringVars, TokensHeld
  <2>3. GetSeen' = GetSeen
    BY <2>1 DEF GetSeen
  <2>4. QED
    BY <1>3, <2>2, <2>3 DEF FifoStep, Fifo!vars
<1>10. CASE Pop
  <2>1. /\ cpc = "Pop" /\ cpc' = "Handle" /\ value' = value
        /\ read' = NextIndex(read) /\ write' = write /\ sem' = sem
        /\ slots' = [slots EXCEPT ![read] = NoMessage]
    BY <1>10 DEF Pop, ConsumerStep
  <2>2. /\ Count \in 1 .. Depth /\ n \in 1 .. Count
        /\ sem' + TokensHeld' = n - 1
    BY <1>1, <1>2, <2>1 DEF TokensHeld
  <2>3. Count' = Count - 1
    BY <1>1, <2>1, <2>2, CountPop
  <2>4. \A i \in Slots : i # read => slots'[i] = slots[i]
    BY <1>1, <2>1
  <2>5. /\ Seen(slots, read, Count, n) # <<>>
        /\ Head(Seen(slots, read, Count, n)) = slots[read]
        /\ Seen(slots', NextIndex(read), Count - 1, n - 1) = Tail(Seen(slots, read, Count, n))
    BY <1>1, <2>2, <2>4, SeenShrinks
  <2>6. QueueSeen # <<>> /\ Head(QueueSeen) = value /\ QueueSeen' = Tail(QueueSeen)
    BY <1>4, <2>1, <2>2, <2>3, <2>5, QueueIsSeen, QueueIsSeenNext
  <2>7. GetSeen = Fifo!Asked /\ GetSeen' = Fifo!Got(value)
    BY <2>1 DEF GetSeen, Fifo!Asked, Fifo!Got
  <2>8. Fifo!Deliver
    BY <1>3, <2>6, <2>7 DEF Fifo!Deliver
  <2>9. QED
    BY <2>8 DEF FifoStep, Fifo!Next
<1>11. QED
  BY <1>6, <1>7, <1>8, <1>9, <1>10 DEF Consumer

\* With one sender the ring, its indices and the semaphore together are a
\* bounded FIFO whose calls take effect at one instant: no message is lost,
\* doubled or overtaken, and "full" and "empty" are answered only when true.
THEOREM Refinement ==
  ASSUME OneProducer
  PROVE  Spec => ImplementsFifo
<1>1. Init => Fifo!Init
  <2> SUFFICES ASSUME Init PROVE Fifo!Init
    OBVIOUS
  <2>1. Count = 0 /\ sem + TokensHeld = 0 /\ read \in Slots /\ slots \in [Slots -> Cells]
    BY DepthAssumption DEF Init, Count, TokensHeld, Slots, Cells
  <2>2. IsListOf(QueueSeen, slots, read, 0)
    <3>1. 0 \in 0 .. Depth /\ 0 \in 0 .. 0
      BY DepthAssumption
    <3>2. IsListOf(Seen(slots, read, 0, 0), slots, read, 0)
      BY <2>1, <3>1, SeenProperties
    <3>3. QED
      BY <2>1, <3>2, QueueIsSeen
  <2>3. QueueSeen = <<>>
    BY <2>2, EmptySeq DEF IsListOf
  <2>4. PutSeen = [p \in Producers |-> Fifo!Stored] /\ GetSeen = Fifo!Nothing
    BY DEF Init, PutSeen, GetSeen, Fifo!Stored, Fifo!Nothing
  <2>5. QED
    BY <2>3, <2>4 DEF Fifo!Init
<1>2. RInv /\ RInv' /\ [Next]_vars => [Fifo!Next]_(Fifo!vars)
  <2> SUFFICES ASSUME RInv, RInv', [Next]_vars
               PROVE  FifoStep
    BY DEF FifoStep
  <2>1. TypeOK' /\ TokenMeansMessage'
    BY DEF RInv, IInv
  <2>2. CASE \E p \in Producers : Receive(p) \/ Producer(p)
    BY <2>1, <2>2, ProducerStepsAreFifo DEF OneProducer
  <2>3. CASE Consumer
    BY <2>1, <2>3, ConsumerStepsAreFifo
  <2>4. CASE UNCHANGED vars
    BY <2>4 DEF vars, FifoStep, Fifo!vars, QueueSeen, Contents, Count, TokensHeld, PutSeen, GetSeen
  <2>5. QED
    BY <2>2, <2>3, <2>4 DEF Next
<1>3. QED
  BY <1>1, <1>2, RInvHolds, PTL DEF Spec, ImplementsFifo, Fifo!Spec

=============================================================================
