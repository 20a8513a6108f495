---------------------------- MODULE BoundedFifo ----------------------------
(***************************************************************************)
(* What a message queue promises to the threads on its two sides: one FIFO *)
(* of at most Depth messages, on which every call takes effect at one      *)
(* instant between its begin and its return. BlockingMsgQueue implements   *)
(* it with a ring buffer of two indices and a counting semaphore.          *)
(***************************************************************************)
EXTENDS Naturals, Sequences

CONSTANTS
  Producers,  \* the threads that put messages
  Messages,
  Depth       \* the number of messages the queue holds

VARIABLES
  q,       \* the messages in the queue, oldest first
  put,     \* put[p]: the call of producer p, or the answer to its last one
  get      \* the call of the consumer, or the answer to its last one

vars == <<q, put, get>>

Pending(m) == [call |-> "pending", msg |-> m]
Stored     == [call |-> "stored"]
Full       == [call |-> "full"]

Asked    == [call |-> "asked"]
Got(m)   == [call |-> "got", msg |-> m]
Nothing  == [call |-> "nothing"]

Init ==
  /\ q = <<>>
  /\ put = [p \in Producers |-> Stored]
  /\ get = Nothing

CallPut(p) ==
  /\ put[p] \in {Stored, Full}
  /\ \E m \in Messages : put' = [put EXCEPT ![p] = Pending(m)]
  /\ UNCHANGED <<q, get>>

Store(p) ==
  /\ put[p] \notin {Stored, Full}
  /\ Len(q) < Depth
  /\ q' = Append(q, put[p].msg)
  /\ put' = [put EXCEPT ![p] = Stored]
  /\ UNCHANGED get

\* A message is refused only while the queue really is full.
Refuse(p) ==
  /\ put[p] \notin {Stored, Full}
  /\ Len(q) = Depth
  /\ put' = [put EXCEPT ![p] = Full]
  /\ UNCHANGED <<q, get>>

CallGet ==
  /\ get # Asked
  /\ get' = Asked
  /\ UNCHANGED <<q, put>>

Deliver ==
  /\ get = Asked
  /\ q # <<>>
  /\ get' = Got(Head(q))
  /\ q' = Tail(q)
  /\ UNCHANGED put

\* The consumer goes away empty-handed only while the queue really is empty.
ReportEmpty ==
  /\ get = Asked
  /\ q = <<>>
  /\ get' = Nothing
  /\ UNCHANGED <<q, put>>

Next ==
  \/ \E p \in Producers : CallPut(p) \/ Store(p) \/ Refuse(p)
  \/ CallGet
  \/ Deliver
  \/ ReportEmpty

Spec == Init /\ [][Next]_vars

=============================================================================
