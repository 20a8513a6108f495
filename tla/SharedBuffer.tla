---------------------------- MODULE SharedBuffer ----------------------------
(***************************************************************************)
(* What the broker promises to those who handle a message: the life of one *)
(* message buffer, as a state machine whose transitions are atomic. Nobody *)
(* is named, there is no lock, and the count of the copies is exact.       *)
(*                                                                         *)
(* A message that is shared is never written again and is there as long as *)
(* a copy of its shared_message is, and only whoever drops the last copy   *)
(* deletes it. MsgBroker is the detailed specification: it is checked, and *)
(* proved, to implement Spec for each of its buffers.                      *)
(***************************************************************************)
EXTENDS Naturals

CONSTANT Msgs  \* what can be written into a buffer

VARIABLES
  phase,   \* where the buffer is in its life
  copies,  \* the shared_messages of it that exist
  msg      \* what is written in it; anything while it is in the pool

vars == <<phase, copies, msg>>

Phase == {"Pooled", "Owned", "Shared", "Dying", "Lost"}

TypeOK ==
  /\ phase \in Phase
  /\ copies \in Nat
  /\ msg \in Msgs
  /\ phase = "Shared" <=> copies > 0

Init ==
  /\ phase = "Pooled"
  /\ copies = 0
  /\ msg \in Msgs

-----------------------------------------------------------------------------

Becomes(from, to) ==
  /\ phase = from
  /\ phase' = to

\* Somebody gets the buffer and writes the message.
Take ==
  /\ Becomes("Pooled", "Owned")
  /\ msg' \in Msgs
  /\ UNCHANGED copies

\* Its owner gives it back unsent.
GiveBack ==
  /\ Becomes("Owned", "Pooled")
  /\ msg' \in Msgs
  /\ UNCHANGED copies

\* It does not get sent, and not given back either.
Lose ==
  /\ Becomes("Owned", "Lost")
  /\ UNCHANGED <<copies, msg>>

\* Its owner sends it.
Share ==
  /\ Becomes("Owned", "Shared")
  /\ copies' = 1
  /\ UNCHANGED msg

\* Somebody who has a copy makes another one.
Copy ==
  /\ Becomes("Shared", "Shared")
  /\ copies' = copies + 1
  /\ UNCHANGED msg

Drop ==
  /\ Becomes("Shared", IF copies = 1 THEN "Dying" ELSE "Shared")
  /\ copies' = copies - 1
  /\ UNCHANGED msg

\* Whoever has dropped the last copy deletes it.
Delete ==
  /\ Becomes("Dying", "Pooled")
  /\ msg' \in Msgs
  /\ UNCHANGED copies

Next == Take \/ GiveBack \/ Lose \/ Share \/ Copy \/ Drop \/ Delete

Spec == Init /\ [][Next]_vars

=============================================================================
