----------------------------- MODULE MCMsgBroker -----------------------------
(***************************************************************************)
(* MsgBroker for TLC. The specification does not tell buffers, senders or  *)
(* queued pipes apart by anything but what they do.                        *)
(***************************************************************************)
EXTENDS MsgBroker

Symmetry ==
  Permutations(Bufs) \cup Permutations(Senders) \cup Permutations(QueuedPipes)

=============================================================================
