----------------------------- MODULE MCExecutor -----------------------------
(* The program that TLC explores. *)
EXTENDS Executor

CONSTANTS act, pas, c1

\* The passive application has the child: its hooks run in the executor's calls.
MCParentOf == [c \in {c1} |-> pas]

=============================================================================
