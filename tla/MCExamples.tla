----------------------------- MODULE MCExamples -----------------------------
(* The two programs. *)
EXTENDS Examples

CONSTANTS act, pas, a1, a2, p1, p2

Parents == [c \in Children |-> IF c \in {a1, a2} THEN act ELSE pas]

First == [a \in Apps |-> IF a = act THEN a1 ELSE p1]

Second == [a \in Apps |-> IF a = act THEN a2 ELSE p2]

=============================================================================
