----------------------------- MODULE MCSession ------------------------------
(* Instances of Session for TLC: a client that sends three messages, so that *)
(* two of them can meet in one recv of its child, beside one that sends one. *)
EXTENDS Session

CONSTANTS c1, c2

MCMaxSent == [c \in Client |-> IF c = c1 THEN 3 ELSE 1]
=============================================================================
