-------------------------- MODULE MCMessageQueue --------------------------
(* A small instance of MessageQueue for TLC. *)
EXTENDS MessageQueue

CONSTANTS w1, w2, w3, p1, p2
=============================================================================
