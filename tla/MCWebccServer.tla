--------------------------- MODULE MCWebccServer ---------------------------
(* Small instances of WebccServer for TLC. *)
EXTENDS WebccServer, TLC

CONSTANTS c1, c2, w1, w2, l1, l2, r1, a1

\* The threads of a kind are alike: no step and no safety property tells one
\* worker, or one thread of the event loop, from another.
Alike == Permutations(Workers) \cup Permutations(Loops)

=============================================================================
