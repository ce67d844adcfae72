----------------------------- MODULE MCSessions -----------------------------
(***************************************************************************)
(* Model values for the model runs of Sessions.                            *)
(***************************************************************************)
EXTENDS Sessions

CONSTANTS b1, b2, w1, w2, u1
=============================================================================
