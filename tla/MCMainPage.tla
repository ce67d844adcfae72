---------------------------- MODULE MCMainPage ----------------------------
(* A small instance of MainPage for TLC. *)
EXTENDS MainPage

CONSTANTS admin, inuyasha
=============================================================================
