------------------------------- MODULE MCHub -------------------------------
(* Instances of Hub for TLC. *)
EXTENDS Hub

CONSTANTS r1, r2, r3
=============================================================================
