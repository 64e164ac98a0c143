---------------------------- MODULE MCRegistry ----------------------------
(***************************************************************************)
(* Instances of Registry for TLC.                                          *)
(***************************************************************************)
EXTENDS Registry

CONSTANTS a, b, c

OneHost == [p \in Procs |-> 1]

=============================================================================
