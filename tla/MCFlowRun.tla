----------------------------- MODULE MCFlowRun -----------------------------
(* Small plans for TLC: the constants of FlowRun that a .cfg cannot write. *)
EXTENDS FlowRun, TLC

CONSTANTS a, b, r1, r2, f1, f2

\* a and b are independent: one wave with two chains.
FlatDeps == (a :> {} @@ b :> {})
=============================================================================
