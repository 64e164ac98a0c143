---------------------------- MODULE MCFlowNodes ----------------------------
(* Small plans for TLC: the constants of FlowNodes that a .cfg cannot write. *)
EXTENDS FlowNodes, TLC

CONSTANTS a, b, r1, f1, f2

\* a -> b: b depends on a.
ChainDeps == (a :> {} @@ b :> {a})
\* a and b are independent and may run at once.
FlatDeps  == (a :> {} @@ b :> {})

\* The attempts a cycle of a node may take.
OneEach   == [n \in Nodes |-> 1]
TwoForB   == [n \in Nodes |-> IF n = b THEN 2 ELSE 1]

NoClash   == [t \in Tasks |-> {}]
AllClash  == [t \in Tasks |-> Tasks]
=============================================================================
