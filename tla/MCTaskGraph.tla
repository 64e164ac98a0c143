---------------------------- MODULE MCTaskGraph ----------------------------
(* Instances of TaskGraph for TLC.                                          *)
EXTENDS TaskGraph

MCIds == 1..4
Kit(cmds, n, max, runs) == [cmds |-> cmds, first |-> 1..n, max |-> max, runs |-> runs]
\* The graph alone; then, with runners: who runs a task, reviews, approvals,
\* failures.
MCKits == {Kit({"add", "edit", "rm"}, 3, 3, FALSE), Kit({"add", "chain", "set"}, 2, 2, TRUE),
           Kit({"gate", "skip"}, 3, 2, TRUE), Kit({"retry", "skip"}, 3, 2, TRUE),
           Kit({"retry", "status"}, 3, 1, TRUE)}
=============================================================================
