---------------------------- MODULE MCDagRunner ----------------------------
(* Scenarios of DagRunner for TLC. *)
EXTENDS DagRunner

CONSTANTS a, b

NoDeps == [t \in Tasks |-> {}]
BOnA == [t \in Tasks |-> IF t = b THEN {a} ELSE {}]
Plain == [lean |-> FALSE, isolated |-> TRUE, final |-> "off", skip |-> FALSE,
          wall |-> FALSE, quota |-> FALSE,
          concurrency |-> 2, attempts |-> 2, reviewRounds |-> 1, mergeRounds |-> 1,
          finalRounds |-> 1, infraRetries |-> 1,
          deps |-> BOnA, prepared |-> {}, planned |-> {}, reviewed |-> {},
          covering |-> {}, gated |-> {}, faults |-> 1]
Lean == [Plain EXCEPT !.lean = TRUE]

\* Two classic tasks in a chain; the first is reviewed, the second skipped if it fails.
ClassicChain == [Plain EXCEPT !.skip = TRUE, !.reviewed = {a}, !.attempts = 1, !.mergeRounds = 0]
\* Two tasks side by side, sent back by the final review of each.
ClassicFinal == [Plain EXCEPT !.deps = NoDeps, !.final = "per-task", !.attempts = 1, !.mergeRounds = 0, !.faults = 0]
ClassicSingle == [Plain EXCEPT !.final = "per-task", !.gated = {b}, !.attempts = 1]
\* A task with every phase, followed by a chain review.
ClassicPhases == [Plain EXCEPT !.prepared = {a}, !.planned = {a}, !.covering = {b}, !.attempts = 1, !.mergeRounds = 0]
Unisolated == [Plain EXCEPT !.isolated = FALSE, !.final = "run", !.gated = {b}]
\* Two lean tasks whose landings race.
LeanPair == [Lean EXCEPT !.deps = NoDeps, !.prepared = {b}]
LeanReviewed == [Lean EXCEPT !.reviewed = {a}, !.quota = TRUE, !.gated = {b}, !.faults = 2]
LeanFinal == [Lean EXCEPT !.final = "per-task", !.prepared = {a}, !.gated = {b}, !.mergeRounds = 0, !.faults = 2]
LeanBare == [Lean EXCEPT !.isolated = FALSE, !.planned = {a}, !.gated = {b}]
\* A deadline of the whole run.
Walled == [Plain EXCEPT !.deps = NoDeps, !.wall = TRUE, !.attempts = 1, !.mergeRounds = 0]

Core == {ClassicChain, ClassicFinal, ClassicSingle, ClassicPhases, Unisolated,
         LeanPair, LeanReviewed, LeanFinal, LeanBare, Walled}
=============================================================================
