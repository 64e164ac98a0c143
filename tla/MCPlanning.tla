----------------------------- MODULE MCPlanning -----------------------------
EXTENDS Planning, TLC

CONSTANTS a, b, c

Does(work, deps, provides, inputs, writes, wants) ==
    [work |-> work, deps |-> deps, provides |-> provides, inputs |-> inputs, writes |-> writes, wants |-> wants]
Judged(owner, check, contributors) == [owner |-> owner, check |-> check, contributors |-> contributors]
A(work) == Does(work, {}, {"cap"}, {}, {"f"}, 0)

(* Two tasks that write one file. *)
Pair == [task |-> (a :> A(1) @@ b :> Does(1, {}, {}, {}, {"f"}, 0)),
         crit |-> ("ka" :> Judged(a, 1, {a}) @@ "kb" :> Judged(b, 1, {b})), required |-> FALSE]
(* b builds on a, which is no longer asked for what b now judges. *)
Chain == [task |-> (a :> A(1) @@ b :> Does(2, {}, {}, {"cap"}, {"g"}, 0)),
          crit |-> ("ka" :> Judged(a, 1, {a}) @@ "kb" :> Judged(b, 2, {a, b})), required |-> FALSE]
(* The same criterion without the order: refused. *)
Early == [Chain EXCEPT !.task[b].inputs = {}]
(* a is asked for something else, and a third task shares a resource with b. *)
Triple == [task |-> (a :> A(2) @@ b :> Does(1, {}, {}, {}, {"g"}, 1) @@ c :> Does(1, {}, {}, {}, {"h"}, 1)),
           crit |-> ("ka" :> Judged(a, 1, {a}) @@ "kb" :> Judged(b, 1, {b}) @@ "kc" :> Judged(c, 1, {c})),
           required |-> TRUE]
(* The third task is given up, its criterion goes to b. *)
Moved == [task |-> (a :> A(2) @@ b :> Does(1, {}, {}, {}, {"g"}, 1)),
          crit |-> ("ka" :> Judged(a, 1, {a}) @@ "kb" :> Judged(b, 1, {b}) @@ "kc" :> Judged(b, 1, {b})),
          required |-> FALSE]
MCTasks == {a, b, c}
MCManifest == "pair" :> Pair @@ "chain" :> Chain @@ "early" :> Early @@ "triple" :> Triple @@ "moved" :> Moved
MCRevisions == DOMAIN MCManifest
Scene(old, plans, tries, edits, faults) ==
    [legacy |-> old, plans |-> plans, attempts |-> tries, changes |-> edits, mishaps |-> faults]
MCScenes == {Scene(FALSE, {"pair", "chain", "early"}, 2, 1, 2),
             Scene(FALSE, {"chain", "triple", "moved"}, 1, 1, 1),
             Scene(TRUE, {"pair", "chain"}, 1, 2, 1), Scene(TRUE, {"pair"}, 1, 1, 2)}
=============================================================================
