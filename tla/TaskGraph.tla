----------------------------- MODULE TaskGraph -----------------------------
(* The task graph as its commands change it (store.ts, commands/tasks.ts,   *)
(* commands/reviews.ts, commands/run.ts) and as the queries of graph.ts     *)
(* read it: what is ready, what is blocked and why, in which order things   *)
(* run, what shape the graph has.  A command loads the run, changes it and  *)
(* saves it under the run lock, so it is one step and one that throws is    *)
(* none; the runner is reduced to what it does to a task's status.          *)
EXTENDS Integers, Sequences, FiniteSets, FiniteSetsExt

CONSTANTS
    Ids,  \* bound: task ids, numbered from one
    Kits  \* bound: what a behaviour may use: which commands and how many, the
          \* tasks that are there from the start, whether runners come by

Commands == {"add", "chain", "edit", "status", "rm", "set", "gate", "skip", "retry"}
ASSUME GraphAssumption ==
    /\ Ids \subseteq Nat \ {0} /\ IsFiniteSet(Ids)
    /\ \A k \in Kits :
          k.cmds \subseteq Commands /\ k.first \subseteq Ids /\ k.max \in Nat /\ k.runs \in BOOLEAN

VARIABLES
    tasks,  \* the tasks by id
    live,   \* a runner drives the run
    kit,    \* what this behaviour may use
    ops     \* commands so far

graphVars == <<tasks, live, kit, ops>>

Statuses == {"pending", "ready", "running", "completed", "failed", "skipped"}
Terminals == {"completed", "failed", "skipped"}
Unusable == {"failed", "skipped"}

\* addTask's new task: no gate, no failure, no candidate.
NewTask(seq, deps, manual, covers) ==
    [seq |-> seq, deps |-> deps, status |-> "pending", gate |-> "none", kind |-> "none",
     cand |-> FALSE, manual |-> manual, covers |-> covers]
\* The graphs that adding the first tasks one by one makes.
GraphInit ==
    /\ kit \in Kits
    /\ \E d \in [kit.first -> SUBSET kit.first] :
          /\ \A i \in kit.first : \A j \in d[i] : j < i
          /\ tasks = [i \in kit.first |-> NewTask(i, d[i], FALSE, {})]
    /\ live = FALSE
    /\ ops = 0

---------------------------------------------------------------------------
(* graph.ts: queries of a graph ts.                                        *)

IsOpen(ts, i) == ts[i].status \in {"pending", "ready"}
IsTerminal(ts, i) == ts[i].status \in Terminals
DepUnusable(ts, i) == \E d \in ts[i].deps : d \notin DOMAIN ts \/ ts[d].status \in Unusable
DepsMet(ts, i) == \A d \in ts[i].deps : d \in DOMAIN ts /\ ts[d].status = "completed"
GateBlocks(ts, i) == ts[i].gate \in {"asked", "rejected"}

GetReady(ts) ==
    {i \in DOMAIN ts :
        IsOpen(ts, i) /\ ~DepUnusable(ts, i) /\ DepsMet(ts, i) /\ ~GateBlocks(ts, i)}

\* A mutant: only the direct dependencies count.
BlockedNext(ts) == {i \in DOMAIN ts : DepUnusable(ts, i)}
\* A task met again on the way up counts as not blocked: the cycle guard.
TransitiveBlocked(ts) ==
    LET blocked[trail \in SUBSET Ids] ==
            {i \in Ids \ trail :
                \/ i \notin DOMAIN ts
                \/ \E d \in ts[i].deps :
                      d \notin DOMAIN ts \/ ts[d].status \in Unusable \/ d \in blocked[trail \cup {i}]}
    IN  {i \in DOMAIN ts : i \in blocked[{}]}
GetBlocked(ts) == {i \in TransitiveBlocked(ts) : IsOpen(ts, i)}

\* What is painted and listed: the status, or blocked, or gated.
DeriveStatus(ts, i) ==
    IF ts[i].status = "running" \/ IsTerminal(ts, i) THEN ts[i].status
    ELSE IF i \in TransitiveBlocked(ts) THEN "blocked"
    ELSE IF GateBlocks(ts, i) /\ DepsMet(ts, i) THEN "gated" ELSE ts[i].status

\* The reason by task of those that wait for something.
DescribeStuck(ts) ==
    LET open == {i \in DOMAIN ts : IsOpen(ts, i)}
        blocked == TransitiveBlocked(ts)
        reason(i) == IF ts[i].deps \ DOMAIN ts # {} THEN "missing"
                     ELSE IF DepUnusable(ts, i) \/ i \in blocked THEN "blocked"
                     ELSE IF GateBlocks(ts, i) /\ DepsMet(ts, i) THEN "approval"
                     ELSE IF DepsMet(ts, i) THEN "none" ELSE "waiting"
    IN  [i \in {j \in open : reason(j) # "none"} |-> reason(i)]

\* computeDepths: the longest chain of dependencies, Loop where it comes back.
Loop == -1
ComputeDepths(ts) ==
    LET depth[trail \in SUBSET Ids] ==
            [i \in Ids |->
                IF i \in trail THEN Loop
                ELSE IF i \notin DOMAIN ts \/ ts[i].deps = {} THEN 0
                ELSE LET up == {depth[trail \cup {i}][d] : d \in ts[i].deps}
                     IN  IF Loop \in up THEN Loop ELSE 1 + Max(up)]
    IN  [i \in DOMAIN ts |-> depth[{}][i]]
AssertNoCycle(ts) == \A i \in DOMAIN ts : ComputeDepths(ts)[i] # Loop

\* transitiveDepSet, and transitiveDependentIds by passes over all tasks.
TransitiveDepSet(ts, i) ==
    LET up[seen \in SUBSET Ids] ==
            [j \in Ids |->
                IF j \notin DOMAIN ts THEN seen
                ELSE LET new == ts[j].deps \ seen
                     IN  seen \cup new \cup UNION {up[seen \cup new][d] : d \in new}]
    IN  up[{}][i]
TransitiveDependentIds(ts, i) ==
    LET pass[n \in 0..Cardinality(DOMAIN ts)] ==
            IF n = 0 THEN {i}
            ELSE pass[n - 1] \cup {j \in DOMAIN ts : ts[j].deps \cap pass[n - 1] # {}}
    IN  pass[Cardinality(DOMAIN ts)] \ {i}

\* A mutant: a dependency that another one of the task's reaches directly or is.
FindRedundantAny(ts) ==
    {e \in (DOMAIN ts) \X Ids : e[2] \in ts[e[1]].deps /\ Cardinality(ts[e[1]].deps) > 1}
FindRedundantDeps(ts) ==
    {e \in (DOMAIN ts) \X Ids :
        /\ e[2] \in ts[e[1]].deps
        /\ \E o \in ts[e[1]].deps \ {e[2]} : e[2] \in TransitiveDepSet(ts, o)}

\* topoSort: by depth, then in the order they were added; each at its rank.
TopoSort(ts) ==
    LET depths == ComputeDepths(ts)
        before(a, b) == depths[a] < depths[b] \/ (depths[a] = depths[b] /\ ts[a].seq < ts[b].seq)
    IN  [n \in 1..Cardinality(DOMAIN ts) |->
            CHOOSE i \in DOMAIN ts : Cardinality({j \in DOMAIN ts : before(j, i)}) = n - 1]

\* From a deepest task up, each time to a deepest dependency; root first.
LongestChain(ts) ==
    LET depths == ComputeDepths(ts)
        deepest(S) == CHOOSE i \in S : \A j \in S : depths[j] <= depths[i]
        chain[i \in DOMAIN ts] ==
            IF ts[i].deps = {} THEN <<i>> ELSE Append(chain[deepest(ts[i].deps)], i)
    IN  IF DOMAIN ts = {} THEN <<>> ELSE chain[deepest(DOMAIN ts)]

\* analyzeShape, with the warning that the graph is fully serial.
AnalyzeShape(ts) ==
    LET depths == ComputeDepths(ts)
        wave(d) == {i \in DOMAIN ts : depths[i] = d}
        maxWidth == Max({0} \cup {Cardinality(wave(d)) : d \in 0..Cardinality(Ids)})
    IN  [depth |-> Max({0, Len(LongestChain(ts)) - 1}),
         maxWidth |-> maxWidth,
         blastRadius |-> [i \in DOMAIN ts |-> Cardinality(TransitiveDependentIds(ts, i))],
         narrow |-> Cardinality(DOMAIN ts) >= 4 /\ maxWidth <= 1]

---------------------------------------------------------------------------
(* store.ts: operations on a graph ts.                                     *)

\* addTask.
NextSeq(ts) == Max({0} \cup {ts[i].seq : i \in DOMAIN ts}) + 1
WithTask(ts, i, deps, manual, covers) ==
    [j \in DOMAIN ts \cup {i} |->
        IF j = i THEN NewTask(NextSeq(ts), deps, manual, covers) ELSE ts[j]]

\* editTask's new dependencies: the saved candidate goes, a cycle is rolled back.
Edited(ts, i, deps) ==
    LET new == [ts EXCEPT ![i].deps = deps, ![i].cand = FALSE]
    IN  IF AssertNoCycle(new) THEN new ELSE ts

\* removeTask: the others no longer depend on it.
Without(ts, i) ==
    [j \in DOMAIN ts \ {i} |-> [ts[j] EXCEPT !.deps = @ \ {i}]]

\* requeue: a candidate is kept for a failure of landing and after an interruption.
KeepsCandidate == {"landing", "interrupted"}
Requeued(t) ==
    [t EXCEPT !.status = "pending", !.kind = "none",
              !.cand = @ /\ t.kind \in KeepsCandidate]
IsDescendant(ts, c, a) == a \in TransitiveDepSet(ts, c)
\* A mutant: the cascade looks at direct dependents.
RetriedNext(ts, i, cascade) ==
    [j \in DOMAIN ts |->
        IF j = i \/ (cascade /\ ts[j].status \in Unusable /\ i \in ts[j].deps)
        THEN Requeued(ts[j]) ELSE ts[j]]
Retried(ts, i, cascade) ==
    [j \in DOMAIN ts |->
        IF j = i \/ (cascade /\ ts[j].status \in Unusable /\ IsDescendant(ts, j, i))
        THEN Requeued(ts[j]) ELSE ts[j]]
\* retryFailed: retryTask on each task that was failed or skipped, in the order
\* they were added.
RetriedFailed(ts, cascade) ==
    LET failed(n) == {i \in DOMAIN ts : ts[i].seq = n /\ ts[i].status \in Unusable}
        pass[n \in Nat] ==
            IF n = 0 THEN ts
            ELSE IF failed(n) = {} THEN pass[n - 1]
            ELSE Retried(pass[n - 1], CHOOSE i \in failed(n) : TRUE, cascade)
    IN  pass[NextSeq(ts)]

\* A mutant: no cascade in the pass.
SkippedNext(ts, only) ==
    [i \in DOMAIN ts |->
        IF i \in only \cap BlockedNext(ts) /\ IsOpen(ts, i)
        THEN [ts[i] EXCEPT !.status = "skipped", !.kind = "none"] ELSE ts[i]]
\* skipBlocked, in topological order over one memo, and skipGated.
SkipBlocked(ts, only) ==
    [i \in DOMAIN ts |->
        IF i \in only \cap GetBlocked(ts)
        THEN [ts[i] EXCEPT !.status = "skipped", !.kind = "none"] ELSE ts[i]]
SkipGated(ts, only) ==
    [i \in DOMAIN ts |->
        IF i \in only /\ IsOpen(ts, i) /\ GateBlocks(ts, i) /\ DepsMet(ts, i)
        THEN [ts[i] EXCEPT !.status = "skipped"] ELSE ts[i]]

\* setGate.
Gated(ts, i) ==
    [ts EXCEPT ![i].gate = "asked", ![i].status = 
                     IF @ = "pending" THEN "ready" ELSE @]

---------------------------------------------------------------------------
(* The commands: each takes the lock, so no runner is live.                *)

Command(c) ==
    /\ ~live
    /\ c \in kit.cmds /\ ops < kit.max /\ ops' = ops + 1
    /\ UNCHANGED <<live, kit>>
Free == Ids \ DOMAIN tasks

AddCmd(i) ==
    /\ Command("add")
    /\ i \in Free
    /\ \E deps \in SUBSET DOMAIN tasks, manual \in (IF kit.runs THEN BOOLEAN ELSE {FALSE}) :
          tasks' = WithTask(tasks, i, deps, manual, {})

\* chain-review: one task after, and over, the completed tasks of a selection
\* (given ids, a wave, what a task depends on, all) that review nothing themselves.
Selections ==
    LET depths == ComputeDepths(tasks)
    IN  {DOMAIN tasks} \cup {{i} : i \in DOMAIN tasks}
        \cup {{j \in DOMAIN tasks : depths[j] = w} : w \in {depths[i] : i \in DOMAIN tasks}}
        \cup {{i} \cup TransitiveDepSet(tasks, i) : i \in DOMAIN tasks}
ChainReviewCmd(i) ==
    /\ Command("chain")
    /\ i \in Free
    /\ \E S \in Selections :
          LET done == {j \in S : tasks[j].status = "completed" /\ tasks[j].covers = {}}
          IN  /\ done # {}
              /\ tasks' = WithTask(tasks, i, done, FALSE, done)

EditCmd(i) ==
    /\ Command("edit")
    /\ \E deps \in SUBSET (DOMAIN tasks \ {i}) : tasks' = Edited(tasks, i, deps)
EditStatusCmd(i) ==
    /\ Command("status")
    /\ \E s \in {"pending", "completed", "skipped"} : tasks' = [tasks EXCEPT ![i].status = s]
RmCmd(i) == Command("rm") /\ tasks' = Without(tasks, i)

\* set: a command for some tasks, or for all; a running task is left out.
SetCmd ==
    /\ Command("set")
    /\ \E S \in {DOMAIN tasks} \cup {{i} : i \in DOMAIN tasks}, manual \in BOOLEAN :
          tasks' = [i \in DOMAIN tasks |->
                       IF i \in S /\ tasks[i].status # "running"
                       THEN [tasks[i] EXCEPT !.manual = manual] ELSE tasks[i]]

GateCmd(i) == Command("gate") /\ tasks' = Gated(tasks, i)
ApproveCmd(i) ==
    /\ Command("gate")
    /\ tasks[i].gate # "none"
    /\ \E g \in {"approved", "rejected"} : tasks' = [tasks EXCEPT ![i].gate = g]

SkipCmd ==
    /\ Command("skip")
    /\ tasks' = SkipGated(SkipBlocked(tasks, DOMAIN tasks), DOMAIN tasks)
RetryCmd(i, cascade) ==
    /\ Command("retry")
    /\ tasks[i].status # "running"
    /\ tasks' = Retried(tasks, i, cascade)
RetryFailedCmd(cascade) == Command("retry") /\ tasks' = RetriedFailed(tasks, cascade)

---------------------------------------------------------------------------
(* A runner, and the viewer's edits in its memory.                         *)

\* recoverInterrupted; a runner does it first thing, resume without a runner.
Recovered(ts) ==
    [i \in DOMAIN ts |->
        IF ts[i].status = "running"
        THEN [ts[i] EXCEPT !.status = "pending", !.kind = "interrupted"] ELSE ts[i]]
RunBegins == kit.runs /\ ~live /\ live' = TRUE /\ tasks' = Recovered(tasks) /\ UNCHANGED <<kit, ops>>
ResumeCmd ==
    /\ ~live /\ Recovered(tasks) # tasks
    /\ tasks' = Recovered(tasks)
    /\ UNCHANGED <<live, kit, ops>>

Launch(i) ==
    /\ live
    /\ i \in GetReady(tasks) /\ ~tasks[i].manual
    /\ tasks' = [tasks EXCEPT ![i].status = "running"]
    /\ UNCHANGED <<live, kit, ops>>
\* A task lands, or fails before there is something verified to land, or after.
Finish(i) ==
    /\ live /\ tasks[i].status = "running"
    /\ \E t \in {[tasks[i] EXCEPT !.status = "completed", !.kind = "none", !.cand = TRUE],
                 [tasks[i] EXCEPT !.status = "failed", !.kind = "landing", !.cand = TRUE]}
             \cup (IF tasks[i].cand THEN {}
                   ELSE {[tasks[i] EXCEPT !.status = "failed", !.kind = "worker"]}) :
          tasks' = [tasks EXCEPT ![i] = t]
    /\ UNCHANGED <<live, kit, ops>>
\* policySkip, in the scope of the run.
PolicySkip ==
    /\ live /\ "skip" \in kit.cmds
    /\ \E only \in {DOMAIN tasks} \cup {{i} : i \in DOMAIN tasks}, dep \in BOOLEAN, gate \in BOOLEAN :
          LET one == IF dep THEN SkipBlocked(tasks, only) ELSE tasks
          IN  tasks' = IF gate THEN SkipGated(one, only) ELSE one
    /\ UNCHANGED <<live, kit, ops>>
RunEnds == live /\ live' = FALSE /\ UNCHANGED <<tasks, kit, ops>>

\* postTask: what a person says of a task that is not running.
LiveEdit(i) ==
    /\ live /\ ops < kit.max /\ tasks[i].status # "running"
    /\ \/ "status" \in kit.cmds /\ \E s \in {"pending", "completed", "skipped"} : tasks' = [tasks EXCEPT ![i].status = s]
       \/ /\ "gate" \in kit.cmds /\ tasks[i].gate # "none"
          /\ \E g \in {"approved", "rejected", "asked"} : tasks' = [tasks EXCEPT ![i].gate = g]
    /\ ops' = ops + 1
    /\ UNCHANGED <<live, kit>>

GraphNext ==
    \/ \E i \in Ids : AddCmd(i) \/ ChainReviewCmd(i)
    \/ \E i \in DOMAIN tasks :
          \/ EditCmd(i) \/ EditStatusCmd(i) \/ RmCmd(i) \/ GateCmd(i) \/ ApproveCmd(i)
          \/ Launch(i) \/ Finish(i) \/ LiveEdit(i)
          \/ \E cascade \in BOOLEAN : RetryCmd(i, cascade)
    \/ \E cascade \in BOOLEAN : RetryFailedCmd(cascade)
    \/ SetCmd \/ SkipCmd \/ ResumeCmd \/ RunBegins \/ PolicySkip \/ RunEnds

GraphSpec == GraphInit /\ [][GraphNext]_graphVars

---------------------------------------------------------------------------
\* All that a task depends on, in rounds: its dependencies, theirs, and so on.
Above(ts, i) ==
    LET above[n \in Nat] ==
            IF n = 0 THEN ts[i].deps
            ELSE above[n - 1] \cup UNION {ts[j].deps : j \in above[n - 1] \cap DOMAIN ts}
    IN  above[Cardinality(Ids)]
FailedAbove(ts, i) == \E a \in Above(ts, i) : a \notin DOMAIN ts \/ ts[a].status \in Unusable

\* "Why a non-terminal task cannot launch right now": an open task launches or
\* has a reason, the reason is the true one, and a run in which nothing launches
\* and nothing runs has one that only a person can take away. Whatever the order
\* of adds, edits and removals, no task waits for itself or for what is not there.
Explained ==
    LET stuck == DescribeStuck(tasks)
        open == {i \in DOMAIN tasks : IsOpen(tasks, i)}
        idle == GetReady(tasks) = {} /\ \A i \in DOMAIN tasks : tasks[i].status # "running"
    IN  /\ \A i \in DOMAIN tasks : tasks[i].deps \subseteq DOMAIN tasks /\ i \notin Above(tasks, i)
        /\ open \ DOMAIN stuck \subseteq GetReady(tasks)
        /\ \A i \in DOMAIN stuck :
              /\ stuck[i] # "missing"
              /\ stuck[i] = "blocked" <=> FailedAbove(tasks, i)
              /\ stuck[i] = "approval" => ~FailedAbove(tasks, i) /\ tasks[i].gate # "none"
              /\ stuck[i] = "waiting" => \E d \in tasks[i].deps : ~IsTerminal(tasks, d)
        /\ idle /\ (open # {}) => \E i \in open : DeriveStatus(tasks, i) \in {"blocked", "gated"}

\* skip-blocked skips what a failure above blocks and what waits for an approval
\* with all else done, nothing more, and leaves blocked only what depends on a
\* task it skipped for its gate.
SkipsExact ==
    [][SkipCmd =>
        LET skipped == {i \in DOMAIN tasks : tasks'[i].status # tasks[i].status}
            gated == {i \in skipped : ~FailedAbove(tasks, i)}
        IN  /\ \A i \in skipped : IsOpen(tasks, i)
            /\ \A i \in gated : DepsMet(tasks, i) /\ GateBlocks(tasks, i)
            /\ \A i \in DOMAIN tasks :
                  IsOpen(tasks', i) /\ FailedAbove(tasks', i) => gated \cap Above(tasks, i) # {}]_graphVars

\* A retry with its cascade clears the way: nothing after the task is failed or
\* skipped any more, and what is still blocked after it is blocked by a failure
\* that does not come from it; after retry-failed nothing is blocked.
RetryReaches ==
    [][/\ \A i \in DOMAIN tasks : RetryCmd(i, TRUE) =>
             /\ \A j \in DOMAIN tasks : i \in Above(tasks, j) => tasks'[j].status \notin Unusable
             /\ \A j \in GetBlocked(tasks') : \E a \in Above(tasks, j) \ {i} :
                   tasks'[a].status \in Unusable /\ i \notin Above(tasks, a)
       /\ \A cascade \in BOOLEAN : RetryFailedCmd(cascade) => GetBlocked(tasks') = {}]_graphVars

Edges(ts) == [i \in DOMAIN ts |-> ts[i].deps]
Lean(ts) ==
    LET redundant == FindRedundantDeps(ts)
    IN  [i \in DOMAIN ts |-> [ts[i] EXCEPT !.deps = {d \in @ : <<i, d>> \notin redundant}]]
\* The rounds of taking away what depends on nothing that is left.
Rounds(ts) ==
    LET gone[n \in 0..Cardinality(Ids)] ==
            IF n = 0 THEN {} ELSE {i \in DOMAIN ts : ts[i].deps \subseteq gone[n - 1]}
    IN  Cardinality({n \in 1..Cardinality(Ids) : gone[n] # gone[n - 1]})
ShapeFits(ts, shape, order, chain, lean, above) ==
    /\ {order[n] : n \in DOMAIN order} = DOMAIN ts
    /\ \A m, n \in DOMAIN order : order[n] \in above[order[m]] => n < m
    /\ \A n \in 1..Len(chain) - 1 : chain[n] \in ts[chain[n + 1]].deps
    /\ Len(chain) = Rounds(ts)
    /\ \A i \in DOMAIN ts :
          /\ Above(lean, i) = above[i]
          /\ shape.blastRadius[i] = Cardinality({j \in DOMAIN ts : i \in above[j]})
    /\ FindRedundantDeps(lean) = {}
    /\ Cardinality(DOMAIN ts) >= 4 =>
          (shape.narrow <=> \A i, j \in DOMAIN ts : i = j \/ i \in above[j] \/ j \in above[i])
Shaped(ts) ==
    \E shape \in {AnalyzeShape(ts)}, order \in {TopoSort(ts)}, chain \in {LongestChain(ts)},
       lean \in {Lean(ts)}, above \in {[i \in DOMAIN ts |-> Above(ts, i)]} :
       ShapeFits(ts, shape, order, chain, lean, above)
\* The shape that lint and layers report: every task comes after what it depends
\* on; the chain is one and as long as there are rounds of removing roots; the
\* redundant edges can all go at once and order nothing less; a serial graph is
\* one in which any two tasks are ordered; the blast radius is what is below.
ShapeRight == [][Edges(tasks') # Edges(tasks) => \E ts \in {tasks'} : Shaped(ts)]_graphVars
=============================================================================
