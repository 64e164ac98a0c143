----------------------------- MODULE FlowNodes -----------------------------
(***************************************************************************)
(* The life of a node under the Flow 3.0 runner (src/flow3/runner.ts) and  *)
(* under the task operations of the store (src/store.ts).                  *)
(*                                                                         *)
(* A run file holds the tasks.  A runner process takes ready tasks, charges *)
(* an attempt, lets an agent implement it in a worktree, verifies it, pins *)
(* the verified source as a candidate, and merges the candidate into the   *)
(* integration branch, one candidate at a time.  A failed verification may *)
(* be repaired in place, out of an allowance that is never replenished; a  *)
(* failed checkpoint may add a repair task.  The runner may be stopped or  *)
(* die at any step; what it saved is what the next one starts from.        *)
(*                                                                         *)
(* A step of the model is the code between two points where the runner     *)
(* saves or awaits.  `task', `used', `fails', `intents', `round' and       *)
(* `after' are in the run file; `landed' and `merge' are the integration   *)
(* branch and its worktree; the rest is the memory of the runner, except   *)
(* `works' and `fixes', which only the properties read.                    *)
(***************************************************************************)
EXTENDS Integers, Sequences, FiniteSets

CONSTANTS
  Nodes,            \* the tasks of the plan
  Repairs,          \* the checkpoint repair tasks a run may add (repair-<check>)
  Deps,             \* Deps[n]: the dependencies of node n
  Clash,            \* Clash[t]: the tasks whose declared files overlap those of t
  Gated,            \* the nodes that wait for a human approval
  Concurrency,      \* settings.concurrency: chains running at once
  AttemptLimit,     \* AttemptLimit[n]: min(2, max(1, maxAttempts)), the attempts of n per cycle
  NodeRepairRounds, \* flow3.nodeRepairRounds: in-place repairs of a node
  RepairRounds,     \* flow3.repairRounds: checkpoint repairs of a run
  Prints,           \* fingerprints of verifier failures
  Deadline,         \* TRUE iff the run has a wall-clock budget
  MaxCrashes,       \* bound: how often the runner process dies
  MaxOps            \* bound: how often an operator stops the runner or edits the run

Tasks == Nodes \cup Repairs

ASSUME FlowAssumption ==
  /\ Nodes \cap Repairs = {}
  /\ IsFiniteSet(Nodes) /\ IsFiniteSet(Repairs)
  /\ Deps \in [Nodes -> SUBSET Nodes]
  /\ Clash \in [Tasks -> SUBSET Tasks]
  /\ Gated \subseteq Nodes
  /\ Concurrency \in 1..64
  /\ AttemptLimit \in [Nodes -> 1..2]
  /\ NodeRepairRounds \in 0..2 /\ RepairRounds \in 0..2
  /\ Deadline \in BOOLEAN
  /\ MaxCrashes \in Nat /\ MaxOps \in Nat

VARIABLES
  task,       \* Run.tasks: the durable record of every task
  used,       \* flowState.nodeRepairs[n].used
  fails,      \* flowState.nodeRepairs[n].failures
  intents,    \* flowState.repairIntents: the repairs that were charged
  round,      \* flowState.repairRound
  after,      \* the prerequisites of each charged repair
  revision,   \* the requirements every acceptance identity digests
  approved,   \* the gates a human approved
  landed,     \* the candidates the integration branch contains
  merge,      \* MERGE_HEAD of the integration worktree, if any
  up,         \* a runner process is alive
  stopping,   \* FlowRunner.isStopping
  expired,    \* the deadline has passed
  pc,         \* where the runner is in node(), per task
  base,       \* what the worker of a task was reset to
  diffBase,   \* task.diffBase: HEAD of the integration branch before a merge
  landq,      \* FlowRunner.landing: the promise chain of landings
  recPids,    \* FlowRunner.recovery.orphanPids is not empty
  works,      \* how often an agent was sent to implement a node
  fixes,      \* how often an agent was sent to repair a task
  crashes, ops

store  == <<task, used, fails, intents, round, after, revision, approved>>
branch == <<landed, merge>>
memory == <<up, stopping, expired, pc, base, diffBase, landq, recPids>>
ghosts == <<works, fixes>>
bounds == <<crashes, ops>>
vars   == <<store, branch, memory, ghosts, bounds>>

Status    == {"absent", "pending", "running", "completed", "failed"}
Kinds     == {"none", "interrupted", "killed", "merge", "integration", "budget", "exit"}
Decisions == {"none", "repair", "hold"}

\* Failures after which retry resumes the saved source instead of redoing it.
KeptKinds == {"merge", "integration", "interrupted", "killed"}

\* cand is the attempt the saved candidate came from, 0 when there is none.
TaskRecord == [status : Status, attempts : Nat, cycle : Nat, cand : Nat, candDefn : Nat,
               defn : Nat, commit : Nat, kind : Kinds, pid : BOOLEAN,
               decision : Decisions, context : Nat, baseline : BOOLEAN]

NewTask(s) == [status |-> s, attempts |-> 0, cycle |-> 0, cand |-> 0, candDefn |-> 0,
               defn |-> 1, commit |-> 0, kind |-> "none", pid |-> FALSE,
               decision |-> "none", context |-> 0, baseline |-> FALSE]

Candidates == Tasks \X Nat
NoMerge    == [of |-> {}, conflict |-> FALSE]

\* An agent or a check of the task runs: the runner awaits it.
Phases  == {"setup", "work", "verify", "repair", "recover", "resolve"}
\* The task is the one the integration worktree belongs to.
Landing == {"merging", "resolve"}
Places  == Phases \cup {"idle", "restart", "charged", "queued", "merging", "landed"}

Init ==
  /\ task = [t \in Tasks |-> NewTask(IF t \in Nodes THEN "pending" ELSE "absent")]
  /\ used = [n \in Nodes |-> 0] /\ fails = [n \in Nodes |-> {}]
  /\ intents = {} /\ round = 0 /\ after = [r \in Repairs |-> {}]
  /\ revision = 1 /\ approved = {}
  /\ landed = {} /\ merge = NoMerge
  /\ up = FALSE /\ stopping = FALSE /\ expired = FALSE
  /\ pc = [t \in Tasks |-> "idle"]
  /\ base = [t \in Tasks |-> {}] /\ diffBase = [t \in Tasks |-> {}]
  /\ landq = <<>> /\ recPids = FALSE
  /\ works = [t \in Tasks |-> 0] /\ fixes = [t \in Tasks |-> 0]
  /\ crashes = 0 /\ ops = 0

-----------------------------------------------------------------------------
(* What the handlers read. *)

Limit(t)   == IF t \in Repairs THEN 1 ELSE AttemptLimit[t]
DepsOf(t)  == IF t \in Repairs THEN after[t] ELSE Deps[t]
Completed  == {t \in Tasks : task[t].status = "completed"}
DepsMet(t) == DepsOf(t) \subseteq Completed
Stopped    == stopping \/ expired
Active     == {t \in Tasks : pc[t] # "idle"}
Saved(t)   == <<t, task[t].cand>>

\* assertRepairAuthority: the requirements are still those of the context.
Authority(t) == task[t].context = revision

\* The conditions of schedule() and runChain() under which node() is called.
Ready(t) ==
  /\ task[t].status = "pending" /\ DepsMet(t)
  /\ t \notin Gated \/ t \in approved

Enter(t) ==
  /\ up /\ ~Stopped /\ pc[t] = "idle" /\ Ready(t)
  /\ Cardinality(Active) < Concurrency
  /\ Active \cap Clash[t] = {}

\* The four ways node() goes on, in the order it tests for them.
IsHeld(t) ==
  /\ t \in Nodes /\ task[t].cand = 0 /\ ~task[t].baseline
  /\ task[t].decision = "hold" /\ Authority(t)
RecoveryOfSaved(t) == (t \in Repairs \/ task[t].baseline) /\ task[t].attempts > 0
IsRecovery(t) ==
  /\ t \in Repairs \/ task[t].baseline
  /\ task[t].attempts > 0 /\ task[t].cand = 0
IsSaved(t)   == task[t].cand # 0
IsAttempt(t) == ~IsHeld(t) /\ ~IsRecovery(t) /\ ~IsSaved(t)

\* The outer catch of node(): a stopped run keeps the task pending.
Failed(r, kind) ==
  [r EXCEPT !.status = IF stopping THEN "pending" ELSE "failed", !.kind = kind, !.pid = FALSE]

\* The inner catch commits what a failed attempt left, if it left anything.
Kept(r, some) == IF some THEN [r EXCEPT !.commit = r.attempts] ELSE r

\* What the diagnosis of a failure decides.
Decided(r, decision) == [r EXCEPT !.decision = decision]

ChargedPerCycle(r) == [r EXCEPT !.status = "running", !.attempts = r.cycle + 1, !.cycle = @ + 1, !.kind = "none"]
Charged(r) == [r EXCEPT !.status = "running", !.attempts = @ + 1, !.cycle = @ + 1, !.kind = "none"]

-----------------------------------------------------------------------------
(* Entering node(). *)

\* A held repair is not turned into a fresh implementation by a retry.
EnterHeld(t) ==
  /\ Enter(t) /\ IsHeld(t)
  /\ task' = [task EXCEPT ![t] = Failed(@, "budget")]
  /\ UNCHANGED <<used, fails, intents, round, after, revision, approved, branch, memory, ghosts, bounds>>

\* Saved repair edits are verified again; anything doubtful is refused.
EnterRecovery(t) ==
  /\ Enter(t) /\ IsRecovery(t)
  /\ \/ /\ task[t].baseline /\ ~recPids /\ Authority(t)
        /\ task' = [task EXCEPT ![t] = [@ EXCEPT !.status = "running", !.pid = TRUE]]
        /\ pc' = [pc EXCEPT ![t] = "recover"]
     \/ \E kind \in {"budget", "integration"} :
          /\ (~task[t].baseline \/ recPids) => kind = "budget"
          /\ task' = [task EXCEPT ![t] = Failed(@, kind)]
          /\ pc' = pc
  /\ UNCHANGED <<used, fails, intents, round, after, revision, approved, branch, up, stopping,
                 expired, base, diffBase, landq, recPids, ghosts, bounds>>

\* A candidate of this very definition is landed without another attempt.
EnterSaved(t) ==
  /\ Enter(t) /\ IsSaved(t)
  /\ IF task[t].candDefn = task[t].defn /\ (task[t].context = 0 \/ Authority(t))
     THEN /\ task' = [task EXCEPT ![t] = [@ EXCEPT !.status = "running"]]
          /\ pc' = [pc EXCEPT ![t] = "queued"]
          /\ landq' = Append(landq, t)
     ELSE /\ task' = [task EXCEPT ![t] = Failed(@, "integration")]
          /\ UNCHANGED <<pc, landq>>
  /\ UNCHANGED <<used, fails, intents, round, after, revision, approved, branch, up, stopping,
                 expired, base, diffBase, recPids, ghosts, bounds>>

\* An attempt is charged and saved before anything runs for it.
EnterAttempt(t) ==
  /\ Enter(t) /\ IsAttempt(t)
  /\ IF task[t].cycle < Limit(t)
     THEN /\ task' = [task EXCEPT ![t] =
                        [Charged(@) EXCEPT !.decision = IF t \in Repairs THEN task[t].decision ELSE "none",
                                           !.pid = TRUE]]
          /\ pc' = [pc EXCEPT ![t] = "setup"]
     ELSE /\ task' = [task EXCEPT ![t] = Failed(@, "budget")]
          /\ pc' = pc
  /\ UNCHANGED <<used, fails, intents, round, after, revision, approved, branch, up, stopping,
                 expired, base, diffBase, landq, recPids, ghosts, bounds>>

-----------------------------------------------------------------------------
(* An attempt: setup, implementation or repair, verification. *)

\* The worker is reset to the integration branch once per node, then the agent
\* is dispatched.  A repair task needs its authority and saves its baseline first.
Dispatch(t) ==
  /\ pc[t] \in {"setup", "restart"} /\ (stopping => pc[t] = "restart")
  /\ base' = [base EXCEPT ![t] = IF pc[t] = "setup" THEN landed ELSE @]
  /\ \/ /\ t \in Nodes
        /\ task' = [task EXCEPT ![t].pid = TRUE]
        /\ pc' = [pc EXCEPT ![t] = "work"]
        /\ works' = [works EXCEPT ![t] = @ + 1]
        /\ fixes' = fixes
     \/ /\ t \in Repairs /\ Authority(t)
        /\ task' = [task EXCEPT ![t] = [@ EXCEPT !.baseline = TRUE, !.pid = TRUE]]
        /\ pc' = [pc EXCEPT ![t] = "repair"]
        /\ fixes' = [fixes EXCEPT ![t] = @ + 1]
        /\ works' = works
     \/ /\ t \in Repairs /\ ~Authority(t)
        /\ \E some \in BOOLEAN : task' = [task EXCEPT ![t] = Kept(Failed(@, "integration"), some)]
        /\ pc' = [pc EXCEPT ![t] = "idle"]
        /\ UNCHANGED <<works, fixes>>
  /\ UNCHANGED <<used, fails, intents, round, after, revision, approved, branch, up, stopping,
                 expired, diffBase, landq, recPids, bounds>>

\* The preparation command or the agent fails.  An agent that failed before any
\* verification may be sent again in the same workspace, if the cycle allows.
AttemptFails(t) ==
  /\ pc[t] \in {"setup", "work"} /\ ~stopping
  /\ \E some \in BOOLEAN :
       LET r == Kept(task[t], some)
           last == r.cycle >= Limit(t)
       IN  \/ /\ last
              /\ task' = [task EXCEPT ![t] = Failed(r, "exit")]
              /\ pc' = [pc EXCEPT ![t] = "idle"]
           \/ /\ ~last
              /\ task' = [task EXCEPT ![t] = Failed(Decided(r, "hold"), "exit")]
              /\ pc' = [pc EXCEPT ![t] = "idle"]
           \/ /\ ~last /\ pc[t] = "work" /\ expired
              /\ task' = [task EXCEPT ![t] = Failed(Decided(r, "repair"), "budget")]
              /\ pc' = [pc EXCEPT ![t] = "idle"]
           \/ /\ ~last /\ pc[t] = "work" /\ ~expired
              /\ task' = [task EXCEPT ![t] = [Charged(r) EXCEPT !.decision = "none", !.pid = FALSE]]
              /\ pc' = [pc EXCEPT ![t] = "restart"]
  /\ UNCHANGED <<used, fails, intents, round, after, revision, approved, branch, up, stopping,
                 expired, base, diffBase, landq, recPids, ghosts, bounds>>

\* The agent returns: its implementation, or its repair, is verified.
AgentDone(t) ==
  /\ pc[t] \in {"work", "repair"} /\ ~stopping
  /\ task' = [task EXCEPT ![t].pid = TRUE]
  /\ pc' = [pc EXCEPT ![t] = "verify"]
  /\ UNCHANGED <<used, fails, intents, round, after, revision, approved, branch, up, stopping,
                 expired, base, diffBase, landq, recPids, ghosts, bounds>>

\* The verified source is committed, pinned and saved; then it queues for landing.
Verified(t) ==
  /\ pc[t] \in {"verify", "recover"} /\ ~stopping
  /\ task' = [task EXCEPT ![t] =
                [@ EXCEPT !.cand = task[t].attempts, !.candDefn = task[t].defn,
                          !.commit = task[t].attempts, !.pid = FALSE,
                          !.decision = IF pc[t] = "verify" THEN "none" ELSE task[t].decision]]
  /\ pc' = [pc EXCEPT ![t] = "queued"]
  /\ landq' = Append(landq, t)
  /\ UNCHANGED <<used, fails, intents, round, after, revision, approved, branch, up, stopping,
                 expired, base, diffBase, recPids, ghosts, bounds>>

\* verifyNode: a failure that is new, repairable and within the allowance charges
\* one in-place repair; every other failure ends the attempt.
VerifyFails(t) ==
  /\ pc[t] = "verify" /\ ~stopping
  /\ \E f \in Prints, d \in {"repair", "hold"}, some \in BOOLEAN :
       LET allowed == d = "repair" /\ t \in Nodes
                      /\ f \notin fails[t] /\ used[t] < NodeRepairRounds
           decision == IF t \in Nodes /\ ~allowed THEN "hold" ELSE d
       IN  IF allowed /\ ~expired
           THEN /\ used' = [used EXCEPT ![t] = @ + 1]
                /\ fails' = [fails EXCEPT ![t] = @ \cup {f}]
                /\ task' = [task EXCEPT ![t] =
                              [@ EXCEPT !.decision = "repair", !.context = revision, !.pid = FALSE]]
                /\ pc' = [pc EXCEPT ![t] = "charged"]
           ELSE /\ task' = [task EXCEPT ![t] = Kept(Failed(Decided(@, decision), "exit"), some)]
                /\ pc' = [pc EXCEPT ![t] = "idle"]
                /\ UNCHANGED <<used, fails>>
  /\ UNCHANGED <<intents, round, after, revision, approved, branch, up, stopping,
                 expired, base, diffBase, landq, recPids, ghosts, bounds>>

\* guardedRepair: the baseline is saved before the agent is sent.
DispatchRepair(t) ==
  /\ t \in Nodes /\ pc[t] = "charged"
  /\ task' = [task EXCEPT ![t] = [@ EXCEPT !.baseline = TRUE, !.pid = TRUE]]
  /\ pc' = [pc EXCEPT ![t] = "repair"]
  /\ fixes' = [fixes EXCEPT ![t] = @ + 1]
  /\ UNCHANGED <<used, fails, intents, round, after, revision, approved, branch, up, stopping,
                 expired, base, diffBase, landq, recPids, works, bounds>>

\* The repair agent fails, changes nothing, or leaves its scope: the node is held.
RepairFails(t) ==
  /\ pc[t] = "repair" /\ ~stopping
  /\ \E some \in BOOLEAN :
       task' = [task EXCEPT ![t] = Kept(Failed(Decided(@, "hold"), "exit"), some)]
  /\ pc' = [pc EXCEPT ![t] = "idle"]
  /\ UNCHANGED <<used, fails, intents, round, after, revision, approved, branch, up, stopping,
                 expired, base, diffBase, landq, recPids, ghosts, bounds>>

\* recoverRepair: the recovered source does not verify.
RecoveryFails(t) ==
  /\ pc[t] = "recover" /\ ~stopping
  /\ \E d \in {"repair", "hold"} :
       task' = [task EXCEPT ![t] = Failed(Decided(@, d), "exit")]
  /\ pc' = [pc EXCEPT ![t] = "idle"]
  /\ UNCHANGED <<used, fails, intents, round, after, revision, approved, branch, up, stopping,
                 expired, base, diffBase, landq, recPids, ghosts, bounds>>

\* The phase of t ends because the run stops.  An executor that outlives the
\* grace period stops the run: its workspace is kept, its pid is forgotten.
Interrupted(t) ==
  /\ pc[t] \in Phases \ {"resolve"}
  /\ \E hung \in BOOLEAN :
       /\ stopping \/ hung
       /\ stopping' = TRUE
       /\ \E kind \in IF stopping THEN {"killed"} ELSE {"exit"} :
            task' = [task EXCEPT ![t] =
                       [@ EXCEPT !.status = "pending", !.kind = kind, !.pid = FALSE,
                                 !.decision = IF pc[t] \in {"verify", "repair", "recover"}
                                              THEN "hold" ELSE task[t].decision]]
  /\ pc' = [pc EXCEPT ![t] = "idle"]
  /\ UNCHANGED <<used, fails, intents, round, after, revision, approved, branch, up,
                 expired, base, diffBase, landq, recPids, ghosts, bounds>>

-----------------------------------------------------------------------------
(* Landing: the candidates are merged one after the other, in queue order. *)

AnyQueued(t) == pc[t] = "queued"
IsNext(t) == pc[t] = "queued" /\ landq # <<>> /\ Head(landq) = t

\* The next landing of the chain starts when this one has settled.
Settled == SubSeq(landq, 2, Len(landq))

AnyAttemptContained(t) == \E n \in 1..task[t].attempts : <<t, n>> \in landed
\* merge-base --is-ancestor
Contained(t) == Saved(t) \in landed

LandPostponed(t) ==
  /\ IsNext(t) /\ Stopped
  /\ landq' = Append(Tail(landq), t)
  /\ UNCHANGED <<store, branch, up, stopping, expired, pc, base, diffBase, recPids, ghosts, bounds>>
\* A run that stops lands nothing more; the candidate stays saved.
LandRefused(t) ==
  /\ IsNext(t) /\ Stopped
  /\ task' = [task EXCEPT ![t] = Failed(@, "killed")]
  /\ pc' = [pc EXCEPT ![t] = "idle"]
  /\ landq' = Settled
  /\ UNCHANGED <<used, fails, intents, round, after, revision, approved, branch, up, stopping,
                 expired, base, diffBase, recPids, ghosts, bounds>>

\* A candidate the branch already contains is not merged again (a crash came
\* between its merge and its completion).
LandAlready(t) ==
  /\ IsNext(t) /\ ~Stopped /\ Contained(t)
  /\ diffBase' = [diffBase EXCEPT ![t] = landed]
  /\ pc' = [pc EXCEPT ![t] = "landed"]
  /\ landq' = Settled
  /\ UNCHANGED <<store, branch, up, stopping, expired, base, recPids, ghosts, bounds>>

\* git merge --no-ff --no-commit.  On a worktree left in the middle of a merge
\* it refuses; with conflicted files the resolver runs all the same.
LandMerge(t) ==
  /\ IsNext(t) /\ ~Stopped /\ ~Contained(t)
  /\ diffBase' = [diffBase EXCEPT ![t] = landed]
  /\ \/ /\ merge = NoMerge
        /\ merge' = [of |-> {Saved(t)}, conflict |-> FALSE]
        /\ pc' = [pc EXCEPT ![t] = "merging"]
        /\ UNCHANGED <<task, landq>>
     \/ /\ merge = NoMerge \/ merge.conflict
        /\ merge' = IF merge = NoMerge THEN [of |-> {Saved(t)}, conflict |-> TRUE] ELSE merge
        /\ pc' = [pc EXCEPT ![t] = "resolve"]
        /\ task' = [task EXCEPT ![t].pid = TRUE]
        /\ landq' = landq
     \/ \* no resolver is configured, or nothing is in conflict: merge --abort
        /\ merge' = NoMerge
        /\ task' = [task EXCEPT ![t] = Failed(@, "merge")]
        /\ pc' = [pc EXCEPT ![t] = "idle"]
        /\ landq' = Settled
  /\ UNCHANGED <<used, fails, intents, round, after, revision, approved, landed, up, stopping,
                 expired, base, recPids, ghosts, bounds>>

\* The resolver is accepted only if HEAD and MERGE_HEAD are what they were.
ResolveDone(t) ==
  /\ pc[t] = "resolve" /\ ~stopping
  /\ landed = diffBase[t] /\ merge.of = {Saved(t)}
  /\ merge' = [merge EXCEPT !.conflict = FALSE]
  /\ task' = [task EXCEPT ![t].pid = FALSE]
  /\ pc' = [pc EXCEPT ![t] = "merging"]
  /\ UNCHANGED <<used, fails, intents, round, after, revision, approved, landed, up, stopping,
                 expired, base, diffBase, landq, recPids, ghosts, bounds>>

\* Otherwise merge --abort and reset --hard diffBase; a resolver that does not
\* stop keeps the worktree as it is and stops the run.
ResolveFails(t) ==
  /\ pc[t] = "resolve"
  /\ merge' = NoMerge
  /\ \E hung \in BOOLEAN :
       /\ stopping' = (stopping \/ hung)
       /\ landed' = IF hung THEN landed ELSE diffBase[t]
       /\ task' = [task EXCEPT ![t] =
                     [@ EXCEPT !.status = IF stopping' THEN "pending" ELSE "failed",
                               !.kind = "merge", !.pid = FALSE]]
  /\ pc' = [pc EXCEPT ![t] = "idle"]
  /\ landq' = Settled
  /\ UNCHANGED <<used, fails, intents, round, after, revision, approved, up,
                 expired, base, diffBase, recPids, ghosts, bounds>>

\* The merge commit: made, or refused by git and aborted.
LandCommit(t) ==
  /\ pc[t] = "merging"
  /\ merge' = NoMerge
  /\ landq' = Settled
  /\ \/ /\ landed' = landed \cup merge.of
        /\ pc' = [pc EXCEPT ![t] = "landed"]
        /\ task' = task
     \/ /\ task' = [task EXCEPT ![t] = Failed(@, "merge")]
        /\ pc' = [pc EXCEPT ![t] = "idle"]
        /\ landed' = landed
  /\ UNCHANGED <<used, fails, intents, round, after, revision, approved, up, stopping,
                 expired, base, diffBase, recPids, ghosts, bounds>>

Complete(t) ==
  /\ pc[t] = "landed"
  /\ task' = [task EXCEPT ![t] = [@ EXCEPT !.status = "completed", !.kind = "none", !.pid = FALSE]]
  /\ pc' = [pc EXCEPT ![t] = "idle"]
  /\ UNCHANGED <<used, fails, intents, round, after, revision, approved, branch, up, stopping,
                 expired, base, diffBase, landq, recPids, ghosts, bounds>>

-----------------------------------------------------------------------------
(* The run: start, checkpoint repairs, stop, end, death of the process. *)

\* A checkpoint repair is charged and saved, with its prerequisites, ...
ChargeRepair(r) ==
  /\ up /\ ~Stopped /\ Active = {}
  /\ r \notin intents /\ round < RepairRounds
  /\ round' = round + 1
  /\ intents' = intents \cup {r}
  /\ after' = [after EXCEPT ![r] = Completed]
  /\ task' = [task EXCEPT ![r].context = revision]
  /\ UNCHANGED <<used, fails, revision, approved, branch, memory, ghosts, bounds>>

\* ... before the task that performs it is added to the graph.
Materialized(r) == [r EXCEPT !.status = IF @ = "absent" THEN "pending" ELSE @]
Materialize(r) ==
  /\ up /\ r \in intents /\ task[r].status = "absent"
  /\ task' = [task EXCEPT ![r] = Materialized(@)]
  /\ UNCHANGED <<used, fails, intents, round, after, revision, approved, branch, memory, ghosts, bounds>>

\* recoverInterrupted: what is still running cannot be; its pid is reported.
Recovered(r) ==
  IF r.status = "running"
  THEN [r EXCEPT !.status = "pending", !.kind = "interrupted", !.pid = FALSE]
  ELSE r
Leftovers == {t \in Tasks : task[t].status = "running" /\ task[t].pid}

\* The runner owns the run file.  Charged repairs are materialised first.
RunStart ==
  /\ ~up
  /\ up' = TRUE
  /\ recPids' = (Leftovers # {})
  /\ task' = [t \in Tasks |-> Recovered(IF t \in intents THEN Materialized(task[t]) ELSE task[t])]
  /\ base' = [t \in Tasks |-> {}] /\ diffBase' = [t \in Tasks |-> {}]
  /\ UNCHANGED <<used, fails, intents, round, after, revision, approved, branch, stopping, expired,
                 pc, landq, ghosts, bounds>>

\* The finally of run(): the worktrees go, the lock is released.
RunEnd ==
  /\ up /\ Active = {}
  /\ up' = FALSE /\ stopping' = FALSE /\ recPids' = FALSE
  /\ merge' = NoMerge
  /\ UNCHANGED <<store, landed, expired, pc, base, diffBase, landq, ghosts, bounds>>

Stop ==
  /\ up /\ ~stopping /\ ops < MaxOps
  /\ stopping' = TRUE /\ ops' = ops + 1
  /\ UNCHANGED <<store, branch, up, expired, pc, base, diffBase, landq, recPids, ghosts, crashes>>

DeadlinePasses ==
  /\ Deadline /\ up /\ ~expired
  /\ expired' = TRUE
  /\ UNCHANGED <<store, branch, up, stopping, pc, base, diffBase, landq, recPids, ghosts, bounds>>

\* The process dies.
Crash ==
  /\ up /\ crashes < MaxCrashes
  /\ crashes' = crashes + 1
  /\ up' = FALSE /\ stopping' = FALSE /\ recPids' = FALSE
  /\ pc' = [t \in Tasks |-> "idle"]
  /\ landq' = <<>>
  /\ UNCHANGED <<store, branch, expired, base, diffBase, ghosts, ops>>

-----------------------------------------------------------------------------
(* The operator, between two runs. *)

Operator == ~up /\ ops < MaxOps /\ ops' = ops + 1

\* clear: what an edit, or a retry that redoes the work, forgets.
Cleared(r) == [r EXCEPT !.cand = 0, !.candDefn = 0, !.baseline = FALSE]

Requeued(r) ==
  [(IF r.kind \in KeptKinds THEN r ELSE Cleared(r)) EXCEPT
     !.status = "pending", !.kind = "none", !.cycle = 0, !.pid = FALSE]

\* The tasks that depend on t, directly or not.
Downstream(t) ==
  {u \in Tasks : \A S \in SUBSET Tasks :
     (\A v \in Tasks : DepsOf(v) \cap (S \cup {t}) # {} => v \in S) => u \in S}

\* dag retry --id t [--cascade]
Retry(t) ==
  /\ Operator
  /\ task[t].status \in {"pending", "completed", "failed"}
  /\ \E cascade \in BOOLEAN :
       LET again == {t} \cup (IF cascade
                              THEN {u \in Downstream(t) : task[u].status = "failed"} ELSE {})
       IN  /\ task' = [u \in Tasks |-> IF u \in again THEN Requeued(task[u]) ELSE task[u]]
  /\ UNCHANGED <<used, fails, intents, round, after, revision, approved, branch, memory, ghosts, crashes>>

\* dag set --cmd: the definition changes, the saved state stays.
SetCommand(n) ==
  /\ Operator /\ task[n].status # "running"
  /\ revision' = revision + 1
  /\ task' = [task EXCEPT ![n].defn = revision + 1]
  /\ UNCHANGED <<used, fails, intents, round, after, approved, branch, memory, ghosts, crashes>>

\* dag edit: the definition changes and the candidate is cleared.
EditNode(n) ==
  /\ Operator
  /\ revision' = revision + 1
  /\ task' = [task EXCEPT ![n] = [Cleared(@) EXCEPT !.defn = revision + 1]]
  /\ UNCHANGED <<used, fails, intents, round, after, approved, branch, memory, ghosts, crashes>>

Approve(n) ==
  /\ Operator /\ n \in Gated \ approved
  /\ approved' = approved \cup {n}
  /\ UNCHANGED <<task, used, fails, intents, round, after, revision, branch, memory, ghosts, crashes>>

\* killOrphans: every recorded pid is killed and forgotten.
Reaped(tasks) == [t \in Tasks |-> [tasks[t] EXCEPT !.pid = FALSE]]

\* dag kill-orphans
KillOrphans ==
  /\ Operator /\ \E t \in Tasks : task[t].pid
  /\ task' = Reaped(task)
  /\ UNCHANGED <<used, fails, intents, round, after, revision, approved, branch, memory, ghosts, crashes>>

\* dag resume [--kill-orphans]: recoverInterrupted first, then killOrphans.
Resume(kill) ==
  /\ Operator
  /\ \E t \in Tasks : task[t].status = "running"
  /\ LET again == [t \in Tasks |-> Recovered(task[t])]
     IN  task' = IF kill THEN Reaped(again) ELSE again
  /\ UNCHANGED <<used, fails, intents, round, after, revision, approved, branch, memory, ghosts, crashes>>

-----------------------------------------------------------------------------
Node(t) ==
  \/ EnterHeld(t) \/ EnterRecovery(t) \/ EnterSaved(t) \/ EnterAttempt(t)
  \/ Dispatch(t) \/ AttemptFails(t) \/ AgentDone(t)
  \/ Verified(t) \/ DispatchRepair(t) \/ VerifyFails(t)
  \/ RepairFails(t) \/ RecoveryFails(t) \/ Interrupted(t)
  \/ LandRefused(t) \/ LandAlready(t) \/ LandMerge(t)
  \/ ResolveDone(t) \/ ResolveFails(t) \/ LandCommit(t) \/ Complete(t)

Run == RunStart \/ RunEnd \/ \E r \in Repairs : ChargeRepair(r) \/ Materialize(r)

Environment ==
  \/ Stop \/ DeadlinePasses \/ Crash
  \/ \E t \in Tasks : Retry(t)
  \/ \E n \in Nodes : SetCommand(n) \/ EditNode(n) \/ Approve(n)
  \/ KillOrphans \/ \E kill \in BOOLEAN : Resume(kill)

Next == (\E t \in Tasks : Node(t)) \/ Run \/ Environment

Spec == Init /\ [][Next]_vars

-----------------------------------------------------------------------------
(* Fairness: every phase has a timeout and a stop cancels it, so the runner  *)
(* always goes on with what it has begun; nothing is assumed of operators,   *)
(* agents that outlive their phase, crashes, or of what a phase returns.     *)

Step(t) ==
  \/ Dispatch(t) \/ AttemptFails(t) \/ AgentDone(t)
  \/ Verified(t) \/ DispatchRepair(t) \/ VerifyFails(t)
  \/ RepairFails(t) \/ RecoveryFails(t) \/ Interrupted(t)
  \/ LandRefused(t) \/ LandAlready(t) \/ LandMerge(t)
  \/ ResolveDone(t) \/ ResolveFails(t) \/ LandCommit(t) \/ Complete(t)

FairSpec == Spec /\ WF_vars(RunEnd) /\ \A t \in Tasks : WF_vars(Step(t))

-----------------------------------------------------------------------------
(* Properties. *)

\* Every variable has its type.
TypeOK ==
  /\ task \in [Tasks -> TaskRecord]
  /\ used \in [Nodes -> Nat] /\ fails \in [Nodes -> SUBSET Prints]
  /\ intents \subseteq Repairs /\ round \in Nat
  /\ after \in [Repairs -> SUBSET Tasks]
  /\ revision \in Nat \ {0} /\ approved \subseteq Nodes
  /\ landed \subseteq Candidates
  /\ merge \in [of : SUBSET Candidates, conflict : BOOLEAN]
  /\ up \in BOOLEAN /\ stopping \in BOOLEAN /\ expired \in BOOLEAN
  /\ pc \in [Tasks -> Places]
  /\ base \in [Tasks -> SUBSET Candidates]
  /\ diffBase \in [Tasks -> SUBSET Candidates]
  /\ landq \in Seq(Tasks) /\ recPids \in BOOLEAN
  /\ works \in [Tasks -> Nat] /\ fixes \in [Tasks -> Nat]
  /\ crashes \in Nat /\ ops \in Nat

\* A task that is completed has its commit in the integration branch, whatever
\* was stopped, retried, aborted or lost in a crash on the way (node, land, complete).
CompletedLanded == \A t \in Completed : <<t, task[t].commit>> \in landed

\* An agent, and the verification of what it wrote, work on a base that holds the
\* integrated commit of every dependency of the task (runChain, reset, node).
BuiltOnDeps ==
  \A t \in Nodes : pc[t] \in {"restart", "work", "verify", "charged", "repair"} =>
    \A d \in Deps[t] : <<d, task[d].commit>> \in base[t]

\* No dispatch is free: over all runs of a plan, an agent is sent to implement a
\* node at most once per charged attempt, to repair it at most once per charged
\* repair and never more than the allowance, and to a checkpoint repair at most
\* once, even when the runner dies between the charge and the dispatch.
ChargedFirst ==
  /\ \A n \in Nodes : /\ works[n] <= task[n].attempts
                      /\ fixes[n] <= used[n] /\ used[n] <= NodeRepairRounds
  /\ \A r \in Repairs : works[r] = 0 /\ fixes[r] <= 1
  /\ Cardinality(intents) = round /\ round <= RepairRounds

\* While a verified candidate is saved no agent runs for its task: it is landed,
\* refused, or cleared by the operator, never implemented over (node).
SavedNotRedone ==
  \A t \in Tasks :
    pc[t] \in {"setup", "restart", "work", "verify", "charged", "repair", "recover"} =>
      task[t].cand = 0

\* The integration worktree is used by one task at a time: an unfinished merge
\* belongs to the head of the landing queue (FlowRunner.landing).
OneLander ==
  \A t \in Tasks : pc[t] \in Landing =>
    /\ landq # <<>> /\ Head(landq) = t
    /\ landed = diffBase[t]
    /\ \A u \in Tasks \ {t} : pc[u] \notin Landing

\* The inductive invariant behind CompletedLanded, SavedNotRedone and OneLander:
\* what holds of a task at every place of node().  A task the runner holds is
\* running; an attempt that is under way was charged and replaces no candidate; the
\* commit of a task is its candidate's; a task on its way to the branch has a
\* candidate, and the branch, MERGE_HEAD and the queue agree with where it is.
Unverified == {"setup", "restart", "work", "verify", "charged", "repair", "recover"}
Integrated == {"queued", "merging", "resolve", "landed"}

Sound(t) ==
  /\ pc[t] # "idle" => up /\ task[t].status = "running"
  /\ pc[t] \in Unverified => task[t].cand = 0 /\ task[t].attempts # 0
  /\ task[t].cand # 0 => task[t].commit = task[t].cand
  /\ pc[t] \in Integrated => task[t].cand # 0
  /\ pc[t] = "merging" => merge.of = {Saved(t)}
  /\ pc[t] \in Landing => landq # <<>> /\ Head(landq) = t /\ landed = diffBase[t]
  /\ pc[t] = "landed" => Saved(t) \in landed
  /\ task[t].status = "completed" => <<t, task[t].commit>> \in landed

IInv == TypeOK /\ \A t \in Tasks : Sound(t)

\* Nothing that was integrated is ever dropped from the branch, neither by the
\* reset of a failed conflict resolution nor by a crash or restart (land).
LandedStays == [][landed \subseteq landed']_vars

\* What is begun is finished one way or another: no task is left in the middle
\* of node(), behind a landing that never comes or a phase that never ends.
Settles == \A t \in Tasks : (pc[t] # "idle") ~> (pc[t] = "idle")

=============================================================================
