# A TLA+ model of DAG orchestrator

The repository runs a plan of coding tasks, a directed acyclic graph, with agent
programs: each task is implemented in a git worktree of its own, verified by its
command, and merged into an integration branch.  This directory models the parts
of it whose correctness depends on the order in which things happen: who holds a
file, what is saved before what, what a crash leaves behind, what an operator or
another process may change meanwhile.  The models are checked on small instances
with TLC, and their most important invariants are proved for every instance with
TLAPS.

Contents: [the system](#the-system), [modules and plan](#modules-and-plan),
one section for each model ([FlowNodes](#flownodes), [FlowRun](#flowrun),
[DagRunner](#dagrunner), [TaskGraph](#taskgraph), [Planning](#planning),
[Factory](#factory), [Hub](#hub), [PathLock](#pathlock), [Registry](#registry),
[Scheduler](#scheduler)), [what is proved](#proved), [where code and documentation
disagree](#where-the-code-and-its-documentation-disagree) and [what is left
out](#what-is-left-out).

## The system

| Part | State | Operations | Interacts with |
|---|---|---|---|
| Run file (`store.ts`, `types.ts`) | `Run.tasks`, `flowState`, events; a definition file, a state file, their `.bak` | add, edit, remove, set, retry, skip, gate, recover, reap, save, load | everything; one writer at a time under the run lock |
| Run lock (`store.ts` 182-236, 402-487) | `<file>.lock` with host, pid, time | acquire, steal a stale lock, force, release | the runner, the CLI, the registry |
| Flow 3.0 runner (`flow3/runner.ts`) | worktrees, the integration branch, chains in flight, the landing promise, stop flag, deadline | `run`, `schedule`, `runChain`, `node`, `land`, `checkpoint`, `addFix`, `finalReview`, `stop` | run file, git, agent processes |
| Flow 3.0 graph and scope (`flow3/graph.ts`, `flow3/lifecycle.ts`) | none | `checkGraph`, `chainWaves`, `completionScope` | runner, planning |
| Dependency queries (`graph.ts`) | none | readiness, blocking, transitive sets, convergence, stuck report | all |
| Legacy and lean runner (`runner.ts`) | per-run sets of running tasks, worktrees, budgets | attempt loop, reviewers, gates, merges | run file, git, `integration.ts` |
| Verified integration (`integration.ts`) | receipts | integrate, reconcile | git, runner |
| Scheduler (`scheduler.ts`) | `schedule.json` | add, remove, retry, clear jobs; the daemon's reap, block, pick, spawn | run files, child processes |
| Registries (`registry.ts`, `launcher.ts`) | JSON files in the home directory | add, remove, set a port, prune | CLI, viewer |
| Viewer (`server.ts`) | none of its own | HTTP handlers over store operations, autoresume | run file, registry |
| Planning (`planning/`) | manifest, amendment and migration journals, receipts | validate, compile, amend, migrate, review, record evidence | run file, lean runner |
| Run archive (`runs.ts`) | `dag.runs/<id>` | archive, start a new run, find | run file, viewer, CLI |
| Factory (`factory/`) | `controller-v1.json`, artifacts with a manifest of digests | controller stages, convergence, certification, analyses | run file, runner, git |

What is hard in it.  Chains run concurrently in one process and share one integration
worktree; every `await` is a point where another chain, a stop or a deadline may come
in.  Agents are detached processes that outlive the runner.  The process may die
between any two saves, and git, the worktree and the run file are then in different
states.  Operators edit the run file between runs, and other `dag` processes edit the
shared files at any time.  What must hold of each part:

- nodes: charged before dispatched; verified before landed; landed before completed;
  nothing landed twice or lost; a saved candidate never implemented over;
- run loop: a checkpoint judges a branch at rest; a run is accepted only when its whole
  scope and every repair are completed, after a check of the whole; every run ends;
- lock: one owner; what a crash leaves can be taken; a file write leaves the old or the
  new text;
- registries: no update is lost;
- scheduler: one job in flight, every job eventually runs or is reported, a dependent
  only after its predecessor succeeded;
- classic and lean runner: attempts counted before they run and bounded; what completes
  was merged, what was published is not redone; a stop reaches every agent; runs end;
- graph: every waiting task has its true reason; skip and retry reach what they should;
- planning: a verdict counts only for the contract it was given under; no command that
  is interrupted takes work back;
- factory: no repair without a decision; what is certified is what was checked;
- viewer and command line: one driver per run file, acknowledged edits stay, history is fixed.

## Modules and plan

| Module | Models | Extends or instantiates |
|---|---|---|
| `FlowNodes` | the life of a node under the Flow 3.0 runner and the operations of the store on it | |
| `FlowRun` | the run loop above it: scope, waves, checkpoints, repairs, review, claims | |
| `DagRunner` | the classic and the lean runner: attempts, phases, landings, receipts, budgets, quota pauses, stop and crash | |
| `TaskGraph` | the commands on the task graph and the queries of `graph.ts`, against their definitions | |
| `Planning` | a run managed by a manifest: compilation, amendment, migration, evidence, recovery of a checkpoint | |
| `Factory` | the controller of the factory, its stages, checkpoints and artifacts | |
| `Hub` | the viewer's hub and the command line on one project: runs, edits, archive, lock, file by file | |
| `PathLock` | the pid lock file of `store.ts`, every system call a step | |
| `AtomicRegistry` | what the project registry promises: each edit takes effect at one instant | |
| `Registry` | `registry.ts` over the lock and over `atomicWrite` | extends `PathLock`, implements `AtomicRegistry` |
| `Scheduler` | the daemon and the commands on `schedule.json` | |
| `MC...` | the instances TLC checks: constants that a `.cfg` cannot write | each its module |
| `FlowNodes_proofs`, `FlowRun_proofs`, `DagRunner_proofs`, `Store_proofs`, `Scheduler_proofs`, `Hub_proofs`, `Factory_proofs`, `Planning_proofs` | the theorems (those of `PathLock`, `Registry` and `TaskGraph` are in `Store_proofs`) | each its module and `TLAPS` |

An operator that is defined right before another and has its parameters, with a comment
or a name that says what it gets wrong (`SlotFree`, `RepairableAgain`, `ReconciledNever`), is a
plausible wrong version of it: put in its place, it makes one of the properties fail.
`PROJECT.json` lists the pairs.

The two runners share no module.  Flow 3.0 saves a verified candidate and lands it under a
promise, the lean runner publishes by a receipt and `update-ref`, the classic one merges:
what is common to them is the list of a task's statuses, and each model states the same
promise (`CompletedLanded`, `ChargedFirst`) over its own state.  `DagRunner` saves late, as
the code does; `Planning` reduces it to the steps that touch evidence and receipts; `TaskGraph`
reduces it to what it does to a status; `Hub` and `Factory` to a process that saves and ends.

What is left of the plan, the most important first:

1. `TaskBoard`, the statuses of tasks as the run loop sees them: an abstract specification
   that `FlowNodes` and `DagRunner` implement, and whose steps are those `FlowRun` takes at
   node level.
2. `Hub` over `PathLock` instead of over an atomic lock, and the server registry.
3. The circuit of a review adapter, shared by reviewers that change it after an await.

## FlowNodes

A step is the code of `FlowRunner` between two points where it saves or awaits.  `task`
is `Run.tasks`: `attempts` and `cycle` are `attempts` and `attemptsInCycle`, `cand` names
the saved candidate by the attempt it came from, `defn` and `candDefn` stand for the
digests of the definition a task has and its candidate had, `context` for the acceptance
identity a repair was authorised under, `baseline` for `nodeState.repairBaseline`.  `used`,
`fails`, `intents`, `round` are the ledgers of `flowState`.  `landed` is the set of
candidates the integration branch contains, `merge` its `MERGE_HEAD`, `landq` the promise
chain `this.landing`.  `pc[t]` says where `node(t)` is suspended:

    idle -> setup -> work -> verify -> queued -> merging -> landed -> idle
                       |        |                  |  ^
                    restart   charged -> repair    resolve

and `recover` is `recoverRepair`.  `works` and `fixes` are history: how often an agent was
sent.  The environment may stop the runner, let the deadline pass, kill the process at any
step (leaving repair agents alive or not), and, between two runs, retry (with cascade), set,
edit, approve, resume and reap.  Everything a phase returns is a choice.

| Run | Instance | Shows |
|---|---|---|
| `nodes` | a -> b, b behind a gate with two attempts, all files overlapping, a repair in place, a checkpoint repair, 1 crash, 1 intervention | `CompletedLanded`: a completed task is in the branch; `ChargedFirst`: no dispatch is free; `SavedNotRedone`: no agent works over a saved candidate |
| `nodes_flat` | two independent nodes, concurrency 2, a deadline, 1 crash, 1 intervention, fairness | `OneLander`: landings are serialised; `Settles`: what is begun ends |

Bounds.  Two nodes are enough for two landings to compete, for a dependent to start
before its dependency is integrated, and for an edit of one to meet a saved candidate of
the other; the invariants are about one task, or a pair.  One crash and one
intervention reach every place a run can be resumed at.  `AttemptLimit` is per node, as a
retry or a profile may give it; it, `NodeRepairRounds` and `RepairRounds` lie in the ranges
`contracts.ts` and the runner allow.

Fairness.  Every phase has a timeout and the stop signal cancels it, so a step of a
node that has begun is always followed by another (`WF` of `Step(t)`), and a run with
nothing left ends (`WF` of `RunEnd`).  Nothing is assumed of operators, crashes, orphans,
starts, or of what a phase returns.

## FlowRun

The run loop above `node()`, which is one step here (`NodeEnds`): it completes, fails, is
put back by a stop, or throws for the whole run.  Store fields: `status`, `intent`
(`repairIntents`), `round` and `failures` (the repair ledger), `completion` (the saved
scope), `review`, `claim` (`implementationComplete`, `acceptanceStatus`,
`productComplete`).  `head` counts what the branch holds and `revision` what operators
did to the plan, so that `Identity` stands for the acceptance digest of `lifecycle.ts`.
Memory of the runner: `scope`, `chains`, `queue`, `wave`, `before` (`previouslyDone`),
`running`, `check`, `final` (`finalCheckpointId`), `issue`, `stopping`.  The control is

    off -> repairs <-> mending
              |
            next -> wave -> waveCheck -> waveChecked -> waveCharged -> fixing
              |
            decide -> final -> finalChecked -> review -> ending -> off
                                 |   (finalCharged, Reopen: back to repairs)

A chain is the set of its tasks: `chainWaves` makes straight paths, which their
dependencies order, so nothing is lost.  What a checkpoint finds is a choice: failures by
fingerprint, a failure that is held for a human, producers it waits for.

| Run | Instance | Shows |
|---|---|---|
| `flowrun` | a, b independent; b optional, gated and waited for by the final checks; a whole run or {b} selected; two repairs, two failures, a review, a deadline, a stop, a crash and one operator action; fairness | `RepairLedger`: charges have their intents and no failure is charged twice; `AcceptedAsIs`, `ProductIsWhole`: what a run accepts is there; `RunEnds`: the loop over repairs and reopened producers ends |

Bounds.  `repairRounds` is at most 2 in the code (`contracts.ts` 195), and the run has both
rounds.  Two nodes without an edge give a wave with two chains, which is what the exclusion
of a checkpoint from running chains needs, and the gate gives a second wave; one operator
action between runs reaches each stale datum once (a retry of a completed task under an
accepted claim, an edit, a removal, an approval), and the crash gives the third run.

Fairness: `WF` of `Runner`, the disjunction of the steps of the process: each phase ends by
its timeout, and the event loop goes on.  Nothing is assumed of the environment, of the
order of chains, or of the verdicts.

Not modelled in it: the advisory call, `checkGraph` and the edges it adds before a run,
the exclusion of chains whose `touches` overlap (it only delays), `verify_requires`, the text
patterns by which `repairDecision` sorts failures, skipped tasks, and edits of a repair
task; `retry --cascade` is several retries.

## DagRunner

`runner.ts` drives the classic and the lean profile with one `executeTask` per task.  A task
is kept twice: `mem` is the object the runner edits, `disk` what the last save wrote; saves
are throttled (`Save` may come at any time) except where the code flushes (`Flushed`).  `job[t]` is
the place of `executeTask(t)`:

    idle -> prepare -> plan -> run -> review -> verify -> land -> intent -> published -> idle
              \________ backoff (the phase is tried again) ________/

In `prepare`, `plan`, `run` and `review` an agent process is alive and anything may come in;
`verify`, `land`, `intent` and `published` are the synchronous points of a landing, between which
only a crash can fall: `intent` is after `integrationReceipt` was flushed and the receipt
written, `published` after `update-ref`.  `base` is the branch the worktree was made from,
`rec` what a quota pause left to do, `hit` that the agent was signalled.  `accepted` is the
branch, as pairs of a task and an attempt; `receipts` the receipt files; `rev`, `tally`, `round` the
final review; `pause` the quota pause, from capture over stop to the claim of the next start;
`orphans` the agents that outlived their run, with what left them behind.  `conf` is the whole
run: profile, isolation, limits, graph, gates, which tasks are prepared, planned, reviewed or
judge a chain, and the bound `faults` on stops, crashes, lost saves, outages and operator calls.

| Run | Instance | Shows |
|---|---|---|
| `engine` | ten scenarios (`Core`): a classic chain with a reviewer and `skip`, two classic tasks under a final review of each, one with retries, one with every phase and a chain review, no isolation; two lean landings that race, a lean task with reviews and quota pauses, one with a final review, one without isolation; a deadline of the whole run | `CompletedLanded`, `BuiltOnDeps`: what completes was merged, in memory and on disk, and dependents are built on it; `ChargedFirst`: the saved ledger has every attempt whose agent lives; `StopKills`: a stop reaches the agents; `PublishedNotRedone`: a crash after `update-ref` costs no second attempt; `RunEnds` |

Bounds.  Every property is about one task or a task and what it depends on, so two tasks
suffice; two in a race are what the one integration worktree and the shared save need.  A
scenario switches on the features that meet in it and has the faults its state space allows: one
or two, which reaches a crash or stop at every place and what the next start makes of it.
`CompletedLanded` and `BuiltOnDeps` leave out runs with a deadline of the whole run, where the
code does not keep them (see below).

Fairness: the loop goes round (`WF` of `LoopStep`), a stop settles after its grace
(`ForceSettle`), each phase returns, is signalled or times out (`TaskStep(t)`).  Nothing is
assumed of operators, faults, verdicts or of the order of tasks.

## TaskGraph

A command loads the run, changes it and saves it under the lock, so it is one step; one
that throws is none.  The runner is what it does to a status.  The queries of `graph.ts`
(`GetReady`, `TransitiveBlocked`, `DescribeStuck`, `ComputeDepths`, `TransitiveDependentIds`,
`FindRedundantDeps`, `TopoSort`, `LongestChain`, `AnalyzeShape`) are written as the code
computes them, and the properties say what they should be: `Above` is the closure in
rounds, `Rounds` the number of layers, and so on.  A search that keeps a trail or what it has
seen is a function of that set (`blocked[trail]`, `depth[trail]`, `up[seen]`), and `topoSort` gives each
task its rank in the order the code sorts by.  `Ids` is any finite set of positive numbers.

| Run | Instance | Shows |
|---|---|---|
| `graph` | four ids, five kits of commands (`MCKits`): the graph alone; runners and reviews; approvals; failures; edits of a status | `Explained`: a task launches or has its true reason, and no graph that commands make has a cycle or a dangling edge; `SkipsExact`, `RetryReaches`: what the commands reach; `ShapeRight`: order, longest chain, redundant edges, serial shape, blast radius |

Bounds.  Four tasks hold a diamond, a redundant edge over two others, and a failure two
steps away; all graphs on the first tasks are initial states.  Two or three commands follow
each other in every order.  Nothing here is about an end, so no fairness.

## Planning

`def` and `st` are the run file and its state file, `amending` and `migrating` the two journals.
A command works out what it will write (`cmd.to`) and writes the definition, the state and the
journal in that order (`WriteDef`, `WriteState`, `WriteJournal`); it may die between any two, and is
given again with the same manifest.  `receipts` are published attempts with their revision, `log`
the events since the snapshot of the last amendment, from which `recover-checkpoint` rebuilds
a damaged state.  A revision is the name of a manifest, as the code has its digest.
`Contract` is `acceptedIdentity`, `Definition` is `planningDefinition`.  The saves of
the runner are taken in the step that makes the change: `DagRunner` models their delay.

| Run | Instance | Shows |
|---|---|---|
| `planning` | five manifests on three tasks (two that write one file; a chain whose criterion moves; the same without the order, refused; three sharing a slot, review required; one task given up), four scenes with a crash, damage or a retry and one or two amendments or migrations; fairness | `EvidenceEarned`: an accepted criterion was met under its present contract; `ContributorsFirst`; `WorkKept`: nothing takes attempts or accepted work back; `AmendSettles`: an interrupted amendment can always be finished |
| `plan_interrupted` | the same | `InterruptedRefuses` is violated, see below |

Bounds.  An amendment that is interrupted, resumed and followed by a damaged state takes
two mishaps and one amendment; a second manifest is needed to amend to, a third to be refused.

Fairness: a command and the step from publication to record go on (`WF`), a run ends, and the
operator resumes an interrupted amendment at some time when the lock is free (`SF` of `Resume`:
the lock comes and goes with runs).  `AmendSettles` then says that nothing refuses it for ever.
`WorkKept` leaves out runs that were started on a half-written amendment, see below; the scenes
have at most two mishaps, and what a third can do then is said under [Proved](#proved).

## Factory

A controller call (`mem`) goes through the stages of `controller.ts`; a turn runs the stage's tasks
(`TaskCompletes`, `TaskFails`, any output) and then a handler.  Handlers are synchronous: what
one reads is read at once, what it writes is put in `todo` and reaches the disk file by file
(`Write`), and the process may die between two.  `ctl` is the checkpoint, `art` the artifacts (an
artifact and the digest of it in the manifest are two files), `run` the tasks, `head` and `dirty` the
sources.  Artifacts are modelled when a later stage or a redone one depends on their content.
Between calls the operator resumes, fixes, closes, retries tasks of the waiting stage and commits.

| Run | Instance | Shows |
|---|---|---|
| `factory` | two hypotheses; goals to build and to review, with and without task worktrees, a policy that names a check, low coverage, a plan with too little room; three reports, three answers; one death or retry; fairness | `RepairsAuthorized`: a review repairs nothing unasked; `CertifiedFresh`: what is certified was rechecked on that commit; `ReviewedAsStarted`: a report is of the commit it was started on; `JudgedByItsPacket`: a verifier is judged by what it was shown; `DriveReturns` |

Bounds.  Two hypotheses let one be verified while the other is rejected or in dispute; two or
three commits let the sources change after each of the two points where they are pinned.  One
death reaches each pair of writes; a second would find what the first left.

Fairness: the controller and the engine under it go on while the process lives (`WF` of
`Controller`).  The loop has a bound of 12 turns, which is what ends it at the report.

## Hub

The viewer's hub (`server.ts`) keeps a runtime per run id (`hub.rts`) and drives at most one run
of the file itself (`hub.driver`, `hub.mem`); the command line (`cli`) runs one command at a time
under the lock until it exits.  Both work on the active slot, a definition and a state each with
a `.bak`, and move runs to the archive.  `todo[p]` is what process `p` has still to do of the file
operations it decided on: a save is up to four renames, a move a row of them.  `hub.req` is a
request whose headers were looked at and whose body is not there yet.  `past.kept` has
the edits that were acknowledged.  Taking the lock is one step (`PathLock` has the steps), and
the lock of a dead process is free.

| Run | Instance | Shows |
|---|---|---|
| `hub` | two run ids, two edits, one death | `OneDriver`: while the hub drives, no command does; `LockFreed`: the lock is held while somebody works and no longer; `EditsKept`: what was acknowledged is found where the run is; `HistoryFixed`: an archive never changes |

Bounds.  Two ids are an active run and the one it was archived for, or two runtimes of one
slot; two edits are one of each hand.  `Habits` is empty in the run: requests come whole, name the
run that is in the slot, and the hub does not archive while a command is running.  With
"slow", "alias" or "unlocked" in it the properties fail: see below.  No fairness: a run may
last for ever, and nothing here is about an end.

## PathLock

`acquirePathLock` (registry, follow-ups) and `acquireLock` (runs) are the same loop on two
paths.  Each system call is a step: the exclusive create, the write of the text, the read,
`kill(pid, 0)`, the removal of the path; `at[p]` says which comes next.  `evicted` is
history: whose file a rival removed under them.  Processes may die anywhere, their pid may
come back, a live owner's text may be late for longer than the patience of a rival
(`Stall`), and runs may be forced.  `Patience` and `MaxTries` are 40 and 60 in the code, 1
and 3 here: the loop keeps no memory of a turn but these counters.

The lock has no run of its own: it is part of both runs of `Registry`, which check `OneOwner` and
`OwnersDifferByEviction`.

## Registry

An edit loads the registry, changes its copy and writes the copy back; `addProject` does
so under the lock, `removeProject` and `setProjectPort` do not take it.  A write is two
renames, either of which may fail; a reader between them takes the backup.  `stage[p]` is
how far the call of `p` is, `buf[p]` what it loaded.

| Run | Instance | Shows |
|---|---|---|
| `registry_locked` | two processes, `addProject`, deaths anywhere, two files, a name; fairness | `Linear`: it implements `AtomicRegistry`; `OneOwner` |
| `registry_mixed` | all three calls, a death, a reused pid, stalls | `EditsLandWhole`: a reader's view changes only when a new text takes the path; `OwnersDifferByEviction` |

Two processes are what exclusion is proved for; with three it fails, see below.
Fairness: a call is synchronous code, so it goes on until it returns or the process dies.
`registry_locked` ends when both have died, so deadlock is not checked there.

## Scheduler

`jobs` is `schedule.json`; everyone loads the whole list and saves a whole list, two steps
(`view` holds the copies).  `procs` are the `dag run` processes, `child` and `runningId` the
scheduler's, `come` the jobs whose `--at` is past.  `pc` goes round the turn of the daemon:
reap, block, pick, spawn, mark, poll.  `Overlap = FALSE` is the world in which no
load-save contains another's.

| Run | Instance | Shows |
|---|---|---|
| `sched` | three jobs with any `--after` and an `--at`, all commands by one editor, failures, four spawns, one kill or interrupt; fairness | `OneInFlight`; `StartsAfterSuccess`; `BlockedForAFailure`; `PendingEnds` |

Three jobs make a chain of predecessors whose middle can be retried or removed while the
ends wait.  `MaxSpawns` leaves room for every job to run and one to run again.  Fairness: the
daemon keeps working and is started again, every `dag run` exits, every edit ends, every `--at`
comes; it is the daemon's own loop, a timer and processes with timeouts.

## Proved

All theorems hold for every value of the constants that the named assumption of the module
allows; TLC evaluates those assumptions in every run.

`FlowNodes_proofs` (assuming `FlowAssumption`).  `Spec => []TypeOK` in
two steps for every action: the record of the task it works on keeps its type (`TaskStep`),
then everything else does.  `Spec => []IInv`: none of `CompletedLanded`, `OneLander` and
`SavedNotRedone` is inductive alone.  That a task is completed only when its candidate is in
the branch needs that it was landing with that candidate, which needs that `MERGE_HEAD` was
that candidate while it was merging, that the commit of a task is its candidate's, that no
attempt under way replaces a candidate, and that a failed resolution resets the branch to
what it is, which is that one task lands at a time.  `Sound(t)` says these of one task.  A
step is reduced to its effect on the fields `Sound` reads; the other tasks are covered by the
lemma `Bystander`, and steps while no runner is up by `Asleep`.  `CompletedIsLanded`, `OneLands`,
`SavedIsKept` and `LandedIsKept` follow.

`FlowRun_proofs` (assuming `ConstantsAssumption`).  `TypeCorrect` needs that closures of tasks are
tasks and that scopes have their types.  `LedgerIsKept`: `RepairLedger` is inductive with the
types, because a charge takes an intent that was free for a fingerprint that was not charged.
Acceptance is claimed in one step at the end of a run, from facts collected over many; the
invariant `SafetyInv` carries each of them there: no chain runs outside the phases for it
(`AtRest`), a checkpoint is of the branch as it still is (`Looked`), nothing demanded becomes
unfinished after the last one (`Finished`), a passed final checkpoint is forgotten when the
run goes back to `schedule()` (`PassedLast`), every charged repair is in the scope but the one
being made (`RepairsHeld`), and a whole-product scope demands every node that is not optional
(`ScopeHeld`).  From it: `ChecksAreQuiet`, `AcceptsWhatIsThere`, `ProductIsThere`; `RequiredIsKept` needs
only the types.

`FlowNodes_proofs` also has `NothingIsFree`: what a task has cost is an account (`Account(t)`)
of attempts charged and used, repairs charged and used; `ChargedFirst` needs the places between
a charge and its dispatch in it, where a crash may fall.  Every step but the few in `Costs` bears
the account unchanged (`NodeBears`, `NodeOthers`, `RunBears`).  And `AgentsBuildOnDeps`, which is
`BuiltOnDeps` of `FlowNodes` and is not in a run: a base is taken once, at the setup, from a branch
that holds every completed dependency (`IInv`), and it stays true of the commits the dependencies
have *now* because a completed task is at no place of `node()` (`CompletedRests`) and operators
work only where nothing is in flight (`OthersGround`); `Grounded` says so from the setup on.

`DagRunner_proofs` (assuming `ConfsAssumption`, so for any graph, any limits
and any combination of features, not only the ten scenarios).  `TypeCorrect` reduces each step to
the record and the place of its task (`Turn`).  `Invariant` is `Sound`, of every task: where it can be
(`Home`), that what is completed in memory, on disk or in flight has landed (`Landing`), and that
the saved ledger has every attempt of a task that did not fail (`Charged`).  A step is one of a few
kinds (an attempt is given up, moves on, is shelved, dispatched, finished), and soundness is
proved by kind.  `CompletedHasLanded`, `WorkersBuildOnDeps` and `AttemptsAreCharged` follow.  `StopsKill`
needs that after a stop every live agent was signalled or sits behind a prepare command (`Killed`);
`PublishedStays` that an attempt is asked for again before it is made (`Published`).

`Store_proofs`, of the lock.  `LockCorrect`: the file on the path is the claim of every owner that no rival
evicted.  So two owners differ by an eviction (`EvictionOnly`), and two unforced processes
whose pids do not come back never both own the lock, although either may die at any step
(`PairExclusive`): a process judges only the other, and removes its file only when it is dead.

`Store_proofs`, of the registry.  `LockedIsLinear`: with calls that take the lock, in the world of `PairExclusive`,
`Registry` implements `AtomicRegistry`.  Behind it is that what a process loaded is still what
a reader gets when it saves (`Fresh`), which is where exclusion is used.  `EditsAreWhole` needs
no exclusion: for any processes, calls and failures, only the second rename of a save changes
what a reader gets.

`Store_proofs`, of the graph (assuming `GraphAssumption`, so for any finite set of ids, any commands
and any number of them).  The queries come first, each a theorem about every graph of a kind, not only about
those that are reached.  They are recursive, and a recursive function has its equation only if a
function with that equation exists: `NatRecursion` builds one for recursions along a number, `TrailRecursion`
for those along a trail that grows inside a finite set, each from the functions that are right so far.
What the function computes is then read off a first task that would be wrong: `Rooted` (among any tasks
that are left, one depends on none of them, which is that there is no cycle) gives such a task.  So
`BlockedIsFailedAbove`, `DepthIsLongest`, `DependentsAreBelow` and `LongestChainIsLongest` are about graphs
without a cycle, `DepSetIsAbove` is about any, and `NoCycleExactly` says that what `assertNoCycle` accepts is
`Rooted`.  `TopoSortIsOrder` needs in addition that no two tasks share a number, since
otherwise two tasks of one depth have one rank; `LeanKeepsOrder` says that all redundant edges can go at
once: among the dependencies that reach a redundant one there is one that no other reaches, and it stays.

The invariant is `GraphInv`: the graph has its types, its edges are among its tasks (`Closed`), it is
`Rooted`, and its tasks have different numbers (`Numbered`).  `GraphInvariant` is that every command keeps
it: `addTask` and a chain review put a task below others and number it past them, `editTask` asks
`assertNoCycle`, `removeTask` takes the edges with it, the rest changes no edge.  From it and the
queries follow `GraphExplained`, `GraphSkipsExact`, `GraphRetryReaches` and `GraphShapeRight`.  The first is the
least obvious: that some open task of a run at rest waits for a person is shown by an open task none of
whose dependencies is open, which `Rooted` provides.  `retry-failed` takes an induction over the
numbers: after each, no task up to it is failed or skipped, and a retry never makes one so.

`Scheduler_proofs` (assuming `SchedulerAssumption` and `NoViewAssumption`).  `SchedulerTyped` holds in
every mode and with any overlap.  `OneAtATime`: a scheduler that is never killed or interrupted
has at most one `dag run` alive, whatever editors and overlapping saves do to the list, since it
waits for the exit of the child it holds before it can reach the pick again.  `AfterSuccess` and
`BlockedForACause` are about `Overlap = FALSE`, as the run is: then the list a process saves is
the list it loaded (`QuietInv`).  `AfterSuccess` needs that a job is `done` only if its last run
exited with 0 (`DoneInv`), through kills, interrupts, retries and the reaping at boot.
`BlockedForACause` needs that, while no scheduler died, the only running job is that of the
child and a job fails by its own run (`FailInv`), and then that a block has a cause (`BlockInv`): the
pass that blocks looks at direct predecessors, which are failed, or blocked with a cause of
their own, and the closure `Reach` of a job contains those of what it waits for.  An edit
between a block and the exit of the blocked one's cause is the delicate step: a job that is
removed may leave others blocked by a run whose record stays in `procs`.

`Hub_proofs` (assuming `HubAssumption`).  What a process will do to the files is a list, so the
invariants are about lists: what may be on it, in which order, and what the files are when
its rest is done or dropped by a death.  `HubTyped` and `LockIsFreed` hold with every habit: a lock
that names the hub has a runner, or an `unlock` still to come after all else (`LockInv`).
`HistoryIsFixed` needs only that the hub does not archive while a command runs: at most one
process has moves to do, they come in the order of `archiveRun`, each file is moved once, and a
half-archived run is never moved again (`HistInv`).  `OneRunner` needs that no habit is there: a
command works under the lock alone (`CliInv`); while the hub drives, the slot holds the run it
drives, through every save, and the runtime of that run is live (`DriverInv`); and a request was
answered for memory exactly if there is a runner (`RequestInv`).  TLC shows the premises to be
needed: `OneDriver` fails with any one of the habits in `Habits`.
`EditsAreKept` has the same premise, and says nothing after a death cut a save or a move, as the
property does.  `KeepInv` follows each acknowledged edit through the slot, the lists, the memories
and the archive at once: at any time the list of the one process that works leads the slot
to a copy `y` that has every acknowledged edit of its run, or a copy `c` to the archive after which
`y` comes, and what is archived has every edit of its run (`Good`).  The lists have few shapes (`AsideDef` to
`PutState` of a save, `MkDir` to `DropLock` of a move, `RmDef` of a removal), and each is said from its
first operation on, so a step takes one shape to the next.  An edit is on the list as an `ack`
behind the writes that have it, so it is held before it is acknowledged; a runner's memory is `y`,
which is why its next save loses nothing; and an empty run that is removed for a new one has
no edit to keep (`HasTasks`).

`Factory_proofs` (assuming `FactoryAssumption`; `Reviews` is a function to reports about
hypotheses of the instance, which the assumption says since these proofs use it).  Whether a claim of
the checkpoint is backed is a matter of the disk, which a crash may leave between any two
writes.  `Fine(d)` says it of one disk: the tasks named are enrolled, repairs of a review were asked
for, packets and sources are those the prompts named, results, report, rechecks and certificate
are of the commits they claim.  The invariant `FactoryInv` (`DiskInOrder`) is that the writes a
process still has to do lead, through disks that are all `Fine`, to one that agrees with the
process; a death drops the rest and leaves one of them.  Each handler is then a lemma about the
disks its writes pass, one by one, in the order of the code.  Writing the artifact before the
checkpoint that relies on it, and the tasks before the checkpoint that names them, is what makes
it true.  `ReviewsRepairOnRequest`, `JudgedByTheirPackets`, `ReviewsReportTheirCommit` and
`CompleteIsCertified` are read off the disk at rest.

`Planning_proofs` (assuming `ManifestAssumption`, `ScenesAssumption` and `NoFileAssumption`, so for any
manifests, and any number of mishaps and changes).  Its theorems have a premise, `[]Careful`: no run was
started on a half-written plan, and no amendment and migration are interrupted at the same
time.  The first half is what `docs/planning-contract.md` 74 promises and the code does not keep
(`plan_interrupted`, below); the second is about two commands of an operator.  The invariant is
`PlanInv`.  Its part `Files`: at any time the files are whole, or between the two ends of
one command, and both ends are sound for the receipts there are.  Sound means that the plan and the state have the
same tasks, that imported work has a receipt from the run without a plan and no evidence of its own
(`Imported`), that a completed task has a receipt for the contract the present plan gives it (`Delivered`), and
that a published attempt which is still the last of its task was built on others of that kind
(`Settled`, `Founded`).
A damaged state is rebuilt from the base of the last amendment and the events since, so `Events`
says what an event proves: the last event of a task is "done", or there is none and it was settled
in the base, exactly when the state it replaces had it settled (`Told`, `Followed`).  `EvidenceEarned`
follows from `Delivered` and `Imported`.  `ContributorsFirst` is about ancestors while readiness
looks at direct dependencies (`graph.ts` 51); with `Founded` the completed tasks of a manned run
are closed under dependencies (`CompletedClosed`), and the ancestors of a task are the least closed set.  `WorkKept` is
proved by actions: a resumed amendment starts from the base of the journal, which
is where the state still is or what the amendment made of it.

Without the premise these are false, and TLC says how when the bounds are raised above
those of the run.  The first two fail after an amendment, a crash in its middle, a run on the half-written plan and
damage to the state: the resumed amendment drops what that run did, its "done" events
survive, and `recover-checkpoint` takes them for attempts of the present plan.
`WorkKept` fails for imported tasks when a migration and an amendment are both interrupted and both
resumed, since each restores the base of its own journal.

Only model-checked:

- The liveness properties (`Settles`, `RunEnds` of `FlowRun` and of `DagRunner`, `PendingEnds`,
  `DriveReturns`, `AmendSettles`): liveness under fairness is outside the prover's reach.  Every
  other property of a run that is expected to pass is a theorem.

## Where the code and its documentation disagree

With a run that TLC finds violated:

- `plan_interrupted`: an amendment that is interrupted between its writes leaves a plan that is
  half on disk.  `DagRunner.start` asks `planningRefusal` and only logs the answer
  (`runner.ts` 625), then runs it; `docs/planning-contract.md` 74: "Interrupted amendments refuse
  execution until resumed."  The resumed amendment starts from the journal's base, so
  the attempts in between are lost.

Seen in the models, without a run of their own.

Flow 3.0 and the store:

- `recoverRepair` refuses to touch saved repair edits only while the list of orphan pids found at
  this start is not empty.  An executor that did not stop has had its pid cleared by the time
  the task is saved, so the next run verifies a workspace an agent still writes to
  (`docs/dag-flow3.0.md` 154: unsafe recovery holds).
- `dag resume --kill-orphans` and `dag run --kill-orphans` clear the pids of interrupted tasks
  before they look for pids to kill (`Resume` and `KillOrphans` of `FlowNodes`).
- After `dag set --cmd`, the saved candidate of a task belongs to another definition; the run
  fails it with kind `integration`, and a retry of that kind keeps the candidate.  `editTask`
  clears the candidate where `setTasks` does not (`store.ts` 1303-1372).
- `dag rm` takes the removed task out of the dependencies of the others ("so no dangling edge
  keeps a dependent blocked forever", `store.ts` 1030) but neither out of the saved scope, so that
  every later run that selects nothing throws `Unknown completion task` (`Known` of `FlowRun`), nor
  out of the `covers` of a chain review.
- `dag edit` of a completed task leaves it completed: later runs check the plan as it is
  against a branch made from the plan as it was.  The identity changes, so an earlier
  review does not count any more.
- `getBlocked` means "tasks that can never run" (`graph.ts` 80), but the runner looks at direct
  dependencies: a task whose dependencies completed before something above them was retried
  and failed is listed as blocked and launched all the same (`GetReady`, `TransitiveBlocked`).
- `transitiveDepIds` sorts by the distance from the roots, so farthest first, and
  `transitiveDependentIds` does not sort (`graph.ts` 96, 113: "nearest first", "shallowest first").
- `skip-blocked` looks for what is blocked before it skips what waits for an approval
  (`commands/run.ts` 359): the dependents of a skipped gate stay blocked, though the command is
  there so that a run "still converges" (hence the last clause of `SkipsExact`).
  `retry-failed --cascade` requeues some tasks twice (`store.ts` 1050).
- A crash of `saveRun` between definition and state while a task is added leaves a definition
  without the state of a task, which `loadRun` refuses (`store.ts` 657-664; `Loads` of `Hub`).

Classic and lean runner:

- The deadline of the whole run leaves the loop with tasks in flight (`runner.ts` 1073): the lock
  is given back and the worktrees are dropped under live agents, and a task may complete without
  a merge (`WallClock`).
- `integrationReceipt` survives a retry (`store.ts` 1043, `runner.ts` 2294): a completed lean task that is
  retried before it has run again is completed by its old receipt, and one with a later
  attempt makes every start throw (`Refused`, `Reconciled`).
- The kill of `stop()` is swallowed when it meets a prepare command (`runner.ts` 1484-1490): the agent is
  started after it (hence `prepared` in `StopKills`).
- A crash of the classic profile between merge and save does the task again.
- A quota pause whose worker changed nothing makes `finishQuotaPause` throw.
- A requeue by the final review leaves the dependents of the task as they are; `mergeRetries` is
  never reset; the coverage cache is never invalidated (`runner.ts` 582, 2161).

Planning and factory:

- `recordPlanningFailure` is not called outside the tests, so that no hold is ever recorded
  (`docs/planning-contract.md` 56).
- An amendment ignores an interrupted migration; a crash between the two writes of a compilation
  leaves a run that can neither be compiled nor loaded.
- `missingPlanningAcceptance` does not know imported tasks.
- `saveArtifact` writes the artifact and then its digest: a crash between them leaves two that do
  not match, and every resume is refused (`Loadable`; `docs/software-factory.md` 173-174).
- A policy with required checks refuses every final promotion, since what is recertified is not
  what the policy names (`baseline.ts` 12; `Promoted`).
- A goal under review with defects turns at the report until the bound of 12 turns (`ReportIdles`).
- An inconclusive hypothesis lets the run go on to certification, which then waits for ever.
- After a crash between `saveRun` and the checkpoint, or a retry, a commit makes the tasks of the stage
  foreign to the controller (`Refuses`); a source change after the recheck leaves recertification
  waiting.  `startFactory` saves its checkpoint before the run it belongs to, and `controller-v1.json`
  has no lock.

Shared files:

- A stale lock is judged by its text and removed by its path.  Between the two, another process
  may have replaced it; its live lock is removed and both own it (`README.md` 438: "One writer per
  run").  It takes a third process, see `PairExclusive`.
- `setProjectPort` and `removeProject` take no lock: with them in `Kinds`, `Linear` fails, by a
  lost update (`registry.ts`: "Every writer takes a lock").
- A scheduler that starts while a job of a dead one still runs leaves the job as it is and spawns
  the next beside it (`scheduler.ts`: "never more than one job in flight"; hence `deaths = 0`), and
  if that job ends later nobody notices.
- The lists of the scheduler are saved without a lock: with `Overlap = TRUE` a save can undo an
  edit, or bring back as running a job that ended, whose dependents then wait for ever.
- `--after` may name a job that is added later or never; `clear` and `rm` drop jobs that others
  name.  Such dependents are blocked, not refused (hence `InOrder` in the properties).
- The hub looks at a request before its body is there, may know one slot by two run ids, and
  archives and makes new runs with no lock: with "slow", "alias" or "unlocked" in `Habits`,
  `OneDriver` or `EditsKept` of `Hub` fails, and with "unlocked" `HistoryFixed` may too.

## What is left out

- `FlowNodes`: failures of git commands outside a merge and of saving the run file, the reject
  path of a gate and skipping, run scopes, edits of a status (`dag edit --status`).
- `FlowRun`: named in its section.
- `DagRunner`: the output of agents, idle timers, fallback harnesses, coverage reports, the exclusion
  by `touches`, a second quota pause while one is open.  The git commands inside a candidate
  worktree are one step.
- `TaskGraph`: reordering, notes and the text of reports; an approval's author.
- `Planning`: linting and sizing of manifests, `plan review` of a run file, phases generated for the
  factory, `dag add`, `edit` and `rm` on a planned run, recovery of a verification after an
  amendment, skipped tasks.
- `Factory`: two controllers at once; more than one repair task for a defect, one
  recertification task for each unit, scores and review budgets; retries of tasks of earlier
  stages; commits between two writes (nothing reads the sources there).
- `Hub`: how the lock is taken, `--force`, two commands at once, the second save of
  `new-run --profile`, event files, read-only routes and server-sent events.
- `PathLock`: processes on different hosts with one pid; a file that is truncated by a second
  writer while it is being written.
- `Registry`: the moment between `existsSync` and the read of a reader; the server registry of
  `launcher.ts`.
- `Scheduler`: exit codes beyond zero and not zero, arguments, logs, two schedulers at once.
- The rest of the system, listed in `PROJECT.json` with the reason: planned (see above), or
  without a state whose order matters: command-line parsing, process input and output of
  agents, reports, and the scoring and ranking of the factory's analyses.
