------------------------------ MODULE DagRunner ------------------------------
(* The runner of the classic and the lean profile (src/src/runner.ts) with the
   verified integration it lands work by (integration.ts), the shared budget
   (execution-budget.ts), the quota pause (quota-recovery.ts) and the operator
   calls of the store it meets between two runs.

   A task's record is kept twice: mem is the object the runner edits, disk what
   the last save wrote. job[t] is the place of executeTask(t): the phase whose
   process is alive, or one of the synchronous points of the landing between
   which only a crash can fall. A run, its settings and its graph are a member
   of Confs.                                                                  *)
EXTENDS Integers, FiniteSets

CONSTANTS
    Tasks,
    Confs   \* the runs: each a record of the settings and of the graph
            \*   lean, isolated, final, skip, wall, quota: what is switched on
            \*   concurrency, attempts, reviewRounds, mergeRounds, finalRounds,
            \*     infraRetries: the limits
            \*   deps, prepared, planned, reviewed, covering, gated: the tasks
            \*   faults: bound on stops, crashes, outages and operator calls

ASSUME ConfsAssumption ==
    \A c \in Confs :
        /\ {c.lean, c.isolated, c.skip, c.wall, c.quota} \subseteq BOOLEAN
        /\ c.final \in {"off", "run", "per-task"}
        /\ {c.concurrency, c.attempts} \subseteq Nat \ {0}
        /\ {c.reviewRounds, c.mergeRounds, c.finalRounds, c.infraRetries, c.faults} \subseteq Nat
        /\ c.deps \in [Tasks -> SUBSET Tasks]
        /\ \A s \in {c.prepared, c.planned, c.reviewed, c.covering, c.gated} : s \subseteq Tasks

VARIABLES
    conf,       \* the run, chosen once
    phase,      \* off | tasks | final: what loop() awaits
    awake,      \* runTasks is at the top of its loop, or launches tasks, or no:
                \*   it awaits one of them
    stop,       \* no | grace | gated: stopping, and stopGate rejected
    mem, disk,  \* the tasks as the runner holds them, and as last saved
    job,        \* executeTask of every task
    accepted,   \* <<task, attempt>> merged into the integration branch
    receipts,   \* <<task, attempt>> with a receipt file
    late,       \* tasks whose deadlineAt has passed
    rev,        \* no | todo | busy: the task's place in the final review
    tally,      \* what the reviewers of this round decided
    round,      \* reviewRounds
    pause,      \* the quota pause: its stage and the attempts it interrupted
    orphans,    \* agents that outlived the run that started them
    incidents

saved == <<mem, disk>>
review == <<rev, tally, round>>
vars == <<conf, phase, awake, stop, mem, disk, job, accepted, receipts,
          late, rev, tally, round, pause, orphans, incidents>>

-----------------------------------------------------------------------------
(* Records *)

Live == {"prepare", "plan", "run", "review"}    \* an agent process exists
Sync == {"verify", "land", "intent", "published"}   \* between two awaits
Idle == [pc |-> "idle", base |-> {}, rec |-> "none", tries |-> 0, hit |-> FALSE]

Fresh == [st |-> "pending", why |-> "none", n |-> 0, cycle |-> 0, reviews |-> 0,
          merges |-> 0, used |-> 0, limit |-> conf.attempts, final |-> "none",
          receipt |-> 0, commit |-> 0, asked |-> 0]

InFlight == {t \in Tasks : job[t].pc # "idle"}
Busy == \E t \in Tasks : job[t].pc \in Sync
Terminal == {"completed", "failed", "skipped"}
Landed(t) == \E n \in 1 .. mem[t].n : <<t, n>> \in accepted

NoPause == [stage |-> "none", of |-> [t \in Tasks |-> 0], done |-> {}]

Incident == incidents < conf.faults /\ incidents' = incidents + 1
Quiet == UNCHANGED incidents

\* Mutant: a dependency only has to be over.
ReadyAfterAny(t) == /\ mem[t].st = "pending" /\ t \notin InFlight /\ t \notin conf.gated
                    /\ \A d \in conf.deps[t] : mem[d].st \in Terminal

(* budgetRemaining: the attempts and the time of a lean task. *)
BudgetRemaining(t) == conf.lean => (mem[t].used < mem[t].limit /\ t \notin late)
AttemptLimit(t) == IF conf.lean THEN mem[t].limit ELSE conf.attempts
Ready(t) == /\ mem[t].st = "pending" /\ t \notin InFlight /\ t \notin conf.gated
            /\ \A d \in conf.deps[t] : mem[d].st = "completed"
Skippable == IF ~conf.skip THEN {}
             ELSE {t \in Tasks : /\ mem[t].st = "pending" /\ t \notin InFlight
                                 /\ \E d \in conf.deps[t] : mem[d].st \in {"failed", "skipped"}}

\* Mutant: the flush is left to the timer.
FlushedLater(t, r) == mem' = [mem EXCEPT ![t] = r] /\ UNCHANGED disk

\* Mutant: the loop is not told.
EndsUnheard(t) == job' = [job EXCEPT ![t] = Idle] /\ UNCHANGED awake

(* One task's record changes; the save that follows is throttled. *)
Becomes(t, r) == mem' = [mem EXCEPT ![t] = r] /\ UNCHANGED disk
(* persist(); flush(): the whole run is saved at once. *)
Flushed(t, r) == mem' = [mem EXCEPT ![t] = r] /\ disk' = mem'
At(t, place) == job' = [job EXCEPT ![t] = [@ EXCEPT !.pc = place, !.tries = 0, !.hit = FALSE]]
(* endAttempt: executeTask returns and the loop wakes up. *)
Ends(t) == job' = [job EXCEPT ![t] = Idle] /\ awake' = "top"

Init ==
    /\ conf \in Confs
    /\ phase = "off" /\ awake = "no" /\ stop = "no"
    /\ mem = [t \in Tasks |-> Fresh] /\ disk = mem
    /\ job = [t \in Tasks |-> Idle]
    /\ accepted = {} /\ receipts = {} /\ late = {}
    /\ rev = [t \in Tasks |-> "no"] /\ tally = {} /\ round = 0
    /\ pause = NoPause /\ orphans = {} /\ incidents = 0

-----------------------------------------------------------------------------
(* start: recovery of interrupted tasks, reconciliation, quota continuation *)

Recovered(r) == IF r.st = "running" THEN [r EXCEPT !.st = "pending", !.why = "interrupted"] ELSE r

(* setupIsolation looks at the receipt of every unfinished lean task: one of
   another attempt refuses the start, one whose candidate is in the branch
   completes the task, and an unpublished one is removed. *)
Receipted(r, t) == conf.lean /\ conf.isolated /\ r.st # "completed" /\ r.n >= 1 /\ <<t, r.receipt>> \in receipts
Refused == \E t \in Tasks : Receipted(mem[t], t) /\ mem[t].receipt # mem[t].n
\* Mutant: a receipt is taken for the publication.
ReconciledByReceipt(r, t) == IF Receipted(r, t) THEN [r EXCEPT !.st = "completed", !.commit = r.receipt] ELSE r
\* Mutant: published work is not looked for.
ReconciledNever(r, t) == r
Reconciled(r, t) ==
    IF Receipted(r, t) /\ <<t, r.receipt>> \in accepted
    THEN [r EXCEPT !.st = "completed", !.commit = r.receipt] ELSE r
Unpublished == {p \in receipts : p \notin accepted /\ \E t \in Tasks : Receipted(mem[t], t) /\ p = <<t, mem[t].receipt>>}

(* claimQuotaContinuations: the pause is complete and every task it names is
   still the attempt that was interrupted, with its source saved. *)
Claimable(t) == /\ mem[t].st = "pending" /\ mem[t].why = "killed"
                /\ mem[t].n = pause.of[t] /\ mem[t].commit = mem[t].n
Resumed == {t \in Tasks : pause.of[t] # 0}

Opens(kept, claim) ==
    /\ mem' = IF Refused THEN kept ELSE [t \in Tasks |-> Reconciled(kept[t], t)]
    /\ disk' = mem'
    /\ receipts' = IF Refused THEN receipts ELSE receipts \ Unpublished
    /\ phase' = IF Refused THEN "off" ELSE "tasks"
    /\ awake' = IF Refused THEN "no" ELSE "top"
    /\ pause' = IF claim.stage = "claimed" /\ Refused THEN NoPause ELSE claim
    /\ UNCHANGED <<conf, stop, job, accepted, late, review, orphans>>

(* A start with nothing to do is left out. *)
Startable == \E t \in Tasks \ conf.gated :
    mem[t].st \in {"pending", "running"} /\ \A d \in conf.deps[t] : mem[d].st \notin {"failed", "skipped"}

Start(quota) ==
    /\ phase = "off" /\ InFlight = {} /\ Startable /\ Quiet
    /\ quota => (pause.stage = "stopped" /\ \A t \in Resumed : Claimable(t))
    /\ Opens([t \in Tasks |-> Recovered(mem[t])],
             [pause EXCEPT !.stage = IF quota THEN "claimed" ELSE @])

(* A verification recovery: the failed task's saved source is checked and
   landed again, without a new attempt. The task is pending from here on, even
   if the start is refused. *)
StartVerification(t) ==
    /\ phase = "off" /\ InFlight = {} /\ conf.lean /\ conf.isolated /\ Incident
    /\ mem[t].st = "failed" /\ mem[t].commit # 0 /\ mem[t].n >= 1 /\ pause.stage = "none"
    /\ Opens([u \in Tasks |-> IF u = t THEN [mem[t] EXCEPT !.st = "pending"] ELSE Recovered(mem[u])],
             [stage |-> "claimed", of |-> [NoPause.of EXCEPT ![t] = mem[t].n], done |-> {t}])

(* The recovery executeTask finds for the task, if any, for the whole run. *)
Recovery(t) == IF pause.stage # "claimed" \/ pause.of[t] = 0 THEN "none"
               ELSE IF t \in pause.done THEN "verify" ELSE "resume"
(* Its time is the recovery's own. *)
Late(t) == t \in late /\ job[t].rec = "none"

-----------------------------------------------------------------------------
(* runTasks *)

Looping == phase = "tasks" /\ awake # "no" /\ ~Busy
Launchable == IF stop = "no" /\ Cardinality(InFlight) < conf.concurrency THEN {t \in Tasks : Ready(t)} ELSE {}

PolicySkip ==
    /\ Looping /\ stop = "no" /\ Skippable # {} /\ Quiet
    /\ mem' = [t \in Tasks |-> IF t \in Skippable THEN [mem[t] EXCEPT !.st = "skipped"] ELSE mem[t]]
    /\ awake' = "top"
    /\ UNCHANGED <<conf, phase, stop, disk, job, accepted, receipts,
                   late, review, pause, orphans>>

(* The task's budget is gone before its attempt starts. *)
LaunchRefused(t) ==
    /\ Looping /\ Skippable = {} /\ t \in Launchable /\ Quiet
    /\ Recovery(t) = "none" /\ ~BudgetRemaining(t)
    /\ Becomes(t, [mem[t] EXCEPT !.st = "failed", !.why = "budget"])
    /\ awake' = "top"
    /\ UNCHANGED <<conf, phase, stop, job, accepted, receipts,
                   late, review, pause, orphans>>

(* A worktree at the head of the integration branch. *)
Checkout(place, rec) == [Idle EXCEPT !.pc = place, !.base = accepted, !.rec = rec]

(* beginAttempt: a new attempt, whose verdict and diff are not the old one's. *)
Begun(t) == [mem[t] EXCEPT !.st = "running", !.why = "none", !.n = @ + 1, !.cycle = @ + 1,
                           !.used = IF conf.lean THEN @ + 1 ELSE @,
                           !.final = "none", !.commit = IF conf.isolated THEN 0 ELSE @]
FirstPhase(t) == IF t \in conf.prepared /\ conf.isolated THEN "prepare"
                 ELSE IF t \in conf.planned THEN "plan" ELSE "run"

Launch(t) ==
    /\ Looping /\ Skippable = {} /\ t \in Launchable /\ Quiet
    /\ Recovery(t) = "none" /\ BudgetRemaining(t)
    /\ IF conf.lean THEN Flushed(t, Begun(t)) ELSE Becomes(t, Begun(t))
    /\ job' = [job EXCEPT ![t] = Checkout(FirstPhase(t), "none")]
    /\ awake' = "launching"
    /\ UNCHANGED <<conf, phase, stop, accepted, receipts, late,
                   review, pause, orphans>>

(* A lean charge that cannot be saved ends the attempt before any agent. *)
ChargeLost(t) ==
    /\ Looping /\ Skippable = {} /\ t \in Launchable /\ Incident
    /\ conf.lean /\ Recovery(t) = "none" /\ BudgetRemaining(t)
    /\ Becomes(t, [Begun(t) EXCEPT !.st = "failed", !.why = "budget", !.commit = mem[t].commit])
    /\ awake' = "top"
    /\ UNCHANGED <<conf, phase, stop, job, accepted, receipts,
                   late, review, pause, orphans>>

(* failWorktreeSetup. *)
WorktreeFails(t) ==
    /\ Looping /\ Skippable = {} /\ t \in Launchable /\ Incident
    /\ conf.isolated /\ Recovery(t) = "none" /\ BudgetRemaining(t)
    /\ LET r == [Begun(t) EXCEPT !.st = "failed", !.why = "worktree"] IN
        IF conf.lean THEN Flushed(t, r) ELSE Becomes(t, r)
    /\ awake' = "top"
    /\ UNCHANGED <<conf, phase, stop, job, accepted, receipts,
                   late, review, pause, orphans>>

(* A continuation keeps its attempt and restores the saved source; only the
   native resume dispatches the worker again. *)
Dispatch(rec) == IF rec = "verify" THEN "verify" ELSE "run"
Continue(t) ==
    /\ Looping /\ Skippable = {} /\ t \in Launchable /\ Quiet
    /\ Recovery(t) # "none"
    /\ Becomes(t, [mem[t] EXCEPT !.st = "running", !.why = "none", !.commit = 0])
    /\ job' = [job EXCEPT ![t] =
                 Checkout(IF t \in conf.prepared THEN "prepare" ELSE Dispatch(Recovery(t)), Recovery(t))]
    /\ awake' = "launching"
    /\ UNCHANGED <<conf, phase, stop, accepted, receipts, late,
                   review, pause, orphans>>

Settled == InFlight = {} /\ (Launchable = {} \/ stop # "no") /\ (stop = "no" => Skippable = {})

LoopWaits ==
    /\ Looping /\ Quiet /\ InFlight # {} /\ Launchable = {}
    /\ (stop = "no" => Skippable = {})
    /\ awake' = "no"
    /\ UNCHANGED <<conf, phase, stop, saved, job, accepted, receipts,
                   late, review, pause, orphans>>

(* The finally of start(): the state is saved, the worktrees are dropped, the
   lock is given back. A quota pause is completed if it still holds. *)
Over ==
    /\ phase' = "off" /\ awake' = "no" /\ stop' = "no"
    /\ rev' = [t \in Tasks |-> "no"] /\ tally' = {} /\ round' = 0
    /\ disk' = mem /\ UNCHANGED mem

Closed(p) ==
    CASE p.stage = "captured" /\ (\A t \in Resumed : mem[t].st = "completed" \/ Claimable(t)) ->
            [p EXCEPT !.stage = "stopped", !.of = [t \in Tasks |-> IF mem[t].st = "completed" THEN 0 ELSE p.of[t]]]
      [] p.stage = "stopped" -> p
      [] OTHER -> NoPause

EndRun ==
    /\ Looping /\ Settled /\ (conf.final = "off" \/ stop # "no") /\ Quiet
    /\ stop # "grace"
    /\ Over /\ pause' = Closed(pause)
    /\ UNCHANGED <<conf, job, accepted, receipts, late, orphans>>

(* The deadline is looked at each time round the loop: the run is over with
   its tasks still in flight. *)
WallClock ==
    /\ Looping /\ awake = "top" /\ conf.wall /\ stop = "no" /\ Incident
    /\ Over /\ pause' = Closed(pause)
    /\ UNCHANGED <<conf, job, accepted, receipts, late, orphans>>

-----------------------------------------------------------------------------
(* executeTask: the phases *)

(* salvageWorktree saves what the worker left, if it left anything. *)
Salvaged(t, r) == IF conf.isolated /\ phase # "off"
                  THEN {r, [r EXCEPT !.commit = r.n]} ELSE {r}

(* failAttempt, and whether repeatedFailure saw the same failure before. *)
Retryable(t, why, same) ==
    /\ job[t].rec = "none" /\ why \notin {"budget", "review-protocol"} /\ ~same
    /\ mem[t].cycle < AttemptLimit(t) /\ BudgetRemaining(t)
Failed(t, why, same) ==
    CASE stop # "no" -> [mem[t] EXCEPT !.st = "pending", !.why = "killed"]
      [] stop = "no" /\ Retryable(t, why, same) -> [mem[t] EXCEPT !.st = "pending", !.why = "none"]
      [] OTHER -> [mem[t] EXCEPT !.st = "failed", !.why = why]
MaySame(t) == IF conf.lean /\ stop = "no" /\ (mem[t].n > 1 \/ job[t].rec # "none") THEN BOOLEAN ELSE {FALSE}

FailAttempt(t, why) ==
    \E same \in MaySame(t) : \E r \in Salvaged(t, Failed(t, why, same)) :
        /\ Becomes(t, r)
        /\ IF stop = "no" /\ Retryable(t, why, same)
           THEN At(t, "backoff") /\ UNCHANGED awake
           ELSE Ends(t)

Still == UNCHANGED <<conf, phase, stop, accepted, receipts, late, review,
                     pause, orphans>>

(* A prepare command that fails, times out or is killed does not block: the
   next phase starts all the same. *)
PrepareEnds(t) ==
    /\ job[t].pc = "prepare" /\ ~Busy /\ Quiet
    /\ At(t, IF t \in conf.planned /\ job[t].rec = "none" THEN "plan" ELSE Dispatch(job[t].rec))
    /\ Still /\ UNCHANGED <<awake, saved>>

PlanEnds(t) ==
    /\ job[t].pc = "plan" /\ ~job[t].hit /\ ~Late(t) /\ ~Busy /\ Quiet
    /\ At(t, "run")
    /\ Still /\ UNCHANGED <<awake, saved>>

(* The worker ended and its exit status is accepted: a lean source is saved as
   a commit, a chain review carries its own verdict. A verification recovery
   dispatches no worker. *)
JudgesItself(t) == t \in conf.covering \ conf.reviewed
Worked(t) ==
    [mem[t] EXCEPT !.commit = IF conf.lean /\ conf.isolated /\ phase # "off" THEN mem[t].n ELSE @,
                   !.final = IF JudgesItself(t) THEN "pass" ELSE @]
WorkEnds(t) ==
    /\ Quiet /\ ~Late(t)
    /\ job[t].pc = "verify" \/ (job[t].pc = "run" /\ ~job[t].hit /\ ~Busy)
    /\ phase = "off" => ~(conf.lean /\ conf.isolated)
    /\ Becomes(t, Worked(t))
    /\ At(t, IF t \in conf.reviewed THEN "review" ELSE "land")
    /\ Still /\ UNCHANGED awake

(* A planner or a worker fails: its exit status, a rejecting chain review, a
   spawn error, a silence, its time. *)
PhaseFails(t) ==
    /\ job[t].pc \in {"plan", "run"} /\ ~Busy /\ Quiet
    /\ job[t].hit => stop # "no"
    /\ FailAttempt(t, IF job[t].pc = "plan" THEN "plan" ELSE IF Late(t) THEN "budget" ELSE "exit")
    /\ Still

(* A lean phase whose transport failed is dispatched again, within its count. *)
PhaseAgain(t) ==
    /\ job[t].pc \in Live \ {"prepare"} /\ ~Busy /\ Quiet
    /\ conf.lean /\ stop = "no" /\ ~Late(t) /\ job[t].tries < conf.infraRetries
    /\ job' = [job EXCEPT ![t].tries = @ + 1]
    /\ disk' = mem
    /\ Still /\ UNCHANGED <<awake, mem>>

ReviewPasses(t) ==
    /\ job[t].pc = "review" /\ ~job[t].hit /\ ~Late(t) /\ ~Busy /\ Quiet
    /\ conf.lean => conf.isolated
    /\ At(t, "land")
    /\ Still /\ UNCHANGED <<awake, saved>>

(* handleRejection: within the rounds (the budget when lean) the work is redone. *)
Redo(t, same) == /\ job[t].rec = "none"
                 /\ IF conf.lean THEN BudgetRemaining(t) /\ ~same
                    ELSE mem[t].reviews + 1 <= conf.reviewRounds
ReviewRejects(t) ==
    /\ job[t].pc = "review" /\ ~job[t].hit /\ ~Late(t) /\ ~Busy /\ Quiet
    /\ \E same \in MaySame(t) :
        \E r \in Salvaged(t, [mem[t] EXCEPT !.reviews = @ + 1,
                                   !.st = IF Redo(t, same) THEN "pending" ELSE "failed",
                                   !.why = IF Redo(t, same) THEN "none" ELSE "review"]) :
            Becomes(t, r)
    /\ Ends(t) /\ Still

(* A review may end without a verdict: a body that does not parse after the
   second dispatch, an open circuit, a changed source; or no transport, no time. *)
ReviewFaults == {"review-protocol", "timeout"}

(* A review without a verdict, out of transport or out of time is no judgement
   of the work: the task fails, or waits if the run is being stopped. *)
ReviewErrs(t) ==
    /\ job[t].pc = "review" /\ ~Busy /\ Quiet
    /\ job[t].hit => stop # "no"
    /\ \E why \in ReviewFaults :
        \E r \in Salvaged(t, IF stop # "no" THEN [mem[t] EXCEPT !.st = "pending", !.why = "killed"]
                             ELSE [mem[t] EXCEPT !.st = "failed", !.why = why]) :
            Becomes(t, r)
    /\ Ends(t) /\ Still

BackoffEnds(t) ==
    /\ job[t].pc = "backoff" /\ ~Busy /\ Quiet
    /\ Ends(t) /\ Still /\ UNCHANGED saved

-----------------------------------------------------------------------------
(* executeTask: the landing *)

Completed(r) == [r EXCEPT !.st = "completed"]
Accept(t) == accepted' = accepted \cup {<<t, mem[t].n>>}

(* recordMergeConflict: the task is redone on the merged base. *)
Conflicted(t) == IF mem[t].merges < conf.mergeRounds /\ BudgetRemaining(t)
                 THEN [mem[t] EXCEPT !.merges = @ + 1, !.st = "pending", !.why = "none"]
                 ELSE [mem[t] EXCEPT !.st = "failed", !.why = "merge"]
Conflict(t) ==
    /\ job[t].pc = "land" /\ conf.isolated /\ phase # "off" /\ Quiet
    /\ ~(conf.lean /\ (Late(t) \/ stop # "no"))
    /\ Becomes(t, Conflicted(t))
    /\ Ends(t) /\ Still

(* Without a worktree to merge, landWorktree has nothing to do. *)
LandNothing(t) ==
    /\ job[t].pc = "land" /\ (~conf.isolated \/ phase = "off") /\ Quiet
    /\ IF conf.lean THEN Flushed(t, Completed(mem[t])) ELSE Becomes(t, Completed(mem[t]))
    /\ Ends(t) /\ Still

LandClassic(t) ==
    /\ job[t].pc = "land" /\ conf.isolated /\ ~conf.lean /\ phase # "off" /\ Quiet
    /\ Accept(t)
    /\ \E n \in {mem[t].n, mem[t].commit} : Becomes(t, [Completed(mem[t]) EXCEPT !.commit = n])
    /\ Ends(t)
    /\ UNCHANGED <<conf, phase, stop, receipts, late, review, pause, orphans>>

(* The lean landing: the receipt's name is saved, the intent is flushed, ... *)
LandIntent(t) ==
    /\ job[t].pc = "land" /\ conf.isolated /\ conf.lean /\ phase # "off" /\ Quiet
    /\ ~Late(t) /\ stop = "no"
    /\ Flushed(t, [mem[t] EXCEPT !.receipt = mem[t].n])
    /\ receipts' = receipts \cup {<<t, mem[t].n>>}
    /\ job' = [job EXCEPT ![t].pc = "intent"]
    /\ UNCHANGED <<conf, phase, awake, stop, accepted, late, review, pause, orphans>>

(* ... or the attempt is not current any more, or its identity cannot be saved; *)
LandStale(t) ==
    /\ job[t].pc \in {"land", "intent"} /\ conf.isolated /\ conf.lean /\ phase # "off"
    /\ IF Late(t) \/ stop # "no" THEN Quiet ELSE Incident
    /\ FailAttempt(t, IF Late(t) THEN "budget" ELSE "integration")
    /\ Still

(* ... update-ref moves the branch from the head the candidate was built on; *)
Publish(t) ==
    /\ job[t].pc = "intent" /\ ~Late(t) /\ Quiet
    /\ Accept(t)
    /\ job' = [job EXCEPT ![t].pc = "published"]
    /\ UNCHANGED <<conf, phase, awake, stop, saved, receipts, late, review, pause, orphans>>

(* ... the completion is saved. *)
CompleteLean(t) ==
    /\ job[t].pc = "published" /\ Quiet
    /\ Flushed(t, Completed(mem[t]))
    /\ Ends(t) /\ Still

\* Mutant: only workers are signalled.
HitWorker(u) == [job[u] EXCEPT !.hit = job[u].pc = "run"]

(* killTask signals the agent of a phase. *)
Hit(u) == [job[u] EXCEPT !.hit = job[u].pc \in Live]

(* The completion cannot be saved: the receipt is left for the next start, and
   everything is stopped. *)
CompletionLost(t) ==
    /\ job[t].pc = "published" /\ Incident
    /\ Becomes(t, [mem[t] EXCEPT !.st = "pending", !.why = "integration"])
    /\ job' = [u \in Tasks |-> IF u = t THEN Idle ELSE Hit(u)]
    /\ stop' = "gated" /\ awake' = "top"
    /\ UNCHANGED <<conf, phase, accepted, receipts, late, review, pause, orphans>>

-----------------------------------------------------------------------------
(* stop *)

AgentsOf(ts, from) == {[task |-> t, n |-> mem[t].n, from |-> from] : t \in ts}
Running == {t \in Tasks : job[t].pc \in Live}

(* The agents in flight are killed; a quota stop records them first (one pause
   at a time here). *)
Stop(quota) ==
    /\ phase # "off" /\ stop = "no" /\ ~Busy /\ Incident
    /\ quota => (conf.quota /\ pause.stage = "none" /\ \A t \in Running : ~Late(t))
    /\ stop' = "grace"
    /\ job' = [t \in Tasks |-> Hit(t)]
    /\ pause' = IF ~quota THEN pause
                ELSE [stage |-> "captured", of |-> [t \in Tasks |-> IF mem[t].st = "running" THEN mem[t].n ELSE 0],
                      done |-> {t \in Tasks : job[t].pc = "review"}]
    /\ disk' = mem
    /\ UNCHANGED <<conf, phase, awake, mem, accepted, receipts, late, review, orphans>>

(* The grace is over, or nothing is in flight: what is left is settled by
   force, its agents are not asked again, and the gate rejects. *)
ForceSettle ==
    /\ stop = "grace" /\ ~Busy /\ Quiet
    /\ \E commits \in SUBSET {t \in InFlight : conf.isolated} :
        mem' = [t \in Tasks |->
                  LET r == IF t \in InFlight /\ mem[t].st = "running"
                           THEN [mem[t] EXCEPT !.st = "pending", !.why = "killed"] ELSE mem[t]
                  IN  IF t \in commits THEN [r EXCEPT !.commit = r.n] ELSE r]
    /\ orphans' = orphans \cup AgentsOf({t \in Running : ~job[t].hit}, "stop")
    /\ job' = [t \in Tasks |-> Idle]
    /\ stop' = "gated" /\ awake' = "top"
    /\ UNCHANGED <<conf, phase, disk, accepted, receipts, late, review, pause>>

(* A phase in flight is refused by the gate after a lost completion. *)
GateRejects(t) ==
    /\ stop = "gated" /\ job[t].pc \in (Live \ {"prepare"}) \cup {"backoff"} /\ ~Busy /\ Quiet
    /\ IF job[t].pc = "backoff" THEN Becomes(t, mem[t]) ELSE
        \E r \in Salvaged(t, [mem[t] EXCEPT !.st = "pending", !.why = "killed"]) : Becomes(t, r)
    /\ orphans' = orphans \cup AgentsOf({t} \cap {u \in Running : ~job[u].hit}, "stop")
    /\ Ends(t)
    /\ UNCHANGED <<conf, phase, stop, accepted, receipts, late, review, pause>>

-----------------------------------------------------------------------------
(* The end-of-run review *)

(* The tasks a round looks at: completed, no chain review, not yet passed. *)
Candidates == {t \in Tasks : mem[t].st = "completed" /\ t \notin conf.covering /\ mem[t].final # "pass"}

FinalBegins ==
    /\ Looping /\ Settled /\ conf.final # "off" /\ stop = "no" /\ Quiet
    /\ phase' = "final" /\ awake' = "no"
    /\ rev' = [t \in Tasks |-> IF conf.final = "per-task" /\ conf.isolated /\ t \in Candidates THEN "todo" ELSE "no"]
    /\ tally' = {}
    /\ UNCHANGED <<conf, stop, saved, job, accepted, receipts, late, round, pause, orphans>>

FinalStarts(t) ==
    /\ phase = "final" /\ rev[t] = "todo" /\ stop = "no" /\ Quiet
    /\ Cardinality({u \in Tasks : rev[u] = "busy"}) < conf.concurrency
    /\ rev' = [rev EXCEPT ![t] = "busy"]
    /\ UNCHANGED <<conf, phase, awake, stop, saved, job, accepted, receipts, late, tally, round, pause, orphans>>

(* reviewOne: a rejected task is sent back while rounds are left. *)
RoundsLeft == conf.finalRounds - round
Judged(t, verdict) ==
    CASE verdict = "pass" -> [mem[t] EXCEPT !.final = "pass"]
      [] verdict = "fail" /\ RoundsLeft > 0 ->
            [mem[t] EXCEPT !.final = "none", !.st = "pending", !.why = "none", !.asked = mem[t].n]
      [] verdict = "fail" /\ RoundsLeft <= 0 -> [mem[t] EXCEPT !.final = "fail", !.st = "failed", !.why = "review"]
      [] verdict = "error" -> [mem[t] EXCEPT !.final = "error"]
      [] OTHER -> [mem[t] EXCEPT !.final = "error", !.st = "failed", !.why = "review-protocol"]
FinalJudges(t) ==
    /\ phase = "final" /\ rev[t] = "busy" /\ Quiet
    /\ \E verdict \in IF stop = "gated" THEN {"error"} ELSE {"pass", "fail", "error", "review-protocol"} :
        /\ Becomes(t, Judged(t, verdict))
        /\ tally' = tally \cup (IF verdict = "pass" THEN {} ELSE IF verdict # "fail" THEN {"error"}
                                ELSE IF RoundsLeft > 0 THEN {"failed", "requeued"} ELSE {"failed"})
    /\ rev' = [rev EXCEPT ![t] = "no"]
    /\ orphans' = IF stop = "gated" THEN orphans \cup AgentsOf({t}, "final") ELSE orphans
    /\ UNCHANGED <<conf, phase, awake, stop, job, accepted, receipts, late, round, pause>>

FinalOver == phase = "final" /\ stop # "grace" /\
             \A t \in Tasks : rev[t] # "busy" /\ (stop = "no" => rev[t] # "todo")
(* Another round of tasks follows a rejection that sent work back. *)
NextRound ==
    /\ FinalOver /\ Quiet
    /\ {"failed", "requeued"} \subseteq tally
    /\ phase' = "tasks" /\ awake' = "top" /\ round' = round + 1
    /\ rev' = [t \in Tasks |-> "no"] /\ tally' = {}
    /\ UNCHANGED <<conf, stop, saved, job, accepted, receipts, late, pause, orphans>>

(* The verdict is passed, advisory or an error: the run ends. *)
FinalEnds ==
    /\ FinalOver /\ Quiet /\ "requeued" \notin tally
    /\ Over /\ pause' = Closed(pause)
    /\ UNCHANGED <<conf, job, accepted, receipts, late, orphans>>

-----------------------------------------------------------------------------
(* Time, saves, crashes and the operator *)

Deadline(t) ==
    /\ conf.lean /\ phase # "off" /\ t \notin late /\ Incident
    /\ mem[t].used > 0
    /\ late' = late \cup {t}
    /\ UNCHANGED <<conf, phase, awake, stop, saved, job, accepted, receipts, review, pause, orphans>>

(* The throttled flush. *)
Save ==
    /\ mem # disk /\ ~Busy /\ Quiet
    /\ disk' = mem
    /\ UNCHANGED <<conf, phase, awake, stop, mem, job, accepted, receipts, late, review, pause, orphans>>

Crash ==
    /\ (phase # "off" \/ InFlight # {}) /\ Incident
    /\ orphans' = orphans \cup AgentsOf(Running \cup {t \in Tasks : rev[t] = "busy"}, "crash")
    /\ mem' = disk /\ job' = [t \in Tasks |-> Idle]
    /\ phase' = "off" /\ awake' = "no" /\ stop' = "no"
    /\ rev' = [t \in Tasks |-> "no"] /\ tally' = {} /\ round' = 0
    /\ pause' = IF pause.stage = "stopped" THEN pause ELSE NoPause
    /\ UNCHANGED <<conf, disk, accepted, receipts, late>>

(* retryTask between two runs. A landing failure resumes verified source; any
   other retry asks for the work to be done again. *)
Resuming == {"merge", "integration", "interrupted", "killed"}
Retry(t) ==
    /\ phase = "off" /\ InFlight = {} /\ mem[t].st \in {"completed", "failed", "skipped"} /\ Incident
    /\ mem' = [mem EXCEPT ![t] = [@ EXCEPT !.st = "pending", !.why = "none", !.cycle = 0, !.reviews = 0,
                                  !.final = "none",
                                  !.asked = IF mem[t].why \in Resuming THEN mem[t].asked ELSE mem[t].n]]
    /\ disk' = mem'
    /\ UNCHANGED <<conf, phase, awake, stop, job, accepted, receipts, late, review, pause, orphans>>

(* renewExecutionDeadline of a stopped task. *)
Renew(t) ==
    /\ phase = "off" /\ InFlight = {} /\ conf.lean /\ mem[t].used > 0 /\ Incident
    /\ \E extra \in {0, 1} :
        /\ mem[t].used < mem[t].limit + extra
        /\ t \in late \/ extra = 1
        /\ mem' = [mem EXCEPT ![t].limit = @ + extra]
    /\ disk' = mem' /\ late' = late \ {t}
    /\ UNCHANGED <<conf, phase, awake, stop, job, accepted, receipts, review, pause, orphans>>

-----------------------------------------------------------------------------
LoopStep == PolicySkip \/ LoopWaits \/ EndRun \/ FinalBegins \/ NextRound \/ FinalEnds
TaskStep(t) ==
    \/ LaunchRefused(t) \/ Launch(t) \/ Continue(t)
    \/ PrepareEnds(t) \/ PlanEnds(t) \/ WorkEnds(t) \/ PhaseFails(t) \/ PhaseAgain(t)
    \/ ReviewPasses(t) \/ ReviewRejects(t) \/ ReviewErrs(t) \/ BackoffEnds(t)
    \/ Conflict(t) \/ LandNothing(t) \/ LandClassic(t) \/ LandIntent(t) \/ LandStale(t)
    \/ Publish(t) \/ CompleteLean(t) \/ GateRejects(t)
    \/ FinalStarts(t) \/ FinalJudges(t)
Fault(t) == ChargeLost(t) \/ WorktreeFails(t) \/ CompletionLost(t) \/ Deadline(t)
Operator(t) == Retry(t) \/ Renew(t) \/ StartVerification(t)

Next ==
    \/ LoopStep \/ ForceSettle \/ Save \/ Crash \/ WallClock
    \/ \E quota \in BOOLEAN : Start(quota) \/ Stop(quota)
    \/ \E t \in Tasks : TaskStep(t) \/ Fault(t) \/ Operator(t)

(* Timers bound every phase, the grace period ends, and the loop of a run that
   lives goes on; nobody has to start, stop or repair anything. *)
Fairness ==
    /\ WF_vars(LoopStep) /\ WF_vars(ForceSettle)
    /\ \A t \in Tasks : WF_vars(TaskStep(t))
Spec == Init /\ [][Next]_vars /\ Fairness

-----------------------------------------------------------------------------
(* Properties *)

Record == [st : Terminal \cup {"pending", "running"},
           why : {"none", "killed", "interrupted", "review", "review-protocol", "timeout", "merge",
                  "integration", "budget", "exit", "plan", "worktree"},
           n : Nat, cycle : Nat, reviews : Nat, merges : Nat, used : Nat, limit : Nat,
           final : {"none", "pass", "fail", "error"}, receipt : Nat, commit : Nat, asked : Nat]
Place == [pc : Live \cup Sync \cup {"idle", "backoff"}, base : SUBSET (Tasks \X Nat),
          rec : {"none", "resume", "verify"}, tries : Nat, hit : BOOLEAN]

\* Every variable has its type.
TypeOK ==
    /\ conf \in Confs /\ phase \in {"off", "tasks", "final"} /\ stop \in {"no", "grace", "gated"}
    /\ awake \in {"no", "top", "launching"}
    /\ mem \in [Tasks -> Record] /\ disk \in [Tasks -> Record] /\ job \in [Tasks -> Place]
    /\ accepted \subseteq Tasks \X Nat /\ receipts \subseteq Tasks \X Nat /\ late \subseteq Tasks
    /\ rev \in [Tasks -> {"no", "todo", "busy"}] /\ tally \subseteq {"failed", "requeued", "error"}
    /\ round \in Nat /\ incidents \in 0 .. conf.faults
    /\ pause \in [stage : {"none", "captured", "stopped", "claimed"}, of : [Tasks -> Nat], done : SUBSET Tasks]
    /\ orphans \subseteq [task : Tasks, n : Nat, from : {"stop", "final", "crash"}]

\* A completed task was merged into the integration branch, whatever was lost
\* on the way: a crash between update-ref and the save, a save that failed, a
\* stop in the landing, a retry or a rejection that a restart undoes.
CompletedLanded ==
    \A t \in Tasks : conf.isolated /\ ~conf.wall /\ "completed" \in {mem[t].st, disk[t].st} => Landed(t)

\* A worker starts from a branch that has the work of everything it depends on.
BuiltOnDeps ==
    \A t \in InFlight : conf.isolated /\ ~conf.wall =>
        \A d \in conf.deps[t] : \E p \in job[t].base : p[1] = d

\* No agent of a lean attempt runs that the saved ledger has not counted, so
\* that a crash cannot give an attempt away.
ChargedFirst ==
    conf.lean => /\ \A t \in Running : disk[t].used >= mem[t].used /\ disk[t].n = mem[t].n
                 /\ \A t \in Tasks : mem[t].used <= mem[t].limit

\* An agent that outlives a stop was started by a task whose prepare command
\* swallowed the kill; otherwise only a crash or the final review leaves one.
StopKills == \A o \in orphans : o.from = "stop" => o.task \in conf.prepared

\* Work that was published is done again only if a reviewer or an operator
\* sent it back: a crash, a stop or a failed save after update-ref does not.
PublishedNotRedone ==
    conf.lean => \A t \in Running : \A p \in accepted :
        p[1] = t /\ p[2] < mem[t].n => p[2] <= mem[t].asked

\* A run ends, with or without a stop: attempts, rounds and retries run out,
\* and no lost completion, kill or rejection leaves the loop waiting.
RunEnds == phase # "off" ~> phase = "off"

=============================================================================
