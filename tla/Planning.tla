------------------------------ MODULE Planning ------------------------------
(* A contract-managed run: its manifest is compiled (planning/compile.ts),
   amended and migrated to (planning/amend.ts) by commands that write the
   definition, the state and a journal one file after the other, worked off by
   the lean runner, which records the acceptance evidence (planning/runtime.ts),
   and restored from a checkpoint when its state is damaged (commands/run.ts).

   The files are kept apart: def, st and the two journals. A step of the runner
   saves what it changes (DagRunner models the delay of its saves). Holds are
   left out: nothing outside the tests records one.                          *)
EXTENDS Integers, FiniteSets, FiniteSetsExt

CONSTANTS
    Tasks,
    Revisions,      \* the revisions of a manifest, each the digest of its text
    Manifest,       \* the text: a record of
                    \*   task: what a task declares: its work, the tasks it
                    \*     depends on, the capabilities it provides and inputs,
                    \*     the files it writes and the slots it wants
                    \*   crit: of each criterion its owner, its check and the
                    \*     tasks that contribute to it
                    \*   required: whether a review has to pass
    None, Damaged,  \* no file or value, and a file that cannot be parsed
    Capacity,       \* the slots of the one shared resource
    Scenes          \* the cases: whether the run is an older one, which
                    \*   manifests its owner has, and the bounds on attempts, on
                    \*   amendments and migrations, and on crashes, damage to
                    \*   the state and retries

ASSUME ManifestAssumption ==
    /\ Capacity \in Nat /\ DOMAIN Manifest = Revisions
    /\ \A p \in Revisions : DOMAIN Manifest[p].task \subseteq Tasks

ASSUME ScenesAssumption ==
    \A s \in Scenes : /\ s.legacy \in BOOLEAN /\ s.plans \subseteq Revisions
                      /\ {s.attempts, s.changes, s.mishaps} \subseteq Nat

VARIABLES
    scene,      \* the case, chosen once
    def,        \* the run file: the manifest, and the definition of every task
    st,         \* the state file
    amending,   \* planning-amendment.json
    migrating,  \* planning-migration.json
    receipts,   \* integration/<task>.<attempt>.json, published
    log,        \* the events of each task since the amendment's snapshot
    cmd,        \* the command that holds the lock, and what it has to write
    runner,     \* whether a runner holds the lock
    approved,   \* the manifests with a passing review receipt
    strayed,    \* a run was started between the two ends of an amendment
    changes, mishaps

vars == <<scene, def, st, amending, migrating, receipts, log, cmd, runner, approved,
          strayed, changes, mishaps>>
files == <<scene, def, st, amending, migrating>>
bounds == <<changes, mishaps>>

-----------------------------------------------------------------------------
(* Manifests: validatePlan *)

Ids(p) == DOMAIN Manifest[p].task
Crits(p) == DOMAIN Manifest[p].crit
Owned(p, t) == {c \in Crits(p) : Manifest[p].crit[c].owner = t}
Producers(p, cap) == {t \in Ids(p) : cap \in Manifest[p].task[t].provides}
(* What a task waits for: the declared prerequisites, and the producer of
   every capability it takes as an input. *)
Deps(p, t) == Manifest[p].task[t].deps \cup UNION {Producers(p, cap) : cap \in Manifest[p].task[t].inputs}

Closed(p, S) == \A u \in S : Deps(p, u) \cap Ids(p) \subseteq S
(* The least set with t's prerequisites, theirs, and so on. *)
Ancestors(p, t) ==
    {u \in Ids(p) : \A S \in SUBSET Ids(p) : Closed(p, S) /\ Deps(p, t) \cap Ids(p) \subseteq S => u \in S}

WellOrdered(p) == \A t \in Ids(p) : /\ Deps(p, t) \subseteq Ids(p) /\ t \notin Ancestors(p, t)
                                    /\ \A cap \in Manifest[p].task[t].inputs : Cardinality(Producers(p, cap)) = 1
                                    /\ Manifest[p].task[t].wants <= Capacity
\* Mutant: a criterion only has to have an owner.
ValidLoosely(p) == WellOrdered(p) /\ \A c \in Crits(p) : Manifest[p].crit[c].owner \in Ids(p)
(* A criterion is judged by a task that comes after all who contribute. *)
Valid(p) == /\ WellOrdered(p)
            /\ \A c \in Crits(p) : LET k == Manifest[p].crit[c] IN
                /\ k.owner \in Ids(p) /\ k.contributors \subseteq Ids(p)
                /\ k.contributors \ {k.owner} \subseteq Ancestors(p, k.owner)

(* assertPlanningRequirementsPreserved: a criterion's text stays, whoever owns
   it and whatever checks it. *)
Preserved(old, new) == Crits(old) \subseteq Crits(new)
Deferred(p, t) == {<<c, Manifest[p].crit[c].owner>> : c \in {c \in Crits(p) : t \in Manifest[p].crit[c].contributors \ {Manifest[p].crit[c].owner}}}
(* acceptedIdentity: what a task was asked for, without its budget. *)
Contract(p, t) == <<Manifest[p].task[t], Deps(p, t), [c \in Owned(p, t) |-> Manifest[p].crit[c]]>>
(* planningDefinition of the compiled task: its brief also names what others
   will verify. *)
Definition(p, t) == <<Contract(p, t), Deferred(p, t)>>

-----------------------------------------------------------------------------
(* The files *)

Some(S) == UNION {[D -> S] : D \in SUBSET Tasks}
Texts == {None} \cup UNION {{Definition(p, t) : t \in Ids(p)} : p \in Revisions}
Defs == [plan : Revisions \cup {None}, spec : Some(Texts), imports : SUBSET Tasks]
Verdicts == [crit : UNION {Crits(p) : p \in Revisions}, by : Tasks, n : Nat, rev : Revisions]
Records == [status : {"pending", "running", "completed", "failed"}, n : Nat, receipt : Nat]
States == [rev : Revisions \cup {None}, tasks : Some(Records), evidence : SUBSET Verdicts]
Journals == [stage : {"validated", "committed"}, rev : Revisions, base : [def : Defs, st : States] \cup {None}]
(* No file, and one that cannot be parsed, are not taken for a file. *)
ASSUME NoFileAssumption == \A x \in {None, Damaged} :
    x \notin Defs /\ x \notin States /\ x \notin Journals /\ x \notin Revisions

Fresh == [status |-> "pending", n |-> 0, receipt |-> 0]

Compiled(p) == [def |-> [plan |-> p, spec |-> [t \in Ids(p) |-> Definition(p, t)], imports |-> {}],
                st |-> [rev |-> p, tasks |-> [t \in Ids(p) |-> Fresh], evidence |-> {}]]
(* A run of an older kind, without a manifest. *)
Legacy(p) == [def |-> [plan |-> None, spec |-> [t \in Ids(p) |-> None], imports |-> {}],
              st |-> [rev |-> None, tasks |-> [t \in Ids(p) |-> Fresh], evidence |-> {}]]

Run == [def |-> def, st |-> [st EXCEPT !.tasks = [t \in DOMAIN def.spec |-> st.tasks[t]]]]
Readable == def # None /\ st \notin {None, Damaged} /\ DOMAIN def.spec \subseteq DOMAIN st.tasks
IsRunning(s) == \E t \in DOMAIN s.tasks : s.tasks[t].status = "running"
Running == {t \in DOMAIN st.tasks : st.tasks[t].status = "running"}
Validated(journal) == journal # None /\ journal.stage = "validated"
Interrupted == Validated(amending) \/ Validated(migrating)

Idle == [at |-> "idle", to |-> None, kind |-> None]
Free == cmd = Idle /\ ~runner
Quiet == [t \in Tasks |-> [last |-> "none", top |-> 0]]
Mishap == mishaps < scene.mishaps /\ mishaps' = mishaps + 1 /\ UNCHANGED changes
Change == changes < scene.changes /\ changes' = changes + 1 /\ UNCHANGED mishaps

Init ==
    /\ scene \in Scenes
    /\ IF scene.legacy THEN \E p \in scene.plans : def = Legacy(p).def /\ st = Legacy(p).st
                       ELSE def = None /\ st = None
    /\ amending = None /\ migrating = None
    /\ receipts = {} /\ log = Quiet
    /\ cmd = Idle /\ runner = FALSE
    /\ approved = {p \in scene.plans : ~Manifest[p].required}
    /\ strayed = FALSE /\ changes = 0 /\ mishaps = 0

(* dag plan review --plan: a passing verdict leaves a receipt by the file. *)
Review(p) == /\ p \in scene.plans \ approved /\ Valid(p)
             /\ approved' = approved \cup {p}
             /\ UNCHANGED <<files, receipts, log, cmd, runner, strayed, bounds>>

-----------------------------------------------------------------------------
(* compile, amend, migrate: what they refuse, and what they would write *)

Saves(kind, to) == cmd' = [at |-> "def", to |-> to, kind |-> kind]

Compile(p) ==
    /\ Free /\ def = None /\ Valid(p) /\ p \in approved
    /\ Saves("compile", Compiled(p))
    /\ UNCHANGED <<files, receipts, log, runner, approved, strayed, bounds>>

(* The run an interrupted command started from, or the run as it is. *)
Base(journal) == IF Validated(journal) THEN journal.base ELSE Run
\* Mutant: a resumed command loads the run first.
LoadsAlways(journal) == Readable
Loads(journal) == Validated(journal) \/ Readable
Resumes(journal, p) == Validated(journal) => journal.rev = p

\* Mutant: a task without an accepted result may go.
AllowsOpen(run, p) ==
    \A t \in DOMAIN run.def.spec :
        run.st.tasks[t].status = "completed" =>
            t \in Ids(p) /\ Contract(run.def.plan, t) = Contract(p, t)
(* No attempted task is removed, and accepted work is left alone. *)
Allows(run, p) ==
    \A t \in DOMAIN run.def.spec :
        /\ t \notin Ids(p) => run.st.tasks[t].n = 0
        /\ run.st.tasks[t].status = "completed" =>
              t \in Ids(p) /\ Contract(run.def.plan, t) = Contract(p, t)

(* The evidence of unchanged criteria whose task is still accepted. *)
Kept(run, p) ==
    {[e EXCEPT !.rev = p] : e \in {e \in run.st.evidence :
        /\ e.crit \in Crits(p) /\ Manifest[run.def.plan].crit[e.crit] = Manifest[p].crit[e.crit]
        /\ e.by \in DOMAIN run.def.spec \cap Ids(p) /\ run.st.tasks[e.by].status = "completed"}}

Amended(run, p) ==
    LET old(t) == t \in DOMAIN run.def.spec
        imported(t) == t \in run.def.imports
        changed(t) == ~imported(t) /\ run.def.spec[t] # Definition(p, t)
        task(t) == IF ~old(t) THEN Fresh
                   ELSE IF run.st.tasks[t].status = "failed" /\ changed(t)
                        THEN [run.st.tasks[t] EXCEPT !.status = "pending"] ELSE run.st.tasks[t]
    IN  [def |-> [plan |-> p, imports |-> run.def.imports,
                  spec |-> [t \in Ids(p) |-> IF old(t) /\ imported(t) THEN run.def.spec[t] ELSE Definition(p, t)]],
         st |-> [rev |-> p, tasks |-> [t \in Ids(p) |-> task(t)], evidence |-> Kept(run, p)]]

Amend(p) ==
    /\ Free /\ def # None /\ Resumes(amending, p) /\ Loads(amending)
    /\ IF Validated(amending) THEN UNCHANGED bounds ELSE Change
    /\ \E run \in {Base(amending)} :
        /\ run.def.plan # None /\ ~IsRunning(run.st)
        /\ Valid(p) /\ p \in approved
        /\ Preserved(run.def.plan, p) /\ Allows(run, p)
        /\ amending' = [stage |-> "validated", rev |-> p, base |-> run]
        /\ Saves("amend", Amended(run, p))
    /\ log' = IF Validated(amending) THEN log ELSE Quiet
    /\ UNCHANGED <<scene, def, st, migrating, receipts, runner, approved, strayed>>

(* Every task is kept, and what is completed is imported as it stands. *)
Migrated(run, p) ==
    LET kept(t) == t \in DOMAIN run.def.spec /\ run.st.tasks[t].status = "completed"
    IN  [def |-> [plan |-> p, imports |-> {t \in DOMAIN run.def.spec : kept(t)},
                  spec |-> [t \in Ids(p) |-> IF kept(t) THEN run.def.spec[t] ELSE Definition(p, t)]],
         st |-> [rev |-> p, evidence |-> {},
                 tasks |-> [t \in Ids(p) |-> IF t \in DOMAIN run.def.spec THEN run.st.tasks[t] ELSE Fresh]]]

Migrate(p) ==
    /\ Free /\ def # None /\ Resumes(migrating, p) /\ Loads(migrating)
    /\ IF Validated(migrating) THEN UNCHANGED bounds ELSE Change
    /\ \E run \in {Base(migrating)} :
        /\ run.def.plan = None /\ ~IsRunning(run.st)
        /\ Valid(p) /\ p \in approved
        /\ DOMAIN run.def.spec \subseteq Ids(p)
        /\ \A t \in DOMAIN run.def.spec : run.st.tasks[t].status = "completed" => Deps(p, t) = {}
        /\ migrating' = [stage |-> "validated", rev |-> p, base |-> run]
        /\ Saves("migrate", Migrated(run, p))
    /\ UNCHANGED <<scene, def, st, amending, receipts, log, runner, approved, strayed>>

(* saveRun writes the definition, then the state; then the journal is closed. *)
WriteDef ==
    /\ cmd.at = "def"
    /\ def' = cmd.to.def /\ cmd' = [cmd EXCEPT !.at = "st"]
    /\ UNCHANGED <<scene, st, amending, migrating, receipts, log, runner, approved, strayed, bounds>>

WriteState ==
    /\ cmd.at = "st"
    /\ st' = cmd.to.st
    /\ cmd' = IF cmd.kind = "compile" THEN Idle ELSE [cmd EXCEPT !.at = "journal"]
    /\ UNCHANGED <<scene, def, amending, migrating, receipts, log, runner, approved, strayed, bounds>>

WriteJournal ==
    /\ cmd.at = "journal"
    /\ IF cmd.kind = "amend" THEN amending' = [amending EXCEPT !.stage = "committed"] /\ UNCHANGED migrating
                             ELSE migrating' = [migrating EXCEPT !.stage = "committed", !.base = None] /\ UNCHANGED amending
    /\ cmd' = Idle /\ strayed' = (strayed /\ Validated(IF cmd.kind = "amend" THEN migrating ELSE amending))
    /\ UNCHANGED <<scene, def, st, receipts, log, runner, approved, bounds>>

-----------------------------------------------------------------------------
(* The runner *)

Current == st.tasks
(* The events matter once there is a snapshot to replay them on. *)
Logged(events) == log' = IF amending = None THEN log ELSE events
Entry(t, what) == [log EXCEPT ![t] = [last |-> what, top |-> IF what = "start" THEN Current[t].n + 1 ELSE @.top]]
(* recordPlanningAcceptance *)
Recorded(evidence, t, n) ==
    IF def.plan = None THEN evidence
    ELSE {e \in evidence : e.crit \notin Owned(def.plan, t)}
         \cup {[crit |-> c, by |-> t, n |-> n, rev |-> def.plan] : c \in Owned(def.plan, t)}

(* Start reconciles every unfinished task that has a receipt: one of another
   attempt or of another revision makes it throw. *)
Receipted(s, t) == /\ s.tasks[t].status # "completed" /\ s.tasks[t].n >= 1
                   /\ \E r \in receipts : r.by = t /\ r.n = s.tasks[t].receipt
\* Mutant: the revision of a receipt is not compared.
RefusesOldAttempt(s) == \E t \in DOMAIN s.tasks : Receipted(s, t) /\ s.tasks[t].receipt # s.tasks[t].n
RefusesReceipt(s) ==
    \E t \in DOMAIN s.tasks : /\ Receipted(s, t)
        /\ \/ s.tasks[t].receipt # s.tasks[t].n
           \/ \E r \in receipts : r.by = t /\ r.n = s.tasks[t].receipt /\ r.rev # def.plan

Requeued(s) == [s EXCEPT !.tasks = [t \in DOMAIN s.tasks |->
                   IF s.tasks[t].status = "running" THEN [s.tasks[t] EXCEPT !.status = "pending"] ELSE s.tasks[t]]]
Reconciled(s) ==
    LET found == {t \in DOMAIN s.tasks : Receipted(s, t)} IN
    [s EXCEPT !.tasks = [t \in DOMAIN s.tasks |->
                  IF t \in found THEN [s.tasks[t] EXCEPT !.status = "completed"] ELSE s.tasks[t]],
              !.evidence = IF def.plan = None THEN @ ELSE
                  {e \in @ : \A t \in found : e.crit \notin Owned(def.plan, t)}
                  \cup UNION {{[crit |-> c, by |-> t, n |-> s.tasks[t].n, rev |-> def.plan]
                                  : c \in Owned(def.plan, t)} : t \in found \cap Ids(def.plan)}]

(* planningRefusal is asked here, and what it says is only logged. *)
Start ==
    /\ Free /\ Readable
    /\ \E s \in {Requeued(Run.st)} :
        /\ \E t \in DOMAIN s.tasks : s.tasks[t].status = "pending"
        /\ st' = IF RefusesReceipt(s) THEN s ELSE Reconciled(s)
        /\ runner' = ~RefusesReceipt(s)
        /\ Logged([t \in Tasks |->
              IF t \notin DOMAIN s.tasks THEN log[t]
              ELSE IF ~RefusesReceipt(s) /\ Receipted(s, t) THEN [log[t] EXCEPT !.last = "done"]
              ELSE IF t \in Running THEN [log[t] EXCEPT !.last = "halt"] ELSE log[t]])
    /\ strayed' = (strayed \/ (runner' /\ Interrupted))
    /\ UNCHANGED <<scene, def, amending, migrating, receipts, cmd, approved, bounds>>

(* dag resume requeues what a dead runner left running. *)
Recover ==
    /\ Free /\ Readable /\ Running # {}
    /\ st' = Requeued(Run.st)
    /\ Logged([t \in Tasks |-> IF t \in Running THEN [log[t] EXCEPT !.last = "halt"] ELSE log[t]])
    /\ UNCHANGED <<scene, def, amending, migrating, receipts, cmd, runner, approved, strayed, bounds>>

Total(p, ts) == FoldSet(LAMBDA t, n : Manifest[p].task[t].wants + n, 0, ts)
(* admitPlanningTask: no file in common with an active task, and room. *)
Admits(p, t, active) ==
    t \in Ids(p) =>
        /\ \A u \in active \cap Ids(p) : Manifest[p].task[t].writes \cap Manifest[p].task[u].writes = {}
        /\ Manifest[p].task[t].wants = 0 \/ Manifest[p].task[t].wants + Total(p, active \cap Ids(p)) <= Capacity

(* The prerequisites of the definition that is on disk. *)
DepsOf(t) == IF def.plan = None \/ t \in def.imports THEN {} ELSE Deps(def.plan, t)
Published(t) == [by |-> t, n |-> Current[t].n, rev |-> def.plan]
(* Between the publication and its record only a crash can fall. *)
Landing == {t \in Running : Current[t].receipt = Current[t].n /\ Published(t) \in receipts}

Dispatch(t) ==
    /\ runner /\ Landing = {} /\ t \in DOMAIN Current
    /\ Current[t].status = "pending" /\ Current[t].n < scene.attempts
    /\ \A d \in DepsOf(t) : d \in DOMAIN Current /\ Current[d].status = "completed"
    /\ def.plan # None => Admits(def.plan, t, Running)
    /\ st' = [st EXCEPT !.tasks[t].status = "running", !.tasks[t].n = @ + 1]
    /\ Logged(Entry(t, "start"))
    /\ UNCHANGED <<scene, def, amending, migrating, receipts, cmd, runner, approved, strayed, bounds>>

(* The pointer is flushed, the candidate published. A receipt of the same
   attempt that a rolled back run left is taken as it is, if it is of this
   revision. *)
Land(t) ==
    /\ runner /\ Landing = {} /\ t \in Running
    /\ \A r \in receipts : (r.by = t /\ r.n = Current[t].n) => r.rev = def.plan
    /\ st' = [st EXCEPT !.tasks[t].receipt = st.tasks[t].n]
    /\ receipts' = receipts \cup {Published(t)}
    /\ UNCHANGED <<scene, def, amending, migrating, log, cmd, runner, approved, strayed, bounds>>

Complete(t) ==
    /\ runner /\ t \in Landing
    /\ st' = [st EXCEPT !.tasks[t].status = "completed", !.evidence = Recorded(@, t, Current[t].n)]
    /\ Logged(Entry(t, "done"))
    /\ UNCHANGED <<scene, def, amending, migrating, receipts, cmd, runner, approved, strayed, bounds>>

(* failAttempt: another attempt, or none is left. *)
Fail(t) ==
    /\ runner /\ Landing = {} /\ t \in Running
    /\ \E again \in BOOLEAN :
        /\ st' = [st EXCEPT !.tasks[t].status = IF again THEN "pending" ELSE "failed"]
        /\ Logged(IF again THEN log ELSE Entry(t, "fail"))
    /\ UNCHANGED <<scene, def, amending, migrating, receipts, cmd, runner, approved, strayed, bounds>>

(* The run is over or is stopped: what is running is killed and requeued. *)
End ==
    /\ runner /\ Landing = {}
    /\ runner' = FALSE /\ st' = Requeued(st)
    /\ Logged([t \in Tasks |-> IF t \in Running THEN [log[t] EXCEPT !.last = "halt"] ELSE log[t]])
    /\ UNCHANGED <<scene, def, amending, migrating, receipts, cmd, approved, strayed, bounds>>

-----------------------------------------------------------------------------
(* The operator and the machine *)

(* dag retry: the attempts, the receipt and the evidence stay. *)
Retry(t) ==
    /\ Free /\ Readable /\ t \in DOMAIN def.spec /\ Mishap
    /\ Current[t].status \in {"completed", "failed"}
    /\ st' = [st EXCEPT !.tasks[t].status = "pending"]
    /\ UNCHANGED <<scene, def, amending, migrating, receipts, log, cmd, runner, approved, strayed>>

(* The process that holds the lock dies. *)
Crash ==
    /\ ~Free /\ Mishap
    /\ cmd' = Idle /\ runner' = FALSE
    /\ UNCHANGED <<files, receipts, log, approved, strayed>>

(* The state and its backup become unreadable. *)
Damage ==
    /\ Free /\ Readable /\ Mishap
    /\ st' = Damaged
    /\ UNCHANGED <<scene, def, amending, migrating, receipts, log, cmd, runner, approved, strayed>>

(* recover-checkpoint: the snapshot of the last amendment, and on top of it
   what the events say of each task. *)
Attempts(t) == LET n == amending.base.st.tasks[t].n IN IF log[t].top > n THEN log[t].top ELSE n
Proven(t) == log[t].last = "done" => \E r \in receipts : r.by = t /\ r.n = Attempts(t)
Replayed(t) ==
    LET was == amending.base.st.tasks[t]
        now == [was EXCEPT !.n = Attempts(t)]
    IN  CASE log[t].last = "none" -> was
          [] log[t].last = "done" -> [now EXCEPT !.status = "completed", !.receipt = Attempts(t)]
          [] log[t].last = "start" -> [now EXCEPT !.status = "running"]
          [] log[t].last = "fail" -> [now EXCEPT !.status = "failed"]
          [] log[t].last = "halt" -> [now EXCEPT !.status = "pending"]

RecoverCheckpoint ==
    /\ Free /\ def # None /\ ~Readable
    /\ amending # None /\ amending.stage = "committed"
    /\ DOMAIN def.spec = DOMAIN amending.base.def.spec
    /\ \A t \in DOMAIN def.spec : Proven(t)
    /\ st' = [rev |-> amending.base.st.rev, evidence |-> amending.base.st.evidence,
              tasks |-> [t \in DOMAIN def.spec |-> Replayed(t)]]
    /\ UNCHANGED <<scene, def, amending, migrating, receipts, log, cmd, runner, approved, strayed, bounds>>

Commands == WriteDef \/ WriteState \/ WriteJournal
Working(t) == Dispatch(t) \/ Land(t) \/ Complete(t) \/ Fail(t)
Next ==
    \/ \E p \in Revisions : Review(p) \/ Compile(p) \/ Amend(p) \/ Migrate(p)
    \/ Commands
    \/ Start \/ Recover \/ (\E t \in Tasks : Working(t)) \/ End
    \/ \E t \in Tasks : Retry(t)
    \/ Crash \/ Damage \/ RecoverCheckpoint

(* A command and a run come to their end unless they die, and the operator
   resumes an interrupted amendment with the same manifest, sooner or later at
   a time when the lock is free. *)
Resume == Validated(amending) /\ \E p \in Revisions : Amend(p)
Spec == Init /\ [][Next]_vars /\ WF_vars(Commands) /\ WF_vars(\E t \in Tasks : Complete(t))
             /\ WF_vars(End) /\ SF_vars(Resume)

-----------------------------------------------------------------------------
(* missingPlanningAcceptance: the criteria the runner reports as accepted. *)
Accepted(c) ==
    LET t == Manifest[def.plan].crit[c].owner IN
    /\ t \in DOMAIN Current /\ Current[t].status = "completed"
    /\ \E e \in st.evidence : e.crit = c /\ e.rev = def.plan /\ e.n = Current[t].n

\* A criterion the run reports as accepted was met by an attempt that was
\* published under the same contract: amendments, a crash between publication
\* and record, retries and a restored checkpoint never carry a verdict over to
\* a contract it was not given under.
EvidenceEarned ==
    (cmd = Idle /\ Readable /\ def.plan # None) =>
        \A c \in Crits(def.plan) : Accepted(c) =>
            \E r \in receipts : LET t == Manifest[def.plan].crit[c].owner IN
                /\ r.by = t /\ r.n = Current[t].n
                /\ r.rev # None /\ Contract(r.rev, t) = Contract(def.plan, t)

\* A task is published only when every task that contributes to one of its
\* criteria is completed.
ContributorsFirst ==
    [][\A t \in Tasks : (Land(t) /\ def.plan # None) =>
          \A c \in Owned(def.plan, t) : \A u \in Manifest[def.plan].crit[c].contributors \ {t} :
              u \in def.imports \/ Current[u].status = "completed"]_vars

Holds(s, t) == s \notin {None, Damaged} /\ t \in DOMAIN s.tasks
\* Nothing takes an attempt back or forgets a task that was attempted, and
\* accepted work stays accepted unless the operator retries it, unless a run
\* was started on a half-written amendment.
WorkKept ==
    [][~strayed =>
        \A t \in Tasks : (Holds(st, t) /\ st.tasks[t].n > 0 /\ st' # Damaged) =>
            /\ Holds(st', t) /\ st'.tasks[t].n >= st.tasks[t].n
            /\ st.tasks[t].status = "completed" => (st'.tasks[t].status = "completed" \/ mishaps' # mishaps)]_vars

\* An amendment that was interrupted is finished in the end: nothing the crash
\* left, and nothing a run did since, refuses its second half.
AmendSettles == Validated(amending) ~> ~Validated(amending)

\* "Interrupted amendments refuse execution until resumed"
\* (docs/planning-contract.md:74): no run starts between the two ends of an
\* amendment.
InterruptedRefuses == [][(runner' /\ ~runner) => ~Validated(amending)]_vars
=============================================================================
