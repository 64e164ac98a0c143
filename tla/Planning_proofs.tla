-------------------------- MODULE Planning_proofs --------------------------
(***************************************************************************)
(* Three facts about a run managed by a manifest, for any tasks, manifests *)
(* and number of amendments, crashes, damaged states and retries:          *)
(*   - a criterion that is reported as accepted was met by an attempt that *)
(*     was published under the contract it stands in;                      *)
(*   - a task is published after all who contribute to its criteria;       *)
(*   - no attempt and no accepted work is lost.                            *)
(* They need a careful operator (Careful).  The argument: the files are    *)
(* always whole or between the two ends of one command, both of which are  *)
(* sound for the receipts there are; a published attempt is settled, and   *)
(* was built on settled ones; and the events since the last amendment tell *)
(* which attempts are settled, so that the state rebuilt from them is      *)
(* sound as well.                                                          *)
(***************************************************************************)
EXTENDS Planning, TLAPS

\* What is assumed of the operator: no run is started while an amendment or a
\* migration is interrupted, and none of the two is begun while the other is.
Careful == ~strayed /\ ~(Validated(amending) /\ Validated(migrating))

Receipts == [by : Tasks, n : Nat, rev : Revisions \cup {None}]
Entries == [last : {"none", "start", "done", "fail", "halt"}, top : Nat]
Completed(s, t) == t \in DOMAIN s.tasks /\ s.tasks[t].status = "completed"

\* An attempt of t that was published is the one the state holds.
Settled(rc, s, t) ==
    /\ t \in DOMAIN s.tasks /\ s.tasks[t].n >= 1 /\ s.tasks[t].receipt = s.tasks[t].n
    /\ \E r \in rc : r.by = t /\ r.n = s.tasks[t].n

\* Every receipt of the attempt of t that the state holds was asked for what the plan asks.
Same(q, p, t) == IF q = None \/ p = None THEN q = p
                 ELSE t \in Ids(q) /\ t \in Ids(p) /\ Contract(q, t) = Contract(p, t)
Earned(rc, s, p, t) ==
    \E r \in rc : r.by = t /\ r.n = s.tasks[t].n /\ Same(r.rev, p, t)

\* The one thing a receipt of an attempt says.
Unique(rc) == \A r, x \in rc : r.by = x.by /\ r.n = x.n => r = x

\* A definition and the state that belongs to it: each task is in both, an
\* imported task is the work of a run without a plan, a completed one has a
\* receipt for what it is asked for, and what was published was built on what
\* was published.
Shaped(d, s) ==
    /\ d \in Defs /\ s \in States /\ DOMAIN s.tasks = DOMAIN d.spec /\ d.imports \subseteq DOMAIN d.spec
    /\ d.plan # None => Valid(d.plan) /\ DOMAIN d.spec = Ids(d.plan)
    /\ d.plan = None => d.imports = {} /\ s.evidence = {}
    /\ \A t \in DOMAIN s.tasks : s.tasks[t].receipt <= s.tasks[t].n
Imported(rc, d, s) ==
    \A t \in d.imports :
        /\ Settled(rc, s, t) /\ Earned(rc, s, None, t)
        /\ s.tasks[t].status \in {"completed", "pending"}
        /\ s.tasks[t].status = "completed" =>
              Deps(d.plan, t) = {} /\ \A e \in s.evidence : e.crit \notin Owned(d.plan, t)
Delivered(rc, d, s) ==
    \A t \in DOMAIN s.tasks \ d.imports : s.tasks[t].status = "completed" =>
        Settled(rc, s, t) /\ Earned(rc, s, d.plan, t)
Founded(rc, s) ==
    \A t \in DOMAIN s.tasks, r \in rc :
        (s.tasks[t].n >= 1 /\ s.tasks[t].receipt = s.tasks[t].n /\ r.by = t /\ r.n = s.tasks[t].n /\ r.rev # None) =>
            t \in Ids(r.rev) /\ \A u \in Deps(r.rev, t) : Settled(rc, s, u)
Sound(rc, d, s) == Shaped(d, s) /\ Imported(rc, d, s) /\ Delivered(rc, d, s) /\ Founded(rc, s)

\* s is x, but for tasks that were retried; it may have lost some.
Aged(x, s) ==
    /\ s \in States /\ s.evidence = x.evidence /\ DOMAIN s.tasks \subseteq DOMAIN x.tasks
    /\ \A t \in DOMAIN s.tasks :
          /\ s.tasks[t].n = x.tasks[t].n /\ s.tasks[t].receipt = x.tasks[t].receipt
          /\ s.tasks[t].status \in {x.tasks[t].status, "pending"}

Still(s) == \A t \in DOMAIN s.tasks : s.tasks[t].status # "running"

\* What an interrupted command started from and was to make of it.
Amending(rc) ==
    /\ amending \in Journals /\ amending.base = [def |-> amending.base.def, st |-> amending.base.st]
    /\ Sound(rc, amending.base.def, amending.base.st) /\ Still(amending.base.st)
    /\ amending.base.def.plan # None /\ Valid(amending.rev) /\ Allows(amending.base, amending.rev)
Migrating(rc) ==
    /\ migrating \in Journals /\ migrating.base = [def |-> migrating.base.def, st |-> migrating.base.st]
    /\ Sound(rc, migrating.base.def, migrating.base.st) /\ Still(migrating.base.st)
    /\ migrating.base.def.plan = None /\ Valid(migrating.rev)
    /\ \A t \in DOMAIN migrating.base.def.spec :
          t \in Ids(migrating.rev) /\ (migrating.base.st.tasks[t].status = "completed" => Deps(migrating.rev, t) = {})

\* The files between x, what there was, and y, what there will be.
Between(x, y) ==
    /\ def \in {x.def, y.def}
    /\ st # Damaged => Aged(x.st, st) \/ Aged(y.st, st)
    /\ cmd # Idle =>
          /\ cmd.to = y
          /\ cmd.at \in {"def", "st", "journal"}
          /\ cmd.at # "def" => def = y.def
          /\ cmd.at = "journal" => st = y.st

\* What the files are, one way or another: nothing yet; the first half of a new
\* run; a definition and its state; the middle of an amendment; of a migration.
Untouched == st = None /\ amending = None /\ migrating = None /\ receipts = {} /\ ~runner
Unwritten ==
    /\ Untouched /\ def = None
    /\ cmd # Idle => cmd.at = "def" /\ cmd.kind = "compile" /\ Sound({}, cmd.to.def, cmd.to.st)
HalfWritten ==
    /\ Untouched /\ def \in Defs
    /\ cmd # Idle => cmd.at = "st" /\ cmd.kind = "compile" /\ Sound({}, def, cmd.to.st)
Written ==
    /\ def \in Defs /\ ~Interrupted /\ cmd = Idle
    /\ st # Damaged => Sound(receipts, def, st)
HalfAmended ==
    /\ Validated(amending) /\ ~runner /\ Amending(receipts) /\ log = Quiet
    /\ Between(amending.base, Amended(amending.base, amending.rev))
    /\ cmd # Idle => cmd.kind = "amend"
HalfMigrated ==
    /\ Validated(migrating) /\ ~runner /\ Migrating(receipts) /\ amending = None
    /\ Between(migrating.base, Migrated(migrating.base, migrating.rev))
    /\ cmd # Idle => cmd.kind = "migrate"
Files == Unwritten \/ HalfWritten \/ Written \/ HalfAmended \/ HalfMigrated

\* While the runner is up: what was published is recorded or about to be, and
\* what runs has what it waits for.
Manned(t) ==
    /\ Settled(receipts, st, t) => st.tasks[t].status \in {"completed", "running"}
    /\ t \in def.imports => st.tasks[t].status = "completed"
    /\ st.tasks[t].status = "running" =>
          /\ st.tasks[t].n >= 1
          /\ st.tasks[t].receipt = st.tasks[t].n => Published(t) \in receipts
          /\ \A u \in DepsOf(t) : Completed(st, u)
Steady ==
    runner => /\ cmd = Idle /\ st # Damaged /\ ~Interrupted /\ def # None
              /\ \A t \in DOMAIN st.tasks : Manned(t)

\* The events since the snapshot of the last amendment.
BaseN(t) == IF t \in DOMAIN amending.base.st.tasks THEN amending.base.st.tasks[t].n ELSE 0
Reached(t) == IF log[t].top > BaseN(t) THEN log[t].top ELSE BaseN(t)
Told(t) == log[t].last = "done" \/ (log[t].last = "none" /\ Settled(receipts, amending.base.st, t))
\* What the events of t say is so.
Recounted(t) ==
    /\ log[t].last = "none" => log[t].top = 0
    /\ log[t].last = "start" => log[t].top > BaseN(t)
    /\ t \in def.imports => log[t].last = "none"
    /\ Settled(receipts, amending.base.st, t) => log[t].last \in {"none", "done"} /\ log[t].top = 0
    /\ log[t].last = "done" =>
          /\ t \in Ids(def.plan) /\ Reached(t) >= 1
          /\ \E r \in receipts : r.by = t /\ r.n = Reached(t) /\ r.rev = def.plan
          /\ \A u \in Deps(def.plan, t) : Told(u)
\* What the state says of t, the events say.
Followed(t) ==
    /\ st.tasks[t].n = Reached(t)
    /\ st.tasks[t].status = "running" => log[t].last = "start"
    /\ Told(t) => Settled(receipts, st, t) /\ st.tasks[t].status # "running"
    /\ st.tasks[t].status = "completed" => Told(t)
Events ==
    /\ (amending = None \/ Validated(amending)) => log = Quiet
    /\ amending # None /\ ~Validated(amending) =>
          /\ Amending(receipts)
          /\ cmd = Idle /\ ~Validated(migrating)
          /\ def = Amended(amending.base, amending.rev).def
          /\ \A t \in Tasks : Recounted(t)
          /\ st # Damaged => \A t \in DOMAIN st.tasks : Followed(t)

PlanInv ==
    /\ scene \in Scenes /\ mishaps \in Nat /\ changes \in Nat /\ runner \in BOOLEAN
    /\ receipts \subseteq Receipts /\ log \in [Tasks -> Entries]
    /\ Unique(receipts)
    /\ cmd = [at |-> cmd.at, to |-> cmd.to, kind |-> cmd.kind]
    /\ amending # None => /\ amending \in Journals /\ ~Validated(migrating)
                         /\ def # None /\ def.plan # None
    /\ Files /\ Steady /\ Events

-----------------------------------------------------------------------------
(* Files and manifests.                                                    *)

\* Some(S): the functions from tasks to S.
LEMMA SomeAre ==
    ASSUME NEW S, NEW f
    PROVE  f \in Some(S) <=> DOMAIN f \subseteq Tasks /\ f \in [DOMAIN f -> S]
BY DEF Some

\* A state file is no missing and no damaged one, and has the three parts.
LEMMA StateIs ==
    ASSUME NEW s \in States
    PROVE  /\ s # None /\ s # Damaged /\ s = [rev |-> s.rev, tasks |-> s.tasks, evidence |-> s.evidence]
           /\ DOMAIN s.tasks \subseteq Tasks /\ s.tasks \in [DOMAIN s.tasks -> Records]
           /\ s.evidence \subseteq Verdicts
<1>1. s.tasks \in Some(Records)
  BY DEF States
<1>2. s # None /\ s # Damaged
  BY NoFileAssumption
<1> QED BY <1>1, <1>2, SomeAre DEF States

\* The three parts make a state file.
LEMMA StateMade ==
    ASSUME NEW r \in Revisions \cup {None}, NEW e \in SUBSET Verdicts, NEW D \in SUBSET Tasks,
           NEW f \in [D -> Records]
    PROVE  [rev |-> r, tasks |-> f, evidence |-> e] \in States
<1>1. f \in Some(Records)
  BY SomeAre
<1> QED BY <1>1 DEF States

\* A run file is no missing one, and has the three parts.
LEMMA DefIs ==
    ASSUME NEW d \in Defs
    PROVE  /\ d # None /\ d = [plan |-> d.plan, spec |-> d.spec, imports |-> d.imports]
           /\ DOMAIN d.spec \subseteq Tasks /\ d.spec \in [DOMAIN d.spec -> Texts]
           /\ d.imports \subseteq Tasks /\ d.plan \in Revisions \cup {None}
<1>1. d.spec \in Some(Texts)
  BY DEF Defs
<1>2. d # None
  BY NoFileAssumption
<1> QED BY <1>1, <1>2, SomeAre DEF Defs

\* The three parts make a run file.
LEMMA DefMade ==
    ASSUME NEW p \in Revisions \cup {None}, NEW D \in SUBSET Tasks, NEW f \in [D -> Texts],
           NEW i \in SUBSET Tasks
    PROVE  [plan |-> p, spec |-> f, imports |-> i] \in Defs
<1>1. f \in Some(Texts)
  BY SomeAre
<1> QED BY <1>1 DEF Defs

\* A run without a manifest has no revision.
LEMMA PlansAre == None \notin Revisions
BY NoFileAssumption

\* The tasks of a manifest are tasks.
LEMMA IdsAre == \A p \in Revisions : Ids(p) \subseteq Tasks
BY ManifestAssumption DEF Ids

\* What a manifest asks of a task is a definition a run file can hold.
LEMMA TextsAre == None \in Texts /\ \A p \in Revisions : \A t \in Ids(p) : Definition(p, t) \in Texts
BY DEF Texts

\* What a valid manifest waits for it has.
LEMMA DepsListed == ASSUME NEW p, Valid(p), NEW t \in Ids(p) PROVE Deps(p, t) \subseteq Ids(p)
BY DEF Valid, WellOrdered

\* One contract, one set of prerequisites and of criteria.
LEMMA SameContract ==
    ASSUME NEW p, NEW q, NEW t, Contract(p, t) = Contract(q, t)
    PROVE  Deps(p, t) = Deps(q, t) /\ Owned(p, t) = Owned(q, t)
<1> DEFINE F(x) == [c \in Owned(x, t) |-> Manifest[x].crit[c]]
<1>1. Deps(p, t) = Deps(q, t) /\ F(p) = F(q)
  BY DEF Contract
<1>2. Owned(p, t) = DOMAIN F(p) /\ Owned(q, t) = DOMAIN F(q)
  OBVIOUS
<1> QED BY <1>1, <1>2

\* The run that is loaded from files that fit each other is these files.
LEMMA RunIs ==
    ASSUME st \in States, DOMAIN st.tasks = DOMAIN def.spec
    PROVE  Run = [def |-> def, st |-> st]
<1> DEFINE f == [t \in DOMAIN def.spec |-> st.tasks[t]]
<1>1. f = st.tasks
  BY StateIs
<1> HIDE DEF f
<1>2. [st EXCEPT !.tasks = f] = st
  BY <1>1, StateIs
<1> QED BY <1>2 DEF Run, f

-----------------------------------------------------------------------------
(* Runs that fit their plan.                                               *)

\* What is true of a task of a run.
LEMMA TaskIs ==
    ASSUME NEW s \in States, NEW t \in DOMAIN s.tasks
    PROVE  /\ t \in Tasks /\ s.tasks[t] \in Records /\ s.tasks[t].n \in Nat /\ s.tasks[t].receipt \in Nat
           /\ s.tasks[t].status \in {"pending", "running", "completed", "failed"}
           /\ s.tasks[t] = [status |-> s.tasks[t].status, n |-> s.tasks[t].n, receipt |-> s.tasks[t].receipt]
<1>1. s.tasks[t] \in Records /\ t \in Tasks
  BY StateIs
<1> QED BY <1>1 DEF Records

\* A state that has the same published attempts, and completes only what has one
\* that was earned, fits the definition as well.
LEMMA SoundChange ==
    ASSUME NEW rc, NEW d, NEW s, Sound(rc, d, s), NEW x \in States,
           DOMAIN x.tasks = DOMAIN s.tasks, d.plan = None => x.evidence = {},
           \A t \in DOMAIN s.tasks : x.tasks[t].receipt <= x.tasks[t].n,
           \A t \in DOMAIN s.tasks : Settled(rc, x, t) <=> Settled(rc, s, t),
           \A t \in DOMAIN s.tasks : Settled(rc, s, t) => x.tasks[t].n = s.tasks[t].n,
           \A t \in d.imports :
               /\ x.tasks[t].status \in {"completed", "pending"}
               /\ x.tasks[t].status = "completed" =>
                     s.tasks[t].status = "completed" /\ \A e \in x.evidence : e.crit \notin Owned(d.plan, t),
           \A t \in DOMAIN s.tasks \ d.imports :
               x.tasks[t].status = "completed" => Settled(rc, s, t) /\ Earned(rc, s, d.plan, t)
    PROVE  Sound(rc, d, x)
<1>1. Shaped(d, x)
  BY DEF Sound, Shaped
<1>2. \A t \in DOMAIN s.tasks : \A q : Settled(rc, s, t) /\ Earned(rc, s, q, t) => Earned(rc, x, q, t)
  BY DEF Earned
<1>3. d.imports \subseteq DOMAIN s.tasks
  BY DEF Sound, Shaped
<1>4. Imported(rc, d, x)
  BY <1>2, <1>3 DEF Sound, Imported
<1>5. Delivered(rc, d, x)
  BY <1>2 DEF Delivered
<1>6. Founded(rc, x)
  <2> SUFFICES ASSUME NEW t \in DOMAIN x.tasks, NEW r \in rc, x.tasks[t].n >= 1,
                      x.tasks[t].receipt = x.tasks[t].n, r.by = t, r.n = x.tasks[t].n, r.rev # None
               PROVE  t \in Ids(r.rev) /\ \A u \in Deps(r.rev, t) : Settled(rc, x, u)
    BY DEF Founded
  <2>1. Settled(rc, x, t)
    BY DEF Settled
  <2>2. Settled(rc, s, t) /\ x.tasks[t].n = s.tasks[t].n
    BY <2>1
  <2>3. t \in Ids(r.rev) /\ \A u \in Deps(r.rev, t) : Settled(rc, s, u)
    BY <2>2 DEF Settled, Founded, Sound
  <2>4. ASSUME NEW u \in Deps(r.rev, t) PROVE Settled(rc, x, u)
    <3>1. Settled(rc, s, u)
      BY <2>3
    <3>2. u \in DOMAIN s.tasks
      BY <3>1 DEF Settled
    <3> QED BY <3>1, <3>2
  <2> QED BY <2>3, <2>4
<1> QED BY <1>1, <1>4, <1>5, <1>6 DEF Sound

\* A new receipt is of an attempt the run does not hold.
LEMMA SoundGrows ==
    ASSUME NEW rc, NEW d, NEW s, Sound(rc, d, s), NEW r,
           r.by \in DOMAIN s.tasks => s.tasks[r.by].n # r.n
    PROVE  Sound(rc \cup {r}, d, s) /\ \A t : Settled(rc \cup {r}, s, t) <=> Settled(rc, s, t)
<1>1. \A t : Settled(rc \cup {r}, s, t) <=> Settled(rc, s, t)
  BY DEF Settled
<1>2. \A t, q : Earned(rc, s, q, t) => Earned(rc \cup {r}, s, q, t)
  BY DEF Earned
<1>3. Imported(rc \cup {r}, d, s)
  BY <1>1, <1>2 DEF Imported, Sound
<1>4. Delivered(rc \cup {r}, d, s)
  BY <1>1, <1>2 DEF Delivered, Sound
<1>5. Founded(rc \cup {r}, s)
  BY <1>1 DEF Founded, Sound
<1> QED BY <1>1, <1>3, <1>4, <1>5 DEF Sound

\* A run nobody worked on.
Unworked(s) == \A t \in DOMAIN s.tasks : s.tasks[t] = Fresh

\* A run that nothing was done of fits whatever receipts there are.
LEMMA SoundFresh ==
    ASSUME NEW rc, NEW d, NEW s, Shaped(d, s), d.imports = {}, Unworked(s)
    PROVE  Sound(rc, d, s)
<1>1. \A t \in DOMAIN s.tasks : s.tasks[t].n = 0 /\ s.tasks[t].status # "completed"
  BY DEF Unworked, Fresh
<1>2. Imported(rc, d, s) /\ Delivered(rc, d, s) /\ Founded(rc, s)
  BY <1>1 DEF Imported, Delivered, Founded
<1> QED BY <1>2 DEF Sound

\* A task that was not begun.
LEMMA FreshIs == Fresh \in Records /\ Fresh.n = 0 /\ Fresh.receipt = 0 /\ Fresh.status = "pending"
BY DEF Fresh, Records

\* compile writes a run that fits its manifest, with nothing done.
LEMMA CompiledSound ==
    ASSUME NEW p \in Revisions, Valid(p), NEW rc
    PROVE  /\ Sound(rc, Compiled(p).def, Compiled(p).st)
           /\ Still(Compiled(p).st) /\ \A t \in DOMAIN Compiled(p).st.tasks : Compiled(p).st.tasks[t].n = 0
<1> DEFINE f == [t \in Ids(p) |-> Definition(p, t)]
           g == [t \in Ids(p) |-> Fresh]
           s == [rev |-> p, tasks |-> g, evidence |-> {}]
           d == [plan |-> p, spec |-> f, imports |-> {}]
<1>1. f \in [Ids(p) -> Texts] /\ g \in [Ids(p) -> Records]
  BY TextsAre, FreshIs
<1>2. Ids(p) \in SUBSET Tasks
  BY IdsAre
<1>3. DOMAIN f = Ids(p) /\ DOMAIN g = Ids(p) /\ \A t \in Ids(p) : g[t] = Fresh
  OBVIOUS
<1>4. Compiled(p).def = d /\ Compiled(p).st = s
  BY DEF Compiled
<1> HIDE DEF f, g
<1>5. s \in States
  BY <1>1, <1>2, StateMade
<1>6. d \in Defs
  BY <1>1, <1>2, DefMade
<1>7. p # None
  BY PlansAre
<1>8. Shaped(d, s)
  BY <1>3, <1>5, <1>6, <1>7, FreshIs DEF Shaped
<1>9. Unworked(s)
  BY <1>3 DEF Unworked
<1>10. Sound(rc, d, s)
  BY <1>8, <1>9, SoundFresh
<1> QED BY <1>10, <1>4, <1>3, FreshIs DEF Still

\* A run of an older kind fits, with nothing done.
LEMMA LegacySound ==
    ASSUME NEW p \in Revisions, NEW rc
    PROVE  Sound(rc, Legacy(p).def, Legacy(p).st)
<1> DEFINE f == [t \in Ids(p) |-> None]
           g == [t \in Ids(p) |-> Fresh]
           s == [rev |-> None, tasks |-> g, evidence |-> {}]
           d == [plan |-> None, spec |-> f, imports |-> {}]
<1>1. f \in [Ids(p) -> Texts] /\ g \in [Ids(p) -> Records]
  BY TextsAre, FreshIs
<1>2. Ids(p) \in SUBSET Tasks
  BY IdsAre
<1>3. DOMAIN f = Ids(p) /\ DOMAIN g = Ids(p) /\ \A t \in Ids(p) : g[t] = Fresh
  OBVIOUS
<1>4. Legacy(p).def = d /\ Legacy(p).st = s
  BY DEF Legacy
<1> HIDE DEF f, g
<1>5. s \in States
  BY <1>1, <1>2, StateMade
<1>6. d \in Defs
  BY <1>1, <1>2, DefMade
<1>8. Shaped(d, s)
  BY <1>3, <1>5, <1>6, FreshIs DEF Shaped
<1>9. Unworked(s)
  BY <1>3 DEF Unworked
<1>10. Sound(rc, d, s)
  BY <1>8, <1>9, SoundFresh
<1> QED BY <1>10, <1>4

-----------------------------------------------------------------------------
(* What an amendment and a migration make of a run.                        *)

\* What amendPlan writes: the tasks of the new plan, those the run had with
\* their attempts.
LEMMA AmendedIs ==
    ASSUME NEW run, NEW p \in Revisions, run.def \in Defs, run.st \in States,
           DOMAIN run.st.tasks = DOMAIN run.def.spec, Allows(run, p)
    PROVE  LET y == Amended(run, p) IN
           /\ y.def \in Defs /\ y.st \in States
           /\ y.def.plan = p /\ y.def.imports = run.def.imports /\ DOMAIN y.def.spec = Ids(p)
           /\ DOMAIN y.st.tasks = Ids(p) /\ y.st.evidence = Kept(run, p)
           /\ \A t \in Ids(p) :
                 IF t \in DOMAIN run.st.tasks
                 THEN /\ y.st.tasks[t].n = run.st.tasks[t].n
                      /\ y.st.tasks[t].receipt = run.st.tasks[t].receipt
                      /\ \/ y.st.tasks[t].status = run.st.tasks[t].status
                         \/ run.st.tasks[t].status = "failed" /\ y.st.tasks[t].status = "pending"
                 ELSE y.st.tasks[t] = Fresh
           /\ \A t \in DOMAIN run.st.tasks : run.st.tasks[t].n >= 1 => t \in Ids(p)
<1> DEFINE old(t) == t \in DOMAIN run.def.spec
           imported(t) == t \in run.def.imports
           changed(t) == ~imported(t) /\ run.def.spec[t] # Definition(p, t)
           task(t) == IF ~old(t) THEN Fresh
                      ELSE IF run.st.tasks[t].status = "failed" /\ changed(t)
                           THEN [run.st.tasks[t] EXCEPT !.status = "pending"] ELSE run.st.tasks[t]
           text(t) == IF old(t) /\ imported(t) THEN run.def.spec[t] ELSE Definition(p, t)
           f == [t \in Ids(p) |-> text(t)]
           g == [t \in Ids(p) |-> task(t)]
           y == [def |-> [plan |-> p, imports |-> run.def.imports, spec |-> f],
                 st |-> [rev |-> p, tasks |-> g, evidence |-> Kept(run, p)]]
<1>1. Amended(run, p) = y
  BY DEF Amended
<1>2. /\ run.def \in Defs /\ run.st \in States /\ DOMAIN run.st.tasks = DOMAIN run.def.spec
  OBVIOUS
<1>3. \A t \in Ids(p) : text(t) \in Texts
  BY <1>2, DefIs, TextsAre
<1>4. ASSUME NEW t \in Ids(p)
      PROVE  /\ task(t) \in Records
             /\ IF t \in DOMAIN run.st.tasks
                THEN /\ task(t).n = run.st.tasks[t].n
                     /\ task(t).receipt = run.st.tasks[t].receipt
                     /\ \/ task(t).status = run.st.tasks[t].status
                        \/ run.st.tasks[t].status = "failed" /\ task(t).status = "pending"
                ELSE task(t) = Fresh
  <2>1. CASE ~old(t)
    BY <2>1, <1>2, FreshIs
  <2>2. CASE old(t) /\ run.st.tasks[t].status = "failed" /\ changed(t)
    <3> DEFINE a == run.st.tasks[t]
    <3>1. t \in DOMAIN run.st.tasks /\ a \in Records
      BY <2>2, <1>2, TaskIs
    <3>2. task(t) = [a EXCEPT !.status = "pending"]
      BY <2>2
    <3> HIDE DEF a, task
    <3>3. [a EXCEPT !.status = "pending"] \in Records /\ [a EXCEPT !.status = "pending"].n = a.n
          /\ [a EXCEPT !.status = "pending"].receipt = a.receipt /\ [a EXCEPT !.status = "pending"].status = "pending"
      BY <3>1 DEF Records
    <3> QED BY <3>1, <3>2, <3>3, <2>2 DEF a
  <2>3. CASE old(t) /\ ~(run.st.tasks[t].status = "failed" /\ changed(t))
    <3>1. task(t) = run.st.tasks[t] /\ t \in DOMAIN run.st.tasks
      BY <2>3, <1>2
    <3> HIDE DEF task
    <3> QED BY <3>1, <1>2, TaskIs
  <2> QED BY <2>1, <2>2, <2>3
<1> HIDE DEF text, task, old, imported, changed
<1>5. /\ f \in [Ids(p) -> Texts] /\ g \in [Ids(p) -> Records]
      /\ DOMAIN f = Ids(p) /\ DOMAIN g = Ids(p) /\ \A t \in Ids(p) : g[t] = task(t)
  BY <1>3, <1>4
<1>6. Kept(run, p) \subseteq Verdicts
  <2> SUFFICES ASSUME NEW x \in Kept(run, p) PROVE x \in Verdicts
    OBVIOUS
  <2>1. PICK e \in run.st.evidence : x = [e EXCEPT !.rev = p]
    BY DEF Kept
  <2>2. e \in Verdicts
    BY <1>2, StateIs
  <2> QED BY <2>1, <2>2 DEF Verdicts
<1> HIDE DEF f, g
<1>7. y.st \in States
  BY <1>5, <1>6, IdsAre, StateMade
<1>8. y.def \in Defs
  <2>1. run.def.imports \in SUBSET Tasks /\ Ids(p) \in SUBSET Tasks
    BY <1>2, DefIs, IdsAre
  <2> QED BY <1>5, <2>1, DefMade
<1>9. \A t \in DOMAIN run.st.tasks : run.st.tasks[t].n >= 1 => t \in Ids(p)
  BY <1>2, TaskIs DEF Allows
<1>10. /\ y.def.plan = p /\ y.def.imports = run.def.imports /\ DOMAIN y.def.spec = Ids(p)
       /\ DOMAIN y.st.tasks = Ids(p) /\ y.st.evidence = Kept(run, p)
       /\ \A t \in Ids(p) : y.st.tasks[t] = task(t)
  BY <1>5
<1> HIDE DEF y
<1> QED BY <1>1, <1>4, <1>7, <1>8, <1>9, <1>10

\* What was accepted stays what it is asked for.
LEMMA AmendedSound ==
    ASSUME NEW rc, NEW run, NEW p \in Revisions, Valid(p), Sound(rc, run.def, run.st), Still(run.st),
           run.def.plan # None, Allows(run, p)
    PROVE  LET y == Amended(run, p) IN
           /\ Sound(rc, y.def, y.st) /\ Still(y.st)
           /\ \A t \in DOMAIN run.st.tasks : Settled(rc, run.st, t) => Settled(rc, y.st, t)
<1> DEFINE y == Amended(run, p)
<1>1. /\ y.def \in Defs /\ y.st \in States
      /\ y.def.plan = p /\ y.def.imports = run.def.imports /\ DOMAIN y.def.spec = Ids(p)
      /\ DOMAIN y.st.tasks = Ids(p) /\ y.st.evidence = Kept(run, p)
      /\ \A t \in Ids(p) :
            IF t \in DOMAIN run.st.tasks
            THEN /\ y.st.tasks[t].n = run.st.tasks[t].n
                 /\ y.st.tasks[t].receipt = run.st.tasks[t].receipt
                 /\ \/ y.st.tasks[t].status = run.st.tasks[t].status
                    \/ run.st.tasks[t].status = "failed" /\ y.st.tasks[t].status = "pending"
            ELSE y.st.tasks[t] = Fresh
      /\ \A t \in DOMAIN run.st.tasks : run.st.tasks[t].n >= 1 => t \in Ids(p)
  <2>1. run.def \in Defs /\ run.st \in States /\ DOMAIN run.st.tasks = DOMAIN run.def.spec
    BY DEF Sound, Shaped
  <2> QED BY <2>1, AmendedIs
<1> HIDE DEF y
<1>2. /\ run.st \in States /\ DOMAIN run.st.tasks = DOMAIN run.def.spec
      /\ run.def.imports \subseteq DOMAIN run.def.spec /\ p # None
  BY PlansAre DEF Sound, Shaped
<1>3. \A t : Settled(rc, y.st, t) <=> Settled(rc, run.st, t)
  <2> TAKE t
  <2>1. CASE t \in DOMAIN run.st.tasks
    <3>1. run.st.tasks[t].n \in Nat
      BY <2>1, <1>2, TaskIs
    <3>2. run.st.tasks[t].n >= 1 => t \in Ids(p)
      BY <1>1, <2>1
    <3> QED BY <3>1, <3>2, <2>1, <1>1 DEF Settled
  <2>2. CASE t \notin DOMAIN run.st.tasks
    <3>1. t \in Ids(p) => y.st.tasks[t].n = 0
      BY <2>2, <1>1, FreshIs
    <3> QED BY <3>1, <2>2, <1>1 DEF Settled
  <2> QED BY <2>1, <2>2
<1>4. \A t : Settled(rc, run.st, t) =>
          t \in Ids(p) /\ t \in DOMAIN run.st.tasks /\ y.st.tasks[t].n = run.st.tasks[t].n
  BY <1>1 DEF Settled
<1>5. ASSUME NEW t \in Ids(p), y.st.tasks[t].status = "completed"
      PROVE  /\ t \in DOMAIN run.st.tasks /\ run.st.tasks[t].status = "completed"
             /\ Contract(run.def.plan, t) = Contract(p, t)
             /\ Deps(run.def.plan, t) = Deps(p, t) /\ Owned(run.def.plan, t) = Owned(p, t)
  <2>1. t \in DOMAIN run.st.tasks /\ run.st.tasks[t].status = "completed"
    BY <1>1, <1>5, FreshIs
  <2>2. Contract(run.def.plan, t) = Contract(p, t)
    BY <2>1, <1>2 DEF Allows
  <2> QED BY <2>1, <2>2, SameContract
<1>6. Shaped(y.def, y.st)
  <2>1. y.def.imports \subseteq DOMAIN y.def.spec
    <3> SUFFICES ASSUME NEW t \in run.def.imports PROVE t \in Ids(p)
      BY <1>1
    <3>1. Settled(rc, run.st, t)
      BY DEF Sound, Imported
    <3> QED BY <3>1, <1>4
  <2>2. \A t \in DOMAIN y.st.tasks : y.st.tasks[t].receipt <= y.st.tasks[t].n
    BY <1>1, FreshIs DEF Sound, Shaped
  <2> QED BY <2>1, <2>2, <1>1, <1>2 DEF Shaped
<1>7. Imported(rc, y.def, y.st)
  <2> SUFFICES ASSUME NEW t \in run.def.imports
               PROVE  /\ Settled(rc, y.st, t) /\ Earned(rc, y.st, None, t)
                      /\ y.st.tasks[t].status \in {"completed", "pending"}
                      /\ y.st.tasks[t].status = "completed" =>
                            Deps(p, t) = {} /\ \A e \in y.st.evidence : e.crit \notin Owned(p, t)
    BY <1>1 DEF Imported
  <2>1. /\ Settled(rc, run.st, t) /\ Earned(rc, run.st, None, t)
        /\ run.st.tasks[t].status \in {"completed", "pending"}
        /\ run.st.tasks[t].status = "completed" =>
              Deps(run.def.plan, t) = {} /\ \A e \in run.st.evidence : e.crit \notin Owned(run.def.plan, t)
    BY DEF Sound, Imported
  <2>2. t \in Ids(p) /\ t \in DOMAIN run.st.tasks /\ y.st.tasks[t].n = run.st.tasks[t].n
    BY <2>1, <1>4
  <2>3. Settled(rc, y.st, t) /\ Earned(rc, y.st, None, t)
    BY <2>1, <2>2, <1>3 DEF Earned
  <2>4. y.st.tasks[t].status \in {"completed", "pending"}
    BY <2>1, <2>2, <1>1
  <2>5. ASSUME y.st.tasks[t].status = "completed"
        PROVE  Deps(p, t) = {} /\ \A e \in y.st.evidence : e.crit \notin Owned(p, t)
    <3>1. /\ run.st.tasks[t].status = "completed"
          /\ Deps(run.def.plan, t) = Deps(p, t) /\ Owned(run.def.plan, t) = Owned(p, t)
      BY <2>5, <2>2, <1>5
    <3>2. ASSUME NEW x \in Kept(run, p) PROVE x.crit \notin Owned(p, t)
      <4>1. PICK e \in run.st.evidence : x = [e EXCEPT !.rev = p]
        BY <3>2 DEF Kept
      <4>2. e \in Verdicts
        BY <1>2, StateIs
      <4>3. x.crit = e.crit
        BY <4>1, <4>2 DEF Verdicts
      <4> QED BY <4>3, <3>1, <2>1
    <3> QED BY <3>1, <3>2, <2>1, <1>1
  <2> QED BY <2>3, <2>4, <2>5
<1>8. Delivered(rc, y.def, y.st)
  <2> SUFFICES ASSUME NEW t \in Ids(p), t \notin run.def.imports, y.st.tasks[t].status = "completed"
               PROVE  Settled(rc, y.st, t) /\ Earned(rc, y.st, p, t)
    BY <1>1 DEF Delivered
  <2>1. /\ t \in DOMAIN run.st.tasks /\ run.st.tasks[t].status = "completed"
        /\ Contract(run.def.plan, t) = Contract(p, t)
    BY <1>5
  <2>2. Settled(rc, run.st, t) /\ Earned(rc, run.st, run.def.plan, t)
    BY <2>1 DEF Sound, Delivered
  <2>3. PICK r \in rc : r.by = t /\ r.n = run.st.tasks[t].n /\ Same(r.rev, run.def.plan, t)
    BY <2>2 DEF Earned
  <2>4. Same(r.rev, p, t)
    BY <2>3, <2>1, <1>2 DEF Same
  <2>5. y.st.tasks[t].n = run.st.tasks[t].n
    BY <2>2, <1>4
  <2> QED BY <2>2, <2>3, <2>4, <2>5, <1>3 DEF Earned
<1>9. Founded(rc, y.st)
  <2> SUFFICES ASSUME NEW t \in DOMAIN y.st.tasks, NEW r \in rc, y.st.tasks[t].n >= 1,
                      y.st.tasks[t].receipt = y.st.tasks[t].n, r.by = t, r.n = y.st.tasks[t].n, r.rev # None
               PROVE  t \in Ids(r.rev) /\ \A u \in Deps(r.rev, t) : Settled(rc, y.st, u)
    BY DEF Founded
  <2>1. Settled(rc, y.st, t)
    BY DEF Settled
  <2>2. Settled(rc, run.st, t)
    BY <2>1, <1>3
  <2>3. y.st.tasks[t].n = run.st.tasks[t].n
    BY <2>2, <1>4
  <2>4. t \in Ids(r.rev) /\ \A u \in Deps(r.rev, t) : Settled(rc, run.st, u)
    BY <2>2, <2>3 DEF Settled, Sound, Founded
  <2> QED BY <2>4, <1>3
<1>10. Still(y.st)
  BY <1>1, FreshIs DEF Still
<1>11. Sound(rc, y.def, y.st)
  BY <1>6, <1>7, <1>8, <1>9 DEF Sound
<1> QED BY <1>3, <1>10, <1>11 DEF y

\* What migratePlan writes: every task is kept, what is completed is imported.
LEMMA MigratedIs ==
    ASSUME NEW run, NEW p \in Revisions, run.def \in Defs, run.st \in States,
           DOMAIN run.st.tasks = DOMAIN run.def.spec, DOMAIN run.def.spec \subseteq Ids(p)
    PROVE  LET y == Migrated(run, p) IN
           /\ y.def \in Defs /\ y.st \in States
           /\ y.def.plan = p /\ DOMAIN y.def.spec = Ids(p)
           /\ \A t : t \in y.def.imports <=> t \in DOMAIN run.st.tasks /\ run.st.tasks[t].status = "completed"
           /\ DOMAIN y.st.tasks = Ids(p) /\ y.st.evidence = {}
           /\ \A t \in Ids(p) :
                 IF t \in DOMAIN run.st.tasks THEN y.st.tasks[t] = run.st.tasks[t] ELSE y.st.tasks[t] = Fresh
<1> DEFINE kept(t) == t \in DOMAIN run.def.spec /\ run.st.tasks[t].status = "completed"
           i == {t \in DOMAIN run.def.spec : kept(t)}
           text(t) == IF kept(t) THEN run.def.spec[t] ELSE Definition(p, t)
           task(t) == IF t \in DOMAIN run.def.spec THEN run.st.tasks[t] ELSE Fresh
           f == [t \in Ids(p) |-> text(t)]
           g == [t \in Ids(p) |-> task(t)]
           y == [def |-> [plan |-> p, imports |-> i, spec |-> f],
                 st |-> [rev |-> p, evidence |-> {}, tasks |-> g]]
<1>1. Migrated(run, p) = y
  BY DEF Migrated
<1>2. /\ run.def \in Defs /\ run.st \in States /\ DOMAIN run.st.tasks = DOMAIN run.def.spec
  OBVIOUS
<1>3. \A t \in Ids(p) : text(t) \in Texts
  BY <1>2, DefIs, TextsAre
<1>4. \A t \in Ids(p) : task(t) \in Records
  BY <1>2, TaskIs, FreshIs
<1>5. \A t : t \in i <=> t \in DOMAIN run.st.tasks /\ run.st.tasks[t].status = "completed"
  BY <1>2
<1>6. \A t \in Ids(p) : task(t) = IF t \in DOMAIN run.st.tasks THEN run.st.tasks[t] ELSE Fresh
  BY <1>2
<1>7. i \in SUBSET Tasks
  BY <1>2, DefIs
<1> HIDE DEF text, task, i
<1>8. /\ f \in [Ids(p) -> Texts] /\ g \in [Ids(p) -> Records]
      /\ DOMAIN f = Ids(p) /\ DOMAIN g = Ids(p) /\ \A t \in Ids(p) : g[t] = task(t)
  BY <1>3, <1>4
<1> HIDE DEF f, g
<1>9. y.st \in States
  BY <1>8, IdsAre, StateMade
<1>10. y.def \in Defs
  BY <1>7, <1>8, IdsAre, DefMade
<1>11. /\ y.def.plan = p /\ y.def.imports = i /\ DOMAIN y.def.spec = Ids(p)
       /\ DOMAIN y.st.tasks = Ids(p) /\ y.st.evidence = {}
       /\ \A t \in Ids(p) : y.st.tasks[t] = task(t)
  BY <1>8
<1> HIDE DEF y
<1> QED BY <1>1, <1>5, <1>6, <1>9, <1>10, <1>11

\* An imported task stands on the receipt it had, and waits for nothing.
LEMMA MigratedSound ==
    ASSUME NEW rc, Unique(rc), NEW run, NEW p \in Revisions, Valid(p), Sound(rc, run.def, run.st), Still(run.st),
           run.def.plan = None,
           \A t \in DOMAIN run.def.spec :
               t \in Ids(p) /\ (run.st.tasks[t].status = "completed" => Deps(p, t) = {})
    PROVE  LET y == Migrated(run, p) IN
           /\ Sound(rc, y.def, y.st) /\ Still(y.st)
           /\ \A t \in DOMAIN run.st.tasks : Settled(rc, run.st, t) => Settled(rc, y.st, t)
<1> DEFINE y == Migrated(run, p)
<1>1. /\ y.def \in Defs /\ y.st \in States
      /\ y.def.plan = p /\ DOMAIN y.def.spec = Ids(p)
      /\ \A t : t \in y.def.imports <=> t \in DOMAIN run.st.tasks /\ run.st.tasks[t].status = "completed"
      /\ DOMAIN y.st.tasks = Ids(p) /\ y.st.evidence = {}
      /\ \A t \in Ids(p) :
            IF t \in DOMAIN run.st.tasks THEN y.st.tasks[t] = run.st.tasks[t] ELSE y.st.tasks[t] = Fresh
  <2>1. DOMAIN run.def.spec \subseteq Ids(p)
    OBVIOUS
  <2>2. run.def \in Defs /\ run.st \in States /\ DOMAIN run.st.tasks = DOMAIN run.def.spec
    BY DEF Sound, Shaped
  <2> QED BY ONLY <2>1, <2>2, p \in Revisions, MigratedIs
<1> HIDE DEF y
<1>2. /\ run.st \in States /\ DOMAIN run.st.tasks = DOMAIN run.def.spec
      /\ run.def.imports = {} /\ p # None
  BY PlansAre DEF Sound, Shaped
<1>3. \A t : Settled(rc, y.st, t) <=> Settled(rc, run.st, t)
  <2> TAKE t
  <2>1. CASE t \in DOMAIN run.st.tasks
    <3>1. t \in Ids(p) /\ y.st.tasks[t] = run.st.tasks[t]
      BY <2>1, <1>1, <1>2
    <3> QED BY <3>1, <2>1, <1>1 DEF Settled
  <2>2. CASE t \notin DOMAIN run.st.tasks
    <3>1. t \in Ids(p) => y.st.tasks[t].n = 0
      BY <2>2, <1>1, FreshIs
    <3> QED BY <3>1, <2>2, <1>1 DEF Settled
  <2> QED BY <2>1, <2>2
<1>4. \A t \in DOMAIN run.st.tasks : t \in Ids(p) /\ y.st.tasks[t] = run.st.tasks[t]
  BY <1>1, <1>2
<1>5. Shaped(y.def, y.st)
  <2>1. y.def.imports \subseteq DOMAIN y.def.spec
    BY <1>1, <1>4
  <2>2. \A t \in DOMAIN y.st.tasks : y.st.tasks[t].receipt <= y.st.tasks[t].n
    BY <1>1, FreshIs DEF Sound, Shaped
  <2> QED BY <2>1, <2>2, <1>1, <1>2 DEF Shaped
<1>6. Imported(rc, y.def, y.st)
  <2> SUFFICES ASSUME NEW t \in y.def.imports
               PROVE  /\ Settled(rc, y.st, t) /\ Earned(rc, y.st, None, t)
                      /\ y.st.tasks[t].status \in {"completed", "pending"}
                      /\ y.st.tasks[t].status = "completed" =>
                            Deps(p, t) = {} /\ \A e \in y.st.evidence : e.crit \notin Owned(p, t)
    BY <1>1 DEF Imported
  <2>1. t \in DOMAIN run.st.tasks /\ run.st.tasks[t].status = "completed"
    BY <1>1
  <2>2. Settled(rc, run.st, t) /\ Earned(rc, run.st, None, t)
    BY <2>1, <1>2 DEF Sound, Delivered
  <2>3. y.st.tasks[t] = run.st.tasks[t]
    BY <2>1, <1>4
  <2>4. Earned(rc, y.st, None, t)
    BY <2>2, <2>3 DEF Earned
  <2> QED BY <2>1, <2>2, <2>3, <2>4, <1>1, <1>2, <1>3
<1>7. Delivered(rc, y.def, y.st)
  <2> SUFFICES ASSUME NEW t \in Ids(p), t \notin y.def.imports, y.st.tasks[t].status = "completed"
               PROVE  FALSE
    BY <1>1 DEF Delivered
  <2> QED BY <1>1, FreshIs
<1>8. Founded(rc, y.st)
  <2> SUFFICES ASSUME NEW t \in DOMAIN y.st.tasks, NEW r \in rc, y.st.tasks[t].n >= 1,
                      y.st.tasks[t].receipt = y.st.tasks[t].n, r.by = t, r.n = y.st.tasks[t].n, r.rev # None
               PROVE  t \in Ids(r.rev) /\ \A u \in Deps(r.rev, t) : Settled(rc, y.st, u)
    BY DEF Founded
  <2>1. Settled(rc, y.st, t)
    BY DEF Settled
  <2>2. Settled(rc, run.st, t)
    BY <2>1, <1>3
  <2>3. y.st.tasks[t] = run.st.tasks[t]
    BY <2>2, <1>4 DEF Settled
  <2>4. t \in Ids(r.rev) /\ \A u \in Deps(r.rev, t) : Settled(rc, run.st, u)
    BY <2>2, <2>3 DEF Settled, Sound, Founded
  <2> QED BY <2>4, <1>3
<1>9. Still(y.st)
  BY <1>1, FreshIs DEF Still
<1>10. Sound(rc, y.def, y.st)
  BY <1>5, <1>6, <1>7, <1>8 DEF Sound
<1> QED BY <1>3, <1>9, <1>10 DEF y

\* A state that only aged fits as well, where it has all the tasks.
LEMMA AgedSettled ==
    ASSUME NEW rc, NEW x, NEW s, x \in States, Aged(x, s)
    PROVE  \A t \in DOMAIN s.tasks : Settled(rc, s, t) <=> Settled(rc, x, t)
BY DEF Aged, Settled

\* To retry tasks leaves a state that fits its definition.
LEMMA AgedSound ==
    ASSUME NEW rc, NEW d, NEW x, NEW s, Sound(rc, d, x), Aged(x, s), DOMAIN s.tasks = DOMAIN x.tasks
    PROVE  Sound(rc, d, s)
<1>1. s \in States /\ x \in States /\ s.evidence = x.evidence
  BY DEF Aged, Sound, Shaped
<1>2. \A t \in DOMAIN x.tasks : Settled(rc, s, t) <=> Settled(rc, x, t)
  BY AgedSettled, <1>1
<1>3. d.plan = None => s.evidence = {}
  BY <1>1 DEF Sound, Shaped
<1>4. \A t \in DOMAIN x.tasks : s.tasks[t].receipt <= s.tasks[t].n /\ s.tasks[t].n = x.tasks[t].n
  BY DEF Aged, Sound, Shaped
<1>5. \A t \in d.imports : t \in DOMAIN x.tasks
  BY DEF Sound, Shaped
<1>6. \A t \in d.imports :
         /\ s.tasks[t].status \in {"completed", "pending"}
         /\ s.tasks[t].status = "completed" =>
               x.tasks[t].status = "completed" /\ \A e \in s.evidence : e.crit \notin Owned(d.plan, t)
  BY <1>1, <1>5 DEF Aged, Sound, Imported
<1>7. \A t \in DOMAIN x.tasks \ d.imports :
         s.tasks[t].status = "completed" => Settled(rc, x, t) /\ Earned(rc, x, d.plan, t)
  BY DEF Aged, Sound, Delivered
<1> QED BY <1>1, <1>2, <1>3, <1>4, <1>6, <1>7, SoundChange

-----------------------------------------------------------------------------
(* The commands.                                                           *)

\* A new amendment or migration starts from the files as they are.
LEMMA LoadedIs ==
    ASSUME PlanInv, Readable, ~Interrupted
    PROVE  /\ Written /\ st \in States /\ def \in Defs /\ Sound(receipts, def, st)
           /\ DOMAIN st.tasks = DOMAIN def.spec /\ Run = [def |-> def, st |-> st]
<1>1. Written
  BY DEF PlanInv, Files, Unwritten, HalfWritten, HalfAmended, HalfMigrated, Untouched, Readable, Interrupted
<1>2. Sound(receipts, def, st) /\ def \in Defs
  BY <1>1 DEF Written, Readable
<1>3. st \in States /\ DOMAIN st.tasks = DOMAIN def.spec
  BY <1>2 DEF Sound, Shaped
<1> QED BY <1>1, <1>2, <1>3, RunIs

\* A state is an aged one of its own.
LEMMA AgedSelf == ASSUME NEW s \in States PROVE Aged(s, s)
BY DEF Aged

\* Both ends of an amendment are sound and at rest.
LEMMA AmendingIs ==
    ASSUME NEW rc, Amending(rc)
    PROVE  LET x == amending.base
               y == Amended(amending.base, amending.rev) IN
           /\ amending.rev \in Revisions
           /\ Sound(rc, x.def, x.st) /\ Still(x.st) /\ x.def \in Defs /\ x.st \in States
           /\ DOMAIN x.st.tasks = DOMAIN x.def.spec /\ x.def.plan # None
           /\ Sound(rc, y.def, y.st) /\ Still(y.st) /\ y.def \in Defs /\ y.st \in States
           /\ DOMAIN y.st.tasks = DOMAIN y.def.spec /\ y.def.plan # None
           /\ y.def.plan = amending.rev /\ y.def.imports = x.def.imports
           /\ \A t \in DOMAIN x.st.tasks : Settled(rc, x.st, t) => Settled(rc, y.st, t)
<1> DEFINE x == amending.base
           q == amending.rev
           y == Amended(x, q)
<1>1. /\ q \in Revisions /\ Sound(rc, x.def, x.st) /\ Still(x.st) /\ x.def.plan # None
      /\ Valid(q) /\ Allows(x, q)
  BY DEF Amending, Journals
<1>2. y.def.plan = q /\ y.def.imports = x.def.imports
  BY DEF Amended
<1> HIDE DEF x, q
<1>3. Sound(rc, y.def, y.st) /\ Still(y.st) /\ \A t \in DOMAIN x.st.tasks : Settled(rc, x.st, t) => Settled(rc, y.st, t)
  BY <1>1, AmendedSound
<1> HIDE DEF y
<1>4. /\ x.def \in Defs /\ x.st \in States /\ DOMAIN x.st.tasks = DOMAIN x.def.spec
      /\ y.def \in Defs /\ y.st \in States /\ DOMAIN y.st.tasks = DOMAIN y.def.spec
  BY <1>1, <1>3 DEF Sound, Shaped
<1>5. q # None
  BY <1>1, PlansAre
<1> QED BY <1>1, <1>2, <1>3, <1>4, <1>5 DEF x, q, y

\* Both ends of a migration are sound and at rest.
LEMMA MigratingIs ==
    ASSUME NEW rc, Unique(rc), Migrating(rc)
    PROVE  LET x == migrating.base
               y == Migrated(migrating.base, migrating.rev) IN
           /\ migrating.rev \in Revisions
           /\ Sound(rc, x.def, x.st) /\ Still(x.st) /\ x.def \in Defs /\ x.st \in States
           /\ DOMAIN x.st.tasks = DOMAIN x.def.spec
           /\ Sound(rc, y.def, y.st) /\ Still(y.st) /\ y.def \in Defs /\ y.st \in States
           /\ DOMAIN y.st.tasks = DOMAIN y.def.spec
           /\ \A t \in DOMAIN x.st.tasks : Settled(rc, x.st, t) => Settled(rc, y.st, t)
<1> DEFINE x == migrating.base
           q == migrating.rev
           y == Migrated(x, q)
<1>1. /\ q \in Revisions /\ Sound(rc, x.def, x.st) /\ Still(x.st) /\ x.def.plan = None
      /\ Valid(q) /\ \A t \in DOMAIN x.def.spec : t \in Ids(q) /\ (x.st.tasks[t].status = "completed" => Deps(q, t) = {})
  BY DEF Migrating, Journals
<1> HIDE DEF x, q
<1>3. Sound(rc, y.def, y.st) /\ Still(y.st) /\ \A t \in DOMAIN x.st.tasks : Settled(rc, x.st, t) => Settled(rc, y.st, t)
  BY <1>1, MigratedSound
<1> HIDE DEF y
<1>4. /\ x.def \in Defs /\ x.st \in States /\ DOMAIN x.st.tasks = DOMAIN x.def.spec
      /\ y.def \in Defs /\ y.st \in States /\ DOMAIN y.st.tasks = DOMAIN y.def.spec
  BY <1>1, <1>3 DEF Sound, Shaped
<1> QED BY <1>1, <1>3, <1>4 DEF x, q, y

\* compile is begun where there is nothing, with a run that fits.
LEMMA CompileKeeps == ASSUME PlanInv, NEW p \in Revisions, Compile(p) PROVE PlanInv'
<1> DEFINE y == Compiled(p)
<1>1. Unwritten
  <2>1. def = None
    BY DEF Compile
  <2>2. ~HalfWritten /\ ~Written
    BY <2>1, DefIs DEF HalfWritten, Written
  <2>3. ~HalfAmended
    BY <2>1 DEF PlanInv, HalfAmended, Validated
  <2>4. ~HalfMigrated
    <3> SUFFICES ASSUME HalfMigrated PROVE FALSE
      OBVIOUS
    <3>1. Migrating(receipts) /\ def \in {migrating.base.def, Migrated(migrating.base, migrating.rev).def}
      BY DEF HalfMigrated, Between
    <3>2. migrating.base.def \in Defs /\ Migrated(migrating.base, migrating.rev).def \in Defs
      BY <3>1, MigratingIs DEF PlanInv
    <3> QED BY <3>1, <3>2, <2>1, DefIs
  <2> QED BY <2>2, <2>3, <2>4 DEF PlanInv, Files
<1>2. Sound({}, y.def, y.st)
  BY CompiledSound DEF Compile
<1>3. cmd' = [at |-> "def", to |-> y, kind |-> "compile"]
  BY DEF Compile, Saves
<1> HIDE DEF y
<1>4. /\ UNCHANGED <<scene, def, st, amending, migrating, receipts, log, runner, mishaps, changes>>
  BY DEF Compile, files, bounds
<1>5. Unwritten'
  BY <1>1, <1>2, <1>3, <1>4 DEF Unwritten, Untouched
<1>6. Steady' /\ Events'
  BY <1>1, <1>4 DEF Unwritten, Untouched, Steady, Events, PlanInv
<1> QED BY <1>3, <1>4, <1>5, <1>6 DEF PlanInv, Files

\* What a command loads is a run, whatever the files are.
LEMMA ReadableIs ==
    ASSUME PlanInv, Readable
    PROVE  /\ def \in Defs /\ st \in States /\ Run.def = def /\ Run.st \in States
           /\ Run = [def |-> def, st |-> Run.st]
           /\ Run.st = [st EXCEPT !.tasks = [t \in DOMAIN def.spec |-> st.tasks[t]]]
<1>1. def # None /\ st # None /\ st # Damaged /\ DOMAIN def.spec \subseteq DOMAIN st.tasks
  BY DEF Readable
<1>2. def \in Defs /\ st \in States
  <2>1. CASE Written
    BY <2>1, <1>1 DEF Written, Sound, Shaped
  <2>2. CASE HalfAmended
    BY <2>2, <1>1, AmendingIs DEF HalfAmended, Between, Aged
  <2>3. CASE HalfMigrated
    BY <2>3, <1>1, MigratingIs DEF PlanInv, HalfMigrated, Between, Aged
  <2> QED BY <2>1, <2>2, <2>3, <1>1 DEF PlanInv, Files, Unwritten, HalfWritten, Untouched
<1> DEFINE f == [t \in DOMAIN def.spec |-> st.tasks[t]]
<1>3. f \in [DOMAIN def.spec -> Records] /\ DOMAIN def.spec \in SUBSET Tasks
  BY <1>1, <1>2, StateIs
<1> HIDE DEF f
<1>4. [st EXCEPT !.tasks = f] = [rev |-> st.rev, tasks |-> f, evidence |-> st.evidence]
  BY <1>2, StateIs
<1>5. [rev |-> st.rev, tasks |-> f, evidence |-> st.evidence] \in States
  <2>1. st.rev \in Revisions \cup {None} /\ st.evidence \in SUBSET Verdicts
    BY <1>2 DEF States
  <2> QED BY <2>1, <1>3, StateMade
<1> QED BY <1>2, <1>4, <1>5 DEF Run, f

\* A command that is resumed goes on where it was; a new one starts from what is there.
LEMMA AmendKeeps == ASSUME PlanInv, NEW p \in Revisions, Amend(p), Careful' PROVE PlanInv'
<1>1. PICK x \in {Base(amending)} :
      /\ Free /\ def # None /\ x.def.plan # None /\ ~IsRunning(x.st) /\ Valid(p) /\ Allows(x, p)
      /\ amending' = [stage |-> "validated", rev |-> p, base |-> x]
      /\ cmd' = [at |-> "def", to |-> Amended(x, p), kind |-> "amend"]
      /\ log' = IF Validated(amending) THEN log ELSE Quiet
      /\ UNCHANGED <<scene, def, st, migrating, receipts, runner>>
      /\ Loads(amending) /\ Resumes(amending, p)
  BY DEF Amend, Saves
<1> DEFINE y == Amended(x, p)
<1> HIDE DEF y
<1>2. mishaps' \in Nat /\ changes' \in Nat
  BY DEF Amend, PlanInv, Change, bounds
<1>3. Validated(amending) => HalfAmended
  BY DEF PlanInv, Files, Unwritten, HalfWritten, Untouched, Written, Interrupted, HalfMigrated, Validated
<1>4. Validated(amending) => x = amending.base /\ p = amending.rev
  BY <1>1 DEF Base, Resumes
<1>5. ~Validated(amending) => Readable /\ x = Run
  BY <1>1 DEF Loads, Base
<1>6. x \in [def : Defs, st : States]
  <2>1. CASE Validated(amending)
    <3>1. Amending(receipts) /\ x = [def |-> x.def, st |-> x.st]
      BY <2>1, <1>3, <1>4 DEF HalfAmended, Amending
    <3>2. x.def \in Defs /\ x.st \in States
      BY <2>1, <1>4, <3>1, AmendingIs
    <3> QED BY <3>1, <3>2
  <2>2. CASE ~Validated(amending)
    BY <2>2, <1>5, ReadableIs
  <2> QED BY <2>1, <2>2
<1>7. /\ amending' \in Journals /\ amending'.base = x /\ amending'.rev = p /\ Validated(amending)'
  <2>1. amending' \in Journals
    BY <1>1, <1>6 DEF Journals
  <2> QED BY <2>1, <1>1, NoFileAssumption DEF Validated
<1>8. ~Validated(migrating)
  BY <1>1, <1>7 DEF Careful, Validated
<1>9. /\ Sound(receipts, x.def, x.st) /\ Still(x.st)
      /\ def \in {x.def, y.def}
      /\ st # Damaged => Aged(x.st, st) \/ Aged(y.st, st)
      /\ log' = Quiet /\ def.plan # None
  <2>1. CASE Validated(amending)
    <3>1. Sound(receipts, x.def, x.st) /\ Still(x.st)
      BY <2>1, <1>3, <1>4, AmendingIs DEF HalfAmended
    <3>2. Between(x, y)
      BY <2>1, <1>3, <1>4 DEF HalfAmended, y
    <3>3. def.plan # None
      BY <2>1 DEF PlanInv, Validated
    <3> QED BY <3>1, <3>2, <3>3, <1>1, <1>3, <2>1 DEF HalfAmended, Between
  <2>2. CASE ~Validated(amending)
    <3>1. Readable /\ ~Interrupted
      BY <2>2, <1>5, <1>8 DEF Interrupted
    <3>2. x = [def |-> def, st |-> st]
      BY <3>1, <2>2, <1>5, LoadedIs
    <3>3. x.def = def /\ x.st = st
      BY <3>2
    <3>4. x.def \in Defs /\ x.st \in States /\ Sound(receipts, x.def, x.st) /\ Aged(x.st, st)
      BY <3>1, <3>3, LoadedIs, AgedSelf
    <3> QED BY <3>3, <3>4, <1>1, <2>2 DEF Still, IsRunning
  <2> QED BY <2>1, <2>2
<1>10. HalfAmended'
  <2>1. Between(x, y)'
    BY <1>1, <1>9 DEF Between, y
  <2>2. Between(amending.base, Amended(amending.base, amending.rev))'
    BY <2>1, <1>7 DEF y
  <2>3. ~runner' /\ cmd'.kind = "amend"
    BY <1>1 DEF Free
  <2>4. Amending(receipts)'
    BY <1>1, <1>6, <1>7, <1>9 DEF Amending
  <2> QED BY <2>2, <2>3, <2>4, <1>7, <1>9 DEF HalfAmended
<1>11. Steady'
  BY <1>1 DEF Steady, Free
<1>12. Events'
  BY <1>7, <1>9 DEF Events
<1>13. log' \in [Tasks -> Entries] /\ ~Validated(migrating)' /\ def' # None /\ def'.plan # None
  BY <1>1, <1>8, <1>9 DEF Quiet, Entries
<1> QED BY <1>1, <1>2, <1>7, <1>10, <1>11, <1>12, <1>13 DEF PlanInv, Files

\* A migration is begun, or begun again, from the run it had found.
LEMMA MigrateKeeps == ASSUME PlanInv, NEW p \in Revisions, Migrate(p) PROVE PlanInv'
<1>1. PICK x \in {Base(migrating)} :
      /\ Free /\ def # None /\ x.def.plan = None /\ ~IsRunning(x.st) /\ Valid(p)
      /\ \A t \in DOMAIN x.def.spec : t \in Ids(p) /\ (x.st.tasks[t].status = "completed" => Deps(p, t) = {})
      /\ migrating' = [stage |-> "validated", rev |-> p, base |-> x]
      /\ cmd' = [at |-> "def", to |-> Migrated(x, p), kind |-> "migrate"]
      /\ UNCHANGED <<scene, def, st, amending, receipts, log, runner>>
      /\ Loads(migrating) /\ Resumes(migrating, p)
  BY DEF Migrate, Saves
<1> DEFINE y == Migrated(x, p)
<1> HIDE DEF y
<1>2. mishaps' \in Nat /\ changes' \in Nat
  BY DEF Migrate, PlanInv, Change, bounds
<1>3. Validated(migrating) => HalfMigrated
  BY DEF PlanInv, Files, Unwritten, HalfWritten, Untouched, Written, Interrupted, HalfAmended, Validated
<1>4. Validated(migrating) => x = migrating.base /\ p = migrating.rev
  BY <1>1 DEF Base, Resumes
<1>5. ~Validated(migrating) => Readable /\ x = Run
  BY <1>1 DEF Loads, Base
<1>6. x \in [def : Defs, st : States]
  <2>1. CASE Validated(migrating)
    <3>1. Migrating(receipts) /\ x = [def |-> x.def, st |-> x.st] /\ Unique(receipts)
      BY <2>1, <1>3, <1>4 DEF HalfMigrated, Migrating, PlanInv
    <3>2. x.def \in Defs /\ x.st \in States
      BY <2>1, <1>4, <3>1, MigratingIs
    <3> QED BY <3>1, <3>2
  <2>2. CASE ~Validated(migrating)
    BY <2>2, <1>5, ReadableIs
  <2> QED BY <2>1, <2>2
<1>7. /\ migrating' \in Journals /\ migrating'.base = x /\ migrating'.rev = p /\ Validated(migrating)'
  <2>1. migrating' \in Journals
    BY <1>1, <1>6 DEF Journals
  <2> QED BY <2>1, <1>1, NoFileAssumption DEF Validated
<1>8. amending = None
  <2>1. CASE Validated(migrating)
    BY <2>1 DEF PlanInv
  <2>2. CASE ~Validated(migrating)
    BY <2>2, <1>1, <1>5, ReadableIs DEF PlanInv
  <2> QED BY <2>1, <2>2
<1>9. /\ Sound(receipts, x.def, x.st) /\ Still(x.st)
      /\ def \in {x.def, y.def}
      /\ st # Damaged => Aged(x.st, st) \/ Aged(y.st, st)
  <2>1. CASE Validated(migrating)
    <3>1. Sound(receipts, x.def, x.st) /\ Still(x.st)
      BY <2>1, <1>3, <1>4, MigratingIs DEF HalfMigrated, PlanInv
    <3>2. Between(x, y)
      BY <2>1, <1>3, <1>4 DEF HalfMigrated, y
    <3> QED BY <3>1, <3>2 DEF Between
  <2>2. CASE ~Validated(migrating)
    <3>1. Readable /\ ~Interrupted
      BY <2>2, <1>5, <1>8 DEF Interrupted, Validated
    <3>2. x = [def |-> def, st |-> st]
      BY <3>1, <2>2, <1>5, LoadedIs
    <3>3. x.def = def /\ x.st = st
      BY <3>2
    <3>4. x.def \in Defs /\ x.st \in States /\ Sound(receipts, x.def, x.st) /\ Aged(x.st, st)
      BY <3>1, <3>3, LoadedIs, AgedSelf
    <3> QED BY <3>3, <3>4, <1>1, <2>2 DEF Still, IsRunning
  <2> QED BY <2>1, <2>2
<1>10. HalfMigrated'
  <2>1. Between(x, y)'
    BY <1>1, <1>9 DEF Between, y
  <2>2. Between(migrating.base, Migrated(migrating.base, migrating.rev))'
    BY <2>1, <1>7 DEF y
  <2>3. ~runner' /\ cmd'.kind = "migrate"
    BY <1>1 DEF Free
  <2>4. Migrating(receipts)'
    BY <1>1, <1>6, <1>7, <1>9 DEF Migrating
  <2> QED BY <2>2, <2>3, <2>4, <1>1, <1>7, <1>8 DEF HalfMigrated
<1>11. Steady'
  BY <1>1 DEF Steady, Free
<1>12. Events'
  BY <1>1, <1>8 DEF Events, PlanInv
<1> QED BY <1>1, <1>2, <1>8, <1>10, <1>11, <1>12 DEF PlanInv, Files

-----------------------------------------------------------------------------
(* What a command writes.                                                  *)

\* The definition is written first: the files are between the two ends.
LEMMA WriteDefKeeps == ASSUME PlanInv, WriteDef PROVE PlanInv'
<1>1. /\ cmd.at = "def" /\ def' = cmd.to.def /\ cmd'.at = "st" /\ cmd'.to = cmd.to /\ cmd'.kind = cmd.kind
      /\ cmd' = [at |-> cmd'.at, to |-> cmd'.to, kind |-> cmd'.kind]
      /\ UNCHANGED <<scene, st, amending, migrating, receipts, log, runner, mishaps, changes>>
  BY DEF WriteDef, bounds, PlanInv
<1>2. cmd # Idle /\ ~Written
  BY <1>1 DEF Idle, Written
<1>3. CASE Unwritten
  <2>1. cmd.to.def \in Defs
    BY <1>2, <1>3 DEF Unwritten, Sound, Shaped
  <2>2. HalfWritten' /\ Steady' /\ Events'
    BY <2>1, <1>1, <1>2, <1>3 DEF Unwritten, HalfWritten, Untouched, Steady, Events, PlanInv
  <2> QED BY <2>2, <1>1, <1>3 DEF PlanInv, Files, Unwritten, Untouched
<1>4. ~HalfWritten
  BY <1>1, <1>2 DEF HalfWritten
<1>5. CASE HalfAmended
  <2> DEFINE y == Amended(amending.base, amending.rev)
  <2>1. y.def.plan # None /\ y.def \in Defs
    BY <1>5, AmendingIs DEF HalfAmended
  <2> HIDE DEF y
  <2>2. Between(amending.base, y)
    BY <1>5 DEF HalfAmended, y
  <2>3. def' = y.def
    BY <1>1, <1>2, <2>2 DEF Between
  <2>4. Between(amending.base, Amended(amending.base, amending.rev))'
    BY <1>1, <1>2, <2>2, <2>3 DEF Between, y
  <2>5. HalfAmended'
    BY <2>4, <1>1, <1>2, <1>5 DEF HalfAmended, Amending
  <2>6. Steady' /\ Events'
    BY <1>1, <1>5 DEF HalfAmended, Steady, Events
  <2> QED BY <2>1, <2>3, <2>5, <2>6, <1>1, DefIs DEF PlanInv, Files
<1>6. CASE HalfMigrated
  <2> DEFINE y == Migrated(migrating.base, migrating.rev)
  <2> HIDE DEF y
  <2>2. Between(migrating.base, y)
    BY <1>6 DEF HalfMigrated, y
  <2>3. def' = y.def
    BY <1>1, <1>2, <2>2 DEF Between
  <2>4. Between(migrating.base, Migrated(migrating.base, migrating.rev))'
    BY <1>1, <1>2, <2>2, <2>3 DEF Between, y
  <2>5. HalfMigrated'
    BY <2>4, <1>1, <1>2, <1>6 DEF HalfMigrated, Migrating
  <2>6. Steady' /\ Events'
    BY <1>1, <1>6 DEF HalfMigrated, Steady, Events, PlanInv
  <2> QED BY <2>5, <2>6, <1>1, <1>6 DEF PlanInv, Files, HalfMigrated
<1> QED BY <1>2, <1>3, <1>4, <1>5, <1>6 DEF PlanInv, Files

\* The state follows: the files are those of the second end.
LEMMA WriteStateKeeps == ASSUME PlanInv, WriteState PROVE PlanInv'
<1>1. /\ cmd.at = "st" /\ st' = cmd.to.st
      /\ cmd' = IF cmd.kind = "compile" THEN Idle ELSE [at |-> "journal", to |-> cmd.to, kind |-> cmd.kind]
      /\ cmd' = [at |-> cmd'.at, to |-> cmd'.to, kind |-> cmd'.kind]
      /\ UNCHANGED <<scene, def, amending, migrating, receipts, log, runner, mishaps, changes>>
  <2>1. cmd = [at |-> cmd.at, to |-> cmd.to, kind |-> cmd.kind]
    BY DEF PlanInv
  <2>2. [cmd EXCEPT !.at = "journal"] = [at |-> "journal", to |-> cmd.to, kind |-> cmd.kind]
    BY <2>1
  <2> QED BY <2>2 DEF WriteState, bounds, Idle
<1>2. cmd # Idle /\ ~Written
  BY <1>1 DEF Idle, Written
<1>3. ~Unwritten
  BY <1>1, <1>2 DEF Unwritten
<1>4. CASE HalfWritten
  <2>1. cmd' = Idle /\ Sound(receipts, def, st') /\ def \in Defs /\ receipts = {}
    BY <1>1, <1>2, <1>4 DEF HalfWritten, Untouched
  <2>2. Written'
    BY <2>1, <1>1, <1>4 DEF HalfWritten, Written, Untouched, Interrupted, Validated
  <2>3. Steady' /\ Events'
    BY <1>1, <1>4 DEF HalfWritten, Untouched, Steady, Events, PlanInv
  <2> QED BY <2>2, <2>3, <1>1, <1>4 DEF PlanInv, Files, HalfWritten, Untouched
<1>5. CASE HalfAmended
  <2> DEFINE y == Amended(amending.base, amending.rev)
  <2>1. y.st \in States
    BY <1>5, AmendingIs DEF HalfAmended
  <2>2. Aged(y.st, y.st)
    BY <2>1, AgedSelf
  <2> HIDE DEF y
  <2>3. Between(amending.base, y)
    BY <1>5 DEF HalfAmended, y
  <2>4. st' = y.st /\ cmd' = [at |-> "journal", to |-> cmd.to, kind |-> cmd.kind] /\ cmd.to = y
    BY <1>1, <1>2, <1>5, <2>3 DEF Between, HalfAmended
  <2>5. Between(amending.base, Amended(amending.base, amending.rev))'
    BY <1>1, <1>2, <2>2, <2>3, <2>4 DEF Between, y
  <2>6. HalfAmended'
    BY <2>4, <2>5, <1>1, <1>2, <1>5 DEF HalfAmended, Amending
  <2>7. Steady' /\ Events'
    BY <1>1, <1>5 DEF HalfAmended, Steady, Events
  <2> QED BY <2>6, <2>7, <1>1 DEF PlanInv, Files
<1>6. CASE HalfMigrated
  <2> DEFINE y == Migrated(migrating.base, migrating.rev)
  <2>1. y.st \in States
    BY <1>6, MigratingIs DEF HalfMigrated, PlanInv
  <2>2. Aged(y.st, y.st)
    BY <2>1, AgedSelf
  <2> HIDE DEF y
  <2>3. Between(migrating.base, y)
    BY <1>6 DEF HalfMigrated, y
  <2>4. st' = y.st /\ cmd' = [at |-> "journal", to |-> cmd.to, kind |-> cmd.kind] /\ cmd.to = y
    BY <1>1, <1>2, <1>6, <2>3 DEF Between, HalfMigrated
  <2>5. Between(migrating.base, Migrated(migrating.base, migrating.rev))'
    BY <1>1, <1>2, <2>2, <2>3, <2>4 DEF Between, y
  <2>6. HalfMigrated'
    BY <2>4, <2>5, <1>1, <1>2, <1>6 DEF HalfMigrated, Migrating
  <2>7. Steady' /\ Events'
    BY <1>1, <1>6 DEF HalfMigrated, Steady, Events, PlanInv
  <2> QED BY <2>6, <2>7, <1>1 DEF PlanInv, Files
<1> QED BY <1>2, <1>3, <1>4, <1>5, <1>6 DEF PlanInv, Files

\* Completed work has its receipt.
LEMMA CompletedSettled ==
    ASSUME NEW rc, NEW d, NEW s, Sound(rc, d, s), NEW t \in DOMAIN s.tasks, s.tasks[t].status = "completed"
    PROVE  Settled(rc, s, t)
BY DEF Sound, Imported, Delivered

\* A written amendment: nothing happened yet on top of its base.
LEMMA WriteJournalKeeps == ASSUME PlanInv, WriteJournal PROVE PlanInv'
<1>1. /\ cmd.at = "journal" /\ cmd' = Idle
      /\ IF cmd.kind = "amend" THEN amending' = [amending EXCEPT !.stage = "committed"] /\ UNCHANGED migrating
         ELSE migrating' = [migrating EXCEPT !.stage = "committed", !.base = None] /\ UNCHANGED amending
      /\ UNCHANGED <<scene, def, st, receipts, log, runner, mishaps, changes>>
  BY DEF WriteJournal, bounds
<1>2. cmd # Idle /\ ~Written /\ ~Unwritten /\ ~HalfWritten
  BY <1>1 DEF Idle, Written, Unwritten, HalfWritten
<1>3. cmd' = [at |-> cmd'.at, to |-> cmd'.to, kind |-> cmd'.kind]
  BY <1>1 DEF Idle
<1>4. CASE HalfAmended
  <2>1. PICK x, q : x = amending.base /\ q = amending.rev
    OBVIOUS
  <2> DEFINE y == Amended(x, q)
  <2>3. /\ q \in Revisions /\ Sound(receipts, x.def, x.st) /\ x.st \in States
        /\ DOMAIN x.st.tasks = DOMAIN x.def.spec
        /\ Sound(receipts, y.def, y.st) /\ Still(y.st) /\ y.def \in Defs /\ y.st \in States /\ y.def.plan # None
        /\ \A t \in DOMAIN x.st.tasks : Settled(receipts, x.st, t) => Settled(receipts, y.st, t)
    BY <1>4, <2>1, AmendingIs DEF HalfAmended
  <2>4. /\ DOMAIN y.st.tasks = Ids(q)
        /\ \A t \in Ids(q) :
              IF t \in DOMAIN x.st.tasks
              THEN /\ y.st.tasks[t].n = x.st.tasks[t].n
                   /\ \/ y.st.tasks[t].status = x.st.tasks[t].status
                      \/ x.st.tasks[t].status = "failed" /\ y.st.tasks[t].status = "pending"
              ELSE y.st.tasks[t] = Fresh
    <3>1. Allows(x, q)
      BY <1>4, <2>1 DEF HalfAmended, Amending
    <3>2. x.def \in Defs /\ x.st \in States /\ DOMAIN x.st.tasks = DOMAIN x.def.spec /\ q \in Revisions
      BY <2>3 DEF Sound, Shaped
    <3> QED BY <3>1, <3>2, AmendedIs
  <2> HIDE DEF y
  <2>5. def = y.def /\ st = y.st
    BY <1>1, <1>2, <1>4, <2>1 DEF HalfAmended, Between, y
  <2>6. /\ amending' \in Journals /\ amending'.base = x /\ amending'.rev = q /\ amending'.stage = "committed"
        /\ migrating' = migrating
    BY <1>1, <1>2, <1>4, <2>1 DEF HalfAmended, Amending, Journals
  <2>7. Amending(receipts)'
    BY <1>1, <1>4, <2>1, <2>6 DEF HalfAmended, Amending
  <2>8. ~Interrupted' /\ ~Validated(migrating)'
    BY <1>4, <2>6 DEF Interrupted, Validated, HalfAmended, PlanInv
  <2>9. Written'
    BY <2>3, <2>5, <2>8, <1>1 DEF Written
  <2>10. Steady'
    BY <1>1, <1>4 DEF HalfAmended, Steady
  <2>11. /\ \A t \in Tasks : log'[t].last = "none" /\ log'[t].top = 0
         /\ \A t : t \in DOMAIN x.st.tasks => BaseN(t)' = x.st.tasks[t].n
         /\ \A t : t \notin DOMAIN x.st.tasks => BaseN(t)' = 0
         /\ DOMAIN x.st.tasks \subseteq Tasks /\ DOMAIN y.st.tasks \subseteq Tasks
    BY <1>1, <1>4, <2>3, <2>6, StateIs DEF HalfAmended, Quiet, BaseN
  <2>12. \A t \in Tasks : Told(t)' <=> Settled(receipts, x.st, t)
    BY <2>6, <2>11, <1>1 DEF Told
  <2>13. \A t \in DOMAIN y.st.tasks : y.st.tasks[t].n = Reached(t)'
    <3> SUFFICES ASSUME NEW t \in DOMAIN y.st.tasks PROVE y.st.tasks[t].n = BaseN(t)' /\ BaseN(t)' \in Nat
      BY <2>11 DEF Reached
    <3>1. CASE t \in DOMAIN x.st.tasks
      <4>1. x.st.tasks[t].n \in Nat
        BY <3>1, <2>3, TaskIs
      <4> QED BY <4>1, <3>1, <2>4, <2>11
    <3>2. CASE t \notin DOMAIN x.st.tasks
      BY <3>2, <2>4, <2>11, FreshIs
    <3> QED BY <3>1, <3>2
  <2>14. \A t \in DOMAIN y.st.tasks : Told(t)' => Settled(receipts, y.st, t)
    BY <2>3, <2>11, <2>12 DEF Settled
  <2>15. \A t \in DOMAIN y.st.tasks : y.st.tasks[t].status = "completed" => Told(t)'
    <3> SUFFICES ASSUME NEW t \in DOMAIN y.st.tasks, y.st.tasks[t].status = "completed"
                 PROVE  Settled(receipts, x.st, t)
      BY <2>11, <2>12
    <3>1. t \in DOMAIN x.st.tasks /\ x.st.tasks[t].status = "completed"
      BY <2>4, FreshIs
    <3> QED BY <3>1, <2>3, CompletedSettled
  <2>16. Events'
    <3>1. amending' # None /\ ~Validated(amending)' /\ cmd' = Idle
      BY <1>1, <2>6, NoFileAssumption DEF Validated
    <3>2. def' = Amended(amending'.base, amending'.rev).def
      BY <1>1, <2>5, <2>6 DEF y
    <3>3. \A t \in DOMAIN st'.tasks :
            /\ st'.tasks[t].n = Reached(t)'
            /\ st'.tasks[t].status # "running"
            /\ Told(t)' => Settled(receipts', st', t)
            /\ st'.tasks[t].status = "completed" => Told(t)'
      BY <1>1, <2>3, <2>5, <2>13, <2>14, <2>15 DEF Still
    <3> QED BY <3>1, <3>2, <3>3, <2>7, <2>8, <2>11 DEF Events, Recounted, Followed
  <2> QED BY <2>3, <2>5, <2>6, <2>8, <2>9, <2>10, <2>16, <1>1, <1>3, DefIs DEF PlanInv, Files
<1>5. CASE HalfMigrated
  <2> DEFINE y == Migrated(migrating.base, migrating.rev)
  <2>1. Sound(receipts, y.def, y.st) /\ y.def \in Defs
    BY <1>5, MigratingIs DEF HalfMigrated, PlanInv
  <2> HIDE DEF y
  <2>2. Between(migrating.base, y)
    BY <1>5 DEF HalfMigrated, y
  <2>3. def = y.def /\ st = y.st
    BY <1>1, <1>2, <2>2 DEF Between
  <2>4. migrating'.stage = "committed" /\ amending' = None
    BY <1>1, <1>2, <1>5 DEF HalfMigrated, Migrating, Journals
  <2>5. ~Interrupted'
    BY <2>4 DEF Interrupted, Validated
  <2>6. Written'
    BY <2>1, <2>3, <2>5, <1>1 DEF Written
  <2>7. Steady' /\ Events'
    BY <2>4, <1>1, <1>5 DEF HalfMigrated, Steady, Events, PlanInv
  <2> QED BY <2>4, <2>6, <2>7, <1>1, <1>3 DEF PlanInv, Files
<1> QED BY <1>2, <1>4, <1>5 DEF PlanInv, Files

-----------------------------------------------------------------------------
(* What happens to the files between commands.                             *)

\* The invariant is not about the reviews, nor about strayed.
LEMMA SameKeeps ==
    ASSUME PlanInv, UNCHANGED <<scene, def, st, amending, migrating, receipts, log, cmd, runner, mishaps, changes>>
    PROVE  PlanInv'
<1>1. Files'
  <2>1. CASE Unwritten
    BY <2>1 DEF Files, Unwritten, Untouched
  <2>2. CASE HalfWritten
    BY <2>2 DEF Files, HalfWritten, Untouched
  <2>3. CASE Written
    BY <2>3 DEF Files, Written, Interrupted
  <2>4. CASE HalfAmended
    BY <2>4 DEF Files, HalfAmended, Amending, Between
  <2>5. CASE HalfMigrated
    BY <2>5 DEF Files, HalfMigrated, Migrating, Between
  <2> QED BY <2>1, <2>2, <2>3, <2>4, <2>5 DEF PlanInv, Files
<1>2. Steady'
  <2>1. Steady
    BY DEF PlanInv
  <2>2. \A t : DepsOf(t)' = DepsOf(t) /\ Published(t)' = Published(t)
    BY DEF DepsOf, Published, Current
  <2>3. Interrupted' = Interrupted
    BY DEF Interrupted
  <2> QED BY <2>1, <2>2, <2>3 DEF Steady, Manned
<1>3. Events'
  <2>1. Events
    BY DEF PlanInv
  <2> QED BY ONLY <2>1, UNCHANGED <<scene, def, st, amending, migrating, receipts, log, cmd, runner, mishaps, changes>>
              DEF Events, Amending, Recounted, Followed, Told, Reached, BaseN
<1> QED BY <1>1, <1>2, <1>3 DEF PlanInv

\* A review changes no file of the run.
LEMMA ReviewKeeps == ASSUME PlanInv, NEW p \in Revisions, Review(p) PROVE PlanInv'
BY SameKeeps DEF Review, files, bounds

\* A crash leaves the files where they are, and nobody at work.
LEMMA CrashKeeps == ASSUME PlanInv, Crash PROVE PlanInv'
<1>1. /\ cmd' = Idle /\ runner' = FALSE /\ mishaps' \in Nat /\ changes' = changes
      /\ UNCHANGED <<scene, def, st, amending, migrating, receipts, log>>
      /\ cmd' = [at |-> cmd'.at, to |-> cmd'.to, kind |-> cmd'.kind]
  BY DEF Crash, Mishap, files, Idle, PlanInv
<1>2. Files'
  <2>1. CASE Unwritten
    BY <1>1, <2>1 DEF Files, Unwritten, Untouched
  <2>2. CASE HalfWritten
    BY <1>1, <2>2 DEF Files, HalfWritten, Untouched
  <2>3. CASE Written
    BY <1>1, <2>3 DEF Files, Written, Interrupted
  <2>4. CASE HalfAmended
    BY <1>1, <2>4 DEF Files, HalfAmended, Amending, Between
  <2>5. CASE HalfMigrated
    BY <1>1, <2>5 DEF Files, HalfMigrated, Migrating, Between
  <2> QED BY <2>1, <2>2, <2>3, <2>4, <2>5 DEF PlanInv, Files
<1>3. Steady'
  BY <1>1 DEF Steady
<1>4. Events'
  BY <1>1 DEF PlanInv, Events, Amending, Recounted, Followed, Told, Reached, BaseN
<1> QED BY <1>1, <1>2, <1>3, <1>4 DEF PlanInv

\* An aged state that ages is an aged one of the first.
LEMMA AgedAgain ==
    ASSUME NEW x, NEW s, NEW z, Aged(x, s), Aged(s, z)
    PROVE  Aged(x, z)
BY DEF Aged

\* Between the two ends of a command a state only ages, and nothing runs.
LEMMA HalfStill ==
    ASSUME PlanInv, HalfAmended \/ HalfMigrated, st # Damaged
    PROVE  \A t \in DOMAIN st.tasks : st.tasks[t].status # "running"
<1>1. ASSUME NEW x, Still(x), Aged(x, st) PROVE \A t \in DOMAIN st.tasks : st.tasks[t].status # "running"
  BY <1>1 DEF Aged, Still
<1>2. CASE HalfAmended
  BY <1>1, <1>2, AmendingIs DEF HalfAmended, Between
<1>3. CASE HalfMigrated
  BY <1>1, <1>3, MigratingIs DEF HalfMigrated, Between, PlanInv
<1> QED BY <1>2, <1>3

\* Between the two ends of a command a state may age or be damaged.
LEMMA HalfKeeps ==
    ASSUME PlanInv, HalfAmended \/ HalfMigrated, Free, mishaps' \in Nat,
           st' = Damaged \/ (st # Damaged /\ Aged(st, st')),
           UNCHANGED <<scene, def, amending, migrating, receipts, log, cmd, runner, changes>>
    PROVE  PlanInv'
<1>1. Files'
  <2>1. ASSUME NEW x, NEW y, Between(x, y) PROVE Between(x, y)'
    <3>1. st' # Damaged => Aged(x.st, st') \/ Aged(y.st, st')
      BY <2>1, AgedAgain DEF Between
    <3> QED BY <3>1, <2>1 DEF Between, Free
  <2>2. CASE HalfAmended
    <3>1. PICK x, q : x = amending.base /\ q = amending.rev
      OBVIOUS
    <3>2. Between(x, Amended(x, q))'
      BY <3>1, <2>1, <2>2 DEF HalfAmended
    <3> QED BY <3>1, <3>2, <2>2 DEF Files, HalfAmended, Amending
  <2>3. CASE HalfMigrated
    <3>1. PICK x, q : x = migrating.base /\ q = migrating.rev
      OBVIOUS
    <3>2. Between(x, Migrated(x, q))'
      BY <3>1, <2>1, <2>3 DEF HalfMigrated
    <3> QED BY <3>1, <3>2, <2>3 DEF Files, HalfMigrated, Migrating
  <2> QED BY <2>2, <2>3
<1>2. Steady'
  BY DEF Steady, Free
<1>3. Events'
  BY DEF Events, PlanInv, HalfAmended, HalfMigrated
<1> QED BY <1>1, <1>2, <1>3 DEF PlanInv

\* Files that can be read are whole, or those of an interrupted command.
LEMMA ReadableFiles == ASSUME PlanInv, Readable PROVE Written \/ HalfAmended \/ HalfMigrated
BY DEF PlanInv, Readable, Files, Unwritten, HalfWritten, Untouched

\* A damaged state leaves the definition, the journals and the events.
LEMMA DamageKeeps == ASSUME PlanInv, Damage PROVE PlanInv'
<1>1. /\ Free /\ Readable /\ st' = Damaged /\ mishaps' \in Nat
      /\ UNCHANGED <<scene, def, amending, migrating, receipts, log, cmd, runner, changes>>
  BY DEF Damage, Mishap, PlanInv
<1>2. CASE HalfAmended \/ HalfMigrated
  BY <1>1, <1>2, HalfKeeps
<1>3. CASE Written
  <2>1. Written' /\ Steady'
    BY <1>1, <1>3 DEF Written, Steady, Interrupted, Free
  <2>2. Events'
    BY <1>1 DEF PlanInv, Events, Amending, Recounted, Followed, Told, Reached, BaseN
  <2> QED BY <1>1, <2>1, <2>2 DEF PlanInv, Files
<1> QED BY <1>1, <1>2, <1>3, ReadableFiles

-----------------------------------------------------------------------------
(* Requeued and retried work.                                              *)

\* What requeueing changes: a running task is pending again.
LEMMA RequeuedIs ==
    ASSUME NEW s \in States
    PROVE  LET z == Requeued(s) IN
           /\ z \in States /\ DOMAIN z.tasks = DOMAIN s.tasks /\ z.evidence = s.evidence
           /\ \A t \in DOMAIN s.tasks :
                 /\ z.tasks[t].n = s.tasks[t].n /\ z.tasks[t].receipt = s.tasks[t].receipt
                 /\ s.tasks[t].status = "running" => z.tasks[t].status = "pending"
                 /\ s.tasks[t].status # "running" => z.tasks[t].status = s.tasks[t].status
<1> DEFINE task(t) == IF s.tasks[t].status = "running" THEN [s.tasks[t] EXCEPT !.status = "pending"] ELSE s.tasks[t]
           f == [t \in DOMAIN s.tasks |-> task(t)]
<1>1. ASSUME NEW t \in DOMAIN s.tasks
      PROVE  /\ task(t) \in Records
             /\ task(t).n = s.tasks[t].n /\ task(t).receipt = s.tasks[t].receipt
             /\ s.tasks[t].status = "running" => task(t).status = "pending"
             /\ s.tasks[t].status # "running" => task(t).status = s.tasks[t].status
  <2> DEFINE a == s.tasks[t]
  <2>1. a \in Records
    BY TaskIs
  <2>2. task(t) = IF a.status = "running" THEN [a EXCEPT !.status = "pending"] ELSE a
    OBVIOUS
  <2> HIDE DEF a, task
  <2>3. [a EXCEPT !.status = "pending"] \in Records /\ [a EXCEPT !.status = "pending"].n = a.n
        /\ [a EXCEPT !.status = "pending"].receipt = a.receipt /\ [a EXCEPT !.status = "pending"].status = "pending"
    BY <2>1 DEF Records
  <2>4. /\ task(t) \in Records /\ task(t).n = a.n /\ task(t).receipt = a.receipt
        /\ a.status = "running" => task(t).status = "pending"
        /\ a.status # "running" => task(t).status = a.status
    BY <2>1, <2>2, <2>3
  <2> QED BY <2>4 DEF a
<1> HIDE DEF task
<1>2. f \in [DOMAIN s.tasks -> Records] /\ DOMAIN f = DOMAIN s.tasks /\ \A t \in DOMAIN s.tasks : f[t] = task(t)
  BY <1>1
<1>3. Requeued(s) = [s EXCEPT !.tasks = f]
  BY DEF Requeued, task
<1> HIDE DEF f
<1>4. [s EXCEPT !.tasks = f] = [rev |-> s.rev, tasks |-> f, evidence |-> s.evidence]
  BY StateIs
<1>5. [rev |-> s.rev, tasks |-> f, evidence |-> s.evidence] \in States
  <2>1. s.rev \in Revisions \cup {None} /\ s.evidence \in SUBSET Verdicts /\ DOMAIN s.tasks \in SUBSET Tasks
    BY StateIs DEF States
  <2> QED BY <2>1, <1>2, StateMade
<1> QED BY <1>1, <1>2, <1>3, <1>4, <1>5

\* Since a committed amendment: its base, and the manifest.
LEMMA CommittedIs ==
    ASSUME PlanInv, amending # None, ~Validated(amending)
    PROVE  /\ Amending(receipts) /\ def.plan = amending.rev /\ def.plan \in Revisions /\ Valid(def.plan)
           /\ def.plan # None /\ def.imports = amending.base.def.imports
           /\ \A t \in Ids(def.plan) : t \in Tasks /\ \A u \in Deps(def.plan, t) : u \in Ids(def.plan) /\ u \in Tasks
<1>1. Amending(receipts) /\ def = Amended(amending.base, amending.rev).def
  BY DEF PlanInv, Events
<1>2. /\ def.plan = amending.rev /\ def.plan \in Revisions /\ Valid(def.plan)
      /\ def.plan # None /\ def.imports = amending.base.def.imports
  BY <1>1, AmendingIs DEF Amending
<1>3. ASSUME NEW t \in Ids(def.plan) PROVE t \in Tasks /\ \A u \in Deps(def.plan, t) : u \in Ids(def.plan) /\ u \in Tasks
  BY <1>2, DepsListed, IdsAre
<1> QED BY <1>1, <1>2, <1>3

\* What settled nothing and started nothing: a task that ran is halted, a task
\* may be retried.
LEMMA AgedKeeps ==
    ASSUME PlanInv, Readable, Written, NEW H \in SUBSET Running,
           Aged(st, st'), DOMAIN st'.tasks = DOMAIN st.tasks,
           \A t \in H : st'.tasks[t].status # "running",
           log' = IF amending = None THEN log
                  ELSE [t \in Tasks |-> IF t \in H THEN [log[t] EXCEPT !.last = "halt"] ELSE log[t]],
           runner' = FALSE, mishaps' \in Nat,
           UNCHANGED <<scene, def, amending, migrating, receipts, cmd, changes>>
    PROVE  PlanInv'
<1>1. /\ ~Interrupted /\ st \in States /\ Sound(receipts, def, st) /\ DOMAIN st.tasks = DOMAIN def.spec
      /\ st' \in States /\ log \in [Tasks -> Entries] /\ DOMAIN st.tasks \subseteq Tasks
  BY LoadedIs, StateIs DEF Written, Aged, PlanInv
<1>2. Sound(receipts, def, st')
  BY <1>1, AgedSound
<1>3. Written' /\ Steady'
  BY <1>2 DEF Written, Interrupted, Steady
<1>4. log' \in [Tasks -> Entries]
  BY <1>1 DEF Entries
<1>5. CASE amending = None
  <2>1. Events'
    BY <1>5 DEF PlanInv, Events
  <2> QED BY <1>3, <1>4, <1>5, <2>1 DEF PlanInv, Files
<1>6. CASE amending # None
  <2>1. ~Validated(amending)
    BY <1>1 DEF Interrupted
  <2>2. \A t : BaseN(t)' = BaseN(t)
    BY DEF BaseN
  <2>3. \A t \in Tasks : /\ log'[t].top = log[t].top
                         /\ t \notin H => log'[t] = log[t]
                         /\ t \in H => log'[t].last = "halt"
    BY <1>1, <1>6 DEF Entries
  <2>4. \A t \in Tasks : Reached(t)' = Reached(t)
    BY <2>2, <2>3 DEF Reached
  <2>5. ASSUME NEW t \in H
        PROVE  t \in Tasks /\ log[t].last = "start" /\ ~Told(t)
    BY <1>1, <1>6, <2>1 DEF PlanInv, Events, Followed, Running, Told, Readable
  <2>6. \A t \in Tasks : Told(t)' <=> Told(t)
    BY <2>3, <2>5 DEF Told
  <2>7. \A t \in DOMAIN st.tasks : Settled(receipts, st', t) <=> Settled(receipts, st, t)
    BY <1>1, AgedSettled
  <2>8. Amending(receipts)'
    BY <1>6, <2>1 DEF PlanInv, Events, Amending
  <2>9. ASSUME NEW t \in Tasks PROVE Recounted(t)'
    <3>1. Recounted(t)
      BY <1>6, <2>1 DEF PlanInv, Events
    <3>2. CASE t \notin H
      <4>1. log[t].last = "done" => \A u \in Deps(def.plan, t) : u \in Tasks /\ Told(u)
        BY <3>1, <1>6, <2>1, CommittedIs DEF Recounted
      <4> QED BY <3>1, <3>2, <4>1, <2>2, <2>3, <2>4, <2>6 DEF Recounted
    <3>3. CASE t \in H
      <4>1. log[t].last = "start"
        BY <3>3, <2>5
      <4> QED BY <3>1, <3>3, <4>1, <2>3 DEF Recounted
    <3> QED BY <3>2, <3>3
  <2>10. ASSUME NEW t \in DOMAIN st.tasks PROVE Followed(t)'
    <3>1. Followed(t) /\ t \in Tasks
      BY <1>1, <1>6, <2>1 DEF PlanInv, Events, Readable
    <3>2. /\ st'.tasks[t].n = st.tasks[t].n
          /\ st'.tasks[t].status \in {st.tasks[t].status, "pending"}
      BY DEF Aged
    <3>3. st'.tasks[t].status = "running" => log'[t] = log[t]
      BY <3>1, <2>3
    <3> QED BY <3>1, <3>2, <3>3, <2>4, <2>6, <2>7 DEF Followed
  <2>11. Events'
    BY <1>6, <2>1, <2>8, <2>9, <2>10 DEF PlanInv, Events
  <2> QED BY <1>1, <1>3, <1>4, <2>1, <2>11 DEF PlanInv, Files
<1> QED BY <1>5, <1>6

\* One task of a state is changed.
With(s, t, a, e) == [s EXCEPT !.tasks[t] = a, !.evidence = e]
Marked(s, t, v) == [s EXCEPT !.tasks[t].status = v]

\* What it is to change one task and the evidence.
LEMMA TaskSet ==
    ASSUME NEW s \in States, NEW t \in DOMAIN s.tasks, NEW a \in Records, NEW e \in SUBSET Verdicts
    PROVE  LET z == With(s, t, a, e) IN
           /\ z \in States /\ DOMAIN z.tasks = DOMAIN s.tasks /\ z.evidence = e
           /\ z.tasks[t] = a /\ \A u \in DOMAIN s.tasks \ {t} : z.tasks[u] = s.tasks[u]
<1> DEFINE f == [s.tasks EXCEPT ![t] = a]
<1>1. f \in [DOMAIN s.tasks -> Records] /\ f[t] = a /\ \A u \in DOMAIN s.tasks \ {t} : f[u] = s.tasks[u]
  BY StateIs
<1>2. [s EXCEPT !.tasks[t] = a, !.evidence = e] = [rev |-> s.rev, tasks |-> f, evidence |-> e]
  <2> DEFINE m == [s EXCEPT !.tasks = f]
  <2>1. [s EXCEPT !.tasks[t] = a, !.evidence = e] = [m EXCEPT !.evidence = e]
    OBVIOUS
  <2> HIDE DEF f
  <2>2. m = [rev |-> s.rev, tasks |-> f, evidence |-> s.evidence]
    BY StateIs
  <2> HIDE DEF m
  <2>3. [m EXCEPT !.evidence = e] = [rev |-> s.rev, tasks |-> f, evidence |-> e]
    BY <2>2
  <2> QED BY <2>1, <2>3
<1> HIDE DEF f
<1>3. [rev |-> s.rev, tasks |-> f, evidence |-> e] \in States
  <2>1. s.rev \in Revisions \cup {None} /\ DOMAIN s.tasks \in SUBSET Tasks
    BY StateIs DEF States
  <2> QED BY <2>1, <1>1, StateMade
<1> QED BY <1>1, <1>2, <1>3 DEF With

\* What it is to change the status of one task.
LEMMA StatusSet ==
    ASSUME NEW s \in States, NEW t \in DOMAIN s.tasks, NEW v \in {"pending", "running", "completed", "failed"}
    PROVE  LET z == Marked(s, t, v) IN
           /\ z \in States /\ DOMAIN z.tasks = DOMAIN s.tasks /\ z.evidence = s.evidence
           /\ z.tasks[t].status = v /\ z.tasks[t].n = s.tasks[t].n /\ z.tasks[t].receipt = s.tasks[t].receipt
           /\ \A u \in DOMAIN s.tasks \ {t} : z.tasks[u] = s.tasks[u]
<1> DEFINE a == [status |-> v, n |-> s.tasks[t].n, receipt |-> s.tasks[t].receipt]
           z == [s EXCEPT !.tasks[t].status = v]
<1>1. a \in Records
  BY TaskIs DEF Records
<1>2. s.evidence \in SUBSET Verdicts
  BY StateIs
<1>3. z = [s EXCEPT !.tasks[t] = a, !.evidence = s.evidence]
  <2>1. s.tasks[t] = [status |-> s.tasks[t].status, n |-> s.tasks[t].n, receipt |-> s.tasks[t].receipt]
    BY TaskIs
  <2>2. [s.tasks[t] EXCEPT !.status = v] = a
    BY <2>1
  <2> QED BY <2>2, StateIs
<1>4. a.status = v /\ a.n = s.tasks[t].n /\ a.receipt = s.tasks[t].receipt
  OBVIOUS
<1> HIDE DEF a, z
<1>5. /\ z \in States /\ DOMAIN z.tasks = DOMAIN s.tasks /\ z.evidence = s.evidence
      /\ z.tasks[t] = a /\ \A u \in DOMAIN s.tasks \ {t} : z.tasks[u] = s.tasks[u]
  <2> DEFINE w == With(s, t, a, s.evidence)
  <2>1. /\ w \in States /\ DOMAIN w.tasks = DOMAIN s.tasks /\ w.evidence = s.evidence
        /\ w.tasks[t] = a /\ \A u \in DOMAIN s.tasks \ {t} : w.tasks[u] = s.tasks[u]
    BY <1>1, <1>2, TaskSet
  <2> HIDE DEF w
  <2>2. z = w
    BY <1>3 DEF w, With
  <2> QED BY <2>1, <2>2
<1> QED BY <1>4, <1>5 DEF z, Marked

\* dag retry ages the state.
LEMMA RetryKeeps == ASSUME PlanInv, NEW t \in Tasks, Retry(t) PROVE PlanInv'
<1>1. /\ Free /\ Readable /\ mishaps' \in Nat /\ t \in DOMAIN def.spec
      /\ st' = [st EXCEPT !.tasks[t].status = "pending"]
      /\ UNCHANGED <<scene, def, amending, migrating, receipts, log, cmd, runner, changes>>
  BY DEF Retry, Mishap, PlanInv
<1>2. st \in States /\ t \in DOMAIN st.tasks
  BY <1>1, ReadableIs DEF Readable
<1>3. Aged(st, st') /\ DOMAIN st'.tasks = DOMAIN st.tasks
  <2> DEFINE z == Marked(st, t, "pending")
  <2>1. /\ z \in States /\ DOMAIN z.tasks = DOMAIN st.tasks /\ z.evidence = st.evidence
        /\ z.tasks[t].status = "pending" /\ z.tasks[t].n = st.tasks[t].n /\ z.tasks[t].receipt = st.tasks[t].receipt
        /\ \A u \in DOMAIN st.tasks \ {t} : z.tasks[u] = st.tasks[u]
    BY <1>2, StatusSet
  <2> HIDE DEF z
  <2>2. st' = z
    BY <1>1 DEF z, Marked
  <2> QED BY <2>1, <2>2 DEF Aged
<1>4. CASE HalfAmended \/ HalfMigrated
  BY <1>1, <1>3, <1>4, HalfKeeps DEF Readable
<1>5. CASE Written
  <2>1. log' = IF amending = None THEN log
               ELSE [u \in Tasks |-> IF u \in {} THEN [log[u] EXCEPT !.last = "halt"] ELSE log[u]]
    BY <1>1 DEF PlanInv
  <2>2. {} \in SUBSET Running /\ runner' = FALSE
    BY <1>1 DEF Free, PlanInv
  <2> QED BY <1>1, <1>3, <1>5, <2>1, <2>2, AgedKeeps
<1> QED BY <1>1, <1>4, <1>5, ReadableFiles

\* What is loaded and requeued is the state, aged.
LEMMA RequeuedAged ==
    ASSUME PlanInv, Readable
    PROVE  LET s == Requeued(Run.st) IN
           /\ Aged(st, s) /\ DOMAIN s.tasks = DOMAIN def.spec
           /\ \A t \in DOMAIN s.tasks : s.tasks[t].status # "running"
<1> DEFINE f == [t \in DOMAIN def.spec |-> st.tasks[t]]
           r == Run.st
           s == Requeued(r)
<1>1. st \in States /\ r \in States /\ r = [st EXCEPT !.tasks = f] /\ DOMAIN def.spec \subseteq DOMAIN st.tasks
  BY ReadableIs DEF Readable
<1>2. r.tasks = f /\ r.evidence = st.evidence
  BY <1>1, StateIs
<1>3. DOMAIN r.tasks = DOMAIN def.spec /\ \A t \in DOMAIN def.spec : r.tasks[t] = st.tasks[t]
  BY <1>2
<1> HIDE DEF f, r
<1>4. /\ s \in States /\ DOMAIN s.tasks = DOMAIN r.tasks /\ s.evidence = r.evidence
      /\ \A t \in DOMAIN r.tasks :
            /\ s.tasks[t].n = r.tasks[t].n /\ s.tasks[t].receipt = r.tasks[t].receipt
            /\ r.tasks[t].status = "running" => s.tasks[t].status = "pending"
            /\ r.tasks[t].status # "running" => s.tasks[t].status = r.tasks[t].status
  BY <1>1, RequeuedIs
<1> HIDE DEF s
<1>5. Aged(st, s)
  <2> SUFFICES ASSUME NEW t \in DOMAIN s.tasks
               PROVE  /\ s.tasks[t].n = st.tasks[t].n /\ s.tasks[t].receipt = st.tasks[t].receipt
                      /\ s.tasks[t].status \in {st.tasks[t].status, "pending"}
    BY <1>1, <1>2, <1>3, <1>4 DEF Aged
  <2> QED BY <1>3, <1>4
<1>6. \A t \in DOMAIN s.tasks : s.tasks[t].status # "running"
  BY <1>4
<1> QED BY <1>3, <1>4, <1>5, <1>6 DEF s, r

\* To requeue what is loaded, and to record that it was halted, ages the state.
LEMMA HaltedKeeps ==
    ASSUME PlanInv, Readable, Free, st' = Requeued(Run.st),
           log' = IF amending = None THEN log
                  ELSE [t \in Tasks |-> IF t \in Running THEN [log[t] EXCEPT !.last = "halt"] ELSE log[t]],
           UNCHANGED <<scene, def, amending, migrating, receipts, cmd, runner, mishaps, changes>>
    PROVE  PlanInv'
<1>1. /\ Aged(st, st') /\ DOMAIN st'.tasks = DOMAIN def.spec /\ st # Damaged
      /\ \A t \in DOMAIN st'.tasks : st'.tasks[t].status # "running"
  BY RequeuedAged DEF Readable
<1>2. mishaps' \in Nat /\ runner' = FALSE
  BY DEF PlanInv, Free
<1>3. CASE HalfAmended \/ HalfMigrated
  <2>1. Running = {}
    BY <1>1, <1>3, HalfStill DEF Running
  <2>2. log' = log
    BY <2>1 DEF PlanInv
  <2> QED BY <1>1, <1>2, <1>3, <2>2, HalfKeeps
<1>4. CASE Written
  <2>1. DOMAIN st'.tasks = DOMAIN st.tasks
    BY <1>1, <1>4, LoadedIs DEF Written
  <2>2. \A t \in Running : st'.tasks[t].status # "running"
    BY <1>1, <2>1 DEF Running
  <2> QED BY <1>1, <1>2, <1>4, <2>1, <2>2, AgedKeeps
<1> QED BY <1>3, <1>4, ReadableFiles

\* dag resume only requeues.
LEMMA RecoverKeeps == ASSUME PlanInv, Recover PROVE PlanInv'
<1>1. /\ Readable /\ Free /\ st' = Requeued(Run.st)
      /\ log' = IF amending = None THEN log
                ELSE [t \in Tasks |-> IF t \in Running THEN [log[t] EXCEPT !.last = "halt"] ELSE log[t]]
      /\ UNCHANGED <<scene, def, amending, migrating, receipts, cmd, runner, mishaps, changes>>
  BY DEF Recover, Logged, bounds
<1> QED BY <1>1, HaltedKeeps

\* While the runner is up the files are whole.
LEMMA RunnerIs ==
    ASSUME PlanInv, runner
    PROVE  /\ Readable /\ ~Interrupted /\ Written /\ cmd = Idle
           /\ st \in States /\ def \in Defs /\ Sound(receipts, def, st)
           /\ DOMAIN st.tasks = DOMAIN def.spec /\ DOMAIN st.tasks \subseteq Tasks
           /\ Run = [def |-> def, st |-> st] /\ st # Damaged
<1>1. Written /\ ~Interrupted /\ st # Damaged /\ cmd = Idle
  BY DEF PlanInv, Steady, Files, Unwritten, HalfWritten, Untouched, HalfAmended, HalfMigrated
<1>2. Readable
  <2>1. Sound(receipts, def, st) /\ def \in Defs
    BY <1>1 DEF Written
  <2> QED BY <2>1, DefIs, StateIs DEF Readable, Sound, Shaped
<1> QED BY <1>1, <1>2, LoadedIs, StateIs

\* So does the end of a run.
LEMMA EndKeeps == ASSUME PlanInv, End PROVE PlanInv'
<1>1. /\ runner /\ runner' = FALSE /\ st' = Requeued(st)
      /\ log' = IF amending = None THEN log
                ELSE [t \in Tasks |-> IF t \in Running THEN [log[t] EXCEPT !.last = "halt"] ELSE log[t]]
      /\ UNCHANGED <<scene, def, amending, migrating, receipts, cmd, mishaps, changes>>
  BY DEF End, Logged, bounds
<1>2. /\ Readable /\ Written /\ DOMAIN st.tasks = DOMAIN def.spec /\ Run.st = st
  BY <1>1, RunnerIs
<1>3. /\ Aged(st, st') /\ DOMAIN st'.tasks = DOMAIN st.tasks
      /\ \A t \in DOMAIN st'.tasks : st'.tasks[t].status # "running"
  BY <1>1, <1>2, RequeuedAged
<1>4. mishaps' \in Nat /\ \A t \in Running : st'.tasks[t].status # "running"
  BY <1>1, <1>3 DEF PlanInv, Running
<1> QED BY <1>1, <1>2, <1>3, <1>4, AgedKeeps

-----------------------------------------------------------------------------
(* The runner's steps.                                                     *)

\* An event of one task leaves what the others' events say.
LEMMA EntryKeeps ==
    ASSUME PlanInv, runner, NEW t \in DOMAIN st.tasks, amending # None, ~Validated(amending),
           DOMAIN st'.tasks = DOMAIN st.tasks, \A u \in DOMAIN st.tasks \ {t} : st'.tasks[u] = st.tasks[u],
           receipts \subseteq receipts', Amending(receipts)',
           \A u \in Tasks : Settled(receipts', amending.base.st, u) <=> Settled(receipts, amending.base.st, u),
           \A u \in Tasks \ {t} : log'[u] = log[u],
           Told(t) => Told(t)', Recounted(t)', Followed(t)',
           UNCHANGED <<def, amending, migrating, cmd>>
    PROVE  Events'
<1>1. /\ cmd = Idle /\ ~Validated(migrating) /\ def = Amended(amending.base, amending.rev).def
      /\ \A u \in Tasks : Recounted(u)
      /\ \A u \in DOMAIN st.tasks : Followed(u) /\ u \in Tasks
  BY RunnerIs DEF PlanInv, Events
<1>2. \A u \in Tasks \ {t} : BaseN(u)' = BaseN(u) /\ Reached(u)' = Reached(u) /\ (Told(u)' <=> Told(u))
  BY DEF BaseN, Reached, Told
<1>3. ASSUME NEW u \in Tasks, u # t PROVE Recounted(u)'
  <2>1. Recounted(u)
    BY <1>1
  <2>2. ASSUME log[u].last = "done" PROVE \A w \in Deps(def.plan, u) : Told(w)'
    <3>1. \A w \in Deps(def.plan, u) : w \in Tasks /\ Told(w)
      BY <2>1, <2>2, CommittedIs DEF Recounted
    <3> QED BY <3>1, <1>2
  <2> QED BY <2>1, <2>2, <1>2, <1>3 DEF Recounted
<1>4. ASSUME NEW u \in DOMAIN st.tasks, u # t PROVE Followed(u)'
  <2>1. Followed(u) /\ u \in Tasks \ {t}
    BY <1>1, <1>4
  <2>2. Settled(receipts, st, u) => Settled(receipts', st', u)
    BY <1>4 DEF Settled
  <2> QED BY <2>1, <2>2, <1>2, <1>4 DEF Followed
<1> QED BY <1>1, <1>3, <1>4 DEF Events

\* Nor does it change what the runner knows of the others.
LEMMA SteadyKeeps ==
    ASSUME PlanInv, runner, NEW t \in DOMAIN st.tasks, st' \in States,
           DOMAIN st'.tasks = DOMAIN st.tasks, \A u \in DOMAIN st.tasks \ {t} : st'.tasks[u] = st.tasks[u],
           receipts \subseteq receipts',
           \A u \in DOMAIN st.tasks \ {t} : Settled(receipts', st', u) <=> Settled(receipts, st, u),
           st.tasks[t].status # "completed", Manned(t)',
           UNCHANGED <<def, amending, migrating, cmd, runner>>
    PROVE  Steady'
<1>1. cmd = Idle /\ ~Interrupted /\ def # None /\ \A u \in DOMAIN st.tasks : Manned(u)
  BY DEF PlanInv, Steady
<1>2. st' # Damaged
  BY StateIs
<1>3. ASSUME NEW u \in DOMAIN st.tasks, u # t PROVE Manned(u)'
  <2>1. Manned(u) /\ st'.tasks[u] = st.tasks[u]
    BY <1>1, <1>3
  <2>2. DepsOf(u)' = DepsOf(u) /\ Published(u)' = Published(u)
    BY <2>1 DEF DepsOf, Published, Current
  <2>3. \A d : Completed(st, d) => Completed(st', d)
    BY DEF Completed
  <2>4. Settled(receipts', st', u) <=> Settled(receipts, st, u)
    BY <1>3
  <2> QED BY <2>1, <2>2, <2>3, <2>4 DEF Manned
<1> QED BY <1>1, <1>2, <1>3 DEF Steady, Interrupted

\* How one task of a state is changed.
LEMMA Edited ==
    ASSUME NEW s \in States, NEW t \in DOMAIN s.tasks, NEW v
    PROVE  /\ [s EXCEPT !.tasks[t].status = v, !.tasks[t].n = @ + 1]
                = With(s, t, [status |-> v, n |-> s.tasks[t].n + 1, receipt |-> s.tasks[t].receipt], s.evidence)
           /\ [s EXCEPT !.tasks[t].receipt = s.tasks[t].n]
                = With(s, t, [status |-> s.tasks[t].status, n |-> s.tasks[t].n, receipt |-> s.tasks[t].n], s.evidence)
<1> DEFINE a == s.tasks[t]
<1>1. a = [status |-> a.status, n |-> a.n, receipt |-> a.receipt]
  BY TaskIs
<1>2. \A f : [s EXCEPT !.tasks = f] = [s EXCEPT !.tasks = f, !.evidence = s.evidence]
  BY StateIs
<1>3. \A b : [s EXCEPT !.tasks[t] = b] = With(s, t, b, s.evidence)
  BY <1>2 DEF With
<1>4. [s EXCEPT !.tasks[t].status = v, !.tasks[t].n = @ + 1] = [s EXCEPT !.tasks[t] = [a EXCEPT !.status = v, !.n = @ + 1]]
  <2> DEFINE m == [s EXCEPT !.tasks[t] = [a EXCEPT !.status = v]]
             b == [a EXCEPT !.status = v]
  <2>1. [s EXCEPT !.tasks[t].status = v, !.tasks[t].n = @ + 1] = [m EXCEPT !.tasks[t].n = @ + 1]
    BY StateIs
  <2>2. m.tasks[t] = b
    BY StateIs
  <2> HIDE DEF b, m
  <2>3. [m EXCEPT !.tasks[t].n = @ + 1] = [m EXCEPT !.tasks[t] = [b EXCEPT !.n = @ + 1]]
    BY <2>2
  <2>4. \A x : [m EXCEPT !.tasks[t] = x] = [s EXCEPT !.tasks[t] = x]
    BY StateIs DEF m
  <2>5. [b EXCEPT !.n = @ + 1] = [a EXCEPT !.status = v, !.n = @ + 1]
    BY DEF b
  <2> QED BY <2>1, <2>3, <2>4, <2>5
<1>5. [s EXCEPT !.tasks[t].receipt = a.n] = [s EXCEPT !.tasks[t] = [a EXCEPT !.receipt = a.n]]
  BY StateIs
<1> HIDE DEF a
<1>7. /\ [a EXCEPT !.status = v, !.n = @ + 1] = [status |-> v, n |-> a.n + 1, receipt |-> a.receipt]
      /\ [a EXCEPT !.receipt = a.n] = [status |-> a.status, n |-> a.n, receipt |-> a.n]
      /\ [a EXCEPT !.status = v] = [status |-> v, n |-> a.n, receipt |-> a.receipt]
  <2>1. PICK A, N, R : a = [status |-> A, n |-> N, receipt |-> R]
    BY <1>1
  <2>2. a.status = A /\ a.n = N /\ a.receipt = R
    BY <2>1
  <2>3. \A x : [a EXCEPT !.status = v, !.n = x] = [status |-> v, n |-> x, receipt |-> R]
    <3> DEFINE b == [a EXCEPT !.status = v]
    <3>1. b = [status |-> v, n |-> N, receipt |-> R]
      BY <2>1
    <3>2. \A x : [a EXCEPT !.status = v, !.n = x] = [b EXCEPT !.n = x]
      OBVIOUS
    <3> HIDE DEF b
    <3>3. \A x : [b EXCEPT !.n = x] = [status |-> v, n |-> x, receipt |-> R]
      BY <3>1
    <3> QED BY <3>2, <3>3
  <2>5. \A x : [a EXCEPT !.receipt = x] = [status |-> A, n |-> N, receipt |-> x]
    BY <2>1
  <2>4. [a EXCEPT !.status = v] = [status |-> v, n |-> N, receipt |-> R]
    BY <2>1
  <2> QED BY <2>2, <2>3, <2>4, <2>5
<1> QED BY <1>3, <1>4, <1>5, <1>7 DEF a

Judging(s, t, v, e) == [s EXCEPT !.tasks[t].status = v, !.evidence = e]

\* A status with a verdict is a change of one task and of the evidence.
LEMMA Judges ==
    ASSUME NEW s \in States, NEW t \in DOMAIN s.tasks, NEW v, NEW e
    PROVE  Judging(s, t, v, e) = With(s, t, [status |-> v, n |-> s.tasks[t].n, receipt |-> s.tasks[t].receipt], e)
<1> DEFINE a == s.tasks[t]
<1>1. [s EXCEPT !.tasks[t].status = v, !.evidence = e] = With(s, t, [a EXCEPT !.status = v], e)
  BY StateIs DEF With
<1>5. a = [status |-> a.status, n |-> a.n, receipt |-> a.receipt]
  BY TaskIs
<1> HIDE DEF a
<1>2. PICK A, N, R : a = [status |-> A, n |-> N, receipt |-> R]
  BY <1>5
<1>3. a.n = N /\ a.receipt = R
  BY <1>2
<1>4. [a EXCEPT !.status = v] = [status |-> v, n |-> N, receipt |-> R]
  BY <1>2
<1> QED BY <1>1, <1>3, <1>4 DEF a, Judging

\* What a dispatch changes of the state.
LEMMA DispatchSets ==
    ASSUME PlanInv, NEW t \in Tasks, Dispatch(t)
    PROVE  /\ st' \in States /\ DOMAIN st'.tasks = DOMAIN st.tasks /\ st'.evidence = st.evidence
           /\ st'.tasks[t].status = "running" /\ st'.tasks[t].n = st.tasks[t].n + 1
           /\ st'.tasks[t].receipt = st.tasks[t].receipt
           /\ \A u \in DOMAIN st.tasks \ {t} : st'.tasks[u] = st.tasks[u]
<1>1. runner /\ t \in DOMAIN st.tasks
  BY DEF Dispatch, Current
<1>2. st \in States
  BY <1>1, RunnerIs
<1>3. /\ st' \in States /\ DOMAIN st'.tasks = DOMAIN st.tasks /\ st'.evidence = st.evidence
      /\ st'.tasks[t].status = "running" /\ st'.tasks[t].n = st.tasks[t].n + 1
      /\ st'.tasks[t].receipt = st.tasks[t].receipt
      /\ \A u \in DOMAIN st.tasks \ {t} : st'.tasks[u] = st.tasks[u]
  <2> DEFINE a == [status |-> "running", n |-> st.tasks[t].n + 1, receipt |-> st.tasks[t].receipt]
             e == st.evidence
  <2>1. st' = [st EXCEPT !.tasks[t].status = "running", !.tasks[t].n = @ + 1]
    BY DEF Dispatch
  <2>2. [st EXCEPT !.tasks[t].status = "running", !.tasks[t].n = @ + 1] = With(st, t, a, e)
    BY <1>1, <1>2, Edited
  <2>3. a \in Records /\ e \in SUBSET Verdicts
    BY <1>1, <1>2, TaskIs, StateIs DEF Records
  <2>4. a.status = "running" /\ a.n = st.tasks[t].n + 1 /\ a.receipt = st.tasks[t].receipt /\ e = st.evidence
    OBVIOUS
  <2> HIDE DEF a, e
  <2> DEFINE z == With(st, t, a, e)
  <2>5. /\ z \in States /\ DOMAIN z.tasks = DOMAIN st.tasks /\ z.evidence = e
        /\ z.tasks[t] = a /\ \A u \in DOMAIN st.tasks \ {t} : z.tasks[u] = st.tasks[u]
    BY <1>1, <1>2, <2>3, TaskSet
  <2>6. st' = z
    BY <2>1, <2>2
  <2> HIDE DEF z
  <2> QED BY <2>4, <2>5, <2>6
<1> QED BY <1>3

\* A dispatch begins an attempt that nothing is known of, after what it waits for.
LEMMA DispatchKeeps == ASSUME PlanInv, NEW t \in Tasks, Dispatch(t) PROVE PlanInv'
<1>1. /\ runner /\ t \in DOMAIN st.tasks /\ st.tasks[t].status = "pending"
      /\ \A d \in DepsOf(t) : Completed(st, d)
      /\ UNCHANGED <<scene, def, amending, migrating, receipts, cmd, runner, mishaps, changes>>
  BY DEF Dispatch, Current, Completed, bounds
<1>2. /\ Readable /\ ~Interrupted /\ Written /\ cmd = Idle
      /\ st \in States /\ def \in Defs /\ Sound(receipts, def, st)
      /\ DOMAIN st.tasks = DOMAIN def.spec /\ DOMAIN st.tasks \subseteq Tasks /\ st # Damaged
  BY <1>1, RunnerIs
<1>3. /\ st' \in States /\ DOMAIN st'.tasks = DOMAIN st.tasks /\ st'.evidence = st.evidence
      /\ st'.tasks[t].status = "running" /\ st'.tasks[t].n = st.tasks[t].n + 1
      /\ st'.tasks[t].receipt = st.tasks[t].receipt
      /\ \A u \in DOMAIN st.tasks \ {t} : st'.tasks[u] = st.tasks[u]
  BY DispatchSets
<1>4. /\ st.tasks[t].n \in Nat /\ st.tasks[t].receipt \in Nat /\ st.tasks[t].receipt <= st.tasks[t].n
  BY <1>1, <1>2, TaskIs DEF Sound, Shaped
<1>5. ~Settled(receipts, st, t) /\ ~Settled(receipts, st', t) /\ t \notin def.imports
  BY <1>1, <1>3, <1>4 DEF PlanInv, Steady, Manned, Settled
<1>6. \A u : Settled(receipts, st', u) <=> Settled(receipts, st, u)
  BY <1>3, <1>5 DEF Settled
<1>7. Sound(receipts, def, st')
  <2>1. def.plan = None => st'.evidence = {}
    BY <1>2, <1>3 DEF Sound, Shaped
  <2>2. \A u \in DOMAIN st.tasks : st'.tasks[u].receipt <= st'.tasks[u].n
    BY <1>2, <1>3, <1>4 DEF Sound, Shaped
  <2>3. \A u \in DOMAIN st.tasks : Settled(receipts, st, u) => st'.tasks[u].n = st.tasks[u].n
    BY <1>3, <1>5
  <2>4. \A u \in def.imports : u \in DOMAIN st.tasks \ {t}
    BY <1>2, <1>5 DEF Sound, Shaped
  <2>5. \A u \in def.imports :
           /\ st'.tasks[u].status \in {"completed", "pending"}
           /\ st'.tasks[u].status = "completed" =>
                 st.tasks[u].status = "completed" /\ \A e \in st'.evidence : e.crit \notin Owned(def.plan, u)
    BY <1>2, <1>3, <2>4 DEF Sound, Imported
  <2>6. \A u \in DOMAIN st.tasks \ def.imports :
           st'.tasks[u].status = "completed" => Settled(receipts, st, u) /\ Earned(receipts, st, def.plan, u)
    BY <1>2, <1>3 DEF Sound, Delivered
  <2> QED BY <1>2, <1>3, <1>6, <2>1, <2>2, <2>3, <2>5, <2>6, SoundChange
<1>8. Written'
  BY <1>1, <1>2, <1>7 DEF Written, Interrupted
<1>9. Steady'
  <2>1. DepsOf(t)' = DepsOf(t)
    BY <1>1 DEF DepsOf
  <2>2. \A d \in DepsOf(t) : Completed(st', d)
    BY <1>1, <1>3 DEF Completed
  <2>3. Manned(t)'
    BY <1>1, <1>3, <1>4, <1>5, <2>1, <2>2 DEF Manned
  <2> QED BY <1>1, <1>3, <1>6, <2>3, SteadyKeeps
<1>10. log' = IF amending = None THEN log
              ELSE [log EXCEPT ![t] = [last |-> "start", top |-> st.tasks[t].n + 1]]
  BY DEF Dispatch, Logged, Entry, Current
<1>11. log' \in [Tasks -> Entries]
  BY <1>4, <1>10 DEF PlanInv, Entries
<1>12. Events'
  <2>1. CASE amending = None
    BY <2>1, <1>1, <1>10 DEF PlanInv, Events
  <2>2. CASE amending # None
    <3>1. ~Validated(amending)
      BY <1>2 DEF Interrupted
    <3>2. Recounted(t) /\ Followed(t) /\ Amending(receipts)
      BY <2>2, <3>1, <1>1, <1>2 DEF PlanInv, Events
    <3>3. ~Told(t)
      BY <3>2, <1>5 DEF Followed
    <3>4. log'[t].last = "start" /\ log'[t].top = st.tasks[t].n + 1 /\ \A u \in Tasks \ {t} : log'[u] = log[u]
      BY <2>2, <1>10 DEF PlanInv
    <3>5. BaseN(t)' = BaseN(t) /\ BaseN(t) \in Nat /\ BaseN(t) <= st.tasks[t].n
      <4>1. BaseN(t)' = BaseN(t)
        BY <1>1 DEF BaseN
      <4>2. BaseN(t) \in Nat
        BY <3>2, AmendingIs, TaskIs DEF BaseN
      <4>3. log[t].top \in Nat
        BY DEF PlanInv, Entries
      <4> QED BY <4>1, <4>2, <4>3, <3>2 DEF Followed, Reached
    <3>6. Reached(t)' = st.tasks[t].n + 1
      BY <3>4, <3>5, <1>4 DEF Reached
    <3>7. ~Settled(receipts, amending.base.st, t)
      BY <3>2, <3>3 DEF Recounted, Told
    <3>8. Recounted(t)'
      BY <3>4, <3>5, <3>7, <1>1, <1>4, <1>5 DEF Recounted
    <3>9. Followed(t)'
      BY <3>4, <3>6, <1>3 DEF Followed, Told
    <3>10. Amending(receipts)'
      BY <3>2, <1>1 DEF Amending
    <3> QED BY <1>1, <1>3, <2>2, <3>1, <3>3, <3>4, <3>8, <3>9, <3>10, EntryKeeps
  <2> QED BY <2>1, <2>2
<1> QED BY <1>1, <1>2, <1>8, <1>9, <1>11, <1>12 DEF PlanInv, Files, Interrupted

\* What is known of a task that runs.
LEMMA RunningIs ==
    ASSUME PlanInv, runner, NEW t \in Running
    PROVE  /\ Readable /\ ~Interrupted /\ Written /\ cmd = Idle
           /\ st \in States /\ def \in Defs /\ Sound(receipts, def, st)
           /\ DOMAIN st.tasks = DOMAIN def.spec /\ DOMAIN st.tasks \subseteq Tasks /\ st # Damaged
           /\ t \in DOMAIN st.tasks /\ st.tasks[t].status = "running" /\ t \notin def.imports
           /\ st.tasks[t].n \in Nat /\ st.tasks[t].n >= 1 /\ st.tasks[t].receipt <= st.tasks[t].n
           /\ st.tasks[t].receipt = st.tasks[t].n => t \in Landing
           /\ t \notin Landing => ~Settled(receipts, st, t)
           /\ \A u \in DepsOf(t) : Completed(st, u)
<1>1. t \in DOMAIN st.tasks /\ st.tasks[t].status = "running"
  BY DEF Running
<1>2. Manned(t)
  BY <1>1 DEF PlanInv, Steady
<1>3. st.tasks[t].receipt = st.tasks[t].n => t \in Landing
  BY <1>1, <1>2 DEF Manned, Landing, Current
<1>4. t \notin def.imports /\ st.tasks[t].n >= 1 /\ \A u \in DepsOf(t) : Completed(st, u)
  BY <1>1, <1>2 DEF Manned
<1>5. t \notin Landing => ~Settled(receipts, st, t)
  BY <1>3 DEF Settled
<1>6. st.tasks[t].n \in Nat /\ st.tasks[t].receipt <= st.tasks[t].n
  BY <1>1, RunnerIs, TaskIs DEF Sound, Shaped
<1> QED BY <1>1, <1>3, <1>4, <1>5, <1>6, RunnerIs

\* A failed attempt was not published.
LEMMA FailKeeps == ASSUME PlanInv, NEW t \in Tasks, Fail(t) PROVE PlanInv'
<1>1. PICK again \in BOOLEAN :
         /\ st' = [st EXCEPT !.tasks[t].status = IF again THEN "pending" ELSE "failed"]
         /\ Logged(IF again THEN log ELSE Entry(t, "fail"))
  BY DEF Fail
<1>2. /\ runner /\ Landing = {} /\ t \in Running
      /\ UNCHANGED <<scene, def, amending, migrating, receipts, cmd, runner, mishaps, changes>>
  BY DEF Fail, bounds
<1>3. /\ Readable /\ ~Interrupted /\ Written /\ cmd = Idle
      /\ st \in States /\ def \in Defs /\ Sound(receipts, def, st)
      /\ DOMAIN st.tasks = DOMAIN def.spec /\ DOMAIN st.tasks \subseteq Tasks /\ st # Damaged
      /\ t \in DOMAIN st.tasks /\ st.tasks[t].status = "running" /\ t \notin def.imports
      /\ ~Settled(receipts, st, t)
  BY <1>2, RunningIs
<1> DEFINE v == IF again THEN "pending" ELSE "failed"
<1>4. v \in {"pending", "running", "completed", "failed"} /\ v # "completed" /\ v # "running"
  OBVIOUS
<1> HIDE DEF v
<1>5. /\ st' \in States /\ DOMAIN st'.tasks = DOMAIN st.tasks /\ st'.evidence = st.evidence
      /\ st'.tasks[t].status = v /\ st'.tasks[t].n = st.tasks[t].n
      /\ st'.tasks[t].receipt = st.tasks[t].receipt
      /\ \A u \in DOMAIN st.tasks \ {t} : st'.tasks[u] = st.tasks[u]
  <2>1. st' = Marked(st, t, v)
    BY <1>1 DEF Marked, v
  <2> QED BY <2>1, <1>3, <1>4, StatusSet
<1>6. \A u : Settled(receipts, st', u) <=> Settled(receipts, st, u)
  BY <1>3, <1>5 DEF Settled
<1>7. Sound(receipts, def, st')
  <2>1. def.plan = None => st'.evidence = {}
    BY <1>3, <1>5 DEF Sound, Shaped
  <2>2. \A u \in DOMAIN st.tasks : st'.tasks[u].receipt <= st'.tasks[u].n /\ st'.tasks[u].n = st.tasks[u].n
    BY <1>3, <1>5 DEF Sound, Shaped
  <2>4. \A u \in def.imports : u \in DOMAIN st.tasks \ {t}
    BY <1>3, <1>5 DEF Sound, Shaped
  <2>5. \A u \in def.imports :
           /\ st'.tasks[u].status \in {"completed", "pending"}
           /\ st'.tasks[u].status = "completed" =>
                 st.tasks[u].status = "completed" /\ \A e \in st'.evidence : e.crit \notin Owned(def.plan, u)
    BY <1>3, <1>5, <2>4 DEF Sound, Imported
  <2>6. \A u \in DOMAIN st.tasks \ def.imports :
           st'.tasks[u].status = "completed" => Settled(receipts, st, u) /\ Earned(receipts, st, def.plan, u)
    BY <1>3, <1>4, <1>5 DEF Sound, Delivered
  <2> QED BY <1>3, <1>5, <1>6, <2>1, <2>2, <2>5, <2>6, SoundChange
<1>8. Written'
  BY <1>2, <1>3, <1>7 DEF Written, Interrupted
<1>9. Steady'
  <2>1. Manned(t)'
    BY <1>2, <1>3, <1>4, <1>5, <1>6 DEF Manned
  <2> QED BY <1>2, <1>3, <1>5, <1>6, <2>1, SteadyKeeps
<1>10. log' = IF amending = None \/ again THEN log
              ELSE [log EXCEPT ![t] = [last |-> "fail", top |-> log[t].top]]
  BY <1>1 DEF Logged, Entry
<1>11. log' \in [Tasks -> Entries]
  BY <1>10 DEF PlanInv, Entries
<1>12. Events'
  <2>1. CASE amending = None
    BY <2>1, <1>2, <1>10 DEF PlanInv, Events
  <2>2. CASE amending # None
    <3>1. ~Validated(amending)
      BY <1>3 DEF Interrupted
    <3>2. Recounted(t) /\ Followed(t) /\ Amending(receipts)
      BY <2>2, <3>1, <1>2, <1>3 DEF PlanInv, Events
    <3>3. ~Told(t) /\ log[t].last = "start"
      BY <3>2, <1>3 DEF Followed
    <3>4. /\ log'[t].last \in {"start", "fail"} /\ log'[t].top = log[t].top
          /\ \A u \in Tasks \ {t} : log'[u] = log[u]
      BY <2>2, <3>3, <1>10 DEF PlanInv
    <3>5. BaseN(t)' = BaseN(t) /\ Reached(t)' = Reached(t)
      BY <1>2, <3>4 DEF BaseN, Reached
    <3>6. ~Told(t)' /\ ~Settled(receipts, amending.base.st, t)
      BY <3>2, <3>3, <3>4 DEF Told, Recounted
    <3>7. Recounted(t)'
      BY <1>2, <1>3, <3>2, <3>3, <3>4, <3>5, <3>6 DEF Recounted
    <3>8. Followed(t)'
      BY <1>4, <1>5, <3>2, <3>5, <3>6 DEF Followed
    <3>9. Amending(receipts)'
      BY <3>2, <1>2 DEF Amending
    <3> QED BY <1>2, <1>3, <1>5, <2>2, <3>1, <3>3, <3>4, <3>7, <3>8, <3>9, EntryKeeps
  <2> QED BY <2>1, <2>2
<1> QED BY <1>2, <1>3, <1>8, <1>9, <1>11, <1>12 DEF PlanInv, Files, Interrupted

\* The verdicts a completed task leaves are of its own criteria.
LEMMA RecordedIs ==
    ASSUME NEW e \in SUBSET Verdicts, def \in Defs, NEW t \in Tasks, NEW n \in Nat
    PROVE  /\ Recorded(e, t, n) \in SUBSET Verdicts
           /\ def.plan = None => Recorded(e, t, n) = e
           /\ \A x \in Recorded(e, t, n) : x \in e \/ (x.crit \in Owned(def.plan, t) /\ x.by = t /\ x.n = n /\ x.rev = def.plan)
<1> DEFINE p == def.plan
           made == {[crit |-> c, by |-> t, n |-> n, rev |-> p] : c \in Owned(p, t)}
<1>1. CASE p = None
  BY <1>1 DEF Recorded
<1>2. CASE p # None
  <2>1. p \in Revisions
    BY <1>2, DefIs
  <2>2. Recorded(e, t, n) = {x \in e : x.crit \notin Owned(p, t)} \cup made
    BY <1>2 DEF Recorded
  <2>3. ASSUME NEW x \in made
        PROVE  x \in Verdicts /\ x.crit \in Owned(p, t) /\ x.by = t /\ x.n = n /\ x.rev = p
    <3>1. PICK c \in Owned(p, t) : x = [crit |-> c, by |-> t, n |-> n, rev |-> p]
      BY <2>3
    <3>2. c \in UNION {Crits(q) : q \in Revisions}
      BY <2>1 DEF Owned
    <3> HIDE DEF p
    <3> QED BY <3>1, <3>2, <2>1 DEF Verdicts
  <2> HIDE DEF p, made
  <2>4. Recorded(e, t, n) \in SUBSET Verdicts
    BY <2>2, <2>3
  <2>5. \A x \in Recorded(e, t, n) : x \in e \/ (x.crit \in Owned(p, t) /\ x.by = t /\ x.n = n /\ x.rev = p)
    BY <2>2, <2>3
  <2> QED BY <1>2, <2>4, <2>5 DEF p
<1> QED BY <1>1, <1>2

\* What a completion changes of the state.
LEMMA CompleteSets ==
    ASSUME PlanInv, NEW t \in Tasks, Complete(t)
    PROVE  /\ st' \in States /\ DOMAIN st'.tasks = DOMAIN st.tasks
           /\ st'.evidence = Recorded(st.evidence, t, st.tasks[t].n)
           /\ st'.tasks[t].status = "completed" /\ st'.tasks[t].n = st.tasks[t].n
           /\ st'.tasks[t].receipt = st.tasks[t].receipt
           /\ \A u \in DOMAIN st.tasks \ {t} : st'.tasks[u] = st.tasks[u]
<1> DEFINE e == Recorded(st.evidence, t, st.tasks[t].n)
<1>1. /\ runner /\ t \in Running
      /\ st' = [st EXCEPT !.tasks[t].status = "completed", !.evidence = e]
  BY DEF Complete, Current, Landing
<1>2. /\ st \in States /\ def \in Defs /\ t \in Tasks /\ t \in DOMAIN st.tasks /\ st.tasks[t].n \in Nat
      /\ st.evidence \in SUBSET Verdicts
  BY <1>1, RunningIs, StateIs
<1>3. e \in SUBSET Verdicts
  BY <1>2, RecordedIs
<1> HIDE DEF e
<1>4. /\ st' \in States /\ DOMAIN st'.tasks = DOMAIN st.tasks /\ st'.evidence = e
      /\ st'.tasks[t].status = "completed" /\ st'.tasks[t].n = st.tasks[t].n
      /\ st'.tasks[t].receipt = st.tasks[t].receipt
      /\ \A u \in DOMAIN st.tasks \ {t} : st'.tasks[u] = st.tasks[u]
  <2> DEFINE a == [status |-> "completed", n |-> st.tasks[t].n, receipt |-> st.tasks[t].receipt]
  <2>1. Judging(st, t, "completed", e) = With(st, t, a, e)
    BY <1>2, Judges
  <2>2. a \in Records
    BY <1>2, TaskIs DEF Records
  <2>3. a.status = "completed" /\ a.n = st.tasks[t].n /\ a.receipt = st.tasks[t].receipt
    OBVIOUS
  <2> HIDE DEF a
  <2> DEFINE z == With(st, t, a, e)
  <2>4. /\ z \in States /\ DOMAIN z.tasks = DOMAIN st.tasks /\ z.evidence = e
        /\ z.tasks[t] = a /\ \A u \in DOMAIN st.tasks \ {t} : z.tasks[u] = st.tasks[u]
    BY <1>2, <1>3, <2>2, TaskSet
  <2>5. st' = z
    BY <1>1, <2>1 DEF Judging
  <2> HIDE DEF z
  <2> QED BY <2>3, <2>4, <2>5
<1> QED BY <1>4 DEF e

\* A completion records what was published for what the manifest asks.
LEMMA CompleteKeeps == ASSUME PlanInv, NEW t \in Tasks, Complete(t) PROVE PlanInv'
<1> DEFINE e == Recorded(st.evidence, t, st.tasks[t].n)
<1>1. /\ runner /\ t \in Landing /\ t \in Running
      /\ st' = [st EXCEPT !.tasks[t].status = "completed", !.evidence = e]
      /\ Logged(Entry(t, "done"))
      /\ UNCHANGED <<scene, def, amending, migrating, receipts, cmd, runner, mishaps, changes>>
  BY DEF Complete, bounds, Current, Landing
<1>2. /\ Readable /\ ~Interrupted /\ Written /\ cmd = Idle
      /\ st \in States /\ def \in Defs /\ Sound(receipts, def, st)
      /\ DOMAIN st.tasks = DOMAIN def.spec /\ DOMAIN st.tasks \subseteq Tasks /\ st # Damaged
      /\ t \in DOMAIN st.tasks /\ st.tasks[t].status = "running" /\ t \notin def.imports
      /\ st.tasks[t].n \in Nat /\ st.tasks[t].n >= 1
      /\ \A u \in DepsOf(t) : Completed(st, u)
  BY <1>1, RunningIs
<1>3. st.tasks[t].receipt = st.tasks[t].n /\ Published(t) \in receipts
  BY <1>1 DEF Landing, Current
<1>4. Published(t).by = t /\ Published(t).n = st.tasks[t].n /\ Published(t).rev = def.plan
  BY DEF Published, Current
<1>5. st.evidence \in SUBSET Verdicts
  BY <1>2, StateIs
<1>6. /\ e \in SUBSET Verdicts /\ (def.plan = None => e = st.evidence)
      /\ \A x \in e : x \in st.evidence \/ x.crit \in Owned(def.plan, t)
  BY <1>2, <1>5, RecordedIs
<1> HIDE DEF e
<1>7. /\ st' \in States /\ DOMAIN st'.tasks = DOMAIN st.tasks /\ st'.evidence = e
      /\ st'.tasks[t].status = "completed" /\ st'.tasks[t].n = st.tasks[t].n
      /\ st'.tasks[t].receipt = st.tasks[t].receipt
      /\ \A u \in DOMAIN st.tasks \ {t} : st'.tasks[u] = st.tasks[u]
  BY CompleteSets DEF e
<1>8. Settled(receipts, st, t) /\ Earned(receipts, st, def.plan, t)
  <2>1. Settled(receipts, st, t)
    BY <1>2, <1>3, <1>4 DEF Settled
  <2>2. Same(def.plan, def.plan, t)
    BY <1>2 DEF Same, Sound, Shaped
  <2> QED BY <2>1, <2>2, <1>3, <1>4 DEF Earned
<1>9. \A u : Settled(receipts, st', u) <=> Settled(receipts, st, u)
  BY <1>2, <1>7 DEF Settled
<1>10. Sound(receipts, def, st')
  <2>1. def.plan = None => st'.evidence = {}
    BY <1>2, <1>6, <1>7 DEF Sound, Shaped
  <2>2. \A u \in DOMAIN st.tasks : st'.tasks[u].receipt <= st'.tasks[u].n /\ st'.tasks[u].n = st.tasks[u].n
    BY <1>2, <1>7 DEF Sound, Shaped
  <2>3. \A u \in def.imports : u \in DOMAIN st.tasks \ {t}
    BY <1>2 DEF Sound, Shaped
  <2>4. ASSUME NEW u \in def.imports
        PROVE  /\ st'.tasks[u].status \in {"completed", "pending"}
               /\ st'.tasks[u].status = "completed" =>
                     st.tasks[u].status = "completed" /\ \A x \in st'.evidence : x.crit \notin Owned(def.plan, u)
    <3>1. \A c : ~(c \in Owned(def.plan, t) /\ c \in Owned(def.plan, u))
      BY <2>3 DEF Owned
    <3> QED BY <1>2, <1>6, <1>7, <2>3, <3>1 DEF Sound, Imported
  <2>5. \A u \in DOMAIN st.tasks \ def.imports :
           st'.tasks[u].status = "completed" => Settled(receipts, st, u) /\ Earned(receipts, st, def.plan, u)
    BY <1>2, <1>7, <1>8 DEF Sound, Delivered
  <2> QED BY <1>2, <1>7, <1>9, <2>1, <2>2, <2>4, <2>5, SoundChange
<1>11. Written'
  BY <1>1, <1>2, <1>10 DEF Written, Interrupted
<1>12. Steady'
  <2>1. Manned(t)'
    BY <1>1, <1>7 DEF Manned
  <2> QED BY <1>1, <1>2, <1>7, <1>9, <2>1, SteadyKeeps
<1>13. log' = IF amending = None THEN log
              ELSE [log EXCEPT ![t] = [last |-> "done", top |-> log[t].top]]
  BY <1>1 DEF Logged, Entry
<1>14. log' \in [Tasks -> Entries]
  BY <1>13 DEF PlanInv, Entries
<1>15. Events'
  <2>1. CASE amending = None
    BY <2>1, <1>1, <1>13 DEF PlanInv, Events
  <2>2. CASE amending # None
    <3>1. ~Validated(amending)
      BY <1>2 DEF Interrupted
    <3>2. Recounted(t) /\ Followed(t) /\ Amending(receipts) /\ \A u \in DOMAIN st.tasks : Followed(u)
      BY <2>2, <3>1, <1>2 DEF PlanInv, Events
    <3>3. ~Told(t) /\ log[t].last = "start"
      BY <3>2, <1>2 DEF Followed
    <3>4. /\ log'[t].last = "done" /\ log'[t].top = log[t].top
          /\ \A u \in Tasks \ {t} : log'[u] = log[u]
      BY <2>2, <1>13 DEF PlanInv
    <3>5. BaseN(t)' = BaseN(t) /\ Reached(t)' = Reached(t) /\ Reached(t) = st.tasks[t].n
      BY <1>1, <3>2, <3>4 DEF BaseN, Reached, Followed
    <3>6. Told(t)' /\ ~Settled(receipts, amending.base.st, t)
      BY <3>2, <3>3, <3>4 DEF Told, Recounted
    <3>7. Recounted(t)'
      <4>1. def.plan # None /\ DOMAIN st.tasks = Ids(def.plan)
        BY <1>2, <2>2 DEF PlanInv, Sound, Shaped
      <4>2. ASSUME NEW u \in Deps(def.plan, t) PROVE Told(u)'
        <5>1. Completed(st, u) /\ u # t
          BY <1>2, <4>1, <4>2 DEF DepsOf, Completed
        <5>2. Told(u) /\ u \in Tasks
          BY <5>1, <1>2, <3>2 DEF Completed, Followed
        <5> QED BY <5>1, <5>2, <3>4, <1>1 DEF Told
      <4>3. \E r \in receipts : r.by = t /\ r.n = Reached(t)' /\ r.rev = def.plan
        BY <1>3, <1>4, <3>5
      <4> QED BY <1>1, <1>2, <3>4, <3>5, <3>6, <4>1, <4>2, <4>3 DEF Recounted
    <3>8. Followed(t)'
      BY <1>1, <1>7, <1>8, <1>9, <3>2, <3>5, <3>6 DEF Followed
    <3>9. Amending(receipts)'
      BY <3>2, <1>1 DEF Amending
    <3> QED BY <1>1, <1>2, <1>7, <2>2, <3>1, <3>3, <3>4, <3>7, <3>8, <3>9, EntryKeeps
  <2> QED BY <2>1, <2>2
<1> QED BY <1>1, <1>2, <1>11, <1>12, <1>14, <1>15 DEF PlanInv, Files, Interrupted

\* What a publication changes of the state.
LEMMA LandSets ==
    ASSUME PlanInv, NEW t \in Tasks, Land(t)
    PROVE  /\ st' \in States /\ DOMAIN st'.tasks = DOMAIN st.tasks /\ st'.evidence = st.evidence
           /\ st'.tasks[t].status = "running" /\ st'.tasks[t].n = st.tasks[t].n
           /\ st'.tasks[t].receipt = st.tasks[t].n
           /\ \A u \in DOMAIN st.tasks \ {t} : st'.tasks[u] = st.tasks[u]
<1>1. runner /\ t \in Running /\ st' = [st EXCEPT !.tasks[t].receipt = st.tasks[t].n]
  BY DEF Land, Current
<1>2. st \in States /\ t \in DOMAIN st.tasks /\ st.tasks[t].status = "running"
  BY <1>1, RunningIs
<1>3. /\ st' \in States /\ DOMAIN st'.tasks = DOMAIN st.tasks /\ st'.evidence = st.evidence
      /\ st'.tasks[t].status = "running" /\ st'.tasks[t].n = st.tasks[t].n
      /\ st'.tasks[t].receipt = st.tasks[t].n
      /\ \A u \in DOMAIN st.tasks \ {t} : st'.tasks[u] = st.tasks[u]
  <2> DEFINE a == [status |-> st.tasks[t].status, n |-> st.tasks[t].n, receipt |-> st.tasks[t].n]
             e == st.evidence
  <2>1. [st EXCEPT !.tasks[t].receipt = st.tasks[t].n] = With(st, t, a, e)
    BY <1>2, Edited
  <2>2. a \in Records /\ e \in SUBSET Verdicts
    BY <1>2, TaskIs, StateIs DEF Records
  <2>3. a.status = "running" /\ a.n = st.tasks[t].n /\ a.receipt = st.tasks[t].n /\ e = st.evidence
    BY <1>2
  <2> HIDE DEF a, e
  <2> DEFINE z == With(st, t, a, e)
  <2>4. /\ z \in States /\ DOMAIN z.tasks = DOMAIN st.tasks /\ z.evidence = e
        /\ z.tasks[t] = a /\ \A u \in DOMAIN st.tasks \ {t} : z.tasks[u] = st.tasks[u]
    BY <1>2, <2>2, TaskSet
  <2>5. st' = z
    BY <1>1, <2>1
  <2> HIDE DEF z
  <2> QED BY <2>3, <2>4, <2>5
<1> QED BY <1>3

\* A publication settles an attempt that was built on settled ones.
LEMMA LandKeeps == ASSUME PlanInv, NEW t \in Tasks, Land(t) PROVE PlanInv'
<1>1. /\ runner /\ Landing = {} /\ t \in Running
      /\ \A r \in receipts : (r.by = t /\ r.n = st.tasks[t].n) => r.rev = def.plan
      /\ st' = [st EXCEPT !.tasks[t].receipt = st.tasks[t].n]
      /\ receipts' = receipts \cup {Published(t)}
      /\ UNCHANGED <<scene, def, amending, migrating, log, cmd, runner, mishaps, changes>>
  BY DEF Land, bounds, Current
<1>2. /\ Readable /\ ~Interrupted /\ Written /\ cmd = Idle
      /\ st \in States /\ def \in Defs /\ Sound(receipts, def, st)
      /\ DOMAIN st.tasks = DOMAIN def.spec /\ DOMAIN st.tasks \subseteq Tasks /\ st # Damaged
      /\ t \in DOMAIN st.tasks /\ st.tasks[t].status = "running" /\ t \notin def.imports
      /\ st.tasks[t].n \in Nat /\ st.tasks[t].n >= 1 /\ st.tasks[t].receipt # st.tasks[t].n
      /\ ~Settled(receipts, st, t)
      /\ \A u \in DepsOf(t) : Completed(st, u)
  BY <1>1, RunningIs
<1> DEFINE r == Published(t)
<1>3. /\ r.by = t /\ r.n = st.tasks[t].n /\ r.rev = def.plan /\ r \in Receipts
      /\ \A x \in Receipts : x.by = t /\ x.n = st.tasks[t].n /\ x.rev = def.plan => x = r
  BY <1>2, DefIs DEF Published, Current, Receipts
<1> HIDE DEF r
<1>4. receipts' = receipts \cup {r} /\ receipts' \subseteq Receipts
  BY <1>1, <1>3 DEF r, PlanInv
<1>5. Unique(receipts')
  <2>1. \A x \in receipts : x.by = r.by /\ x.n = r.n => x = r
    BY <1>1, <1>3 DEF PlanInv
  <2> QED BY <1>4, <2>1 DEF PlanInv, Unique
<1>6. /\ st' \in States /\ DOMAIN st'.tasks = DOMAIN st.tasks /\ st'.evidence = st.evidence
      /\ st'.tasks[t].status = "running" /\ st'.tasks[t].n = st.tasks[t].n
      /\ st'.tasks[t].receipt = st.tasks[t].n
      /\ \A u \in DOMAIN st.tasks \ {t} : st'.tasks[u] = st.tasks[u]
  BY LandSets
<1>7. \A u : u # t => (Settled(receipts', st', u) <=> Settled(receipts, st, u))
  BY <1>3, <1>4, <1>6 DEF Settled
<1>8. Settled(receipts', st', t)
  BY <1>2, <1>3, <1>4, <1>6 DEF Settled
<1>9. \A q : \A u \in DOMAIN st.tasks : u # t /\ Earned(receipts, st, q, u) => Earned(receipts', st', q, u)
  BY <1>4, <1>6 DEF Earned
<1>10. Sound(receipts', def, st')
  <2>1. Shaped(def, st')
    BY <1>2, <1>6 DEF Sound, Shaped
  <2>2. \A u \in def.imports : u \in DOMAIN st.tasks /\ u # t
    BY <1>2 DEF Sound, Shaped
  <2>3. Imported(receipts', def, st')
    BY <1>2, <1>6, <1>7, <1>9, <2>2 DEF Sound, Imported
  <2>4. Delivered(receipts', def, st')
    BY <1>2, <1>6, <1>7, <1>9 DEF Sound, Delivered
  <2>5. Founded(receipts', st')
    <3> SUFFICES ASSUME NEW u \in DOMAIN st'.tasks, NEW x \in receipts', st'.tasks[u].n >= 1,
                        st'.tasks[u].receipt = st'.tasks[u].n, x.by = u, x.n = st'.tasks[u].n, x.rev # None
                 PROVE  u \in Ids(x.rev) /\ \A w \in Deps(x.rev, u) : Settled(receipts', st', w)
      BY DEF Founded
    <3>1. CASE u = t
      <4>1. x.rev = def.plan
        BY <3>1, <1>1, <1>3, <1>4, <1>6
      <4>2. def.plan # None /\ DOMAIN st.tasks = Ids(def.plan)
        BY <4>1, <1>2 DEF Sound, Shaped
      <4>3. ASSUME NEW w \in Deps(def.plan, t) PROVE Settled(receipts', st', w)
        <5>1. w \in DOMAIN st.tasks /\ st.tasks[w].status = "completed"
          BY <4>2, <4>3, <1>2 DEF DepsOf, Completed
        <5>2. Settled(receipts, st, w)
          BY <5>1, <1>2, CompletedSettled
        <5> QED BY <5>1, <5>2, <1>2, <1>7
      <4> QED BY <3>1, <4>1, <4>2, <4>3, <1>2
    <3>2. CASE u # t
      <4>1. x \in receipts /\ u \in DOMAIN st.tasks /\ st'.tasks[u] = st.tasks[u]
        BY <3>2, <1>3, <1>4, <1>6
      <4>2. u \in Ids(x.rev) /\ \A w \in Deps(x.rev, u) : Settled(receipts, st, w)
        BY <4>1, <1>2 DEF Sound, Founded
      <4> QED BY <4>2, <1>7, <1>8
    <3> QED BY <3>1, <3>2
  <2> QED BY <2>1, <2>3, <2>4, <2>5 DEF Sound
<1>11. Written'
  BY <1>1, <1>2, <1>10 DEF Written, Interrupted
<1>12. Steady'
  <2>1. DepsOf(t)' = DepsOf(t)
    BY <1>1 DEF DepsOf
  <2>2. \A d \in DepsOf(t) : Completed(st', d)
    BY <1>2, <1>6 DEF Completed
  <2>3. Published(t)' \in receipts'
    BY <1>1, <1>4, <1>6 DEF Published, Current, r
  <2>4. Manned(t)'
    BY <1>1, <1>2, <1>6, <2>1, <2>2, <2>3 DEF Manned
  <2> QED BY <1>1, <1>2, <1>4, <1>6, <1>7, <2>4, SteadyKeeps
<1>13. Events'
  <2>1. CASE amending = None
    BY <2>1, <1>1 DEF PlanInv, Events
  <2>2. CASE amending # None
    <3> DEFINE b == amending.base
    <3>1. ~Validated(amending)
      BY <1>2 DEF Interrupted
    <3>2. Recounted(t) /\ Followed(t) /\ Amending(receipts)
      BY <2>2, <3>1, <1>2 DEF PlanInv, Events
    <3>3. ~Told(t) /\ log[t].last = "start" /\ log[t].top > BaseN(t) /\ Reached(t) = st.tasks[t].n
      BY <3>2, <1>2 DEF Followed, Recounted
    <3>4. BaseN(t) # st.tasks[t].n
      <4>1. BaseN(t) \in Nat /\ log[t].top \in Nat
        BY <3>2, AmendingIs, TaskIs DEF BaseN, PlanInv, Entries
      <4> QED BY <3>3, <4>1 DEF Reached
    <3>5. Sound(receipts, b.def, b.st)
      BY <3>2 DEF Amending
    <3>6. r.by \in DOMAIN b.st.tasks => b.st.tasks[r.by].n # r.n
      BY <3>4, <1>3 DEF BaseN
    <3> HIDE DEF b
    <3>7. Sound(receipts', b.def, b.st) /\ \A u : Settled(receipts', b.st, u) <=> Settled(receipts, b.st, u)
      BY <3>5, <3>6, <1>4, SoundGrows
    <3>8. Amending(receipts)'
      BY <3>2, <3>7, <1>1 DEF Amending, b
    <3>9. BaseN(t)' = BaseN(t) /\ Reached(t)' = Reached(t)
      BY <1>1 DEF BaseN, Reached
    <3>10. ~Told(t)' /\ ~Settled(receipts, b.st, t)
      BY <1>1, <3>2, <3>3, <3>7 DEF Told, Recounted, b
    <3>11. Recounted(t)'
      BY <1>1, <1>2, <3>3, <3>7, <3>9, <3>10 DEF Recounted, b
    <3>12. Followed(t)'
      BY <1>1, <1>6, <3>3, <3>9, <3>10 DEF Followed
    <3> QED BY <1>1, <1>2, <1>4, <1>6, <2>2, <3>1, <3>3, <3>7, <3>8, <3>11, <3>12, EntryKeeps DEF b
  <2> QED BY <2>1, <2>2
<1> QED BY <1>1, <1>2, <1>4, <1>5, <1>11, <1>12, <1>13 DEF PlanInv, Files, Interrupted

-----------------------------------------------------------------------------
(* The start of the runner.                                                *)

\* What reconciliation changes: a task with a receipt is completed, and judged.
LEMMA ReconciledIs ==
    ASSUME NEW s \in States, def \in Defs
    PROVE  LET z == Reconciled(s) IN
           /\ z \in States /\ DOMAIN z.tasks = DOMAIN s.tasks
           /\ \A t \in DOMAIN s.tasks :
                 /\ z.tasks[t].n = s.tasks[t].n /\ z.tasks[t].receipt = s.tasks[t].receipt
                 /\ Receipted(s, t) => z.tasks[t].status = "completed"
                 /\ ~Receipted(s, t) => z.tasks[t].status = s.tasks[t].status
           /\ def.plan = None => z.evidence = s.evidence
           /\ \A x \in z.evidence : x \in s.evidence \/ \E u \in DOMAIN s.tasks : Receipted(s, u) /\ x.crit \in Owned(def.plan, u)
<1> DEFINE p == def.plan
           found == {t \in DOMAIN s.tasks : Receipted(s, t)}
           task(t) == IF t \in found THEN [s.tasks[t] EXCEPT !.status = "completed"] ELSE s.tasks[t]
           f == [t \in DOMAIN s.tasks |-> task(t)]
           made(t) == {[crit |-> c, by |-> t, n |-> s.tasks[t].n, rev |-> p] : c \in Owned(p, t)}
           e == IF p = None THEN s.evidence ELSE
                    {x \in s.evidence : \A t \in found : x.crit \notin Owned(p, t)}
                    \cup UNION {made(t) : t \in found \cap Ids(p)}
<1>1. ASSUME NEW t \in DOMAIN s.tasks
      PROVE  /\ task(t) \in Records
             /\ task(t).n = s.tasks[t].n /\ task(t).receipt = s.tasks[t].receipt
             /\ t \in found => task(t).status = "completed"
             /\ t \notin found => task(t).status = s.tasks[t].status
  <2> DEFINE a == s.tasks[t]
  <2>1. a \in Records
    BY TaskIs
  <2>2. task(t) = IF t \in found THEN [a EXCEPT !.status = "completed"] ELSE a
    OBVIOUS
  <2> HIDE DEF a, task, found
  <2>3. [a EXCEPT !.status = "completed"] \in Records /\ [a EXCEPT !.status = "completed"].n = a.n
        /\ [a EXCEPT !.status = "completed"].receipt = a.receipt /\ [a EXCEPT !.status = "completed"].status = "completed"
    BY <2>1 DEF Records
  <2>4. /\ task(t) \in Records /\ task(t).n = a.n /\ task(t).receipt = a.receipt
        /\ t \in found => task(t).status = "completed"
        /\ t \notin found => task(t).status = a.status
    BY <2>1, <2>2, <2>3
  <2> QED BY <2>4 DEF a
<1>2. ASSUME NEW t \in found, NEW x \in made(t), p # None
      PROVE  x \in Verdicts /\ x.crit \in Owned(p, t)
  <2>1. PICK c \in Owned(p, t) : x = [crit |-> c, by |-> t, n |-> s.tasks[t].n, rev |-> p]
    BY <1>2
  <2>2. p \in Revisions /\ t \in Tasks /\ s.tasks[t].n \in Nat
    BY <1>2, DefIs, TaskIs
  <2>3. c \in UNION {Crits(q) : q \in Revisions}
    BY <2>2 DEF Owned
  <2> HIDE DEF p
  <2> QED BY <2>1, <2>2, <2>3 DEF Verdicts
<1>3. s.evidence \in SUBSET Verdicts
  BY StateIs
<1>4. \A t : t \in found <=> t \in DOMAIN s.tasks /\ Receipted(s, t)
  OBVIOUS
<1>5. Reconciled(s) = [s EXCEPT !.tasks = f, !.evidence = e]
  BY DEF Reconciled
<1> HIDE DEF task, made, found
<1>6. f \in [DOMAIN s.tasks -> Records] /\ DOMAIN f = DOMAIN s.tasks /\ \A t \in DOMAIN s.tasks : f[t] = task(t)
  BY <1>1
<1>7. \A x \in e : x \in s.evidence \/ \E t \in found : p # None /\ x \in made(t)
  OBVIOUS
<1>8. p = None => e = s.evidence
  OBVIOUS
<1> HIDE DEF f, e, p
<1>9. e \in SUBSET Verdicts
  BY <1>2, <1>3, <1>7
<1>10. [s EXCEPT !.tasks = f, !.evidence = e] = [rev |-> s.rev, tasks |-> f, evidence |-> e]
  <2> DEFINE m == [s EXCEPT !.tasks = f]
  <2>1. m = [rev |-> s.rev, tasks |-> f, evidence |-> s.evidence]
    BY StateIs
  <2>2. [s EXCEPT !.tasks = f, !.evidence = e] = [m EXCEPT !.evidence = e]
    OBVIOUS
  <2> HIDE DEF m
  <2> QED BY <2>1, <2>2
<1> DEFINE z == [rev |-> s.rev, tasks |-> f, evidence |-> e]
<1>11. z \in States
  <2>1. s.rev \in Revisions \cup {None} /\ DOMAIN s.tasks \in SUBSET Tasks
    BY StateIs DEF States
  <2> QED BY <2>1, <1>6, <1>9, StateMade
<1>12. z.tasks = f /\ z.evidence = e
  OBVIOUS
<1> HIDE DEF z
<1>13. Reconciled(s) = z
  BY <1>5, <1>10 DEF z
<1>14. \A x \in e : x \in s.evidence \/ \E u \in DOMAIN s.tasks : Receipted(s, u) /\ x.crit \in Owned(p, u)
  BY <1>2, <1>4, <1>7
<1>15. \A t \in DOMAIN s.tasks :
          /\ f[t].n = s.tasks[t].n /\ f[t].receipt = s.tasks[t].receipt
          /\ Receipted(s, t) => f[t].status = "completed"
          /\ ~Receipted(s, t) => f[t].status = s.tasks[t].status
  BY <1>1, <1>4, <1>6
<1> QED BY <1>6, <1>8, <1>11, <1>12, <1>13, <1>14, <1>15 DEF p

\* A start that refuses leaves the run requeued.
LEMMA RefusedKeeps ==
    ASSUME PlanInv, Start, RefusesReceipt(Requeued(Run.st))
    PROVE  PlanInv'
<1> DEFINE s == Requeued(Run.st)
<1>1. /\ Readable /\ Free /\ st' = s /\ runner' = FALSE
      /\ UNCHANGED <<scene, def, amending, migrating, receipts, cmd, mishaps, changes>>
      /\ Logged([t \in Tasks |->
              IF t \notin DOMAIN s.tasks THEN log[t]
              ELSE IF ~RefusesReceipt(s) /\ Receipted(s, t) THEN [log[t] EXCEPT !.last = "done"]
              ELSE IF t \in Running THEN [log[t] EXCEPT !.last = "halt"] ELSE log[t]])
  BY DEF Start, bounds
<1>2. DOMAIN s.tasks = DOMAIN def.spec
  BY <1>1, RequeuedAged
<1> HIDE DEF s
<1>3. Running \subseteq DOMAIN s.tasks
  <2>1. CASE Written
    BY <1>1, <1>2, <2>1, LoadedIs DEF Running, Written
  <2>2. CASE HalfAmended \/ HalfMigrated
    BY <1>1, <2>2, HalfStill DEF Running, Readable
  <2> QED BY <1>1, <2>1, <2>2, ReadableFiles
<1>4. RefusesReceipt(s)
  BY DEF s
<1>5. log' = IF amending = None THEN log
             ELSE [t \in Tasks |-> IF t \in Running THEN [log[t] EXCEPT !.last = "halt"] ELSE log[t]]
  BY <1>1, <1>3, <1>4 DEF Logged
<1>6. st' = Requeued(Run.st) /\ runner' = runner
  BY <1>1 DEF s, Free, PlanInv
<1> QED BY <1>1, <1>5, <1>6, HaltedKeeps

\* One that goes on reconciles exactly what is settled.
LEMMA StartedIs ==
    ASSUME PlanInv, Start, ~RefusesReceipt(Requeued(Run.st)), Careful'
    PROVE  /\ Readable /\ ~Interrupted /\ Written /\ cmd = Idle /\ runner' = TRUE
           /\ UNCHANGED <<scene, def, amending, migrating, receipts, cmd, mishaps, changes>>
           /\ st \in States /\ def \in Defs /\ Sound(receipts, def, st)
           /\ DOMAIN st.tasks = DOMAIN def.spec /\ DOMAIN st.tasks \subseteq Tasks /\ st # Damaged
           /\ st' \in States /\ DOMAIN st'.tasks = DOMAIN st.tasks
           /\ \E R \in SUBSET DOMAIN st.tasks :
                 /\ R = {t \in DOMAIN st.tasks : Settled(receipts, st, t) /\ st.tasks[t].status # "completed"}
                 /\ \A t \in R, r \in receipts : r.by = t /\ r.n = st.tasks[t].n => r.rev = def.plan
                 /\ \A t \in DOMAIN st.tasks :
                       /\ st'.tasks[t].n = st.tasks[t].n /\ st'.tasks[t].receipt = st.tasks[t].receipt
                       /\ st'.tasks[t].status # "running"
                       /\ t \in R => st'.tasks[t].status = "completed"
                       /\ t \notin R => st'.tasks[t].status \in {st.tasks[t].status, "pending"}
                       /\ st.tasks[t].status = "completed" => st'.tasks[t].status = "completed"
                 /\ def.plan = None => st'.evidence = st.evidence
                 /\ \A x \in st'.evidence : x \in st.evidence \/ \E u \in R : x.crit \in Owned(def.plan, u)
                 /\ log' = IF amending = None THEN log
                           ELSE [t \in Tasks |-> IF t \in R THEN [log[t] EXCEPT !.last = "done"]
                                                 ELSE IF t \in Running THEN [log[t] EXCEPT !.last = "halt"] ELSE log[t]]
<1> DEFINE s == Requeued(Run.st)
           R == {t \in DOMAIN st.tasks : Settled(receipts, st, t) /\ st.tasks[t].status # "completed"}
<1>1. /\ Free /\ Readable /\ st' = Reconciled(s) /\ runner' = TRUE
      /\ strayed' = (strayed \/ Interrupted)
      /\ UNCHANGED <<scene, def, amending, migrating, receipts, cmd, mishaps, changes>>
      /\ Logged([t \in Tasks |->
              IF t \notin DOMAIN s.tasks THEN log[t]
              ELSE IF ~RefusesReceipt(s) /\ Receipted(s, t) THEN [log[t] EXCEPT !.last = "done"]
              ELSE IF t \in Running THEN [log[t] EXCEPT !.last = "halt"] ELSE log[t]])
  BY DEF Start, bounds
<1>2. ~Interrupted
  BY <1>1 DEF Careful
<1>3. /\ Written /\ st \in States /\ def \in Defs /\ Sound(receipts, def, st)
      /\ DOMAIN st.tasks = DOMAIN def.spec /\ Run.st = st /\ st # Damaged /\ cmd = Idle
      /\ DOMAIN st.tasks \subseteq Tasks
  BY <1>1, <1>2, LoadedIs, StateIs DEF Written, Readable
<1>4. /\ s \in States /\ DOMAIN s.tasks = DOMAIN st.tasks /\ s.evidence = st.evidence
      /\ \A t \in DOMAIN st.tasks :
            /\ s.tasks[t].n = st.tasks[t].n /\ s.tasks[t].receipt = st.tasks[t].receipt
            /\ st.tasks[t].status = "running" => s.tasks[t].status = "pending"
            /\ st.tasks[t].status # "running" => s.tasks[t].status = st.tasks[t].status
  BY <1>3, RequeuedIs
<1>5. ~RefusesReceipt(s)
  OBVIOUS
<1> HIDE DEF s
<1>6. /\ st' \in States /\ DOMAIN st'.tasks = DOMAIN s.tasks
      /\ \A t \in DOMAIN s.tasks :
            /\ st'.tasks[t].n = s.tasks[t].n /\ st'.tasks[t].receipt = s.tasks[t].receipt
            /\ Receipted(s, t) => st'.tasks[t].status = "completed"
            /\ ~Receipted(s, t) => st'.tasks[t].status = s.tasks[t].status
      /\ def.plan = None => st'.evidence = s.evidence
      /\ \A x \in st'.evidence : x \in s.evidence \/ \E u \in DOMAIN s.tasks : Receipted(s, u) /\ x.crit \in Owned(def.plan, u)
  <2> DEFINE z == Reconciled(s)
  <2>1. /\ z \in States /\ DOMAIN z.tasks = DOMAIN s.tasks
        /\ \A t \in DOMAIN s.tasks :
              /\ z.tasks[t].n = s.tasks[t].n /\ z.tasks[t].receipt = s.tasks[t].receipt
              /\ Receipted(s, t) => z.tasks[t].status = "completed"
              /\ ~Receipted(s, t) => z.tasks[t].status = s.tasks[t].status
        /\ def.plan = None => z.evidence = s.evidence
        /\ \A x \in z.evidence : x \in s.evidence \/ \E u \in DOMAIN s.tasks : Receipted(s, u) /\ x.crit \in Owned(def.plan, u)
    BY <1>3, <1>4, ReconciledIs
  <2>2. st' = z
    BY <1>1
  <2> HIDE DEF z
  <2> QED BY <2>1, <2>2
<1>7. ASSUME NEW t \in DOMAIN st.tasks
      PROVE  /\ Receipted(s, t) <=> t \in R
             /\ t \in R => \A r \in receipts : r.by = t /\ r.n = st.tasks[t].n => r.rev = def.plan
  <2>1. Receipted(s, t) => /\ s.tasks[t].receipt = s.tasks[t].n
                           /\ \A r \in receipts : r.by = t /\ r.n = s.tasks[t].receipt => r.rev = def.plan
    BY <1>4, <1>5 DEF RefusesReceipt
  <2>2. Receipted(s, t) => t \in R
    BY <1>4, <2>1 DEF Receipted, Settled
  <2>3. t \in R => Receipted(s, t)
    BY <1>4 DEF Receipted, Settled
  <2> QED BY <1>4, <2>1, <2>2, <2>3
<1>8. R \in SUBSET DOMAIN st.tasks /\ \A t \in R : st.tasks[t].status # "completed"
  OBVIOUS
<1>9. log' = IF amending = None THEN log
             ELSE [t \in Tasks |-> IF t \in R THEN [log[t] EXCEPT !.last = "done"]
                                   ELSE IF t \in Running THEN [log[t] EXCEPT !.last = "halt"] ELSE log[t]]
  <2>1. \A t \in Tasks : /\ (t \in DOMAIN s.tasks /\ Receipted(s, t)) <=> t \in R
                         /\ t \in Running => t \in DOMAIN s.tasks
    BY <1>4, <1>7, <1>8 DEF Running
  <2> HIDE DEF R
  <2> QED BY <1>1, <1>5, <2>1 DEF Logged
<1> HIDE DEF R
<1>10. \A t \in R, r \in receipts : r.by = t /\ r.n = st.tasks[t].n => r.rev = def.plan
  BY <1>7, <1>8
<1>11. \A t \in DOMAIN st.tasks :
          /\ st'.tasks[t].n = st.tasks[t].n /\ st'.tasks[t].receipt = st.tasks[t].receipt
          /\ st'.tasks[t].status # "running"
          /\ t \in R => st'.tasks[t].status = "completed"
          /\ t \notin R => st'.tasks[t].status \in {st.tasks[t].status, "pending"}
          /\ st.tasks[t].status = "completed" => st'.tasks[t].status = "completed"
  BY <1>4, <1>6, <1>7, <1>8
<1>12. \A x \in st'.evidence : x \in st.evidence \/ \E u \in R : x.crit \in Owned(def.plan, u)
  BY <1>4, <1>6, <1>7
<1>13. st' \in States /\ DOMAIN st'.tasks = DOMAIN st.tasks /\ (def.plan = None => st'.evidence = st.evidence)
  BY <1>4, <1>6
<1> QED BY <1>1, <1>2, <1>3, <1>8, <1>9, <1>10, <1>11, <1>12, <1>13 DEF R

\* A start completes exactly what was published and not recorded.
LEMMA StartKeeps == ASSUME PlanInv, Start, Careful' PROVE PlanInv'
<1>1. CASE RefusesReceipt(Requeued(Run.st))
  BY <1>1, RefusedKeeps
<1>2. CASE ~RefusesReceipt(Requeued(Run.st))
  <2>1. /\ Readable /\ ~Interrupted /\ Written /\ cmd = Idle /\ runner' = TRUE
        /\ UNCHANGED <<scene, def, amending, migrating, receipts, cmd, mishaps, changes>>
        /\ st \in States /\ def \in Defs /\ Sound(receipts, def, st)
        /\ DOMAIN st.tasks = DOMAIN def.spec /\ DOMAIN st.tasks \subseteq Tasks /\ st # Damaged
        /\ st' \in States /\ DOMAIN st'.tasks = DOMAIN st.tasks
    BY <1>2, StartedIs
  <2>2. PICK R \in SUBSET DOMAIN st.tasks :
          /\ R = {t \in DOMAIN st.tasks : Settled(receipts, st, t) /\ st.tasks[t].status # "completed"}
          /\ \A t \in R, r \in receipts : r.by = t /\ r.n = st.tasks[t].n => r.rev = def.plan
          /\ \A t \in DOMAIN st.tasks :
                /\ st'.tasks[t].n = st.tasks[t].n /\ st'.tasks[t].receipt = st.tasks[t].receipt
                /\ st'.tasks[t].status # "running"
                /\ t \in R => st'.tasks[t].status = "completed"
                /\ t \notin R => st'.tasks[t].status \in {st.tasks[t].status, "pending"}
                /\ st.tasks[t].status = "completed" => st'.tasks[t].status = "completed"
          /\ def.plan = None => st'.evidence = st.evidence
          /\ \A x \in st'.evidence : x \in st.evidence \/ \E u \in R : x.crit \in Owned(def.plan, u)
          /\ log' = IF amending = None THEN log
                    ELSE [t \in Tasks |-> IF t \in R THEN [log[t] EXCEPT !.last = "done"]
                                          ELSE IF t \in Running THEN [log[t] EXCEPT !.last = "halt"] ELSE log[t]]
    BY <1>2, StartedIs
  <2>3. \A t \in DOMAIN st.tasks : Settled(receipts, st, t) <=> t \in R \/ (Settled(receipts, st, t) /\ st.tasks[t].status = "completed")
    BY <2>2
  <2>4. \A t : Settled(receipts, st', t) <=> Settled(receipts, st, t)
    BY <2>1, <2>2 DEF Settled
  <2>5. ASSUME NEW t \in def.imports
        PROVE  t \in DOMAIN st.tasks /\ t \notin R /\ st.tasks[t].status = "completed"
    <3>1. /\ t \in DOMAIN st.tasks /\ def.plan # None
          /\ Settled(receipts, st, t) /\ Earned(receipts, st, None, t)
      BY <2>1 DEF Sound, Shaped, Imported
    <3>2. PICK r \in receipts : r.by = t /\ r.n = st.tasks[t].n /\ r.rev = None
      BY <3>1 DEF Earned, Same
    <3> QED BY <3>1, <3>2, <2>2
  <2>6. \A t \in R : Settled(receipts, st, t) /\ Earned(receipts, st, def.plan, t)
    <3> SUFFICES ASSUME NEW t \in R PROVE Settled(receipts, st, t) /\ Earned(receipts, st, def.plan, t)
      OBVIOUS
    <3>1. Settled(receipts, st, t)
      BY <2>2
    <3>2. PICK r \in receipts : r.by = t /\ r.n = st.tasks[t].n
      BY <3>1 DEF Settled
    <3>3. r.rev = def.plan
      BY <2>2, <3>2
    <3>4. Same(def.plan, def.plan, t)
      BY <2>1 DEF Same, Sound, Shaped
    <3> QED BY <3>1, <3>2, <3>3, <3>4 DEF Earned
  <2>7. Sound(receipts, def, st')
    <3>1. def.plan = None => st'.evidence = {}
      BY <2>1, <2>2 DEF Sound, Shaped
    <3>2. \A u \in DOMAIN st.tasks : st'.tasks[u].receipt <= st'.tasks[u].n /\ st'.tasks[u].n = st.tasks[u].n
      BY <2>1, <2>2 DEF Sound, Shaped
    <3>3. ASSUME NEW u \in def.imports
          PROVE  /\ st'.tasks[u].status \in {"completed", "pending"}
                 /\ st'.tasks[u].status = "completed" =>
                       st.tasks[u].status = "completed" /\ \A x \in st'.evidence : x.crit \notin Owned(def.plan, u)
      <4>1. \A w \in R : \A c : ~(c \in Owned(def.plan, w) /\ c \in Owned(def.plan, u))
        BY <2>5 DEF Owned
      <4>2. \A x \in st.evidence : x.crit \notin Owned(def.plan, u)
        BY <2>1, <2>5 DEF Sound, Imported
      <4> QED BY <2>2, <2>5, <4>1, <4>2
    <3>4. \A u \in DOMAIN st.tasks \ def.imports :
             st'.tasks[u].status = "completed" => Settled(receipts, st, u) /\ Earned(receipts, st, def.plan, u)
      BY <2>1, <2>2, <2>6 DEF Sound, Delivered
    <3> QED BY <2>1, <2>4, <3>1, <3>2, <3>3, <3>4, SoundChange
  <2>8. Written'
    BY <2>1, <2>7 DEF Written, Interrupted
  <2>9. Steady'
    <3>1. \A t \in DOMAIN st'.tasks : Manned(t)'
      BY <2>1, <2>2, <2>3, <2>4, <2>5 DEF Manned
    <3>2. st' # Damaged /\ def # None
      BY <2>1, StateIs, DefIs
    <3> QED BY <2>1, <3>1, <3>2 DEF Steady, Interrupted
  <2>10. log \in [Tasks -> Entries]
    BY DEF PlanInv
  <2>11. log' \in [Tasks -> Entries]
    BY <2>2, <2>10 DEF Entries
  <2>12. Events'
    <3>1. CASE amending = None
      BY <3>1, <2>1, <2>2 DEF PlanInv, Events
    <3>2. CASE amending # None
      <4>1. ~Validated(amending) /\ Running \subseteq Tasks
        BY <2>1 DEF Interrupted, Running
      <4>2. /\ Amending(receipts) /\ ~Validated(migrating)
            /\ def = Amended(amending.base, amending.rev).def
            /\ \A t \in Tasks : Recounted(t)
            /\ \A t \in DOMAIN st.tasks : Followed(t)
        BY <3>2, <4>1, <2>1 DEF PlanInv, Events
      <4>3. \A t \in Tasks : /\ log'[t].top = log[t].top
                             /\ t \in R => log'[t].last = "done"
                             /\ t \in Running \ R => log'[t].last = "halt"
                             /\ t \notin Running \cup R => log'[t] = log[t]
        BY <3>2, <2>2, <2>10 DEF Entries
      <4>4. \A t \in Tasks : BaseN(t)' = BaseN(t) /\ Reached(t)' = Reached(t)
        BY <2>1, <4>3 DEF BaseN, Reached
      <4>5. \A t \in Running : t \in DOMAIN st.tasks /\ log[t].last = "start" /\ ~Told(t)
        BY <4>2 DEF Followed, Running, Told
      <4>6. \A t \in Tasks : Told(t)' <=> Told(t) \/ t \in R
        BY <2>1, <4>3, <4>5 DEF Told
      <4>7. def.plan # None /\ DOMAIN st.tasks = Ids(def.plan)
        BY <2>1, <3>2 DEF PlanInv, Sound, Shaped
      <4>8. ASSUME NEW t \in Tasks PROVE Recounted(t)'
        <5>1. Recounted(t)
          BY <4>2
        <5>2. CASE t \in R
          <6>1. Settled(receipts, st, t) /\ t \in DOMAIN st.tasks /\ st.tasks[t].n = Reached(t)
            BY <5>2, <2>2, <4>2 DEF Followed
          <6>2. PICK r \in receipts : r.by = t /\ r.n = st.tasks[t].n
            BY <6>1 DEF Settled
          <6>3. r.rev = def.plan
            BY <5>2, <6>2, <2>2
          <6>4. \A u \in Deps(def.plan, t) : Settled(receipts, st, u)
            <7>1. Founded(receipts, st)
              BY <2>1 DEF Sound
            <7> QED BY ONLY <7>1, <6>1, <6>2, <6>3, <4>7 DEF Founded, Settled
          <6>5. ASSUME NEW u \in Deps(def.plan, t) PROVE Told(u)'
            <7>1. Settled(receipts, st, u) /\ u \in DOMAIN st.tasks /\ u \in Tasks
              BY <6>4, <2>1 DEF Settled
            <7>2. u \in R \/ st.tasks[u].status = "completed"
              BY <7>1, <2>2
            <7> QED BY <7>1, <7>2, <4>2, <4>6 DEF Followed
          <6>6. Reached(t)' >= 1 /\ \E x \in receipts : x.by = t /\ x.n = Reached(t)' /\ x.rev = def.plan
            BY <6>1, <6>2, <6>3, <4>4 DEF Settled
          <6>7. t \in Ids(def.plan) /\ t \notin def.imports /\ log'[t].last = "done" /\ log'[t].top = log[t].top
            BY <5>2, <6>1, <2>5, <4>3, <4>7
          <6>8. Settled(receipts, amending.base.st, t) => log[t].top = 0
            BY <5>1 DEF Recounted
          <6> QED BY <6>5, <6>6, <6>7, <6>8, <2>1 DEF Recounted
        <5>3. CASE t \in Running \ R
          <6>1. log[t].last = "start" /\ log'[t].last = "halt"
            BY <5>3, <4>3, <4>5
          <6> QED BY <5>1, <6>1, <2>1 DEF Recounted
        <5>4. CASE t \notin Running \cup R
          <6>1. log'[t] = log[t]
            BY <5>4, <4>3
          <6>2. log[t].last = "done" => \A u \in Deps(def.plan, t) : Told(u)'
            BY <5>1, <3>2, <4>1, <4>6, CommittedIs DEF Recounted
          <6> QED BY <5>1, <6>1, <6>2, <2>1, <4>4 DEF Recounted
        <5> QED BY <5>2, <5>3, <5>4
      <4>9. ASSUME NEW t \in DOMAIN st.tasks PROVE Followed(t)'
        <5>1. Followed(t) /\ t \in Tasks
          BY <2>1, <4>2
        <5>2. Told(t)' => Settled(receipts, st', t)
          BY <5>1, <2>2, <2>4, <4>6 DEF Followed
        <5>3. st'.tasks[t].status = "completed" => Told(t)'
          BY <5>1, <2>2, <4>6 DEF Followed
        <5>4. st'.tasks[t].n = Reached(t)' /\ st'.tasks[t].status # "running"
          BY <5>1, <2>2, <4>4 DEF Followed
        <5> QED BY <5>2, <5>3, <5>4, <2>1 DEF Followed
      <4>10. Amending(receipts)'
        BY <4>2, <2>1 DEF Amending
      <4> QED BY <2>1, <3>2, <4>1, <4>2, <4>8, <4>9, <4>10 DEF Events
    <3> QED BY <3>1, <3>2
  <2> QED BY <2>1, <2>8, <2>9, <2>11, <2>12 DEF PlanInv, Files, Interrupted
<1> QED BY <1>1, <1>2

-----------------------------------------------------------------------------
(* The state rebuilt from the snapshot and the events.                     *)

\* What the events make of a task, read off its last one.
LEMMA ReplayedIs ==
    ASSUME amending.base.st \in States, NEW t \in DOMAIN amending.base.st.tasks,
           log[t] \in Entries, log[t].last = "none" => log[t].top = 0
    PROVE  LET a == Replayed(t)
               b == amending.base.st.tasks[t] IN
           /\ a \in Records /\ a.n = Reached(t) /\ a.n >= b.n
           /\ log[t].last = "done" => a.status = "completed" /\ a.receipt = Reached(t)
           /\ log[t].last # "done" => a.receipt = b.receipt
           /\ log[t].last = "none" => a = b
           /\ a.status = "running" => log[t].last = "start" \/ (log[t].last = "none" /\ b.status = "running")
           /\ a.status = "completed" => log[t].last = "done" \/ (log[t].last = "none" /\ b.status = "completed")
<1> DEFINE b == amending.base.st.tasks[t]
           k == Attempts(t)
           l == log[t].last
           now == [b EXCEPT !.n = k]
           a == Replayed(t)
<1>1. b \in Records /\ b.n \in Nat
  BY TaskIs
<1>2. k = Reached(t) /\ k \in Nat /\ k >= b.n /\ (l = "none" => k = b.n)
  BY <1>1 DEF Attempts, Reached, BaseN, Entries
<1>3. l \in {"none", "start", "done", "fail", "halt"}
  BY DEF Entries
<1>4. /\ l = "none" => a = b
      /\ l = "done" => a = [now EXCEPT !.status = "completed", !.receipt = k]
      /\ l = "start" => a = [now EXCEPT !.status = "running"]
      /\ l = "fail" => a = [now EXCEPT !.status = "failed"]
      /\ l = "halt" => a = [now EXCEPT !.status = "pending"]
  BY DEF Replayed
<1> HIDE DEF k, a, b
<1>5. PICK S, N, R : b = [status |-> S, n |-> N, receipt |-> R]
  BY <1>1 DEF Records
<1>6. b.status = S /\ b.n = N /\ b.receipt = R
  BY <1>5
<1>7. now = [status |-> S, n |-> k, receipt |-> R]
  BY <1>5
<1> HIDE DEF now
<1>8. \A v : [now EXCEPT !.status = v] = [status |-> v, n |-> k, receipt |-> R]
  BY <1>7
<1>9. [now EXCEPT !.status = "completed", !.receipt = k] = [status |-> "completed", n |-> k, receipt |-> k]
  <2> DEFINE m == [now EXCEPT !.status = "completed"]
  <2>1. m = [status |-> "completed", n |-> k, receipt |-> R]
    BY <1>8
  <2>2. [now EXCEPT !.status = "completed", !.receipt = k] = [m EXCEPT !.receipt = k]
    OBVIOUS
  <2> HIDE DEF m
  <2> QED BY <2>1, <2>2
<1>10. R \in Nat
  BY <1>1, <1>6 DEF Records
<1>11. /\ l = "none" => a = b /\ a.n = k
       /\ l = "done" => a \in Records /\ a.n = k /\ a.status = "completed" /\ a.receipt = k
       /\ l = "start" => a \in Records /\ a.n = k /\ a.status = "running" /\ a.receipt = R
       /\ l = "fail" => a \in Records /\ a.n = k /\ a.status = "failed" /\ a.receipt = R
       /\ l = "halt" => a \in Records /\ a.n = k /\ a.status = "pending" /\ a.receipt = R
  <2>1. CASE l = "none"
    BY <2>1, <1>2, <1>4
  <2>2. CASE l = "done"
    BY <2>2, <1>2, <1>4, <1>9 DEF Records
  <2>3. CASE l = "start"
    BY <2>3, <1>2, <1>4, <1>8, <1>10 DEF Records
  <2>4. CASE l = "fail"
    BY <2>4, <1>2, <1>4, <1>8, <1>10 DEF Records
  <2>5. CASE l = "halt"
    BY <2>5, <1>2, <1>4, <1>8, <1>10 DEF Records
  <2> QED BY <2>1, <2>2, <2>3, <2>4, <2>5, <1>3
<1>12. \A x : x = a => /\ x \in Records /\ x.n = k /\ (l = "none" => x = b)
                       /\ l = "done" => x.status = "completed" /\ x.receipt = k
                       /\ l # "done" => x.receipt = b.receipt
                       /\ x.status = "running" => l = "start" \/ (l = "none" /\ b.status = "running")
                       /\ x.status = "completed" => l = "done" \/ (l = "none" /\ b.status = "completed")
  BY <1>1, <1>3, <1>6, <1>11
<1> QED BY <1>2, <1>12 DEF a, b

\* recover-checkpoint finds a whole run without its state, and rebuilds it task by task.
LEMMA RebuiltIs ==
    ASSUME PlanInv, RecoverCheckpoint
    PROVE  /\ Written /\ cmd = Idle /\ ~Interrupted /\ amending # None /\ ~Validated(amending) /\ ~runner
           /\ UNCHANGED <<scene, def, amending, migrating, receipts, log, cmd, runner, mishaps, changes>>
           /\ st' \in States /\ DOMAIN st'.tasks = DOMAIN amending.base.st.tasks
           /\ DOMAIN def.spec = DOMAIN st'.tasks
           /\ st'.evidence = amending.base.st.evidence
           /\ \A t \in DOMAIN st'.tasks : st'.tasks[t] = Replayed(t) /\ t \in Tasks
<1>1. /\ Free /\ ~Readable /\ def # None /\ amending # None /\ ~Validated(amending)
      /\ DOMAIN def.spec = DOMAIN amending.base.def.spec
      /\ st' = [rev |-> amending.base.st.rev, evidence |-> amending.base.st.evidence,
                tasks |-> [t \in DOMAIN def.spec |-> Replayed(t)]]
      /\ UNCHANGED <<scene, def, amending, migrating, receipts, log, cmd, runner, mishaps, changes>>
  BY DEF RecoverCheckpoint, Validated, bounds
<1>2. Written /\ ~Interrupted /\ ~runner /\ cmd = Idle
  BY <1>1 DEF PlanInv, Files, Unwritten, HalfWritten, Untouched, HalfAmended, HalfMigrated, Written, Free
<1>3. Amending(receipts)
  BY <1>1, CommittedIs
<1> DEFINE b == amending.base.st
           f == [t \in DOMAIN def.spec |-> Replayed(t)]
<1>4. b \in States /\ DOMAIN b.tasks = DOMAIN def.spec /\ DOMAIN def.spec \subseteq Tasks
  BY <1>1, <1>3, AmendingIs, StateIs
<1>5. \A t \in DOMAIN def.spec : log[t] \in Entries /\ (log[t].last = "none" => log[t].top = 0)
  BY <1>1, <1>4 DEF PlanInv, Events, Recounted
<1>6. \A t \in DOMAIN def.spec : Replayed(t) \in Records
  BY <1>4, <1>5, ReplayedIs
<1>7. f \in [DOMAIN def.spec -> Records] /\ DOMAIN f = DOMAIN def.spec /\ \A t \in DOMAIN def.spec : f[t] = Replayed(t)
  BY <1>6
<1>8. b.rev \in Revisions \cup {None} /\ b.evidence \in SUBSET Verdicts
  BY <1>4, StateIs DEF States
<1>9. st' = [rev |-> b.rev, tasks |-> f, evidence |-> b.evidence]
  BY <1>1
<1> HIDE DEF b, f
<1>10. st' \in States
  BY <1>4, <1>7, <1>8, <1>9, StateMade
<1>11. st'.tasks = f /\ st'.evidence = b.evidence
  BY <1>9
<1> QED BY <1>1, <1>2, <1>4, <1>7, <1>10, <1>11 DEF b

\* The rebuilt state is settled where the events tell so, and fits the definition.
LEMMA RecoverCheckpointKeeps == ASSUME PlanInv, RecoverCheckpoint PROVE PlanInv'
<1>1. /\ Written /\ cmd = Idle /\ ~Interrupted /\ amending # None /\ ~Validated(amending) /\ ~runner
      /\ UNCHANGED <<scene, def, amending, migrating, receipts, log, cmd, runner, mishaps, changes>>
      /\ st' \in States /\ DOMAIN st'.tasks = DOMAIN amending.base.st.tasks
      /\ DOMAIN def.spec = DOMAIN st'.tasks
      /\ st'.evidence = amending.base.st.evidence
      /\ \A t \in DOMAIN st'.tasks : st'.tasks[t] = Replayed(t) /\ t \in Tasks
  BY RebuiltIs
<1>2. PICK x, q, z : x = amending.base /\ q = amending.rev /\ z = st'
  OBVIOUS
<1>3. /\ Amending(receipts) /\ def.plan = q /\ q \in Revisions /\ Valid(q)
      /\ q # None /\ def.imports = x.def.imports
      /\ \A t \in Ids(q) : t \in Tasks /\ \A u \in Deps(q, t) : u \in Ids(q) /\ u \in Tasks
  BY <1>1, <1>2, CommittedIs
<1>4. /\ Sound(receipts, x.def, x.st) /\ Still(x.st) /\ x.def.plan # None /\ x.st \in States
      /\ Allows(x, q) /\ DOMAIN x.st.tasks = DOMAIN x.def.spec
      /\ def \in Defs /\ DOMAIN def.spec = Ids(q)
  <2>1. /\ def = Amended(amending.base, amending.rev).def
        /\ Sound(receipts, def, Amended(amending.base, amending.rev).st)
    BY <1>1, <1>3, AmendingIs DEF PlanInv, Events
  <2>2. def \in Defs /\ DOMAIN def.spec = Ids(q)
    BY <2>1, <1>3 DEF Sound, Shaped
  <2> QED BY <1>2, <1>3, <2>2, AmendingIs DEF Amending
<1>5. Unique(receipts) /\ \A t \in Tasks : Recounted(t) /\ log[t] \in Entries
  BY <1>1 DEF PlanInv, Events
<1>6. DOMAIN z.tasks = DOMAIN x.st.tasks /\ DOMAIN z.tasks = Ids(q) /\ DOMAIN z.tasks = DOMAIN def.spec
      /\ DOMAIN z.tasks = DOMAIN x.def.spec /\ z.evidence = x.st.evidence /\ z \in States
  BY <1>1, <1>2, <1>4
<1>7. ASSUME NEW t \in DOMAIN z.tasks
      PROVE  /\ z.tasks[t].n = Reached(t) /\ z.tasks[t].n >= x.st.tasks[t].n /\ t \in Tasks
             /\ log[t].last = "done" => z.tasks[t].status = "completed" /\ z.tasks[t].receipt = Reached(t)
             /\ log[t].last # "done" => z.tasks[t].receipt = x.st.tasks[t].receipt
             /\ log[t].last = "none" => z.tasks[t] = x.st.tasks[t]
             /\ z.tasks[t].status = "running" => log[t].last = "start"
             /\ z.tasks[t].status = "completed" => log[t].last = "done" \/ (log[t].last = "none" /\ x.st.tasks[t].status = "completed")
             /\ x.st.tasks[t].receipt <= x.st.tasks[t].n /\ x.st.tasks[t].n \in Nat /\ x.st.tasks[t].receipt \in Nat
             /\ BaseN(t) = x.st.tasks[t].n /\ z.tasks[t].n \in Nat
  <2>1. t \in DOMAIN amending.base.st.tasks /\ t \in Tasks /\ z.tasks[t] = Replayed(t)
    BY <1>1, <1>2, <1>6
  <2>2. Recounted(t) /\ log[t] \in Entries
    BY <1>5, <2>1
  <2>3. log[t].last = "none" => log[t].top = 0
    BY <2>2 DEF Recounted
  <2>4. amending.base.st \in States
    BY <1>2, <1>4
  <2>5. LET a == Replayed(t)
            b == amending.base.st.tasks[t] IN
        /\ a.n = Reached(t) /\ a.n >= b.n
        /\ log[t].last = "done" => a.status = "completed" /\ a.receipt = Reached(t)
        /\ log[t].last # "done" => a.receipt = b.receipt
        /\ log[t].last = "none" => a = b
        /\ a.status = "running" => log[t].last = "start" \/ (log[t].last = "none" /\ b.status = "running")
        /\ a.status = "completed" => log[t].last = "done" \/ (log[t].last = "none" /\ b.status = "completed")
    BY <2>1, <2>2, <2>3, <2>4, ReplayedIs
  <2>6. x.st.tasks[t].receipt <= x.st.tasks[t].n /\ x.st.tasks[t].status # "running"
    BY <1>4, <1>6 DEF Sound, Shaped, Still
  <2>7. x.st.tasks[t].n \in Nat /\ x.st.tasks[t].receipt \in Nat /\ z.tasks[t].n \in Nat
    BY <1>4, <1>6, TaskIs
  <2>8. BaseN(t) = x.st.tasks[t].n
    BY <1>2, <2>1 DEF BaseN
  <2> QED BY <1>2, <2>1, <2>5, <2>6, <2>7, <2>8
<1>8. ASSUME NEW t \in DOMAIN z.tasks PROVE Settled(receipts, z, t) <=> Told(t)
  <2>1. /\ t \in Tasks /\ log[t] \in Entries /\ Recounted(t) /\ t \in DOMAIN x.st.tasks
        /\ Settled(receipts, x.st, t) => log[t].last \in {"none", "done"}
    BY <1>2, <1>5, <1>6, <1>7 DEF Recounted
  <2>2. CASE log[t].last = "done"
    <3>1. z.tasks[t].n >= 1 /\ \E r \in receipts : r.by = t /\ r.n = z.tasks[t].n
      BY <2>1, <2>2, <1>7 DEF Recounted
    <3> QED BY <2>2, <3>1, <1>7 DEF Settled, Told
  <2>3. CASE log[t].last = "none"
    <3>1. Settled(receipts, z, t) <=> Settled(receipts, x.st, t)
      BY <2>1, <2>3, <1>7 DEF Settled
    <3> QED BY <2>3, <3>1, <1>2 DEF Told
  <2>4. CASE log[t].last \notin {"none", "done"}
    <3>1. ~Told(t) /\ ~Settled(receipts, x.st, t)
      BY <2>1, <2>4 DEF Told
    <3>2. ASSUME Settled(receipts, z, t) PROVE FALSE
      <4>1. z.tasks[t].receipt = x.st.tasks[t].receipt /\ z.tasks[t].receipt = z.tasks[t].n /\ z.tasks[t].n >= 1
            /\ \E r \in receipts : r.by = t /\ r.n = z.tasks[t].n
        BY <3>2, <2>4, <1>7 DEF Settled
      <4>2. /\ z.tasks[t].n \in Nat /\ x.st.tasks[t].n \in Nat /\ x.st.tasks[t].receipt \in Nat
            /\ z.tasks[t].n >= x.st.tasks[t].n /\ x.st.tasks[t].receipt <= x.st.tasks[t].n
        BY <1>7
      <4>3. \A n, m, k \in Nat : n >= m /\ k <= m /\ k = n => n = m
        OBVIOUS
      <4>4. z.tasks[t].n = x.st.tasks[t].n
        BY ONLY <4>1, <4>2, <4>3
      <4> QED BY <4>1, <4>4, <3>1, <2>1 DEF Settled
    <3> QED BY <3>1, <3>2
  <2> QED BY <2>2, <2>3, <2>4
<1>9. Shaped(def, z)
  <2>1. \A t \in DOMAIN z.tasks : z.tasks[t].receipt <= z.tasks[t].n
    <3> SUFFICES ASSUME NEW t \in DOMAIN z.tasks PROVE z.tasks[t].receipt <= z.tasks[t].n
      OBVIOUS
    <3> QED BY <1>7
  <2>2. def.imports \subseteq DOMAIN def.spec
    BY <1>3, <1>4, <1>6 DEF Sound, Shaped
  <2> QED BY <1>3, <1>4, <1>6, <2>1, <2>2 DEF Shaped
<1>10. ASSUME NEW t \in DOMAIN z.tasks, x.st.tasks[t].status = "completed"
       PROVE  Contract(x.def.plan, t) = Contract(q, t) /\ Deps(x.def.plan, t) = Deps(q, t) /\ Owned(x.def.plan, t) = Owned(q, t)
  <2>1. Contract(x.def.plan, t) = Contract(q, t)
    BY <1>4, <1>6, <1>10 DEF Allows
  <2> QED BY <2>1, SameContract
<1>11. Imported(receipts, def, z)
  <2> SUFFICES ASSUME NEW t \in x.def.imports
               PROVE  /\ Settled(receipts, z, t) /\ Earned(receipts, z, None, t)
                      /\ z.tasks[t].status \in {"completed", "pending"}
                      /\ z.tasks[t].status = "completed" =>
                            Deps(q, t) = {} /\ \A e \in z.evidence : e.crit \notin Owned(q, t)
    BY <1>3 DEF Imported
  <2>1. t \in DOMAIN z.tasks
    BY <1>4, <1>6 DEF Sound, Shaped
  <2>2. z.tasks[t] = x.st.tasks[t]
    BY <2>1, <1>3, <1>5, <1>7 DEF Recounted
  <2>3. /\ Settled(receipts, x.st, t) /\ Earned(receipts, x.st, None, t)
        /\ x.st.tasks[t].status \in {"completed", "pending"}
        /\ x.st.tasks[t].status = "completed" =>
              Deps(x.def.plan, t) = {} /\ \A e \in x.st.evidence : e.crit \notin Owned(x.def.plan, t)
    BY <1>4 DEF Sound, Imported
  <2>4. Settled(receipts, z, t) /\ Earned(receipts, z, None, t)
    BY <2>1, <2>2, <2>3 DEF Settled, Earned
  <2> QED BY <1>6, <1>10, <2>1, <2>2, <2>3, <2>4
<1>12. Delivered(receipts, def, z)
  <2> SUFFICES ASSUME NEW t \in DOMAIN z.tasks, t \notin x.def.imports, z.tasks[t].status = "completed"
               PROVE  Settled(receipts, z, t) /\ Earned(receipts, z, q, t)
    BY <1>3 DEF Delivered
  <2>1. CASE log[t].last = "done"
    <3>1. Recounted(t) /\ z.tasks[t].n = Reached(t)
      BY <1>5, <1>7
    <3>2. \E r \in receipts : r.by = t /\ r.n = Reached(t) /\ r.rev = q
      BY <2>1, <3>1, <1>3 DEF Recounted
    <3>3. Same(q, q, t)
      BY <1>6 DEF Same
    <3>4. Settled(receipts, z, t)
      BY <2>1, <1>8 DEF Told
    <3> QED BY <3>1, <3>2, <3>3, <3>4 DEF Earned
  <2>2. CASE log[t].last = "none" /\ x.st.tasks[t].status = "completed"
    <3>1. Settled(receipts, x.st, t) /\ Earned(receipts, x.st, x.def.plan, t) /\ z.tasks[t] = x.st.tasks[t]
      BY <2>2, <1>4, <1>6, <1>7 DEF Sound, Delivered
    <3>2. PICK r \in receipts : r.by = t /\ r.n = x.st.tasks[t].n /\ Same(r.rev, x.def.plan, t)
      BY <3>1 DEF Earned
    <3>3. Same(r.rev, q, t)
      BY <3>2, <2>2, <1>3, <1>4, <1>6, <1>10 DEF Same
    <3> QED BY <3>1, <3>2, <3>3, <1>6 DEF Earned, Settled
  <2> QED BY <2>1, <2>2, <1>7
<1>13. Founded(receipts, z)
  <2> SUFFICES ASSUME NEW t \in DOMAIN z.tasks, NEW r \in receipts,
                      z.tasks[t].n >= 1, z.tasks[t].receipt = z.tasks[t].n, r.by = t, r.n = z.tasks[t].n, r.rev # None
               PROVE  t \in Ids(r.rev) /\ \A u \in Deps(r.rev, t) : Settled(receipts, z, u)
    BY DEF Founded
  <2>1. Settled(receipts, z, t)
    BY DEF Settled
  <2>2. Told(t) /\ Recounted(t) /\ t \in Tasks
    BY <2>1, <1>5, <1>7, <1>8
  <2>3. CASE log[t].last = "done"
    <3>1. PICK y \in receipts : y.by = t /\ y.n = Reached(t) /\ y.rev = def.plan
      BY <2>2, <2>3 DEF Recounted
    <3>2. r = y
      BY <3>1, <1>5, <1>7 DEF Unique
    <3>3. r.rev = q
      BY <3>1, <3>2, <1>3
    <3>4. \A u \in Deps(q, t) : Told(u) /\ u \in DOMAIN z.tasks
      BY <2>2, <2>3, <1>3, <1>6 DEF Recounted
    <3> QED BY <3>3, <3>4, <1>6, <1>8
  <2>4. CASE log[t].last = "none"
    <3>1. z.tasks[t] = x.st.tasks[t] /\ t \in DOMAIN x.st.tasks
      BY <2>4, <1>6, <1>7
    <3>2. Founded(receipts, x.st)
      BY <1>4 DEF Sound
    <3>3. t \in Ids(r.rev) /\ \A u \in Deps(r.rev, t) : Settled(receipts, x.st, u)
      BY <3>1, <3>2 DEF Founded
    <3>4. ASSUME NEW u \in Deps(r.rev, t) PROVE Settled(receipts, z, u)
      <4>1. Settled(receipts, x.st, u) /\ u \in DOMAIN z.tasks
        BY <3>3, <1>6 DEF Settled
      <4>2. Recounted(u)
        BY <4>1, <1>5, <1>7
      <4>3. Told(u)
        BY <4>1, <4>2, <1>2 DEF Recounted, Told
      <4> QED BY <4>1, <4>3, <1>8
    <3> QED BY <3>3, <3>4
  <2> QED BY <2>2, <2>3, <2>4 DEF Told
<1>14. Written'
  <2>1. Sound(receipts, def, z)
    BY <1>9, <1>11, <1>12, <1>13 DEF Sound
  <2> QED BY <1>1, <1>2, <2>1 DEF Written, Interrupted
<1>15. Events'
  <2>1. ASSUME NEW t \in DOMAIN z.tasks PROVE Followed(t)'
    <3>1. z.tasks[t].status = "completed" => Told(t)
      BY <1>8, <1>11, <1>12 DEF Imported, Delivered
    <3>2. Told(t) => Settled(receipts, z, t) /\ z.tasks[t].status # "running"
      BY <1>7, <1>8 DEF Told
    <3>3. z.tasks[t].n = Reached(t) /\ (z.tasks[t].status = "running" => log[t].last = "start")
      BY <1>7
    <3>4. Told(t)' = Told(t) /\ Reached(t)' = Reached(t)
      BY <1>1 DEF Told, Reached, BaseN
    <3>5. st' = z
      BY <1>2
    <3> QED BY <1>1, <3>1, <3>2, <3>3, <3>4, <3>5 DEF Followed
  <2>2. \A t \in Tasks : Recounted(t)'
    BY <1>1, <1>5 DEF Recounted, Told, Reached, BaseN
  <2>3. Amending(receipts)' /\ ~Validated(migrating) /\ def = Amended(amending.base, amending.rev).def
    BY <1>1, <1>3 DEF Amending, PlanInv, Events
  <2> QED BY <1>1, <1>2, <2>1, <2>2, <2>3 DEF Events
<1>16. Steady'
  BY <1>1 DEF Steady
<1> QED BY <1>1, <1>14, <1>15, <1>16 DEF PlanInv, Files

-----------------------------------------------------------------------------
(* The invariant.                                                          *)

\* The invariant holds where there is nothing, and of a run of an older kind.
LEMMA InitPlan == Init => PlanInv
<1> SUFFICES ASSUME Init PROVE PlanInv
  OBVIOUS
<1>1. /\ scene \in Scenes /\ amending = None /\ migrating = None /\ receipts = {} /\ log = Quiet
      /\ cmd = Idle /\ runner = FALSE /\ strayed = FALSE /\ changes = 0 /\ mishaps = 0
  BY DEF Init
<1>2. log \in [Tasks -> Entries]
  BY <1>1 DEF Quiet, Entries
<1>3. cmd = [at |-> cmd.at, to |-> cmd.to, kind |-> cmd.kind]
  BY <1>1 DEF Idle
<1>4. Steady /\ Events /\ Unique(receipts) /\ ~Interrupted
  BY <1>1 DEF Steady, Events, Unique, Interrupted, Validated
<1>5. Files
  <2>1. CASE scene.legacy
    <3>1. PICK p \in scene.plans : def = Legacy(p).def /\ st = Legacy(p).st
      BY <2>1 DEF Init
    <3>2. p \in Revisions
      BY <1>1, <3>1, ScenesAssumption
    <3>3. Sound(receipts, def, st)
      BY <3>1, <3>2, LegacySound
    <3> QED BY <1>1, <1>4, <3>3 DEF Files, Written, Sound, Shaped
  <2>2. CASE ~scene.legacy
    BY <2>2, <1>1 DEF Init, Files, Unwritten, Untouched
  <2> QED BY <2>1, <2>2
<1> QED BY <1>1, <1>2, <1>3, <1>4, <1>5 DEF PlanInv

\* Every step of a careful operator, of a runner and of a crash keeps it.
LEMMA NextPlan == PlanInv /\ Careful' /\ [Next]_vars => PlanInv'
<1> SUFFICES ASSUME PlanInv, Careful', [Next]_vars PROVE PlanInv'
  OBVIOUS
<1>1. CASE UNCHANGED vars
  BY <1>1, SameKeeps DEF vars
<1>2. ASSUME NEW p \in Revisions, Review(p) \/ Compile(p) \/ Amend(p) \/ Migrate(p) PROVE PlanInv'
  BY <1>2, ReviewKeeps, CompileKeeps, AmendKeeps, MigrateKeeps
<1>3. CASE Commands
  BY <1>3, WriteDefKeeps, WriteStateKeeps, WriteJournalKeeps DEF Commands
<1>4. CASE Start
  BY <1>4, StartKeeps
<1>5. CASE Recover
  BY <1>5, RecoverKeeps
<1>6. ASSUME NEW t \in Tasks, Working(t) PROVE PlanInv'
  BY <1>6, DispatchKeeps, LandKeeps, CompleteKeeps, FailKeeps DEF Working
<1>7. CASE End
  BY <1>7, EndKeeps
<1>8. ASSUME NEW t \in Tasks, Retry(t) PROVE PlanInv'
  BY <1>8, RetryKeeps
<1>9. CASE Crash
  BY <1>9, CrashKeeps
<1>10. CASE Damage
  BY <1>10, DamageKeeps
<1>11. CASE RecoverCheckpoint
  BY <1>11, RecoverCheckpointKeeps
<1> QED BY <1>1, <1>2, <1>3, <1>4, <1>5, <1>6, <1>7, <1>8, <1>9, <1>10, <1>11 DEF Next

\* Whatever happens, with a careful operator the files, the runner and the
\* events agree.
THEOREM PlanHolds == Spec /\ []Careful => []PlanInv
<1>1. Init => PlanInv
  BY InitPlan
<1>2. PlanInv /\ Careful' /\ [Next]_vars => PlanInv'
  BY NextPlan
<1> QED BY <1>1, <1>2, PTL DEF Spec

-----------------------------------------------------------------------------
(* What the invariant says of the properties.                              *)

\* Whichever of the two ends of an amendment the files are of, what is
\* completed has a receipt for what it is asked for, and a verdict only if it
\* was not imported.
LEMMA HalfEarned ==
    ASSUME HalfAmended, Readable, cmd = Idle, NEW t \in DOMAIN st.tasks, st.tasks[t].status = "completed"
    PROVE  /\ def.plan # None
           /\ t \in def.imports => \A e \in st.evidence : e.crit \notin Owned(def.plan, t)
           /\ t \notin def.imports => Earned(receipts, st, def.plan, t)
<1>1. PICK x, q : x = amending.base /\ q = amending.rev
  OBVIOUS
<1>2. PICK y : y = Amended(x, q)
  OBVIOUS
<1>3. /\ q \in Revisions
      /\ Sound(receipts, x.def, x.st) /\ Still(x.st) /\ x.def \in Defs /\ x.st \in States
      /\ DOMAIN x.st.tasks = DOMAIN x.def.spec /\ x.def.plan # None
      /\ Sound(receipts, y.def, y.st) /\ y.def.plan # None
      /\ y.def.plan = q /\ y.def.imports = x.def.imports /\ Allows(x, q)
  BY <1>1, <1>2, AmendingIs DEF HalfAmended, Amending
<1>4. /\ def \in {x.def, y.def} /\ (Aged(x.st, st) \/ Aged(y.st, st))
  BY <1>1, <1>2 DEF HalfAmended, Between, Readable
<1>5. DOMAIN y.st.tasks = Ids(q) /\ \A u \in Ids(q) :
         IF u \in DOMAIN x.st.tasks
         THEN /\ y.st.tasks[u].n = x.st.tasks[u].n
              /\ \/ y.st.tasks[u].status = x.st.tasks[u].status
                 \/ x.st.tasks[u].status = "failed" /\ y.st.tasks[u].status = "pending"
         ELSE y.st.tasks[u] = Fresh
  BY <1>2, <1>3, AmendedIs
<1>6. /\ t \in DOMAIN x.st.tasks /\ x.st.tasks[t].status = "completed" /\ x.st.tasks[t].n = st.tasks[t].n
  <2>1. CASE Aged(x.st, st)
    BY <2>1 DEF Aged
  <2>2. CASE Aged(y.st, st)
    <3>1. t \in Ids(q) /\ y.st.tasks[t].status = "completed" /\ y.st.tasks[t].n = st.tasks[t].n
      BY <2>2, <1>5 DEF Aged
    <3> QED BY <3>1, <1>5, FreshIs
  <2> QED BY <2>1, <2>2, <1>4
<1>7. /\ t \in Ids(q) /\ Contract(x.def.plan, t) = Contract(q, t) /\ t \in Ids(x.def.plan)
      /\ Owned(x.def.plan, t) = Owned(q, t)
  <2>1. t \in Ids(q) /\ Contract(x.def.plan, t) = Contract(q, t)
    BY <1>3, <1>6 DEF Allows
  <2>2. t \in Ids(x.def.plan)
    BY <1>3, <1>6 DEF Sound, Shaped
  <2> QED BY <2>1, <2>2, SameContract
<1>8. y.st.tasks[t].status = "completed"
  BY <1>5, <1>6, <1>7
<1>9. ASSUME t \in def.imports PROVE \A e \in st.evidence : e.crit \notin Owned(def.plan, t)
  <2>1. t \in x.def.imports /\ t \in y.def.imports
    BY <1>3, <1>4, <1>9
  <2>2. /\ \A e \in x.st.evidence : e.crit \notin Owned(x.def.plan, t)
        /\ \A e \in y.st.evidence : e.crit \notin Owned(y.def.plan, t)
    BY <2>1, <1>3, <1>6, <1>8 DEF Sound, Imported
  <2>3. st.evidence = x.st.evidence \/ st.evidence = y.st.evidence
    BY <1>4 DEF Aged
  <2> QED BY <2>2, <2>3, <1>3, <1>4, <1>7
<1>10. ASSUME t \notin def.imports PROVE Earned(receipts, st, def.plan, t)
  <2>1. Earned(receipts, x.st, x.def.plan, t)
    BY <1>3, <1>4, <1>6, <1>10 DEF Sound, Delivered
  <2>2. PICK r \in receipts : r.by = t /\ r.n = st.tasks[t].n /\ Same(r.rev, x.def.plan, t)
    BY <2>1, <1>6 DEF Earned
  <2>3. Same(r.rev, q, t)
    BY <2>2, <1>3, <1>7 DEF Same
  <2> QED BY <2>2, <2>3, <1>3, <1>4 DEF Earned
<1> QED BY <1>3, <1>4, <1>9, <1>10

\* A criterion reported as accepted was met under the contract it stands in.
LEMMA PlanEvidence == PlanInv => EvidenceEarned
<1> SUFFICES ASSUME PlanInv, cmd = Idle, Readable, def.plan # None, NEW c \in Crits(def.plan), Accepted(c)
             PROVE  \E r \in receipts : LET t == Manifest[def.plan].crit[c].owner IN
                      /\ r.by = t /\ r.n = Current[t].n
                      /\ r.rev # None /\ Contract(r.rev, t) = Contract(def.plan, t)
  BY DEF EvidenceEarned
<1>1. PICK t : t = Manifest[def.plan].crit[c].owner
  OBVIOUS
<1>2. /\ t \in DOMAIN st.tasks /\ st.tasks[t].status = "completed" /\ \E e \in st.evidence : e.crit = c
      /\ c \in Owned(def.plan, t)
  BY <1>1 DEF Accepted, Current, Owned
<1>3. Earned(receipts, st, def.plan, t)
  <2>1. CASE Written
    <3>1. Sound(receipts, def, st)
      BY <2>1 DEF Written, Readable
    <3> QED BY <3>1, <1>2 DEF Sound, Imported, Delivered
  <2>2. CASE HalfAmended
    BY <2>2, <1>2, HalfEarned
  <2>3. CASE HalfMigrated
    <3>1. PICK x, y : x = migrating.base /\ y = Migrated(x, migrating.rev)
      OBVIOUS
    <3>2. Aged(x.st, st) \/ Aged(y.st, st)
      BY <2>3, <3>1 DEF HalfMigrated, Between, Readable
    <3>3. Migrating(receipts) /\ Unique(receipts)
      BY <2>3 DEF HalfMigrated, PlanInv
    <3>4. x.st.evidence = {}
      BY <3>1, <3>3 DEF Migrating, Sound, Shaped
    <3>5. y.st.evidence = {}
      BY <3>1 DEF Migrated
    <3>6. st.evidence = {}
      BY <3>2, <3>4, <3>5 DEF Aged
    <3> QED BY <3>6, <1>2
  <2> QED BY <2>1, <2>2, <2>3, ReadableFiles
<1>4. PICK r \in receipts : r.by = t /\ r.n = st.tasks[t].n /\ Same(r.rev, def.plan, t)
  BY <1>3 DEF Earned
<1>5. r.rev # None /\ Contract(r.rev, t) = Contract(def.plan, t)
  BY <1>4 DEF Same
<1> QED BY <1>1, <1>4, <1>5 DEF Current

\* missingPlanningAcceptance never takes a criterion for accepted that no
\* published attempt met under the contract of today.
THEOREM EvidenceHolds == Spec /\ []Careful => []EvidenceEarned
BY PlanHolds, PlanEvidence, PTL

\* While the runner is up and nothing is about to be recorded, the completed
\* tasks are closed: nothing was built on what is not completed.
LEMMA CompletedClosed ==
    ASSUME PlanInv, runner, Landing = {}, def.plan # None
    PROVE  Closed(def.plan, {u \in Ids(def.plan) : st.tasks[u].status = "completed"})
<1> DEFINE p == def.plan
           S == {u \in Ids(p) : st.tasks[u].status = "completed"}
<1>1. /\ Sound(receipts, def, st) /\ DOMAIN st.tasks = Ids(p)
      /\ \A u \in DOMAIN st.tasks : Manned(u)
  BY RunnerIs DEF PlanInv, Steady, Sound, Shaped
<1>2. ASSUME NEW u \in DOMAIN st.tasks, Settled(receipts, st, u) PROVE u \in S
  <2>1. st.tasks[u].status \in {"completed", "running"} /\ st.tasks[u].receipt = st.tasks[u].n
    BY <1>1, <1>2 DEF Manned, Settled
  <2>2. st.tasks[u].status # "running"
    <3> SUFFICES ASSUME st.tasks[u].status = "running" PROVE FALSE
      OBVIOUS
    <3>1. Published(u) \in receipts
      BY <1>1, <2>1 DEF Manned
    <3> QED BY <3>1, <2>1 DEF Landing, Running, Current
  <2> QED BY <1>1, <2>1, <2>2
<1>3. ASSUME NEW u \in S PROVE Deps(p, u) \cap Ids(p) \subseteq S
  <2>1. u \in DOMAIN st.tasks /\ st.tasks[u].status = "completed"
    BY <1>1
  <2>2. CASE u \in def.imports
    BY <2>1, <2>2, <1>1 DEF Sound, Imported
  <2>3. CASE u \notin def.imports
    <3>1. Settled(receipts, st, u) /\ Earned(receipts, st, p, u)
      BY <2>1, <2>3, <1>1 DEF Sound, Delivered
    <3>2. PICK r \in receipts : r.by = u /\ r.n = st.tasks[u].n /\ Same(r.rev, p, u)
      BY <3>1 DEF Earned
    <3>3. r.rev # None /\ Contract(r.rev, u) = Contract(p, u)
      BY <3>2 DEF Same
    <3>4. Deps(r.rev, u) = Deps(p, u)
      BY <3>3, SameContract
    <3>5. \A v \in Deps(r.rev, u) : Settled(receipts, st, v)
      BY <2>1, <3>1, <3>2, <3>3, <1>1 DEF Sound, Founded, Settled
    <3>6. \A v \in Deps(p, u) : v \in DOMAIN st.tasks /\ Settled(receipts, st, v)
      BY <3>4, <3>5 DEF Settled
    <3> HIDE DEF S
    <3> QED BY <3>6, <1>2
  <2> QED BY <2>2, <2>3
<1> QED BY <1>3 DEF Closed

\* A publication comes after all who contribute to what it is judged by.
LEMMA LandAfter ==
    ASSUME PlanInv, NEW t \in Tasks, Land(t), def.plan # None, NEW c \in Owned(def.plan, t),
           NEW u \in Manifest[def.plan].crit[c].contributors \ {t}
    PROVE  Current[u].status = "completed"
<1> DEFINE p == def.plan
           S == {v \in Ids(p) : st.tasks[v].status = "completed"}
<1>1. runner /\ Landing = {} /\ t \in Running
  BY DEF Land
<1>2. /\ Sound(receipts, def, st) /\ DOMAIN st.tasks = Ids(p) /\ Valid(p)
      /\ Manned(t) /\ t \in Ids(p) /\ st.tasks[t].status = "running"
  BY <1>1, RunnerIs DEF PlanInv, Steady, Sound, Shaped, Running
<1>3. Closed(p, S)
  BY <1>1, CompletedClosed
<1>4. Deps(p, t) \cap Ids(p) \subseteq S
  BY <1>2 DEF Manned, DepsOf, Completed
<1>5. S \in SUBSET Ids(p)
  OBVIOUS
<1>6. u \in Ancestors(p, t)
  BY <1>2 DEF Valid, Owned
<1>7. \A A \in SUBSET Ids(p) : Closed(p, A) /\ Deps(p, t) \cap Ids(p) \subseteq A => u \in A
  BY <1>6 DEF Ancestors
<1>8. u \in S
  <2> HIDE DEF S
  <2> QED BY <1>3, <1>4, <1>5, <1>7
<1> QED BY <1>8 DEF Current

\* A task that is judged by a criterion is published only when all who
\* contribute to it are completed.
THEOREM ContributorsHold == Spec /\ []Careful => ContributorsFirst
<1> DEFINE First == \A t \in Tasks : (Land(t) /\ def.plan # None) =>
                       \A c \in Owned(def.plan, t) : \A u \in Manifest[def.plan].crit[c].contributors \ {t} :
                           u \in def.imports \/ Current[u].status = "completed"
<1>1. PlanInv => First
  BY LandAfter
<1>2. [First]_vars <=> (First \/ UNCHANGED vars)
  OBVIOUS
<1> QED BY <1>1, PlanHolds, PTL DEF ContributorsFirst

-----------------------------------------------------------------------------
(* Nothing that was done is undone.                                        *)

\* What is kept of t from one state to the next: its attempts, and that it is
\* completed.
Carried(s, z, t) == Holds(z, t) /\ z.tasks[t].n >= s.tasks[t].n /\ (s.tasks[t].status = "completed" => z.tasks[t].status = "completed")

\* A state file that can be read has the parts of one.
LEMMA StoreIs == ASSUME PlanInv, st \notin {None, Damaged} PROVE st \in States
<1>1. ~Unwritten /\ ~HalfWritten
  BY DEF Unwritten, HalfWritten, Untouched
<1>2. CASE Written
  BY <1>2 DEF Written, Sound, Shaped
<1>3. CASE HalfAmended
  BY <1>3 DEF HalfAmended, Between, Aged
<1>4. CASE HalfMigrated
  BY <1>4 DEF HalfMigrated, Between, Aged
<1> QED BY <1>1, <1>2, <1>3, <1>4 DEF PlanInv, Files

\* A step that leaves the state keeps what was worked on.
LEMMA KeptSame == ASSUME PlanInv, NEW t, Holds(st, t), st' = st PROVE Carried(st, st', t)
<1>1. st \in States /\ t \in DOMAIN st.tasks
  BY StoreIs DEF Holds
<1>2. st.tasks[t].n \in Nat
  BY <1>1, TaskIs
<1> QED BY <1>2 DEF Carried, Holds

\* The second end of a command keeps what was worked on.
LEMMA EndsKept ==
    ASSUME PlanInv, NEW t, t \in DOMAIN st.tasks, st \in States, st.tasks[t].n > 0
    PROVE  /\ HalfAmended => LET z == Amended(amending.base, amending.rev).st IN
                               /\ z \in States /\ t \in DOMAIN z.tasks /\ z.tasks[t].n = st.tasks[t].n
                               /\ st.tasks[t].status = "completed" => z.tasks[t].status = "completed"
           /\ HalfMigrated => LET z == Migrated(migrating.base, migrating.rev).st IN
                               /\ z \in States /\ t \in DOMAIN z.tasks /\ z.tasks[t].n = st.tasks[t].n
                               /\ st.tasks[t].status = "completed" => z.tasks[t].status = "completed"
<1>1. ASSUME NEW x, NEW y, Between(x, y), st # Damaged,
             \A u \in DOMAIN y.st.tasks : u \notin DOMAIN x.st.tasks => y.st.tasks[u] = Fresh,
             \A u \in DOMAIN x.st.tasks : x.st.tasks[u].n > 0 =>
                 /\ u \in DOMAIN y.st.tasks /\ y.st.tasks[u].n = x.st.tasks[u].n
                 /\ x.st.tasks[u].status = "completed" => y.st.tasks[u].status = "completed"
      PROVE  /\ t \in DOMAIN y.st.tasks /\ y.st.tasks[t].n = st.tasks[t].n
             /\ st.tasks[t].status = "completed" => y.st.tasks[t].status = "completed"
  <2>1. CASE Aged(x.st, st)
    BY <2>1, <1>1 DEF Aged
  <2>2. CASE Aged(y.st, st)
    BY <2>2 DEF Aged
  <2> QED BY <2>1, <2>2, <1>1 DEF Between
<1>2. st # Damaged
  BY StateIs
<1>3. CASE HalfAmended
  <2>1. PICK x, q : x = amending.base /\ q = amending.rev
    OBVIOUS
  <2>2. PICK y : y = Amended(x, q)
    OBVIOUS
  <2>3. /\ q \in Revisions /\ x.def \in Defs /\ x.st \in States /\ DOMAIN x.st.tasks = DOMAIN x.def.spec
        /\ Allows(x, q) /\ Between(x, y)
    BY <2>1, <2>2, <1>3, AmendingIs DEF HalfAmended, Amending
  <2>4. /\ y.st \in States /\ DOMAIN y.st.tasks = Ids(q)
        /\ \A u \in Ids(q) :
              IF u \in DOMAIN x.st.tasks
              THEN /\ y.st.tasks[u].n = x.st.tasks[u].n
                   /\ \/ y.st.tasks[u].status = x.st.tasks[u].status
                      \/ x.st.tasks[u].status = "failed" /\ y.st.tasks[u].status = "pending"
              ELSE y.st.tasks[u] = Fresh
        /\ \A u \in DOMAIN x.st.tasks : x.st.tasks[u].n >= 1 => u \in Ids(q)
    BY <2>2, <2>3, AmendedIs
  <2>5. ASSUME NEW u \in DOMAIN x.st.tasks PROVE x.st.tasks[u].n > 0 => x.st.tasks[u].n >= 1
    <3>1. x.st.tasks[u].n \in Nat
      BY <2>3, TaskIs
    <3> QED BY <3>1
  <2>6. /\ t \in DOMAIN y.st.tasks /\ y.st.tasks[t].n = st.tasks[t].n
        /\ st.tasks[t].status = "completed" => y.st.tasks[t].status = "completed"
    <3>1. \A u \in DOMAIN y.st.tasks : u \notin DOMAIN x.st.tasks => y.st.tasks[u] = Fresh
      BY <2>4
    <3>2. ASSUME NEW u \in DOMAIN x.st.tasks, x.st.tasks[u].n > 0
          PROVE  /\ u \in DOMAIN y.st.tasks /\ y.st.tasks[u].n = x.st.tasks[u].n
                 /\ x.st.tasks[u].status = "completed" => y.st.tasks[u].status = "completed"
      <4>1. u \in Ids(q)
        BY <3>2, <2>4, <2>5
      <4> QED BY <4>1, <2>4
    <3> QED BY <3>1, <3>2, <1>1, <1>2, <2>3
  <2>7. ~HalfMigrated
    BY <1>3 DEF HalfAmended, HalfMigrated, Validated
  <2> QED BY <2>1, <2>2, <2>4, <2>6, <2>7
<1>4. CASE HalfMigrated
  <2>1. PICK x, q : x = migrating.base /\ q = migrating.rev
    OBVIOUS
  <2>2. PICK y : y = Migrated(x, q)
    OBVIOUS
  <2>3. /\ q \in Revisions /\ x.def \in Defs /\ x.st \in States /\ DOMAIN x.st.tasks = DOMAIN x.def.spec
        /\ Between(x, y) /\ DOMAIN x.def.spec \subseteq Ids(q)
    BY <2>1, <2>2, <1>4, MigratingIs DEF HalfMigrated, Migrating, PlanInv
  <2>4. /\ y.st \in States /\ DOMAIN y.st.tasks = Ids(q)
        /\ \A u \in Ids(q) :
              IF u \in DOMAIN x.st.tasks THEN y.st.tasks[u] = x.st.tasks[u] ELSE y.st.tasks[u] = Fresh
    BY <2>2, <2>3, MigratedIs
  <2>5. /\ t \in DOMAIN y.st.tasks /\ y.st.tasks[t].n = st.tasks[t].n
        /\ st.tasks[t].status = "completed" => y.st.tasks[t].status = "completed"
    BY <1>1, <1>2, <2>3, <2>4
  <2>6. ~HalfAmended
    BY <1>4 DEF HalfAmended, HalfMigrated, Validated
  <2> QED BY <2>1, <2>2, <2>4, <2>5, <2>6
<1> QED BY <1>3, <1>4

\* What was worked on is in the run that is loaded.
LEMMA WorkLoaded ==
    ASSUME PlanInv, Readable, NEW t, Holds(st, t), st.tasks[t].n > 0
    PROVE  t \in DOMAIN def.spec
<1>1. st \in States /\ t \in DOMAIN st.tasks
  BY StoreIs DEF Holds
<1>2. CASE Written
  BY <1>1, <1>2, LoadedIs DEF Written
<1>3. ASSUME NEW x, NEW y, Between(x, y), y.st \in States, x.st \in States, st # Damaged,
             DOMAIN y.st.tasks = DOMAIN y.def.spec, DOMAIN x.st.tasks = DOMAIN x.def.spec,
             \A u \in DOMAIN y.st.tasks : u \notin DOMAIN x.st.tasks => y.st.tasks[u] = Fresh,
             \A u \in DOMAIN x.st.tasks : x.st.tasks[u].n > 0 => u \in DOMAIN y.st.tasks
      PROVE  t \in DOMAIN def.spec
  <2>1. CASE Aged(x.st, st)
    BY <2>1, <1>1, <1>3 DEF Between, Aged
  <2>2. CASE Aged(y.st, st)
    <3>1. t \in DOMAIN y.st.tasks /\ y.st.tasks[t].n > 0
      BY <2>2, <1>1 DEF Aged
    <3>2. y.st.tasks[t] # Fresh
      BY <3>1, FreshIs
    <3>3. t \in DOMAIN x.st.tasks
      BY <3>1, <3>2, <1>3
    <3> QED BY <3>1, <3>3, <1>3 DEF Between
  <2> QED BY <2>1, <2>2, <1>3 DEF Between
<1>4. CASE HalfAmended
  <2>1. PICK x, q : x = amending.base /\ q = amending.rev
    OBVIOUS
  <2>2. PICK y : y = Amended(x, q)
    OBVIOUS
  <2>3. /\ q \in Revisions /\ x.def \in Defs /\ x.st \in States /\ DOMAIN x.st.tasks = DOMAIN x.def.spec
        /\ Allows(x, q) /\ Between(x, y)
    BY <2>1, <2>2, <1>4, AmendingIs DEF HalfAmended, Amending
  <2>4. /\ y.st \in States /\ DOMAIN y.st.tasks = DOMAIN y.def.spec /\ DOMAIN y.st.tasks = Ids(q)
        /\ \A u \in Ids(q) : u \notin DOMAIN x.st.tasks => y.st.tasks[u] = Fresh
        /\ \A u \in DOMAIN x.st.tasks : x.st.tasks[u].n >= 1 => u \in Ids(q)
    BY <2>2, <2>3, AmendedIs
  <2>5. ASSUME NEW u \in DOMAIN x.st.tasks PROVE x.st.tasks[u].n > 0 => x.st.tasks[u].n >= 1
    <3>1. x.st.tasks[u].n \in Nat
      BY <2>3, TaskIs
    <3> QED BY <3>1
  <2>6. /\ \A u \in DOMAIN y.st.tasks : u \notin DOMAIN x.st.tasks => y.st.tasks[u] = Fresh
        /\ \A u \in DOMAIN x.st.tasks : x.st.tasks[u].n > 0 => u \in DOMAIN y.st.tasks
    BY <2>4, <2>5
  <2>7. st # Damaged
    BY DEF Readable
  <2> QED BY <1>3, <2>3, <2>4, <2>6, <2>7
<1>5. CASE HalfMigrated
  <2>1. PICK x, q : x = migrating.base /\ q = migrating.rev
    OBVIOUS
  <2>2. PICK y : y = Migrated(x, q)
    OBVIOUS
  <2>3. /\ q \in Revisions /\ x.def \in Defs /\ x.st \in States /\ DOMAIN x.st.tasks = DOMAIN x.def.spec
        /\ Between(x, y) /\ DOMAIN x.def.spec \subseteq Ids(q)
    BY <2>1, <2>2, <1>5, MigratingIs DEF HalfMigrated, Migrating, PlanInv
  <2>4. /\ y.st \in States /\ DOMAIN y.st.tasks = DOMAIN y.def.spec /\ DOMAIN y.st.tasks = Ids(q)
        /\ \A u \in Ids(q) : u \notin DOMAIN x.st.tasks => y.st.tasks[u] = Fresh
    BY <2>2, <2>3, MigratedIs
  <2> QED BY <1>3, <2>3, <2>4 DEF Readable
<1> QED BY <1>2, <1>4, <1>5, ReadableFiles

\* To requeue a run keeps its work.
LEMMA KeptRequeued ==
    ASSUME PlanInv, Readable, NEW t, Holds(st, t), st.tasks[t].n > 0, st' = Requeued(Run.st)
    PROVE  Carried(st, st', t)
<1> DEFINE f == [u \in DOMAIN def.spec |-> st.tasks[u]]
           r == Run.st
           s == Requeued(r)
<1>1. st \in States /\ r \in States /\ r = [st EXCEPT !.tasks = f] /\ t \in DOMAIN st.tasks /\ t \in DOMAIN def.spec
  BY ReadableIs, WorkLoaded DEF Holds
<1>2. r.tasks = f
  BY <1>1, StateIs
<1>3. DOMAIN r.tasks = DOMAIN def.spec /\ \A u \in DOMAIN def.spec : r.tasks[u] = st.tasks[u]
  BY <1>2
<1> HIDE DEF f, r
<1>4. /\ s \in States /\ DOMAIN s.tasks = DOMAIN r.tasks
      /\ \A u \in DOMAIN r.tasks :
            /\ s.tasks[u].n = r.tasks[u].n
            /\ r.tasks[u].status # "running" => s.tasks[u].status = r.tasks[u].status
  BY <1>1, RequeuedIs
<1>5. st' = s
  BY DEF r
<1> HIDE DEF s
<1>6. st' # None /\ st' # Damaged /\ st.tasks[t].n \in Nat
  BY <1>1, <1>4, <1>5, StateIs, TaskIs
<1> QED BY <1>1, <1>3, <1>4, <1>5, <1>6 DEF Carried, Holds

\* What a step of the runner on one task does to the others and to it.
LEMMA KeptWorking ==
    ASSUME PlanInv, NEW u \in Tasks, Working(u), NEW t, Holds(st, t)
    PROVE  Carried(st, st', t)
<1>1. st \in States /\ t \in DOMAIN st.tasks /\ st.tasks[t].n \in Nat
  BY StoreIs, TaskIs DEF Holds
<1>2. CASE Dispatch(u)
  <2>1. st' \in States /\ DOMAIN st'.tasks = DOMAIN st.tasks /\ st'.tasks[u].n = st.tasks[u].n + 1
        /\ (\A w \in DOMAIN st.tasks \ {u} : st'.tasks[w] = st.tasks[w])
    BY <1>2, DispatchSets
  <2>2. st.tasks[u].status = "pending"
    BY <1>2 DEF Dispatch, Current
  <2>3. st' # None /\ st' # Damaged
    BY <2>1, StateIs
  <2> QED BY <1>1, <2>1, <2>2, <2>3 DEF Carried, Holds
<1>3. CASE Land(u)
  <2>1. st' \in States /\ DOMAIN st'.tasks = DOMAIN st.tasks /\ st'.tasks[u].n = st.tasks[u].n
        /\ (\A w \in DOMAIN st.tasks \ {u} : st'.tasks[w] = st.tasks[w])
    BY <1>3, LandSets
  <2>2. st.tasks[u].status = "running"
    BY <1>3 DEF Land, Running
  <2>3. st' # None /\ st' # Damaged
    BY <2>1, StateIs
  <2> QED BY <1>1, <2>1, <2>2, <2>3 DEF Carried, Holds
<1>4. CASE Complete(u)
  <2>1. st' \in States /\ DOMAIN st'.tasks = DOMAIN st.tasks /\ st'.tasks[u].n = st.tasks[u].n
        /\ st'.tasks[u].status = "completed"
        /\ (\A w \in DOMAIN st.tasks \ {u} : st'.tasks[w] = st.tasks[w])
    BY <1>4, CompleteSets
  <2>2. st' # None /\ st' # Damaged
    BY <2>1, StateIs
  <2> QED BY <1>1, <2>1, <2>2 DEF Carried, Holds
<1>5. CASE Fail(u)
  <2>1. PICK v \in {"pending", "failed"} : st' = Marked(st, u, v)
    BY <1>5 DEF Fail, Marked
  <2>2. u \in DOMAIN st.tasks /\ st.tasks[u].status = "running"
    BY <1>5 DEF Fail, Running
  <2>3. st' \in States /\ DOMAIN st'.tasks = DOMAIN st.tasks /\ st'.tasks[u].n = st.tasks[u].n
        /\ (\A w \in DOMAIN st.tasks \ {u} : st'.tasks[w] = st.tasks[w])
    BY <1>1, <2>1, <2>2, StatusSet
  <2>4. st' # None /\ st' # Damaged
    BY <2>3, StateIs
  <2> QED BY <1>1, <2>2, <2>3, <2>4 DEF Carried, Holds
<1> QED BY <1>2, <1>3, <1>4, <1>5 DEF Working

\* So does a start, whether it refuses or goes on.
LEMMA KeptStarted ==
    ASSUME PlanInv, Start, Careful', NEW t, Holds(st, t), st.tasks[t].n > 0
    PROVE  Carried(st, st', t)
<1>1. CASE RefusesReceipt(Requeued(Run.st))
  BY <1>1, KeptRequeued DEF Start
<1>2. CASE ~RefusesReceipt(Requeued(Run.st))
  <2>1. /\ st \in States /\ st' \in States /\ DOMAIN st'.tasks = DOMAIN st.tasks
        /\ \A u \in DOMAIN st.tasks :
              /\ st'.tasks[u].n = st.tasks[u].n
              /\ st.tasks[u].status = "completed" => st'.tasks[u].status = "completed"
    BY <1>2, StartedIs
  <2>2. t \in DOMAIN st.tasks /\ st.tasks[t].n \in Nat
    BY <2>1, TaskIs DEF Holds
  <2>3. st' # None /\ st' # Damaged
    BY <2>1, StateIs
  <2> QED BY <2>1, <2>2, <2>3 DEF Carried, Holds
<1> QED BY <1>1, <1>2

\* So does the state that a command writes.
LEMMA KeptWritten ==
    ASSUME PlanInv, WriteState, NEW t, Holds(st, t), st.tasks[t].n > 0
    PROVE  Carried(st, st', t)
<1>1. cmd.at = "st" /\ st' = cmd.to.st /\ cmd # Idle
  BY DEF WriteState, Idle
<1>2. st \in States /\ t \in DOMAIN st.tasks /\ st.tasks[t].n \in Nat
  BY StoreIs, TaskIs DEF Holds
<1>3. HalfAmended \/ HalfMigrated
  BY <1>1 DEF PlanInv, Files, Unwritten, HalfWritten, Untouched, Written, Holds
<1>4. CASE HalfAmended
  <2>1. st' = Amended(amending.base, amending.rev).st
    BY <1>1, <1>4 DEF HalfAmended, Between
  <2>2. /\ st' \in States /\ t \in DOMAIN st'.tasks /\ st'.tasks[t].n = st.tasks[t].n
        /\ st.tasks[t].status = "completed" => st'.tasks[t].status = "completed"
    BY <2>1, <1>2, <1>4, EndsKept
  <2>3. st' # None /\ st' # Damaged
    BY <2>2, StateIs
  <2> QED BY <1>2, <2>2, <2>3 DEF Carried, Holds
<1>5. CASE HalfMigrated
  <2>1. st' = Migrated(migrating.base, migrating.rev).st
    BY <1>1, <1>5 DEF HalfMigrated, Between
  <2>2. /\ st' \in States /\ t \in DOMAIN st'.tasks /\ st'.tasks[t].n = st.tasks[t].n
        /\ st.tasks[t].status = "completed" => st'.tasks[t].status = "completed"
    BY <2>1, <1>2, <1>5, EndsKept
  <2>3. st' # None /\ st' # Damaged
    BY <2>2, StateIs
  <2> QED BY <1>2, <2>2, <2>3 DEF Carried, Holds
<1> QED BY <1>3, <1>4, <1>5

\* A retry takes back a completion and no attempt, and is counted.
LEMMA KeptRetried ==
    ASSUME PlanInv, NEW u \in Tasks, Retry(u), NEW t, Holds(st, t)
    PROVE  Holds(st', t) /\ st'.tasks[t].n >= st.tasks[t].n /\ mishaps' # mishaps
<1>1. st \in States /\ t \in DOMAIN st.tasks /\ st.tasks[t].n \in Nat
  BY StoreIs, TaskIs DEF Holds
<1>2. st' = Marked(st, u, "pending") /\ u \in DOMAIN st.tasks /\ mishaps' # mishaps
  BY DEF Retry, Marked, Readable, Mishap, PlanInv
<1>3. st' \in States /\ DOMAIN st'.tasks = DOMAIN st.tasks /\ st'.tasks[u].n = st.tasks[u].n
      /\ (\A w \in DOMAIN st.tasks \ {u} : st'.tasks[w] = st.tasks[w])
  BY <1>1, <1>2, StatusSet
<1>4. st' # None /\ st' # Damaged
  BY <1>3, StateIs
<1> QED BY <1>1, <1>2, <1>3, <1>4 DEF Holds

\* So does every step.
LEMMA WorkStep ==
    ASSUME PlanInv, Careful', [Next]_vars, NEW t \in Tasks, Holds(st, t), st.tasks[t].n > 0, st' # Damaged
    PROVE  /\ Holds(st', t) /\ st'.tasks[t].n >= st.tasks[t].n
           /\ st.tasks[t].status = "completed" => (st'.tasks[t].status = "completed" \/ mishaps' # mishaps)
<1> DEFINE Goal == /\ Holds(st', t) /\ st'.tasks[t].n >= st.tasks[t].n
                   /\ st.tasks[t].status = "completed" => (st'.tasks[t].status = "completed" \/ mishaps' # mishaps)
<1>0. Carried(st, st', t) => Goal
  BY DEF Carried
<1> SUFFICES Goal
  OBVIOUS
<1> HIDE DEF Goal
<1>1. CASE UNCHANGED st
  BY <1>0, <1>1, KeptSame
<1>2. CASE WriteState
  BY <1>0, <1>2, KeptWritten
<1>3. CASE Start
  BY <1>0, <1>3, KeptStarted
<1>4. CASE Recover
  BY <1>0, <1>4, KeptRequeued DEF Recover
<1>5. ASSUME NEW u \in Tasks, Working(u) PROVE Goal
  BY <1>0, <1>5, KeptWorking
<1>6. CASE End
  <2>1. Readable /\ Run.st = st /\ st' = Requeued(st)
    BY <1>6, RunnerIs DEF End
  <2> QED BY <1>0, <2>1, KeptRequeued
<1>7. ASSUME NEW u \in Tasks, Retry(u) PROVE Goal
  BY <1>7, KeptRetried DEF Goal
<1>8. ~RecoverCheckpoint
  <2> SUFFICES ASSUME RecoverCheckpoint PROVE FALSE
    OBVIOUS
  <2>1. Written /\ ~Readable /\ def # None /\ st \in States
    BY RebuiltIs, StoreIs DEF RecoverCheckpoint, Holds
  <2>2. st # None /\ st # Damaged
    BY <2>1, StateIs
  <2> QED BY <2>1, <2>2 DEF Written, Sound, Shaped, Readable
<1>9. UNCHANGED vars \/ (\E p \in Revisions : Review(p) \/ Compile(p) \/ Amend(p) \/ Migrate(p))
      \/ WriteDef \/ WriteJournal \/ Crash => UNCHANGED st
  BY DEF vars, files, Review, Compile, Amend, Migrate, WriteDef, WriteJournal, Crash
<1>10. ~Damage
  BY DEF Damage
<1> QED BY <1>1, <1>2, <1>3, <1>4, <1>5, <1>6, <1>7, <1>8, <1>9, <1>10 DEF Next, Commands

\* No attempt is taken back, no attempted task forgotten, and accepted work
\* stays accepted unless the operator retries it.
THEOREM WorkHolds == Spec /\ []Careful => WorkKept
<1> DEFINE Stays(t) == /\ Holds(st', t) /\ st'.tasks[t].n >= st.tasks[t].n
                       /\ st.tasks[t].status = "completed" => (st'.tasks[t].status = "completed" \/ mishaps' # mishaps)
           Step == ~strayed => \A t \in Tasks : (Holds(st, t) /\ st.tasks[t].n > 0 /\ st' # Damaged) => Stays(t)
<1>1. PlanInv /\ Careful' /\ [Next]_vars => Step
  BY WorkStep
<1> QED BY <1>1, PlanHolds, PTL DEF Spec, WorkKept
=============================================================================
