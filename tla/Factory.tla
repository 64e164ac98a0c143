------------------------------ MODULE Factory ------------------------------
(* The closed-loop factory: src/src/factory/controller.ts and the analyses  *)
(* it decides with.  A controller process takes a structured goal through   *)
(* its stages; each turn runs the stage's tasks with the DAG engine and     *)
(* then a handler turns their output into artifacts, new tasks and the next *)
(* stage.  Handlers are synchronous, so what one reads is read at once;     *)
(* what it writes reaches the disk one atomic file at a time, and the       *)
(* process may die between any two of them: `todo' is what is still to be   *)
(* written.  The operator resumes, fixes, closes, retries and commits.      *)
EXTENDS Integers, Sequences, FiniteSets

CONSTANTS
    Hyps,        \* defect hypotheses a review may raise
    NoHyp,       \* the second component of a task that is about no hypothesis
    Confs,       \* goals: [review, isolated, required, covered, room]; heads bounds the commits
    Reviews,     \* what a review may report, by name: [found, missing, whole]
    Answers,     \* what a verifier may answer, by name
    MaxFaults    \* bound: deaths of the controller and retries by the operator

ASSUME FactoryAssumption ==
    /\ NoHyp \notin Hyps
    /\ MaxFaults \in Nat
    /\ Confs \subseteq [review : BOOLEAN, isolated : BOOLEAN, required : SUBSET {"check"},
                        covered : BOOLEAN, room : Nat, heads : Nat]
    /\ Reviews \in [DOMAIN Reviews -> [found : SUBSET Hyps, missing : SUBSET Hyps, whole : BOOLEAN]]

VARIABLES
    conf,   \* the goal
    head,   \* the commit repositoryCommit reads: HEAD, or dag/<run> with task worktrees
    dirty,  \* the working tree holds changes nobody committed
    run,    \* the run file: the tasks of the factory
    ctl,    \* controller-v1.json, the checkpoint
    art,    \* the artifacts: what the file holds, what the manifest's digest is of
    mem,    \* the controller process
    todo,   \* files it has still to write, in order
    past    \* fixes given (the commit they were given on), deaths and retries

vars == <<conf, head, dirty, run, ctl, art, mem, todo, past>>

Stages == <<"implementation", "quality", "verification", "root_cause", "report", "reported",
            "remediation", "remediation_verification", "recertification", "convergence", "complete">>
Statuses == {"ready", "running", "waiting", "completed"}
Singles == {"implement", "check", "review", "rootCause", "regression", "recertify"}
Task(k) == <<k, NoHyp>>
About(k, hs) == {k} \X hs
Tasks == (Singles \X {NoHyp}) \cup ({"verify", "repair", "recheck"} \X Hyps)

NoTask == [st |-> "none", spec |-> 0, at |-> 0, out |-> "none"]
NoResult == [verdict |-> "none", sure |-> FALSE, reach |-> "unresolved", current |-> FALSE]
NoCtl == [stage |-> "none", status |-> "ready", error |-> "none", tasks |-> {}, source |-> 0]
Off == [stage |-> "none", status |-> "ready", error |-> "none", tasks |-> {}, source |-> 0,
        pc |-> "off", turns |-> 0]

\* The artifacts whose content a later stage or a redone one depends on.
Blank ==
    [graph |-> 0, hyps |-> [found |-> {}, missing |-> {}, at |-> 0, judged |-> FALSE],
     coverage |-> FALSE, base |-> [commit |-> 0, at |-> {}, ok |-> FALSE],
     results |-> [h \in Hyps |-> NoResult], plan |-> {}, report |-> [commit |-> 0, defects |-> {}],
     source |-> 0, rechecks |-> [h \in Hyps |-> NoResult],
     cert |-> [commit |-> 0, at |-> {}, checks |-> {}], decision |-> "none"]

Init ==
    /\ conf \in Confs
    /\ head = 1 /\ dirty = FALSE
    /\ run = [t \in Tasks |-> NoTask]
    /\ ctl = NoCtl
    /\ art = [n \in DOMAIN Blank |-> [body |-> Blank[n], ref |-> Blank[n], saved |-> FALSE]]
    /\ mem = Off
    /\ todo = <<>>
    /\ past = [fixes |-> {}, faults |-> 0]

---------------------------------------------------------------------------
\* What the manifest vouches for: loadArtifact refuses an artifact whose bytes
\* are not those of its digest.
Loadable(n) == art[n].saved /\ art[n].body = art[n].ref
Held(n) == art[n].body

\* saveArtifact writes the artifact, then the manifest: two atomic writes.
Save(n, v) == <<[k |-> "body", n |-> n, v |-> v], [k |-> "ref", n |-> n, v |-> v]>>
\* Saving the run it read changes no byte of the file.
SaveRun(r) == IF r = run THEN <<>> ELSE <<[k |-> "run", v |-> r]>>
Checkpoint(s) ==
    <<[k |-> "ctl", v |-> [x \in DOMAIN NoCtl |-> s[x]]]>>
Extended(level) == Save("graph", IF Held("graph") > level THEN Held("graph") ELSE level)

\* The tasks a stage runs.
Scope(s) ==
    {t \in s.tasks :
        t[1] \in CASE s.stage = "implementation" -> {"implement"}
                   [] s.stage = "quality" -> {"check", "review"}
                   [] s.stage = "verification" -> {"verify"}
                   [] s.stage = "root_cause" -> {"rootCause"}
                   [] s.stage = "remediation" -> {"repair"}
                   [] s.stage = "remediation_verification" -> {"recheck"}
                   [] s.stage = "recertification" -> {"regression", "recertify"}
                   [] OTHER -> {}}

\* The prompts of verifications quote the sources, so they name a commit.
Prompt(t) == IF t[1] \in {"verify", "recheck"} THEN head ELSE 0
Ensured(r, ts) ==
    [t \in Tasks |-> IF t \in ts /\ r[t].st = "none"
                     THEN [NoTask EXCEPT !.st = "pending", !.spec = Prompt(t)] ELSE r[t]]
\* ensureTask refuses a task of the run that is not what it would now write.
ForeignIgnored(r, ts) == {}  \* a mutant
Foreign(r, ts) == {t \in ts : r[t].st # "none" /\ r[t].spec # Prompt(t)}

DepKinds(k) ==
    CASE k = "implement" -> {}
      [] k \in {"check", "review"} -> {"implement"}
      [] k = "verify" -> {"review"}
      [] k = "rootCause" -> {"verify"}
      [] k = "repair" -> {"rootCause"}
      [] k = "recheck" -> {"repair"}
      [] k = "regression" -> {"repair", "check", "review"}
      [] k = "recertify" -> {"regression"}
Deps(t) == {d \in Tasks : run[d].st # "none" /\ d[1] \in DepKinds(t[1])}
Done(t) == run[t].st = "completed"
Runnable(t) == run[t].st = "pending" /\ \A d \in Deps(t) : Done(d)

---------------------------------------------------------------------------
(* The analyses.                                                           *)

\* adjudicateVerification: an answer that does not hold up is inconclusive.
Supported(a) == a.favour /\ a.reach = "confirmed" /\ a.sure
Adjudicated(a, refuted) ==
    LET sound == /\ a.whole /\ a.cited
                 /\ a.verdict = "verified" => Supported(a)
                 /\ a.verdict = "rejected" => a.against
        verdict == IF sound /\ ~(refuted /\ a.verdict = "verified")
                   THEN a.verdict ELSE "inconclusive"
    IN  [verdict |-> verdict, sure |-> a.sure /\ verdict # "inconclusive",
         reach |-> a.reach, current |-> a.against]

Verified == {h \in Hyps : Held("results")[h].verdict = "verified"}
Disputed == {h \in Hyps : Held("results")[h].verdict = "inconclusive"}
Conclusive(r) == r.verdict = "rejected" /\ r.reach = "refuted" /\ r.sure

\* createBaseline: the checks all passed when the tasks completed; what is left
\* to refuse is the policy's own list and the measured coverage.
Promoted(checks) == conf.required \subseteq checks /\ conf.covered

\* completeRecertification: evidence is carried forward from claims the change
\* did not touch.  Every claim covers the regression suite, which is the change.
Claims == {[covers |-> {"code", "suite"}, evidence |-> {"check", "review"}]}
Carried ==
    LET touched == {c \in Claims : "suite" \in c.covers}
    IN  UNION {c.evidence : c \in Claims \ touched} \ UNION {c.evidence : c \in touched}
Recertified == (Carried \cap {"check"}) \cup {"regression"}

\* evaluateConvergence: every quality criterion must hold to stop.
Converged ==
    /\ Held("cert").commit = head
    /\ Verified = {h \in Hyps : Conclusive(Held("rechecks")[h])}
    /\ Held("cert").checks # {}
    /\ conf.covered

---------------------------------------------------------------------------
(* The controller process.                                                 *)

Writing == todo # <<>>
At(pc) == mem.pc = pc /\ ~Writing
ThrowsWith(ws, r, s, why) ==
    LET t == [s EXCEPT !.status = "waiting", !.error = why]
    IN  mem' = Off /\ todo' = ws \o Checkpoint(t) \o SaveRun(r)
Throws(ws, s, why) == ThrowsWith(ws, run, s, why)
Advances(ws, r, s, next) ==
    LET t == [s EXCEPT !.stage = next, !.pc = "turn",
                       !.status = IF next = "complete" THEN "completed" ELSE @]
    IN  mem' = t /\ todo' = ws \o SaveRun(r) \o Checkpoint(t)
Adds(s, ts) == [s EXCEPT !.tasks = @ \cup ts]

Implementation == IF conf.review THEN {} ELSE {Task("implement")}

\* startFactory on a file with no checkpoint.
Start ==
    /\ At("off") /\ ctl = NoCtl
    /\ {t \in Tasks : run[t].st # "none"} = {}
    /\ LET s == [Off EXCEPT !.stage = "implementation", !.pc = "turn", !.tasks = Implementation,
                            !.source = IF conf.review THEN head ELSE 0]
       IN  /\ mem' = s
           /\ todo' = Save("graph", 1) \o Save("graph", 2)
                        \o Checkpoint(s) \o SaveRun(Ensured(run, Implementation))
    /\ UNCHANGED <<conf, head, dirty, run, ctl, art, past>>

\* resumeFactory, and startFactory on a file that has a checkpoint.
Resume ==
    /\ At("off") /\ ctl.stage \notin {"none", "reported", "complete"}
    /\ LET s == [x \in DOMAIN Off |-> IF x \in DOMAIN ctl THEN ctl[x] ELSE Off[x]]
           told == [s EXCEPT !.status = "waiting", !.error = "report ready"]
       IN  IF s.stage = "report"
           THEN mem' = Off /\ todo' = Checkpoint(told)
           ELSE mem' = [s EXCEPT !.pc = "turn", !.error = "none"] /\ todo' = <<>>
    /\ UNCHANGED <<conf, head, dirty, run, ctl, art, past>>

MaxTurns == 12
TurnsLeft == mem.turns < MaxTurns

\* The head of the loop of driveFactory.  The implementation stage compiles its
\* tasks again outside the try, so a damaged graph ends the process there.
Turn ==
    /\ At("turn") /\ mem.stage # "complete" /\ TurnsLeft
    /\ LET s == [mem EXCEPT !.turns = @ + 1, !.status = "running", !.pc = "run"]
           r == Ensured(run, Implementation)
       IN  IF mem.stage # "implementation"
           THEN mem' = s /\ todo' = Checkpoint(s)
           ELSE IF Loadable("graph")
                THEN mem' = s /\ todo' = Extended(2) \o SaveRun(r) \o Checkpoint(s)
                ELSE mem' = Off /\ todo' = <<>>
    /\ UNCHANGED <<conf, head, dirty, run, ctl, art, past>>

LoopEnds ==
    /\ At("turn") /\ (mem.stage = "complete" \/ ~TurnsLeft)
    /\ LET s == [mem EXCEPT !.status = IF mem.stage = "complete" THEN "completed" ELSE "waiting",
                            !.error = IF mem.stage = "complete" THEN @ ELSE "stage limit"]
       IN  mem' = Off /\ todo' = Checkpoint(s)
    /\ UNCHANGED <<conf, head, dirty, run, ctl, art, past>>

---------------------------------------------------------------------------
(* The run of a stage's tasks: what the engine does with them, as a whole.  *)

Outputs(k) ==
    CASE k = "review" -> DOMAIN Reviews \cup {"garbled"}
      [] k \in {"verify", "recheck"} -> DOMAIN Answers \cup {"garbled"}
      [] k = "rootCause" -> {"text", "garbled"}
      [] OTHER -> {"text"}

\* A command that changes the sources lands a commit when tasks have worktrees;
\* without them it leaves the tree as it is, changed or not.
Edits(t) ==
    \/ UNCHANGED <<head, dirty>>
    \/ /\ t[1] \in {"implement", "repair"} /\ ~conf.isolated
       /\ dirty' = TRUE /\ UNCHANGED head
    \/ /\ t[1] \in {"implement", "repair"} /\ conf.isolated /\ head < conf.heads
       /\ head' = head + 1 /\ UNCHANGED dirty

TaskCompletes(t) ==
    /\ At("run") /\ t \in Scope(mem) /\ Runnable(t)
    /\ Edits(t)
    /\ \E o \in Outputs(t[1]) :
         run' = [run EXCEPT ![t].st = "completed", ![t].at = head', ![t].out = o]
    /\ UNCHANGED <<conf, ctl, art, mem, todo, past>>

TaskFails(t) ==
    /\ At("run") /\ t \in Scope(mem) /\ Runnable(t)
    /\ t[1] \in {"implement", "check", "repair", "recertify"}
    /\ run' = [run EXCEPT ![t].st = "failed"]
    /\ UNCHANGED <<conf, head, dirty, ctl, art, mem, todo, past>>

\* A mutant: the run of a stage with a failed task does not end.
RunEndsWhenDone ==
    /\ At("run") /\ \A t \in Scope(mem) : Done(t)
    /\ mem' = [mem EXCEPT !.pc = "stage"] /\ todo' = <<>>
    /\ UNCHANGED <<conf, head, dirty, run, ctl, art, past>>

RunEnds ==
    /\ At("run") /\ \A t \in Scope(mem) : ~Runnable(t)
    /\ IF \A t \in Scope(mem) : Done(t)
       THEN mem' = [mem EXCEPT !.pc = "stage"] /\ todo' = <<>>
       ELSE LET s == [mem EXCEPT !.status = "waiting", !.pc = "off"]
            IN  mem' = Off /\ todo' = Checkpoint(s)
    /\ UNCHANGED <<conf, head, dirty, run, ctl, art, past>>

---------------------------------------------------------------------------
(* The handlers of the stages.                                             *)

Handling(stage) == At("stage") /\ mem.stage = stage
Unmoved == UNCHANGED <<conf, head, dirty, run, ctl, art, past>>
Garbled(ts) == \E t \in ts : run[t].out = "garbled"
Answer(t) == Answers[run[t].out]
\* A review is of the commit it was started on.
SourceIgnored == FALSE  \* a mutant
SourceMoved == conf.review /\ head # mem.source

\* prepareQualityStage: index the code, add the checks and the review.
PrepareQuality ==
    /\ Handling("implementation")
    /\ LET ts == {Task("check"), Task("review")}
       IN  IF ~Loadable("graph") THEN Throws(<<>>, mem, "damaged")
           ELSE Advances(Extended(3) \o Extended(4), Ensured(run, ts), Adds(mem, ts), "quality")
    /\ Unmoved

\* Tasks are ensured one by one: those before the foreign one are kept.
Refuses(ws, ts) ==
    \E early \in SUBSET (ts \ Foreign(run, ts)) :
        ThrowsWith(ws, Ensured(run, early), Adds(mem, early), "foreign")

\* The files processQualityStage has written before it promotes the baseline.
Coverage == Save("coverage", Reviews[run[Task("review")].out].whole)
InitialBaseline ==
    [commit |-> head, at |-> {run[Task(k)].at : k \in {"check", "review"}},
     ok |-> Promoted({"check"})]
Hypotheses ==
    [found |-> Reviews[run[Task("review")].out].found,
     missing |-> Reviews[run[Task("review")].out].missing, at |-> head, judged |-> FALSE]

ProcessQuality ==
    /\ Handling("quality")
    /\ LET ts == About("verify", Hypotheses.found)
           foreign == Foreign(run, ts)
           written == Coverage \o Save("base", InitialBaseline) \o Save("hyps", Hypotheses) \o Extended(5)
       IN  CASE Garbled({Task("review")}) -> Throws(<<>>, mem, "garbled")
             [] ~Garbled({Task("review")}) /\ ~Loadable("graph") -> Throws(Coverage, mem, "damaged")
             [] ~Garbled({Task("review")}) /\ Loadable("graph") /\ (dirty \/ SourceMoved) ->
                  Throws(Coverage, mem, IF dirty THEN "dirty" ELSE "moved")
             [] OTHER ->
                  IF ~InitialBaseline.ok
                  THEN Throws(Coverage \o Save("base", InitialBaseline), mem, "refused")
                  ELSE IF foreign # {} THEN Refuses(written, ts)
                  ELSE Advances(written \o Extended(6), Ensured(run, ts), Adds(mem, ts), "verification")
    /\ Unmoved

\* A hypothesis without a verification task counts as rejected.
Judged(h) ==
    IF <<"verify", h>> \in mem.tasks
    THEN Adjudicated(Answer(<<"verify", h>>), h \in Held("hyps").missing)
    ELSE NoResult

ProcessVerification ==
    /\ Handling("verification")
    /\ LET results == [h \in Hyps |-> IF h \in Held("hyps").found THEN Judged(h) ELSE NoResult]
           ts == IF \E h \in Hyps : results[h].verdict = "verified" THEN {Task("rootCause")} ELSE {}
           written == Save("hyps", [Held("hyps") EXCEPT !.judged = TRUE]) \o Save("results", results)
       IN  IF ~Loadable("hyps") THEN Throws(<<>>, mem, "damaged")
           ELSE IF Garbled(Scope(mem)) THEN Throws(<<>>, mem, "garbled")
           ELSE IF ~Loadable("graph") THEN Throws(written, mem, "damaged")
           ELSE Advances(written \o Extended(7), Ensured(run, ts), Adds(mem, ts), "root_cause")
    /\ Unmoved

\* scheduleRemediationStage: one workstream for each verified defect of the plan.
Repairs(plan) == About("repair", plan)

RepairsAnyway == Repairs(Verified)  \* a mutant
\* A goal under review with defects stops for a decision and gets no repairs.
RepairsNow == IF conf.review THEN {} ELSE Repairs(Verified)

ProcessRootCause ==
    /\ Handling("root_cause")
    /\ LET planned == Save("plan", Verified)
           written == planned \o Save("report", [commit |-> head, defects |-> Verified]) \o Extended(8)
       IN  IF Garbled(Scope(mem)) THEN Throws(<<>>, mem, "garbled")
           ELSE IF ~Loadable("graph") THEN Throws(<<>>, mem, "damaged")
           ELSE IF Cardinality(Verified) > conf.room THEN Throws(<<>>, mem, "too many")
           ELSE IF dirty \/ SourceMoved
                THEN Throws(planned, mem, IF dirty THEN "dirty" ELSE "moved")
           ELSE Advances(written \o Extended(9), Ensured(run, RepairsNow), Adds(mem, RepairsNow),
                         IF conf.review /\ Verified # {} THEN "report" ELSE "remediation")
    /\ Unmoved

\* The loop does not leave at the report: the case is empty and the turns run out.
ReportIdles ==
    /\ Handling("report")
    /\ Advances(<<>>, run, mem, "report")
    /\ Unmoved

\* prepareRemediationVerificationStage: the sources to recheck are pinned here.
PrepareRecheck ==
    /\ Handling("remediation")
    /\ LET ts == About("recheck", Verified)
       IN  IF dirty THEN Throws(<<>>, mem, "dirty")
           ELSE IF Verified # {} /\ head = Held("base").commit THEN Throws(<<>>, mem, "no change")
           ELSE IF Foreign(run, ts) # {} THEN Refuses(<<>>, ts)
           ELSE Advances(Save("source", head), Ensured(run, ts), Adds(mem, ts), "remediation_verification")
    /\ Unmoved

Rechecked(h) == Adjudicated(Answer(<<"recheck", h>>), FALSE)
Settled(h) == Conclusive(Rechecked(h)) /\ Rechecked(h).current

\* processRemediationVerificationStage and prepareRecertificationStage, in one try.
ProcessRecheck ==
    /\ Handling("remediation_verification")
    /\ LET ts == {Task("regression"), Task("recertify")}
           checks == [h \in Hyps |-> IF h \in Verified THEN Rechecked(h) ELSE NoResult]
           written == Save("rechecks", checks)
       IN  IF Garbled(Scope(mem)) THEN Throws(<<>>, mem, "garbled")
           ELSE IF \E h \in Verified : ~Settled(h) THEN Throws(<<>>, mem, "unresolved")
           ELSE IF ~Loadable("graph") THEN Throws(written, mem, "damaged")
           ELSE Advances(written \o Extended(10) \o Extended(11), Ensured(run, ts), Adds(mem, ts), "recertification")
    /\ Unmoved

PinnedLoosely == TRUE  \* a mutant
\* The sources are those the rechecks were pinned to.
Pinned == head = Held("source")

Certificate ==
    [commit |-> head, at |-> {run[Task(k)].at : k \in {"regression", "recertify"}},
     checks |-> Recertified]

ProcessRecertification ==
    /\ Handling("recertification")
    /\ IF Disputed # {} THEN Throws(<<>>, mem, "disputed")
       ELSE IF dirty THEN Throws(<<>>, mem, "dirty")
       ELSE IF ~Pinned THEN Throws(<<>>, mem, "stale")
       ELSE IF \E h \in Verified : ~Conclusive(Held("rechecks")[h]) THEN Throws(<<>>, mem, "unresolved")
       ELSE IF ~Loadable("graph") THEN Throws(<<>>, mem, "damaged")
       ELSE IF ~Promoted(Recertified) THEN Throws(Save("cert", Certificate), mem, "refused")
       ELSE Advances(Save("cert", Certificate), run, mem, "convergence")
    /\ Unmoved

ProcessConvergence ==
    /\ Handling("convergence")
    /\ IF ~Held("coverage") THEN Throws(<<>>, mem, "coverage")
       ELSE IF dirty THEN Throws(<<>>, mem, "dirty")
       ELSE IF ~Converged THEN Throws(Save("decision", "continue"), mem, "continue")
       ELSE Advances(Save("decision", "stop"), run, mem, "complete")
    /\ Unmoved

Handlers ==
    \/ PrepareQuality \/ ProcessQuality \/ ProcessVerification \/ ProcessRootCause \/ ReportIdles
    \/ PrepareRecheck \/ ProcessRecheck \/ ProcessRecertification \/ ProcessConvergence

---------------------------------------------------------------------------
(* The disk, and the death of the process.                                 *)

Write ==
    /\ Writing
    /\ LET w == Head(todo)
       IN  \/ /\ w.k = "run" /\ run' = w.v /\ UNCHANGED <<ctl, art>>
           \/ /\ w.k = "ctl" /\ ctl' = w.v /\ UNCHANGED <<run, art>>
           \/ /\ w.k = "body" /\ art' = [art EXCEPT ![w.n].body = w.v] /\ UNCHANGED <<run, ctl>>
           \/ /\ w.k = "ref" /\ art' = [art EXCEPT ![w.n].ref = w.v, ![w.n].saved = TRUE]
              /\ UNCHANGED <<run, ctl>>
    /\ todo' = Tail(todo)
    /\ UNCHANGED <<conf, head, dirty, mem, past>>

Crash ==
    /\ mem.pc # "off" \/ Writing
    /\ past.faults < MaxFaults
    /\ past' = [past EXCEPT !.faults = @ + 1]
    /\ mem' = Off /\ todo' = <<>>
    /\ UNCHANGED <<conf, head, dirty, run, ctl, art>>

---------------------------------------------------------------------------
(* The operator.                                                           *)

\* Nothing but a handler and the operator's commands reads the sources, so a
\* commit at any other point is one made while the tasks run or between calls.
Commit ==
    /\ At("off") \/ At("run")
    /\ ~conf.isolated /\ head < conf.heads
    /\ head' = head + 1 /\ dirty' = FALSE
    /\ UNCHANGED <<conf, run, ctl, art, mem, todo, past>>

\* fixFactoryReview: the report must still be of the sources.
Fixable == ~dirty /\ head = Held("report").commit
Fix ==
    /\ At("off") /\ ctl.stage \in {"report", "reported"}
    /\ Loadable("report") /\ Held("report").defects # {} /\ Loadable("graph")
    /\ Fixable
    /\ LET ts == Repairs(Held("plan"))
           s == [x \in DOMAIN Off |-> CASE x = "pc" -> "turn" [] x = "turns" -> 0
                                        [] x = "stage" -> "remediation" [] x = "status" -> "ready"
                                        [] x = "error" -> "none" [] x = "tasks" -> ctl.tasks \cup ts
                                        [] x = "source" -> ctl.source]
       IN  /\ mem' = s
           /\ todo' = Extended(9) \o SaveRun(Ensured(run, ts)) \o Checkpoint(s)
    /\ past' = [past EXCEPT !.fixes = @ \cup {head}]
    /\ UNCHANGED <<conf, head, dirty, run, ctl, art>>

Close ==
    /\ At("off") /\ ctl.stage = "report" /\ Loadable("report")
    /\ todo' = Checkpoint([ctl EXCEPT !.stage = "reported", !.status = "completed", !.error = "none"])
    /\ UNCHANGED <<conf, head, dirty, run, ctl, art, mem, past>>

\* dag retry --cascade of a task of the waiting stage.
Cascade(t) ==
    {t} \cup {d \in Tasks : run[d].st \notin {"none", "pending"} /\ t[1] \in DepKinds(d[1])}
Retry(t) ==
    /\ At("off") /\ past.faults < MaxFaults
    /\ t \in Scope(ctl) /\ run[t].st \in {"failed", "completed"}
    /\ run' = [d \in Tasks |-> IF d \in Cascade(t) THEN [run[d] EXCEPT !.st = "pending", !.out = "none"]
                               ELSE run[d]]
    /\ past' = [past EXCEPT !.faults = @ + 1]
    /\ UNCHANGED <<conf, head, dirty, ctl, art, mem, todo>>

Tasked == \E t \in Tasks : TaskCompletes(t) \/ TaskFails(t)
Controller == Turn \/ LoopEnds \/ Tasked \/ RunEnds \/ Handlers \/ Write
Next ==
    \/ Controller \/ Start \/ Resume \/ Crash \/ Commit \/ Fix \/ Close
    \/ \E t \in Tasks : Retry(t)

\* A controller that is running goes on; nobody is obliged to resume, commit or
\* decide.
Spec == Init /\ [][Next]_vars /\ WF_vars(Controller)

---------------------------------------------------------------------------
(* Properties.                                                             *)

Rank(stage) == IF stage = "none" THEN 0 ELSE CHOOSE i \in DOMAIN Stages : Stages[i] = stage
Past(s, stage) == Rank(s.stage) > Rank(stage)

\* Reviewing repairs nothing by itself: in a review the run file holds a repair
\* only if the operator asked for it, on the very commit the report is of.
RepairsAuthorized ==
    conf.review =>
        \A h \in Hyps : run[<<"repair", h>>].st # "none" => Held("report").commit \in past.fixes

\* A run that is complete was certified for the sources that were rechecked:
\* every defect found was rechecked conclusively on the commit of the
\* certificate, which is another one than the baseline's; no hypothesis is left
\* in dispute; the regression suite and the recertification ran on that commit.
CertifiedFresh ==
    ctl.stage = "complete" =>
        LET c == Held("cert")
        IN  /\ Disputed = {} /\ c.at = {c.commit} /\ Held("decision") = "stop"
            /\ \A h \in Verified : /\ Conclusive(Held("rechecks")[h])
                                   /\ run[<<"recheck", h>>].at = c.commit
            /\ Verified # {} => c.commit # Held("base").commit

\* The evidence behind the baseline of a review and behind its report was
\* produced on the commit they name, whatever was committed meanwhile.
ReviewedAsStarted ==
    conf.review /\ Past(ctl, "root_cause") =>
        /\ Held("base").at = {Held("base").commit}
        /\ Held("report").commit = Held("base").commit
        /\ \A h \in Held("hyps").found : Past(ctl, "reported") \/ run[<<"verify", h>>].at = Held("base").commit

\* A verifier is judged by the packet it was shown, although the stage that
\* writes the packet may be cut short and done again on other sources.
JudgedByItsPacket ==
    /\ Past(ctl, "quality") => \A h \in Held("hyps").found : run[<<"verify", h>>].spec = Held("hyps").at
    /\ Past(ctl, "remediation") => \A h \in Verified : run[<<"recheck", h>>].spec = Held("source")

\* Every call of the controller comes back, also from the report, which the
\* loop has no way to leave.
DriveReturns == []<>(mem.pc = "off")

=============================================================================
