------------------------------ MODULE FlowRun ------------------------------
(***************************************************************************)
(* FlowRunner above node() (flow3/runner.ts): the scope of a run, the      *)
(* waves of chains that schedule() releases, wave and final checkpoints,   *)
(* the repairs that are charged for them, reopened producers, the final    *)
(* review, and what the run claims when it ends.  What node() does to a    *)
(* task is one step here: FlowNodes has the steps in between.              *)
(***************************************************************************)
EXTENDS Naturals, FiniteSets

CONSTANTS
  Nodes,         \* authored tasks
  Repairs,       \* IDs for the repair tasks of checkpoints
  Deps,          \* [Nodes -> SUBSET Nodes], without cycles
  Gated,         \* nodes behind an approval gate
  Mode,          \* settings.flow3.completion: "whole", "scoped", or "none"
  Required,      \* ... its required nodes
  Optional,      \* ... its optional nodes
  Producers,     \* nodes whose output a checkpoint command waits for
  Prints,        \* fingerprints of failures that a repair may mend
  RepairRounds, Concurrency,
  Review,        \* finalReview is not off
  Deadline,      \* maxWallClockMs is set
  Selections,    \* what a run may be started with instead of the whole graph
  MaxOps, MaxCrashes

Tasks == Nodes \cup Repairs

ASSUME ConstantsAssumption ==
  /\ IsFiniteSet(Nodes) /\ IsFiniteSet(Repairs) /\ Nodes \cap Repairs = {}
  /\ Deps \in [Nodes -> SUBSET Nodes]
  /\ Mode \in {"whole", "scoped", "none"}
  /\ Required \cup Optional \cup Gated \cup Producers \subseteq Nodes
  /\ Mode = "none" => Required \cup Optional = {}
  /\ RepairRounds \in 0 .. Cardinality(Repairs)
  /\ Concurrency \in Nat \ {0} /\ Review \in BOOLEAN /\ Deadline \in BOOLEAN
  /\ Selections \subseteq SUBSET Nodes
  /\ MaxOps \in Nat /\ MaxCrashes \in Nat

VARIABLES
  status,      \* of every task; "absent" before it is added and after dag rm
  intent,      \* repairIntents, by the task they create
  round,       \* repairRound
  failures,    \* repairFailures
  completion,  \* the persisted scope
  review,      \* [of, status], of which identity
  claim,       \* [implementation, acceptance, product]
  approved, revision, late,
  head,        \* how many changes the integration branch holds
  merged,      \* tasks that a crash caught between their merge and its record
  pc,          \* where run() is; "off" when nothing runs
  scope, chains, queue, wave, before,   \* schedule()
  running,     \* the chains in runChain(), each with one task in node()
  check,       \* the last checkpoint
  final,       \* the final checkpoint of this run, if there is one
  issue, stopping,
  ops, crashes

store  == <<status, intent, round, failures, completion, review, claim>>
branch == <<head, merged>>
plan   == <<approved, revision, late>>
sched  == <<scope, chains, queue, wave, before>>
flags  == <<issue, stopping>>
bounds == <<ops, crashes>>
vars == <<store, plan, branch, pc, sched, running, check, final, flags, bounds>>

-----------------------------------------------------------------------------
NoIntent == [state |-> "none", prints |-> {}, prereqs |-> {}]
NoCheck  == [of |-> {}, failing |-> {}, held |-> FALSE, requires |-> {}, passed |-> FALSE]
Unclaimed == [implementation |-> FALSE, acceptance |-> "pending", product |-> FALSE]
NoReview == [of |-> {}, status |-> IF Review THEN "pending" ELSE "off"]

Init ==
  /\ status = [t \in Tasks |-> IF t \in Nodes THEN "pending" ELSE "absent"]
  /\ intent = [r \in Repairs |-> NoIntent]
  /\ round = 0 /\ failures = {}
  /\ completion = [mode |-> "none", required |-> {}, optional |-> {}, excluded |-> {}]
  /\ review = NoReview /\ claim = Unclaimed
  /\ approved = {} /\ revision = 0 /\ late = FALSE /\ head = 0 /\ merged = {}
  /\ pc = "off" /\ scope = {} /\ chains = {} /\ queue = {} /\ wave = {} /\ before = {}
  /\ running = {} /\ check = NoCheck /\ final = {}
  /\ issue = FALSE /\ stopping = FALSE
  /\ ops = 0 /\ crashes = 0

-----------------------------------------------------------------------------
(* The graph. *)

Present == {t \in Tasks : status[t] # "absent"}
Completed == {t \in Tasks : status[t] = "completed"}

DepsOf(t) ==
  {d \in IF t \in Nodes THEN Deps[t] ELSE intent[t].prereqs : status[d] # "absent"}

\* A task that schedule() and runChain() may start when the statuses are st.
Startable(t, st) ==
  /\ st[t] = "pending" /\ t \notin Gated \ approved
  /\ \A d \in DepsOf(t) : st[d] = "completed"

\* S with what Step leads to from its members.
Reach(S, Step(_)) ==
  LET closed == {more \in SUBSET (Tasks \ S) : \A t \in S \cup more : Step(t) \subseteq S \cup more}
  IN  S \cup {t \in Tasks : \A more \in closed : t \in more}

\* S with everything its members depend on.
Closure(S) == Reach(S, DepsOf)

\* t follows d in one worker session: t needs nothing else, nothing else needs d.
Follows(d, t) ==
  /\ {d, t} \subseteq scope /\ DepsOf(t) = {d}
  /\ \A u \in Present : d \in DepsOf(u) => u = t

\* A chain is the set of its tasks: what they depend on orders them.
Chains ==
  LET next == [d \in Tasks |-> {t \in Tasks : Follows(d, t)}]
      heads == scope \ UNION {next[d] : d \in Tasks}
  IN  {Reach({h}, LAMBDA d : next[d]) : h \in heads}

\* The next wave of schedule(): the chains that need nothing of the others left.
NextChains == {c \in chains : \A t \in c, x \in chains \ {c} : DepsOf(t) \cap x = {}}

\* The first task of chain c that is not completed: runChain() skips what is.
IsNext(t, c, st) ==
  /\ t \in c /\ st[t] # "completed"
  /\ \A u \in c \ {t} : st[u] = "completed" \/ u \notin Closure({t})

\* runChain() goes on with t.
Goes(t, c, st) == Startable(t, st) /\ IsNext(t, c, st)

-----------------------------------------------------------------------------
(* The scope of a run. *)

\* start(): an explicit selection, the saved scope, or the whole graph.
Selected(sel) ==
  IF sel # {} THEN sel
  ELSE IF completion.mode = "scoped"
       THEN completion.required \cup (completion.optional \ completion.excluded)
  ELSE IF Mode = "scoped" THEN Required \cup Optional
  ELSE Present

CompletionMode(sel) ==
  IF sel # {} THEN "scoped"
  ELSE IF completion.mode # "none" THEN completion.mode
  ELSE IF Mode # "none" THEN Mode ELSE "whole"

\* What an earlier run required stays required, unless a new target is selected.
Kept(sel) == IF sel # {} THEN {} ELSE Required \cup completion.required

CompletionScope(sel) ==
  LET authored == Nodes \cap Present
      mode == CompletionMode(sel)
      chosen == IF mode = "whole" THEN authored \ Optional
                ELSE IF sel # {} \/ Mode = "none" THEN Selected(sel) \ Optional
                ELSE Required
      required == Closure(chosen \cup Kept(sel))
  IN  [mode |-> mode, required |-> required, optional |-> Optional \ required,
       excluded |-> authored \ (Selected(sel) \cup required)]

\* completionScope() throws on a node that is not there any more ...
Known(sel) == CompletionScope(sel).required \cup Optional \subseteq Present

\* ... and materializeRepair() on a repair whose task or prerequisites changed.
Broken(r) ==
  \/ intent[r].state = "scheduled" /\ status[r] = "absent"
  \/ ~(intent[r].prereqs \subseteq Present)

Charged == {r \in Repairs : intent[r].state # "none"}

-----------------------------------------------------------------------------
(* A run. *)

Stopped == stopping \/ late

Identity == [head |-> head, revision |-> revision, required |-> completion.required]

\* What must be completed before the final checkpoint.
Demanded == IF completion.mode = "none" THEN scope ELSE completion.required

AuthoredUnfinished == Demanded \ Completed
Unfinished == (Demanded \cup (scope \cap Repairs)) \ Completed

NoMemory ==
  /\ scope' = {} /\ chains' = {} /\ queue' = {} /\ wave' = {} /\ before' = {}
  /\ running' = {} /\ check' = NoCheck /\ final' = {} /\ issue' = FALSE /\ stopping' = FALSE

\* recoverInterrupted() and resumeRepairIntents() on the statuses of a new run.
Recovered ==
  [t \in Tasks |->
     IF status[t] = "running" \/ (t \in Charged /\ intent[t].state = "charged")
     THEN "pending" ELSE status[t]]

\* start() and run() up to its loop.
Start(sel) ==
  /\ pc = "off" /\ Selected(sel) \subseteq Present
  /\ claim' = Unclaimed /\ review' = NoReview
  /\ LET next == CompletionScope(sel)
     IN  IF ~Known(sel)
         THEN /\ pc' = "ending" /\ issue' = TRUE /\ scope' = Selected(sel)
              /\ UNCHANGED <<completion, status, intent>>
         ELSE IF \E r \in Charged : Broken(r)
         THEN /\ pc' = "ending" /\ issue' = TRUE
              /\ \E kept \in SUBSET {r \in Charged : ~Broken(r)} :
                   scope' = Selected(sel) \cup next.required \cup kept
              /\ completion' = next /\ UNCHANGED <<status, intent>>
         ELSE /\ pc' = "repairs" /\ issue' = FALSE
              /\ scope' = Selected(sel) \cup next.required \cup Charged
              /\ completion' = next /\ status' = Recovered
              /\ intent' = [r \in Repairs |->
                   IF r \in Charged THEN [intent[r] EXCEPT !.state = "scheduled"] ELSE intent[r]]
  /\ UNCHANGED <<round, failures, plan, branch, chains, queue, wave, before, running, check,
                 final, stopping, bounds>>

\* run() throws before it takes the lock: nothing is saved.
Refuse(sel) == pc = "off" /\ ~(Selected(sel) \subseteq Present) /\ UNCHANGED vars

Goto(place) == pc' = place

\* schedule(): pending repairs come first, one at a time.
Mend(r) ==
  /\ pc = "repairs" /\ ~Stopped
  /\ r \in scope /\ Startable(r, status)
  /\ status' = [status EXCEPT ![r] = "running"] /\ running' = {{r}}
  /\ Goto("mending")
  /\ UNCHANGED <<intent, round, failures, completion, review, claim, plan, branch, sched, check,
                 final, flags, bounds>>

Mended ==
  /\ pc = "repairs"
  /\ Stopped \/ ~\E r \in scope \cap Repairs : Startable(r, status)
  /\ chains' = IF Stopped THEN {} ELSE Chains
  /\ Goto("next")
  /\ UNCHANGED <<store, plan, branch, scope, queue, wave, before, running, check, final, flags, bounds>>

NextWave ==
  /\ pc = "next"
  /\ IF Stopped \/ chains = {}
     THEN Goto("decide") /\ chains' = {} /\ UNCHANGED <<queue, wave, before>>
     ELSE /\ Goto("wave") /\ chains' = chains \ NextChains /\ queue' = NextChains
          /\ wave' = UNION NextChains
          /\ before' = wave' \cap Completed
  /\ UNCHANGED <<store, plan, branch, scope, running, check, final, flags, bounds>>

Launch(c, t) ==
  /\ pc = "wave" /\ ~Stopped
  /\ c \in queue /\ Cardinality(running) < Concurrency /\ Goes(t, c, status)
  /\ queue' = queue \ {c} /\ running' = running \cup {c}
  /\ status' = [status EXCEPT ![t] = "running"]
  /\ UNCHANGED <<intent, round, failures, completion, review, claim, plan, branch, pc, scope, chains,
                 wave, before, check, final, flags, bounds>>

\* What follows a chain that ended: the task it was run for is done, or not.
After(done, fault) ==
  CASE pc = "wave" -> "wave"
    [] pc # "wave" /\ fault -> "ending"
    [] pc = "mending" /\ ~fault -> IF done THEN "repairs" ELSE "decide"
    [] pc = "fixing" /\ ~fault -> IF done THEN "waveCheck" ELSE "next"

\* node() of t ends, and its chain goes on with another task or is over.  What
\* is completed was merged, now or before a crash; a failing worktree is an
\* error of the whole run.
NodeEnds(c, t, result, fault) ==
  /\ pc \in {"wave", "mending", "fixing"} /\ c \in running /\ t \in c /\ status[t] = "running"
  /\ result \in {"completed", IF stopping THEN "pending" ELSE "failed"}
                \cup (IF fault THEN {"pending"} ELSE {})
  /\ head' \in IF result # "completed" THEN {head}
               ELSE IF t \in merged THEN {head, head + 1} ELSE {head + 1}
  /\ merged' = IF result = "completed" THEN merged \ {t} ELSE merged
  /\ LET st == [status EXCEPT ![t] = result]
         next == {u \in c : result = "completed" /\ ~fault /\ ~Stopped /\ Goes(u, c, st)}
     IN  /\ status' = [u \in Tasks |-> IF u \in next THEN "running" ELSE st[u]]
         /\ running' = IF next = {} THEN running \ {c} ELSE running
  /\ Goto(After(result = "completed", fault))
  /\ check' = IF pc' = "waveCheck"
              THEN [NoCheck EXCEPT !.of = {[Identity EXCEPT !.head = head']}] ELSE check
  /\ issue' = (issue \/ fault) /\ stopping' = (stopping \/ (fault /\ pc = "wave"))
  /\ UNCHANGED <<intent, round, failures, completion, review, claim, plan, sched, final, bounds>>

\* The active workers are done: the wave is checked if it completed anything.
Launchable == {c \in queue : \E t \in c : Goes(t, c, status)}
Idle == running = {} /\ (Stopped \/ Launchable = {})

WaveEnds ==
  /\ pc = "wave" /\ Idle
  /\ LET checked == (wave \cap Completed) \ before # {} /\ ~Stopped
     IN  /\ Goto(IF issue THEN "ending" ELSE IF checked THEN "waveCheck" ELSE "next")
         /\ check' = IF pc' = "waveCheck" THEN [NoCheck EXCEPT !.of = {Identity}] ELSE check
  /\ queue' = {} /\ wave' = {} /\ before' = {}
  /\ UNCHANGED <<store, plan, branch, scope, chains, running, final, flags, bounds>>

\* What the end of run() looks at: the identity of a failed one is not used.
Outcome(passed) == {[of |-> IF passed THEN check.of ELSE {}, passed |-> passed]}

\* checkpoint(): commands pass, fail in a way a repair may mend, are held, or
\* wait for producers that have not completed.
CheckEnds ==
  /\ pc \in {"waveCheck", "final"}
  /\ \E failing \in SUBSET Prints, held \in BOOLEAN, requires \in SUBSET (Producers \ Completed) :
       /\ check' = [of |-> check.of, failing |-> failing, held |-> held, requires |-> requires,
                    passed |-> failing = {} /\ ~held /\ requires = {} /\ ~Stopped]
       /\ final' = IF pc = "final" THEN Outcome(check'.passed) ELSE final
  /\ Goto(IF pc = "final" THEN "finalChecked" ELSE "waveChecked")
  /\ UNCHANGED <<store, plan, branch, sched, running, flags, bounds>>

CanRepair == round < RepairRounds

RepairableAgain == check.failing # {} /\ ~check.held /\ check.requires = {}

Repairable ==
  /\ check.failing # {} /\ ~check.held /\ check.requires = {}
  /\ check.failing \cap failures = {}

WavePasses ==
  /\ pc = "waveChecked"
  /\ check.passed \/ ~CanRepair \/ ~Repairable \/ Stopped
  /\ Goto("next") /\ check' = NoCheck
  /\ UNCHANGED <<store, plan, branch, sched, running, final, flags, bounds>>

\* addFix(): the intent, its charge and its fingerprint are saved together.
Fresh == CHOOSE r \in Repairs \ Charged : TRUE

Charge ==
  /\ \/ pc = "waveChecked" /\ ~Stopped /\ Goto("waveCharged")
     \/ pc = "finalChecked" /\ Goto("finalCharged")
  /\ ~check.passed /\ CanRepair /\ Repairable
  /\ \E print \in check.failing :
       /\ intent' = [intent EXCEPT ![Fresh] =
            [state |-> "charged", prints |-> {print}, prereqs |-> scope \cap Completed]]
       /\ failures' = failures \cup {print}
  /\ round' = round + 1 /\ check' = NoCheck
  /\ UNCHANGED <<status, completion, review, claim, plan, branch, sched, running, final, flags,
                 bounds>>

\* materializeRepair(), and runChain() of the repair of a wave.
Materialize(r) ==
  /\ pc \in {"waveCharged", "finalCharged"} /\ intent[r].state = "charged"
  /\ intent' = [intent EXCEPT ![r].state = "scheduled"]
  /\ scope' = scope \cup {r}
  /\ LET runs == pc = "waveCharged" /\ ~Stopped
     IN  /\ status' = [status EXCEPT ![r] = IF runs THEN "running" ELSE "pending"]
         /\ running' = IF runs THEN {{r}} ELSE {}
         /\ Goto(IF runs THEN "fixing" ELSE IF pc = "waveCharged" THEN "next" ELSE "repairs")
  /\ UNCHANGED <<round, failures, completion, review, claim, plan, branch, chains, queue, wave, before,
                 check, final, flags, bounds>>

\* schedule() has returned.
Decide ==
  /\ pc = "decide"
  /\ LET over == Stopped \/ Unfinished # {}
     IN  /\ Goto(IF over THEN "ending" ELSE "final")
         /\ claim' = IF Stopped THEN claim ELSE [claim EXCEPT !.implementation = Unfinished = {}]
         /\ check' = IF over THEN check ELSE [NoCheck EXCEPT !.of = {Identity}]
         /\ final' = IF over THEN final ELSE Outcome(FALSE)
  /\ UNCHANGED <<status, intent, round, failures, completion, review, plan, branch, sched, running,
                 flags, bounds>>

Missing == ~(check.requires \subseteq scope \cap Demanded)

ScopeOnly(more) == completion

Widened(more) ==
  [completion EXCEPT !.required = @ \cup more, !.optional = @ \ more, !.excluded = @ \ more]

\* A check waits for a producer outside the scope: it becomes required, with
\* what it depends on, and schedule() goes again.
Reopen ==
  /\ pc = "finalChecked" /\ Missing
  /\ LET more == Closure(check.requires)
     IN  scope' = scope \cup more /\ completion' = Widened(more)
  /\ claim' = [claim EXCEPT !.implementation = FALSE]
  /\ Goto("repairs") /\ check' = NoCheck
  /\ UNCHANGED <<status, intent, round, failures, review, plan, branch, chains, queue, wave, before,
                 running, final, flags, bounds>>

FinalPasses ==
  /\ pc = "finalChecked" /\ ~Missing /\ check.passed
  /\ review' = [of |-> check.of, status |-> IF Review THEN "pending" ELSE "off"]
  /\ Goto(IF Review THEN "review" ELSE "ending")
  /\ UNCHANGED <<status, intent, round, failures, completion, claim, plan, branch, sched, running,
                 check, final, flags, bounds>>

FinalFails ==
  /\ pc = "finalChecked" /\ ~Missing /\ ~check.passed
  /\ ~CanRepair \/ ~Repairable
  /\ Goto("ending") /\ check' = NoCheck
  /\ UNCHANGED <<store, plan, branch, sched, running, final, flags, bounds>>

\* finalReview(): a review that changed the source revokes the checkpoint.
ReviewEnds ==
  /\ pc = "review"
  /\ \E verdict \in {"pass", "fail", "error"}, changed \in BOOLEAN :
       /\ changed => verdict = "error"
       /\ stopping => verdict = "error"
       /\ review' = [review EXCEPT !.status = verdict]
       /\ final' = IF changed THEN Outcome(FALSE) ELSE final
  /\ Goto("ending") /\ check' = NoCheck
  /\ UNCHANGED <<status, intent, round, failures, completion, claim, plan, branch, sched, running,
                 flags, bounds>>

ConfiguredWhole == Mode = "whole"
Whole == completion.mode = "whole"

\* The finally of run(): what this run may claim.
RunEnd ==
  /\ pc = "ending"
  /\ LET implemented == Unfinished = {}
         accepted == /\ \E f \in final : f.passed
                     /\ implemented /\ ~issue /\ ~Stopped
         reviewed == \/ ~Review
                     \/ \E f \in final : review.of = f.of /\ review.status = "pass"
     IN  claim' = [implementation |-> implemented,
                   acceptance |-> IF accepted THEN "passed"
                                  ELSE IF final # {} THEN "failed" ELSE "pending",
                   product |-> accepted /\ reviewed /\ Whole]
  /\ Goto("off") /\ NoMemory
  /\ UNCHANGED <<status, intent, round, failures, completion, review, plan, branch, bounds>>

-----------------------------------------------------------------------------
(* Operators, the clock and crashes. *)

Stop ==
  /\ pc # "off" /\ ~stopping /\ stopping' = TRUE
  /\ UNCHANGED <<store, plan, branch, pc, sched, running, check, final, issue, bounds>>

\* The deadline is absolute: later runs do not renew it.
DeadlinePasses ==
  /\ Deadline /\ pc # "off" /\ ~late /\ late' = TRUE
  /\ UNCHANGED <<store, approved, revision, branch, pc, sched, running, check, final, flags, bounds>>

Crash ==
  /\ pc # "off" /\ crashes < MaxCrashes /\ crashes' = crashes + 1
  /\ \E caught \in SUBSET {t \in UNION running : status[t] = "running"} :
       merged' = merged \cup caught /\ head' = head + Cardinality(caught)
  /\ Goto("off") /\ NoMemory
  /\ UNCHANGED <<store, plan, ops>>

Operator ==
  /\ pc = "off" /\ ops < MaxOps /\ ops' = ops + 1
  /\ UNCHANGED <<intent, round, failures, completion, review, claim, late, branch, pc, sched, running,
                 check, final, flags, crashes>>

Retry(t) ==
  /\ Operator /\ status[t] \in {"completed", "failed"}
  /\ status' = [status EXCEPT ![t] = "pending"]
  /\ UNCHANGED <<approved, revision>>

\* dag edit: the definition changes, the status stays.
Edit(n) ==
  /\ Operator /\ status[n] # "absent"
  /\ revision' = revision + 1
  /\ UNCHANGED <<status, approved>>

\* dag rm: the task goes, and nothing depends on it any more.
Remove(t) ==
  /\ Operator /\ status[t] # "absent"
  /\ status' = [status EXCEPT ![t] = "absent"]
  /\ revision' = IF t \in Nodes THEN revision + 1 ELSE revision
  /\ UNCHANGED approved

Approve(n) ==
  /\ Operator /\ n \in Gated \ approved
  /\ approved' = approved \cup {n}
  /\ UNCHANGED <<status, revision>>

-----------------------------------------------------------------------------
NodeStep ==
  \E c \in running : \E t \in c, result \in {"completed", "failed", "pending"}, fault \in BOOLEAN :
    NodeEnds(c, t, result, fault)

Runner ==
  \/ \E r \in Repairs : Mend(r) \/ Materialize(r)
  \/ Mended \/ NextWave \/ WaveEnds \/ CheckEnds \/ WavePasses \/ Charge \/ Decide
  \/ \E c \in queue : \E t \in c : Launch(c, t)
  \/ NodeStep
  \/ Reopen \/ FinalPasses \/ FinalFails \/ ReviewEnds \/ RunEnd

Environment ==
  \/ \E sel \in Selections \cup {{}} : Start(sel) \/ Refuse(sel)
  \/ Stop \/ DeadlinePasses \/ Crash
  \/ \E t \in Tasks : Retry(t) \/ Remove(t)
  \/ \E n \in Nodes : Edit(n) \/ Approve(n)

Next == Runner \/ Environment

Spec == Init /\ [][Next]_vars

\* Every phase ends, by itself or by its timeout, so the runner goes on.
FairSpec == Spec /\ WF_vars(Runner)

-----------------------------------------------------------------------------
(* Properties. *)

Statuses == {"absent", "pending", "running", "completed", "failed"}
Places == {"off", "repairs", "mending", "next", "wave", "waveCheck", "waveChecked", "waveCharged",
           "fixing", "decide", "final", "finalChecked", "finalCharged", "review", "ending"}
Identities == [head : Nat, revision : Nat, required : SUBSET Tasks]
Checks == [of : SUBSET Identities, failing : SUBSET Prints, held : BOOLEAN,
           requires : SUBSET Nodes, passed : BOOLEAN]
Outcomes == [of : SUBSET Identities, passed : BOOLEAN]

\* Every variable has its type.
TypeOK ==
  /\ status \in [Tasks -> Statuses]
  /\ intent \in [Repairs -> [state : {"none", "charged", "scheduled"},
                             prints : SUBSET Prints, prereqs : SUBSET Tasks]]
  /\ round \in Nat /\ failures \subseteq Prints
  /\ completion \in [mode : {"none", "whole", "scoped"}, required : SUBSET Tasks,
                     optional : SUBSET Nodes, excluded : SUBSET Nodes]
  /\ review \in [of : SUBSET Identities, status : {"off", "pending", "pass", "fail", "error"}]
  /\ claim \in [implementation : BOOLEAN, acceptance : {"pending", "passed", "failed"},
                product : BOOLEAN]
  /\ approved \subseteq Nodes /\ revision \in Nat /\ late \in BOOLEAN
  /\ head \in Nat /\ merged \subseteq Tasks
  /\ pc \in Places /\ scope \subseteq Tasks /\ wave \subseteq Tasks /\ before \subseteq Tasks
  /\ chains \cup queue \cup running \subseteq SUBSET Tasks
  /\ check \in Checks /\ final \subseteq Outcomes
  /\ issue \in BOOLEAN /\ stopping \in BOOLEAN /\ ops \in Nat /\ crashes \in Nat

\* The allowance of checkpoint repairs is shared by all runs of a plan and no
\* restart, removal or retry renews it: every charge has its intent, and no
\* failure that was charged is charged again (addFix, repairable).
RepairLedger ==
  /\ round = Cardinality(Charged) /\ round <= RepairRounds
  /\ \A r, s \in Charged : r # s => intent[r].prints \cap intent[s].prints = {}
  /\ \A r \in Charged : intent[r].prints # {} /\ intent[r].prints \subseteq failures

\* A checkpoint and the final review look at an integration branch that no
\* agent works on and that is still what they began with; the final ones
\* begin when nothing that is required, nor any repair, is unfinished.
QuietChecks ==
  /\ pc \in {"waveCheck", "final", "review"} => running = {} /\ check.of = {Identity}
  /\ pc \in {"final", "review"} => Unfinished = {}

\* Acceptance is of what is there: when a run claims it, everything required
\* and every repair that was ever charged is completed, and the final
\* checkpoint of that run passed on the branch, the plan and the scope as they
\* are (the finally of run).
AcceptedAsIs ==
  [][claim'.acceptance = "passed" /\ claim.acceptance # "passed" =>
       /\ completion.required \cup Charged \subseteq Completed
       /\ [of |-> {Identity}, passed |-> TRUE] \in final /\ running = {}]_vars

\* "A scoped pass never sets productComplete" (docs/flow3.md): a run that
\* claims the product has completed every node that is not optional, and its
\* review, if one is configured, passed on the accepted identity.
ProductIsWhole ==
  [][claim'.product /\ ~claim.product =>
       /\ (Nodes \cap Present) \ Optional \subseteq Completed
       /\ Review => review = [of |-> {Identity}, status |-> "pass"]]_vars

\* What is required stays required, over reopened producers, crashes and
\* restarts, until the operator selects another target (completionScope).
RequiredStays ==
  [][completion.required \subseteq completion'.required
     \/ \E sel \in Selections : Start(sel)]_vars

\* Every run ends, whatever its checkpoints find: repairs are bounded, and a
\* producer is reopened once.
RunEnds == pc # "off" ~> pc = "off"

=============================================================================
