--------------------------- MODULE FlowRun_proofs ---------------------------
(***************************************************************************)
(* The types of FlowRun, the ledger of its checkpoint repairs, and what a  *)
(* run may accept, for any plan, any settings and any number of crashes    *)
(* and operator calls.  The types need two facts that are not plain: what  *)
(* a set of tasks depends on are tasks again (Reached), and the scope that *)
(* completionScope computes is made of tasks and has a mode (ScopeTyped).  *)
(* The ledger is inductive with the types: only addFix charges, and it     *)
(* charges a repair that was not charged for a failure that was not.       *)
(* Acceptance needs the invariant SafetyInv, introduced below.             *)
(***************************************************************************)
EXTENDS FlowRun, FiniteSetTheorems, TLAPS

USE DEF store, plan, branch, sched, flags, bounds, Goto, Tasks

\* There are finitely many tasks, so a crash can catch finitely many.
LEMMA TasksFinite == IsFiniteSet(Tasks)
BY ConstantsAssumption, FS_Union

\* What a set of tasks depends on includes the set, and is made of tasks.
LEMMA Reached ==
    ASSUME NEW S \in SUBSET Tasks
    PROVE  S \subseteq Closure(S) /\ Closure(S) \subseteq Tasks
BY DEF Closure, Reach

\* The empty checkpoint, and one that just began, are checkpoints.
LEMMA CheckTyped ==
    NoCheck \in Checks /\ \A S \in SUBSET Identities : [NoCheck EXCEPT !.of = S] \in Checks
BY DEF NoCheck, Checks

\* What the end of a run remembers of a checkpoint is an outcome.
LEMMA OutcomeTyped == ASSUME TypeOK, NEW passed \in BOOLEAN PROVE Outcome(passed) \subseteq Outcomes
BY DEF Outcome, Outcomes, TypeOK, Checks

\* A new plan has the types.
LEMMA TypeInit == Init => TypeOK
<1> SUFFICES ASSUME Init PROVE TypeOK
  OBVIOUS
<1>1. status \in [Tasks -> Statuses] /\ pc \in Places /\ check \in Checks
  BY CheckTyped DEF Init, Statuses, Places
<1>2. intent \in [Repairs -> [state : {"none", "charged", "scheduled"},
                             prints : SUBSET Prints, prereqs : SUBSET Tasks]]
  BY DEF Init, NoIntent
<1>3. /\ completion \in [mode : {"none", "whole", "scoped"}, required : SUBSET Tasks,
                         optional : SUBSET Nodes, excluded : SUBSET Nodes]
      /\ review \in [of : SUBSET Identities, status : {"off", "pending", "pass", "fail", "error"}]
      /\ claim \in [implementation : BOOLEAN, acceptance : {"pending", "passed", "failed"},
                    product : BOOLEAN]
  BY DEF Init, NoReview, Unclaimed
<1> QED BY <1>1, <1>2, <1>3 DEF Init, TypeOK

\* The scope of a run is made of tasks, and its mode is one of the two (completionScope).
LEMMA ScopeTyped ==
    ASSUME TypeOK, NEW sel \in Selections \cup {{}}
    PROVE  /\ CompletionScope(sel) \in [mode : {"whole", "scoped"}, required : SUBSET Tasks,
                                        optional : SUBSET Nodes, excluded : SUBSET Nodes]
           /\ Selected(sel) \subseteq Tasks
<1>1. Selected(sel) \subseteq Tasks
  BY ConstantsAssumption DEF Selected, Present, TypeOK
<1>2. Kept(sel) \subseteq Tasks
  BY ConstantsAssumption DEF Kept, TypeOK
<1>3. CompletionMode(sel) \in {"whole", "scoped"}
  BY ConstantsAssumption DEF CompletionMode, TypeOK
<1> DEFINE authored == Nodes \cap Present
           chosen == IF CompletionMode(sel) = "whole" THEN authored \ Optional
                     ELSE IF sel # {} \/ Mode = "none" THEN Selected(sel) \ Optional
                     ELSE Required
<1>4. chosen \cup Kept(sel) \in SUBSET Tasks
  BY <1>1, <1>2, ConstantsAssumption
<1>5. Closure(chosen \cup Kept(sel)) \subseteq Tasks
  BY <1>4, Reached
<1> QED BY <1>1, <1>3, <1>5, ConstantsAssumption DEF CompletionScope

\* Each step of the runner, of the operator and of the clock keeps the types.
LEMMA TypeStart ==
    ASSUME TypeOK, NEW sel \in Selections \cup {{}}, Start(sel) PROVE TypeOK'
<1>1. PICK next : /\ next = CompletionScope(sel)
                  /\ next \in [mode : {"none", "whole", "scoped"}, required : SUBSET Tasks,
                               optional : SUBSET Nodes, excluded : SUBSET Nodes]
  BY ScopeTyped
<1>2. Selected(sel) \subseteq Tasks /\ Charged \subseteq Tasks
  BY ScopeTyped DEF Charged
<1>3. /\ status' \in [Tasks -> Statuses]
      /\ intent' \in [Repairs -> [state : {"none", "charged", "scheduled"},
                                  prints : SUBSET Prints, prereqs : SUBSET Tasks]]
  BY DEF Start, TypeOK, Recovered, Statuses
<1>4. /\ pc' \in Places /\ issue' \in BOOLEAN
      /\ scope' \subseteq Tasks
      /\ completion' \in [mode : {"none", "whole", "scoped"}, required : SUBSET Tasks,
                          optional : SUBSET Nodes, excluded : SUBSET Nodes]
  <2> USE <1>1, <1>2
  <2>1. CASE ~Known(sel)
    BY <2>1 DEF Start, TypeOK, Places
  <2>2. CASE Known(sel) /\ \E r \in Charged : Broken(r)
    BY <2>2 DEF Start, TypeOK, Places
  <2>3. CASE Known(sel) /\ ~\E r \in Charged : Broken(r)
    BY <2>3 DEF Start, TypeOK, Places
  <2> QED BY <2>1, <2>2, <2>3
<1>5. /\ claim' \in [implementation : BOOLEAN, acceptance : {"pending", "passed", "failed"},
                     product : BOOLEAN]
      /\ review' \in [of : SUBSET Identities, status : {"off", "pending", "pass", "fail", "error"}]
  BY DEF Start, Unclaimed, NoReview
<1> QED BY <1>3, <1>4, <1>5 DEF Start, TypeOK

\* Each step keeps the types. A repair that starts changes its status.
LEMMA TypeMend == ASSUME TypeOK, NEW r \in Repairs, Mend(r) PROVE TypeOK'
BY DEF Mend, TypeOK, Places, Statuses

\* Chains are sets of tasks.
LEMMA TypeMended == ASSUME TypeOK, Mended PROVE TypeOK'
<1>1. Chains \subseteq SUBSET Tasks
  BY DEF Chains, Reach, TypeOK
<1> QED BY <1>1 DEF Mended, TypeOK, Places

\* The next wave is a set of chains.
LEMMA TypeNextWave == ASSUME TypeOK, NextWave PROVE TypeOK'
BY DEF NextWave, NextChains, TypeOK, Places

\* What runs is a chain of the wave.
LEMMA TypeLaunch == ASSUME TypeOK, NEW c \in queue, NEW t \in c, Launch(c, t) PROVE TypeOK'
BY DEF Launch, TypeOK, Statuses

\* The identity of the branch, the plan and the scope, also after a merge.
LEMMA IdentityTyped ==
    ASSUME TypeOK PROVE Identity \in Identities /\ \A n \in Nat : [Identity EXCEPT !.head = n] \in Identities
BY DEF TypeOK, Identity, Identities

\* The end of node() counts at most one merge, and may begin a checkpoint.
LEMMA TypeNodeEnds ==
    ASSUME TypeOK, NEW c \in running, NEW t \in c, NEW result \in {"completed", "failed", "pending"},
           NEW fault \in BOOLEAN, NodeEnds(c, t, result, fault)
    PROVE  TypeOK'
<1>1. status' \in [Tasks -> Statuses] /\ running' \subseteq SUBSET Tasks
  BY DEF NodeEnds, TypeOK, Statuses
<1>2. head' \in Nat /\ merged' \subseteq Tasks
  BY DEF NodeEnds, TypeOK
<1>3. pc' \in Places
  BY DEF NodeEnds, After, Places
<1>4. check' \in Checks
  <2>1. [Identity EXCEPT !.head = head'] \in Identities
    BY <1>2, IdentityTyped
  <2>2. check \in Checks
    BY DEF TypeOK
  <2>3. check' = IF pc' = "waveCheck" THEN [NoCheck EXCEPT !.of = {[Identity EXCEPT !.head = head']}]
                 ELSE check
    BY DEF NodeEnds
  <2> QED BY <2>1, <2>2, <2>3, CheckTyped
<1> QED BY <1>1, <1>2, <1>3, <1>4 DEF NodeEnds, TypeOK

\* The end of a wave may begin a checkpoint.
LEMMA TypeWaveEnds == ASSUME TypeOK, WaveEnds PROVE TypeOK'
<1>1. check' \in Checks
  BY IdentityTyped, CheckTyped DEF WaveEnds, TypeOK
<1> QED BY <1>1 DEF WaveEnds, TypeOK, Places

\* What a checkpoint found is a checkpoint.
LEMMA TypeCheckEnds == ASSUME TypeOK, CheckEnds PROVE TypeOK'
<1>1. PICK failing \in SUBSET Prints, held \in BOOLEAN, requires \in SUBSET Nodes :
        /\ check' = [of |-> check.of, failing |-> failing, held |-> held, requires |-> requires,
                     passed |-> failing = {} /\ ~held /\ requires = {} /\ ~Stopped]
        /\ final' = IF pc = "final" THEN Outcome(check'.passed) ELSE final
  BY ConstantsAssumption DEF CheckEnds
<1>2. check' \in Checks /\ check'.of = check.of
  BY <1>1 DEF TypeOK, Checks
<1>3. final' \subseteq Outcomes
  BY <1>1, <1>2, OutcomeTyped DEF TypeOK, Checks
<1> QED BY <1>2, <1>3 DEF CheckEnds, TypeOK, Places

\* A wave that passed leaves no checkpoint behind.
LEMMA TypeWavePasses == ASSUME TypeOK, WavePasses PROVE TypeOK'
BY CheckTyped DEF WavePasses, TypeOK, Places

\* A charge makes an intent out of completed tasks, of a repair that is left:
\* the allowance is no more than there are IDs.
LEMMA TypeCharge == ASSUME TypeOK, Charge PROVE TypeOK'
<1>1. PICK print \in check.failing :
        /\ intent' = [intent EXCEPT ![Fresh] =
             [state |-> "charged", prints |-> {print}, prereqs |-> scope \cap Completed]]
        /\ failures' = failures \cup {print}
  BY DEF Charge
<1>2. print \in Prints /\ scope \cap Completed \subseteq Tasks
  BY DEF TypeOK, Checks
<1>3. intent' \in [Repairs -> [state : {"none", "charged", "scheduled"},
                              prints : SUBSET Prints, prereqs : SUBSET Tasks]]
  BY <1>1, <1>2 DEF TypeOK
<1> QED BY <1>1, <1>2, <1>3, CheckTyped DEF Charge, TypeOK, Places

\* A charged repair becomes a task.
LEMMA TypeMaterialize == ASSUME TypeOK, NEW r \in Repairs, Materialize(r) PROVE TypeOK'
BY DEF Materialize, TypeOK, Places, Statuses

\* The end of schedule() may begin the final checkpoint.
LEMMA TypeDecide == ASSUME TypeOK, Decide PROVE TypeOK'
<1>1. check' \in Checks
  BY IdentityTyped, CheckTyped DEF Decide, TypeOK
<1>2. final' \subseteq Outcomes
  BY OutcomeTyped DEF Decide, TypeOK
<1> QED BY <1>1, <1>2 DEF Decide, TypeOK, Places

\* A reopened producer is required with everything it depends on.
LEMMA TypeReopen == ASSUME TypeOK, Reopen PROVE TypeOK'
<1>1. Closure(check.requires) \subseteq Tasks
  BY Reached DEF TypeOK, Checks
<1> QED BY <1>1, CheckTyped DEF Reopen, Widened, TypeOK, Places

\* A review begins.
LEMMA TypeFinalPasses == ASSUME TypeOK, FinalPasses PROVE TypeOK'
BY DEF FinalPasses, Checks, TypeOK, Places

\* A final checkpoint failed for good.
LEMMA TypeFinalFails == ASSUME TypeOK, FinalFails PROVE TypeOK'
BY CheckTyped DEF FinalFails, TypeOK, Places

\* A review ends.
LEMMA TypeReviewEnds == ASSUME TypeOK, ReviewEnds PROVE TypeOK'
<1>1. /\ review' \in [of : SUBSET Identities, status : {"off", "pending", "pass", "fail", "error"}]
      /\ final' \subseteq Outcomes
  BY OutcomeTyped DEF ReviewEnds, TypeOK
<1> QED BY <1>1, CheckTyped DEF ReviewEnds, TypeOK, Places

\* A run ends.
LEMMA TypeRunEnd == ASSUME TypeOK, RunEnd PROVE TypeOK'
BY CheckTyped DEF RunEnd, NoMemory, TypeOK, Places

\* A stop, and the deadline.
LEMMA TypeStop == ASSUME TypeOK, Stop \/ DeadlinePasses PROVE TypeOK'
BY DEF Stop, DeadlinePasses, TypeOK

\* A crash may leave merges behind, finitely many (TasksFinite).
LEMMA TypeCrash == ASSUME TypeOK, Crash PROVE TypeOK'
<1>1. PICK caught \in SUBSET {t \in UNION running : status[t] = "running"} :
        merged' = merged \cup caught /\ head' = head + Cardinality(caught)
  BY DEF Crash
<1>2. caught \subseteq Tasks
  BY <1>1 DEF TypeOK
<1>3. Cardinality(caught) \in Nat
  BY <1>2, TasksFinite, FS_Subset, FS_CardinalityType
<1>4. merged' \subseteq Tasks /\ head' \in Nat
  BY <1>1, <1>2, <1>3 DEF TypeOK
<1>5. check' \in Checks /\ crashes' \in Nat /\ pc' \in Places
  BY CheckTyped DEF Crash, NoMemory, TypeOK, Places
<1> QED BY <1>4, <1>5 DEF Crash, NoMemory, TypeOK

\* The operator, between two runs.
LEMMA TypeOperator ==
    ASSUME TypeOK, NEW t \in Tasks,
           Retry(t) \/ Remove(t) \/ (t \in Nodes /\ (Edit(t) \/ Approve(t)))
    PROVE  TypeOK'
BY DEF Retry, Remove, Edit, Approve, Operator, TypeOK, Statuses
\* Every step keeps the types.
LEMMA TypeStep == TypeOK /\ [Next]_vars => TypeOK'
<1> SUFFICES ASSUME TypeOK, [Next]_vars PROVE TypeOK'
  OBVIOUS
<1>1. CASE Runner
  BY <1>1, TypeMend, TypeMaterialize, TypeMended, TypeNextWave, TypeWaveEnds, TypeCheckEnds,
     TypeWavePasses, TypeCharge, TypeDecide, TypeLaunch, TypeNodeEnds, TypeReopen, TypeFinalPasses,
     TypeFinalFails, TypeReviewEnds, TypeRunEnd
  DEF Runner, NodeStep
<1>2. CASE Environment
  <2>1. CASE \E sel \in Selections \cup {{}} : Start(sel)
    BY <2>1, TypeStart
  <2>2. CASE \E sel \in Selections \cup {{}} : Refuse(sel)
    BY <2>2 DEF Refuse, vars, TypeOK
  <2>3. CASE Stop \/ DeadlinePasses \/ Crash
    BY <2>3, TypeStop, TypeCrash
  <2>4. CASE (\E t \in Tasks : Retry(t) \/ Remove(t)) \/ \E n \in Nodes : Edit(n) \/ Approve(n)
    BY <2>4, TypeOperator
  <2> QED BY <1>2, <2>1, <2>2, <2>3, <2>4 DEF Environment
<1>3. CASE UNCHANGED vars
  BY <1>3 DEF vars, TypeOK
<1> QED BY <1>1, <1>2, <1>3 DEF Next

\* For every plan and every setting, the variables of a run keep their types
\* (the state of FlowRunner and of flowState, flow3/runner.ts).
THEOREM TypeCorrect == Spec => []TypeOK
BY TypeInit, TypeStep, PTL DEF Spec

-----------------------------------------------------------------------------
\* Steps that charge nothing keep the ledger.
LEMMA LedgerKept ==
    ASSUME RepairLedger, round' = round, failures' = failures,
           \A r \in Repairs : /\ intent'[r].state # "none" <=> intent[r].state # "none"
                              /\ intent'[r].prints = intent[r].prints
    PROVE  RepairLedger'
<1>1. Charged' = Charged
  BY DEF Charged
<1> QED BY <1>1 DEF RepairLedger, Charged

\* Nothing is charged at first.
LEMMA LedgerInit == Init => RepairLedger
<1> SUFFICES ASSUME Init PROVE RepairLedger
  OBVIOUS
<1>1. Charged = {}
  BY DEF Init, Charged, NoIntent
<1> QED BY <1>1, FS_EmptySet, ConstantsAssumption DEF Init, RepairLedger

\* A charge takes a fresh repair and a fresh failure, and there is one while the round allows it.
LEMMA LedgerCharge == ASSUME TypeOK, RepairLedger, Charge PROVE RepairLedger'
<1>1. PICK print \in check.failing :
        /\ intent' = [intent EXCEPT ![Fresh] =
             [state |-> "charged", prints |-> {print}, prereqs |-> scope \cap Completed]]
        /\ failures' = failures \cup {print}
  BY DEF Charge
<1>2. round' = round + 1 /\ round < RepairRounds /\ print \notin failures
  BY DEF Charge, CanRepair, Repairable
<1>3. Charged \subseteq Repairs /\ IsFiniteSet(Charged) /\ IsFiniteSet(Repairs)
  BY ConstantsAssumption, FS_Subset DEF Charged
<1>4. Repairs \ Charged # {}
  <2> SUFFICES ASSUME Charged = Repairs PROVE FALSE
    BY <1>3
  <2> QED BY <1>2, <1>3, ConstantsAssumption, FS_CardinalityType DEF RepairLedger
<1>5. Fresh \in Repairs \ Charged
  BY <1>4 DEF Fresh
<1>6. Charged' = Charged \cup {Fresh}
  BY <1>1, <1>5 DEF Charged, TypeOK
<1>7. Cardinality(Charged') = round + 1
  BY <1>3, <1>5, <1>6, FS_AddElement DEF RepairLedger
<1>8. /\ intent'[Fresh].prints = {print}
      /\ \A r \in Charged : intent'[r].prints = intent[r].prints
  BY <1>1, <1>5 DEF TypeOK, Charged
<1>9. round' <= RepairRounds
  BY <1>2, ConstantsAssumption, <1>3, FS_CardinalityType DEF TypeOK
<1> QED BY <1>1, <1>2, <1>6, <1>7, <1>8, <1>9 DEF RepairLedger

\* Repairs are charged by addFix alone, and materialized or resumed with their charge.
LEMMA LedgerStep == TypeOK /\ RepairLedger /\ [Next]_vars => RepairLedger'
<1> SUFFICES ASSUME TypeOK, RepairLedger, [Next]_vars PROVE RepairLedger'
  OBVIOUS
<1> DEFINE Kept3 == UNCHANGED <<intent, round, failures>>
<1>1. CASE Charge
  BY <1>1, LedgerCharge
<1>2. CASE \E r \in Repairs : Materialize(r)
  BY <1>2, LedgerKept DEF Materialize, TypeOK
<1>3. CASE \E sel \in Selections \cup {{}} : Start(sel)
  BY <1>3, LedgerKept DEF Start, Charged, TypeOK
<1>4. CASE Kept3
  BY <1>4, LedgerKept
<1>5. CASE Runner
  <2>1. (\E r \in Repairs : Mend(r)) \/ Mended \/ NextWave \/ WaveEnds \/ CheckEnds => Kept3
    BY DEF Mend, Mended, NextWave, WaveEnds, CheckEnds
  <2>2. WavePasses \/ Decide \/ Reopen \/ FinalPasses \/ FinalFails \/ ReviewEnds \/ RunEnd => Kept3
    BY DEF WavePasses, Decide, Reopen, FinalPasses, FinalFails, ReviewEnds, RunEnd
  <2>3. (\E c \in queue : \E t \in c : Launch(c, t)) => Kept3
    BY DEF Launch
  <2>4. ASSUME NEW c \in running, NEW t \in c, NEW result \in {"completed", "failed", "pending"},
               NEW fault \in BOOLEAN, NodeEnds(c, t, result, fault)
        PROVE  Kept3
    BY <2>4 DEF NodeEnds
  <2> QED BY <1>1, <1>2, <1>4, <1>5, <2>1, <2>2, <2>3, <2>4 DEF Runner, NodeStep
<1>6. CASE Environment
  <2>1. (\E sel \in Selections \cup {{}} : Refuse(sel)) \/ Stop \/ DeadlinePasses \/ Crash => Kept3
    BY DEF Refuse, vars, Stop, DeadlinePasses, Crash
  <2>2. (\E t \in Tasks : Retry(t) \/ Remove(t)) \/ (\E n \in Nodes : Edit(n) \/ Approve(n)) => Kept3
    BY DEF Retry, Remove, Edit, Approve, Operator
  <2> QED BY <1>3, <1>4, <1>6, <2>1, <2>2 DEF Environment
<1>7. CASE UNCHANGED vars
  BY <1>4, <1>7 DEF vars
<1> QED BY <1>5, <1>6, <1>7 DEF Next

\* For any number of failures, repairs, runs, crashes, retries and removals, the
\* round counts the charged repairs, stays within the allowance, and no failure is
\* charged twice (canRepair, repairable, addFix).
THEOREM LedgerIsKept == Spec => []RepairLedger
BY TypeCorrect, LedgerInit, LedgerStep, PTL DEF Spec

-----------------------------------------------------------------------------
(***************************************************************************)
(* What a run of FlowRun accepts is there, for any plan and any settings.  *)
(* The claim is made in one step at the end of a run, from facts collected *)
(* over many: SafetyInv carries each of them from where it is established  *)
(* to the end.  No agent works outside the phases that run chains          *)
(* (AtRest); a checkpoint that ended is about the branch as it still is    *)
(* (Looked); nothing demanded becomes unfinished after the last one        *)
(* (Finished); a passed final checkpoint is remembered only until the run  *)
(* goes back to schedule() (PassedLast); no charged repair is outside the  *)
(* scope of a run that goes on, except the one being made (RepairsHeld);   *)
(* and a run of the whole product demands every node that is not optional  *)
(* (ScopeHeld).                                                            *)
(***************************************************************************)

\* Where chains run, where checkpoints and reviews look, and where a repair is made.
Working == {"wave", "mending", "fixing"}
Looking == {"waveCheck", "waveChecked", "final", "finalChecked", "review"}
Closing == {"final", "finalChecked", "review"}
Charging == {"waveCharged", "finalCharged"}
\* A run that was not refused and did not break off.
Going == pc # "off" /\ ~(pc = "ending" /\ issue)
Passing == \E f \in final : f.passed
Waiting == {r \in Repairs : intent[r].state = "charged"}
Scheduled == {r \in Repairs : intent[r].state = "scheduled"}

\* No chain runs outside the phases for it, and a repair runs alone.
AtRest ==
  /\ pc \notin Working => running = {}
  /\ pc \in {"mending", "fixing"} => \E r \in Repairs : running \subseteq {{r}}

\* A checkpoint is of the branch, the plan and the scope as they are.
Looked ==
  /\ pc \in Looking => check.of = {Identity}
  /\ check.passed => check.requires = {}

\* From the final checkpoint on, everything demanded is completed.
Finished == pc \in Closing => Unfinished = {}

\* A passed final checkpoint is the last one, and of things as they are.
PassedLast ==
  Passing => /\ pc \in {"finalChecked", "review", "ending"} /\ (pc = "finalChecked" => check.passed)
             /\ final = {[of |-> {Identity}, passed |-> TRUE]}

\* Every charged repair is a task in the scope, or is just being made one.
RepairsHeld ==
  Going => /\ Scheduled \subseteq scope
           /\ pc \notin Charging => Waiting = {}
           /\ \A r, s \in Waiting : r = s

\* The scope of the whole product demands every node that is not optional.
ScopeHeld ==
  Going => /\ completion.mode # "none"
           /\ completion.mode = "whole" => (Nodes \cap Present) \ Optional \subseteq completion.required

SafetyInv == AtRest /\ Looked /\ Finished /\ PassedLast /\ RepairsHeld /\ ScopeHeld

USE DEF Working, Looking, Closing,
        Charging, Going, Passing, Waiting, Scheduled

\* It holds of a new plan, and each step keeps it.
LEMMA SafetyInit == Init => SafetyInv
BY DEF Init, SafetyInv, AtRest, Looked, Finished, PassedLast, RepairsHeld, ScopeHeld, NoCheck

\* Each step keeps SafetyInv. A repair that starts runs alone.
LEMMA SafeMend == ASSUME TypeOK, SafetyInv, NEW r \in Repairs, Mend(r) PROVE SafetyInv'
<1>1. AtRest'
  BY DEF Mend, AtRest, SafetyInv
<1>2. (Looked /\ Finished /\ PassedLast)'
  BY DEF Mend, Looked, Finished, PassedLast, SafetyInv
<1>3. RepairsHeld'
  BY DEF Mend, RepairsHeld, SafetyInv
<1>4. Present' = Present
  BY DEF Mend, Startable, Present, TypeOK
<1>5. ScopeHeld'
  BY <1>4 DEF Mend, ScopeHeld, SafetyInv
<1> QED BY <1>1, <1>2, <1>3, <1>5 DEF SafetyInv

\* No final checkpoint is remembered when schedule() goes on.
LEMMA SafeMended == ASSUME SafetyInv, Mended PROVE SafetyInv'
BY DEF Mended, SafetyInv, AtRest, Looked, Finished, PassedLast, RepairsHeld, ScopeHeld, Present

\* Taking the next wave starts no chain yet.
LEMMA SafeNextWave == ASSUME SafetyInv, NextWave PROVE SafetyInv'
BY DEF NextWave, SafetyInv, AtRest, Looked, Finished, PassedLast, RepairsHeld, ScopeHeld, Present

\* After the checkpoint of a wave none is looked at.
LEMMA SafeWavePasses == ASSUME SafetyInv, WavePasses PROVE SafetyInv'
BY
    DEF WavePasses, NoCheck, SafetyInv, AtRest, Looked, Finished, PassedLast, RepairsHeld,
        ScopeHeld, Present

\* A final checkpoint that failed is not one that passed.
LEMMA SafeFinalFails == ASSUME SafetyInv, FinalFails PROVE SafetyInv'
BY
    DEF FinalFails, NoCheck, SafetyInv, AtRest, Looked, Finished, PassedLast, RepairsHeld,
        ScopeHeld, Present

\* The one that passed is the last.
LEMMA SafeFinalPasses == ASSUME SafetyInv, FinalPasses PROVE SafetyInv'
<1>1. Identity' = Identity /\ Unfinished' = Unfinished /\ Present' = Present
  BY DEF FinalPasses, Identity, Unfinished, Demanded, Completed, Present
<1> QED BY <1>1 DEF FinalPasses, SafetyInv, AtRest, Looked, Finished, PassedLast, RepairsHeld, ScopeHeld

\* The final checkpoint begins when nothing is unfinished.
LEMMA SafeDecide == ASSUME SafetyInv, Decide PROVE SafetyInv'
<1>1. Identity' = Identity /\ Unfinished' = Unfinished /\ Present' = Present
  BY DEF Decide, Identity, Unfinished, Demanded, Completed, Present
<1> QED BY <1>1
    DEF Decide, NoCheck, Outcome, SafetyInv, AtRest, Looked, Finished, PassedLast, RepairsHeld,
        ScopeHeld

\* A stop changes nothing a checkpoint looked at.
LEMMA SafeStop == ASSUME SafetyInv, Stop \/ DeadlinePasses PROVE SafetyInv'
<1>1. Identity' = Identity /\ Unfinished' = Unfinished /\ Present' = Present
  BY DEF Stop, DeadlinePasses, Identity, Unfinished, Demanded, Completed, Present
<1> QED BY <1>1
    DEF Stop, DeadlinePasses, SafetyInv, AtRest, Looked, Finished, PassedLast, RepairsHeld,
        ScopeHeld

\* With the run its memory goes.
LEMMA SafeRunEnd == ASSUME SafetyInv, RunEnd \/ Crash PROVE SafetyInv'
BY
    DEF RunEnd, Crash, NoMemory, NoCheck, SafetyInv, AtRest, Looked, Finished, PassedLast,
        RepairsHeld, ScopeHeld

\* Between runs nothing of SafetyInv is at stake.
LEMMA SafeOperator ==
    ASSUME SafetyInv, NEW t \in Tasks,
           Retry(t) \/ Remove(t) \/ (t \in Nodes /\ (Edit(t) \/ Approve(t)))
    PROVE  SafetyInv'
BY
    DEF Retry, Remove, Edit, Approve, Operator, SafetyInv, AtRest, Looked, Finished, PassedLast,
        RepairsHeld, ScopeHeld

\* Chains are launched only where chains run.
LEMMA SafeLaunch == ASSUME TypeOK, SafetyInv, NEW c \in queue, NEW t \in c, Launch(c, t) PROVE SafetyInv'
<1>1. Present' = Present
  BY DEF Launch, Goes, Startable, Present, TypeOK
<1> QED BY <1>1 DEF Launch, SafetyInv, AtRest, Looked, Finished, PassedLast, RepairsHeld, ScopeHeld

\* The end of node(): a repair that ran alone leaves nothing running, and the
\* checkpoint of its wave looks at the branch as node() left it.
LEMMA SafeNodeEnds ==
    ASSUME TypeOK, SafetyInv, NEW c \in running, NEW t \in c,
           NEW result \in {"completed", "failed", "pending"}, NEW fault \in BOOLEAN,
           NodeEnds(c, t, result, fault)
    PROVE  SafetyInv'
<1> DEFINE st == [status EXCEPT ![t] = result]
           next == {u \in c : result = "completed" /\ ~fault /\ ~Stopped /\ Goes(u, c, st)}
<1>1. /\ pc \in Working /\ status[t] = "running"
      /\ status' = [u \in Tasks |-> IF u \in next THEN "running" ELSE st[u]]
      /\ running' = IF next = {} THEN running \ {c} ELSE running
      /\ pc' = After(result = "completed", fault) /\ issue' = (issue \/ fault)
      /\ UNCHANGED <<intent, completion, scope, final>>
  BY DEF NodeEnds
<1>2. t \in Tasks /\ c \subseteq Tasks
  BY DEF TypeOK
<1>3. \A u \in next : st[u] = "pending"
  BY DEF Goes, Startable
<1>4. Present' = Present
  <2>1. \A u \in Tasks : status'[u] # "absent" <=> status[u] # "absent"
    BY <1>1, <1>2, <1>3 DEF TypeOK
  <2> QED BY <2>1 DEF Present
<1>5. AtRest'
  <2>1. CASE pc = "wave"
    BY <1>1, <2>1 DEF After, AtRest
  <2>2. CASE pc # "wave"
    <3>1. c = {t} /\ running \ {c} = {}
      BY <1>1, <2>2 DEF AtRest, SafetyInv
    <3>2. next = {}
      BY <1>2, <3>1 DEF Goes, IsNext, TypeOK
    <3>3. running' = {} /\ pc' \notin {"mending", "fixing"}
      BY <1>1, <2>2, <3>1, <3>2 DEF After
    <3> QED BY <3>3 DEF AtRest
  <2> QED BY <2>1, <2>2
<1>6. Looked'
  <2>1. pc' \in Looking => pc' = "waveCheck"
    BY <1>1 DEF After
  <2>2. pc' = "waveCheck" => check' = [NoCheck EXCEPT !.of = {[Identity EXCEPT !.head = head']}]
    BY DEF NodeEnds
  <2>3. pc' # "waveCheck" => check' = check
    BY DEF NodeEnds
  <2>4. Identity' = [Identity EXCEPT !.head = head']
    BY <1>1 DEF Identity, NodeEnds
  <2> QED BY <2>1, <2>2, <2>3, <2>4 DEF Looked, SafetyInv, NoCheck
<1>7. Finished' /\ PassedLast'
  <2>1. pc' \notin Closing
    BY <1>1 DEF After
  <2>2. ~Passing'
    BY <1>1 DEF PassedLast, SafetyInv
  <2> QED BY <2>1, <2>2 DEF Finished, PassedLast
<1>8. RepairsHeld' /\ ScopeHeld'
  BY <1>1, <1>4 DEF After, RepairsHeld, ScopeHeld, SafetyInv
<1> QED BY <1>5, <1>6, <1>7, <1>8 DEF SafetyInv

\* A checkpoint of a wave begins when the active workers are done.
LEMMA SafeWaveEnds == ASSUME TypeOK, SafetyInv, WaveEnds PROVE SafetyInv'
<1>1. Identity' = Identity /\ Present' = Present
  BY DEF WaveEnds, Identity, Present
<1>2. pc' \in {"ending", "waveCheck", "next"} /\ running = {} /\ (pc' = "ending" => issue)
  BY DEF WaveEnds, Idle
<1> QED BY <1>1, <1>2
    DEF WaveEnds, NoCheck, SafetyInv, AtRest, Looked, Finished, PassedLast, RepairsHeld, ScopeHeld

\* A checkpoint that passed requires nothing; the final one becomes the outcome.
LEMMA SafeCheckEnds == ASSUME TypeOK, SafetyInv, CheckEnds PROVE SafetyInv'
<1>1. Identity' = Identity /\ Unfinished' = Unfinished /\ Present' = Present
  BY DEF CheckEnds, Identity, Unfinished, Demanded, Completed, Present
<1>2. PICK failing \in SUBSET Prints, held \in BOOLEAN, requires \in SUBSET (Producers \ Completed) :
        /\ check' = [of |-> check.of, failing |-> failing, held |-> held, requires |-> requires,
                     passed |-> failing = {} /\ ~held /\ requires = {} /\ ~Stopped]
        /\ final' = IF pc = "final" THEN Outcome(check'.passed) ELSE final
  BY DEF CheckEnds
<1>3. check.of = {Identity} /\ check'.of = {Identity}
  BY <1>2 DEF CheckEnds, SafetyInv, Looked
<1>4. Looked'
  BY <1>1, <1>2, <1>3 DEF Looked
<1>5. PassedLast'
  <2>1. CASE pc = "final"
    <3>1. final' = {[of |-> IF check'.passed THEN check.of ELSE {}, passed |-> check'.passed]}
      BY <1>2, <2>1 DEF Outcome
    <3>2. pc' = "finalChecked" /\ check'.passed \in BOOLEAN
      BY <1>2, <2>1 DEF CheckEnds
    <3>3. CASE check'.passed
      BY <1>1, <1>3, <3>1, <3>2, <3>3 DEF PassedLast
    <3>4. CASE ~check'.passed
      BY <3>1, <3>4 DEF PassedLast
    <3> QED BY <3>3, <3>4
  <2>2. CASE pc # "final"
    BY <1>2, <2>2 DEF CheckEnds, PassedLast, SafetyInv
  <2> QED BY <2>1, <2>2
<1>6. (AtRest /\ Finished /\ RepairsHeld /\ ScopeHeld)'
  BY <1>1 DEF CheckEnds, SafetyInv, AtRest, Finished, RepairsHeld, ScopeHeld
<1> QED BY <1>4, <1>5, <1>6 DEF SafetyInv

\* One repair is charged at a time, and the failed outcome is remembered as failed.
LEMMA SafeCharge == ASSUME TypeOK, SafetyInv, RepairLedger, Charge PROVE SafetyInv'
<1>1. /\ pc \in {"waveChecked", "finalChecked"} /\ pc' \in Charging /\ ~check.passed
      /\ UNCHANGED <<scope, status, completion, final, running>> /\ check' = NoCheck
  BY DEF Charge
<1>2. PICK print \in check.failing :
        intent' = [intent EXCEPT ![Fresh] =
          [state |-> "charged", prints |-> {print}, prereqs |-> scope \cap Completed]]
  BY DEF Charge
<1>3. RepairsHeld'
  BY <1>1, <1>2 DEF RepairsHeld, SafetyInv, TypeOK
<1>4. ~Passing'
  BY <1>1 DEF SafetyInv, PassedLast
<1> QED BY <1>1, <1>3, <1>4
    DEF SafetyInv, AtRest, Looked, Finished, PassedLast, ScopeHeld, Present, NoCheck

\* The repair that was being made joins the scope.
LEMMA SafeMaterialize == ASSUME TypeOK, SafetyInv, NEW r \in Repairs, Materialize(r) PROVE SafetyInv'
<1>1. /\ pc \in Charging /\ intent[r].state = "charged"
      /\ intent' = [intent EXCEPT ![r].state = "scheduled"] /\ scope' = scope \cup {r}
      /\ pc' \in {"fixing", "next", "repairs"} /\ running' \subseteq {{r}}
      /\ pc' # "fixing" => running' = {}
      /\ UNCHANGED <<completion, check, final>>
  BY DEF Materialize
<1>2. Nodes \cap Present' = Nodes \cap Present
  BY ConstantsAssumption DEF Materialize, Present, TypeOK
<1>3. RepairsHeld'
  <2>1. Waiting' = {} /\ Scheduled' = Scheduled \cup {r}
    BY <1>1 DEF RepairsHeld, SafetyInv, TypeOK
  <2> QED BY <1>1, <2>1 DEF RepairsHeld, SafetyInv
<1> QED BY <1>1, <1>2, <1>3 DEF SafetyInv, AtRest, Looked, Finished, PassedLast, ScopeHeld

\* A reopened producer ends the claim of the last checkpoint, and the scope only grows.
LEMMA SafeReopen == ASSUME TypeOK, SafetyInv, Reopen PROVE SafetyInv'
<1>1. /\ pc = "finalChecked" /\ pc' = "repairs" /\ check.requires # {} /\ check' = NoCheck
      /\ scope \subseteq scope' /\ completion' = Widened(Closure(check.requires))
      /\ UNCHANGED <<status, intent, final, running>>
  BY DEF Reopen, Missing
<1>2. completion'.mode = completion.mode /\ completion.required \subseteq completion'.required
  BY <1>1 DEF Widened, TypeOK
<1>3. ~Passing'
  BY <1>1 DEF SafetyInv, PassedLast, Looked
<1> QED BY <1>1, <1>2, <1>3
    DEF SafetyInv, AtRest, Looked, Finished, PassedLast, RepairsHeld, ScopeHeld, Present, NoCheck

\* A review that changed the source revokes the outcome.
LEMMA SafeReviewEnds == ASSUME TypeOK, SafetyInv, ReviewEnds PROVE SafetyInv'
<1>1. Identity' = Identity /\ Present' = Present
  BY DEF ReviewEnds, Identity, Present
<1>2. final' = final \/ final' = Outcome(FALSE)
  BY DEF ReviewEnds
<1> QED BY <1>1, <1>2
    DEF ReviewEnds, Outcome, NoCheck, SafetyInv, AtRest, Looked, Finished, PassedLast,
        RepairsHeld, ScopeHeld

\* A run that is not refused takes every charged repair into its scope.
LEMMA SafeStart ==
    ASSUME TypeOK, SafetyInv, NEW sel \in Selections \cup {{}}, Start(sel) PROVE SafetyInv'
<1>1. /\ pc = "off" /\ UNCHANGED <<running, check, final>>
      /\ pc' \in {"ending", "repairs"} /\ (pc' = "ending" => issue')
  BY DEF Start
<1>2. AtRest' /\ Looked' /\ Finished' /\ PassedLast'
  BY <1>1 DEF SafetyInv, AtRest, Looked, Finished, PassedLast
<1>3. ASSUME pc' = "repairs" PROVE RepairsHeld' /\ ScopeHeld'
  <2>1. /\ completion' = CompletionScope(sel) /\ status' = Recovered
        /\ Charged \subseteq scope'
        /\ intent' = [r \in Repairs |->
              IF r \in Charged THEN [intent[r] EXCEPT !.state = "scheduled"] ELSE intent[r]]
    BY <1>3 DEF Start
  <2>2. Waiting' = {} /\ Scheduled' = Charged
    BY <2>1 DEF Charged, TypeOK
  <2>3. RepairsHeld'
    BY <2>1, <2>2 DEF RepairsHeld
  <2>4. Nodes \cap Present' = Nodes \cap Present
    BY <2>1, ConstantsAssumption DEF Recovered, Present, TypeOK, Charged
  <2>5. completion'.mode \in {"whole", "scoped"} /\ completion'.mode = CompletionMode(sel)
    BY <2>1, ScopeTyped DEF CompletionScope
  <2>6. CompletionMode(sel) = "whole" => (Nodes \cap Present) \ Optional \subseteq completion'.required
    <3>1. SUFFICES ASSUME CompletionMode(sel) = "whole"
                   PROVE  (Nodes \cap Present) \ Optional \subseteq completion'.required
      OBVIOUS
    <3>2. completion'.required = Closure(((Nodes \cap Present) \ Optional) \cup Kept(sel))
      BY <2>1, <3>1 DEF CompletionScope
    <3>3. ((Nodes \cap Present) \ Optional) \cup Kept(sel) \in SUBSET Tasks
      BY ConstantsAssumption DEF Kept, TypeOK
    <3> QED BY <3>2, <3>3, Reached
  <2> QED BY <2>3, <2>4, <2>5, <2>6 DEF ScopeHeld
<1>4. ASSUME pc' # "repairs" PROVE RepairsHeld' /\ ScopeHeld'
  BY <1>1, <1>4 DEF RepairsHeld, ScopeHeld
<1> QED BY <1>2, <1>3, <1>4 DEF SafetyInv

\* Every step keeps SafetyInv.
LEMMA SafetyStep == TypeOK /\ RepairLedger /\ SafetyInv /\ [Next]_vars => SafetyInv'
<1> SUFFICES ASSUME TypeOK, RepairLedger, SafetyInv, [Next]_vars PROVE SafetyInv'
  OBVIOUS
<1>1. CASE Runner
  BY <1>1, SafeMend, SafeMaterialize, SafeMended, SafeNextWave, SafeWaveEnds, SafeCheckEnds,
     SafeWavePasses, SafeCharge, SafeDecide, SafeLaunch, SafeNodeEnds, SafeReopen, SafeFinalPasses,
     SafeFinalFails, SafeReviewEnds, SafeRunEnd
  DEF Runner, NodeStep
<1>2. CASE Environment
  <2>1. CASE \E sel \in Selections \cup {{}} : Start(sel)
    BY <2>1, SafeStart
  <2>2. CASE UNCHANGED vars
    BY <2>2 DEF vars, SafetyInv, AtRest, Looked, Finished, PassedLast, RepairsHeld, ScopeHeld,
       Identity, Unfinished, Demanded, Completed, Present
  <2>3. CASE Stop \/ DeadlinePasses \/ Crash
    BY <2>3, SafeStop, SafeRunEnd
  <2>4. CASE (\E t \in Tasks : Retry(t) \/ Remove(t)) \/ \E n \in Nodes : Edit(n) \/ Approve(n)
    BY <2>4, SafeOperator
  <2> QED BY <1>2, <2>1, <2>2, <2>3, <2>4 DEF Environment, Refuse
<1>3. CASE UNCHANGED vars
  BY <1>3 DEF vars, SafetyInv, AtRest, Looked, Finished, PassedLast, RepairsHeld, ScopeHeld,
     Identity, Unfinished, Demanded, Completed, Present
<1> QED BY <1>1, <1>2, <1>3 DEF Next
\* SafetyInv holds throughout, for every plan and every setting.
THEOREM SafetyHolds == Spec => []SafetyInv
BY TypeCorrect, LedgerIsKept, SafetyInit, SafetyStep, PTL DEF Spec

\* Checkpoints and the final review look at a branch at rest, as it was when they
\* began, and the final ones at a finished plan (schedule, checkpoint, finalReview).
THEOREM ChecksAreQuiet == Spec => []QuietChecks
<1>1. SafetyInv => QuietChecks
  BY DEF SafetyInv, AtRest, Looked, Finished, QuietChecks
<1> QED BY <1>1, SafetyHolds, PTL

\* A step that claims acceptance or the product is the end of a run.
Claims ==
  \/ claim'.acceptance = "passed" /\ claim.acceptance # "passed"
  \/ claim'.product /\ ~claim.product

\* Acceptance and the product are claimed in one place, the finally of run().
LEMMA OnlyRunEndClaims ==
    ASSUME TypeOK, [Next]_vars, Claims PROVE RunEnd
<1>1. CASE Runner
  <2>1. (\E r \in Repairs : Mend(r) \/ Materialize(r)) \/ Mended \/ NextWave \/ WaveEnds \/ CheckEnds
        => claim' = claim
    BY DEF Mend, Materialize, Mended, NextWave, WaveEnds, CheckEnds
  <2>2. WavePasses \/ Charge \/ FinalPasses \/ FinalFails \/ ReviewEnds => claim' = claim
    BY DEF WavePasses, Charge, FinalPasses, FinalFails, ReviewEnds
  <2>3. Decide \/ Reopen => claim'.acceptance = claim.acceptance /\ claim'.product = claim.product
    BY DEF Decide, Reopen, TypeOK
  <2>4. (\E c \in queue : \E t \in c : Launch(c, t)) => claim' = claim
    BY DEF Launch
  <2>5. ASSUME NEW c \in running, NEW t \in c, NEW result \in {"completed", "failed", "pending"},
               NEW fault \in BOOLEAN, NodeEnds(c, t, result, fault)
        PROVE  claim' = claim
    BY <2>5 DEF NodeEnds
  <2> QED BY <1>1, <2>1, <2>2, <2>3, <2>4, <2>5 DEF Runner, NodeStep, Claims
<1>2. CASE Environment
  <2>1. (\E sel \in Selections \cup {{}} : Start(sel)) => claim' = Unclaimed
    BY DEF Start
  <2>2. (\E sel \in Selections \cup {{}} : Refuse(sel)) \/ Stop \/ DeadlinePasses \/ Crash => claim' = claim
    BY DEF Refuse, vars, Stop, DeadlinePasses, Crash
  <2>3. (\E t \in Tasks : Retry(t) \/ Remove(t)) \/ (\E n \in Nodes : Edit(n) \/ Approve(n)) => claim' = claim
    BY DEF Retry, Remove, Edit, Approve, Operator
  <2> QED BY <1>2, <2>1, <2>2, <2>3 DEF Environment, Claims, Unclaimed
<1> QED BY <1>1, <1>2 DEF Next, Claims, vars

\* What the end of a run has checked when it accepts.
LEMMA EndAccepts ==
    ASSUME RunEnd, claim'.acceptance = "passed"
    PROVE  /\ Unfinished = {} /\ ~issue /\ Passing /\ pc = "ending"
BY DEF RunEnd

\* An accepting step has everything it accepts.
LEMMA AcceptStep ==
    TypeOK /\ SafetyInv /\ [Next]_vars =>
      (claim'.acceptance = "passed" /\ claim.acceptance # "passed" =>
         /\ completion.required \cup Charged \subseteq Completed
         /\ [of |-> {Identity}, passed |-> TRUE] \in final /\ running = {})
<1> SUFFICES ASSUME TypeOK, SafetyInv, [Next]_vars, claim'.acceptance = "passed",
                    claim.acceptance # "passed"
             PROVE  /\ completion.required \cup Charged \subseteq Completed
                    /\ [of |-> {Identity}, passed |-> TRUE] \in final /\ running = {}
  OBVIOUS
<1>1. RunEnd
  <2>1. Claims
    BY Zenon DEF Claims
  <2> QED BY <2>1, OnlyRunEndClaims
<1>2. Unfinished = {} /\ ~issue /\ Passing /\ pc = "ending"
  BY <1>1, EndAccepts
<1>3. Charged \subseteq scope \cap Repairs
  BY <1>2 DEF SafetyInv, RepairsHeld, Charged, TypeOK
<1>4. completion.required \subseteq Demanded
  BY <1>2 DEF SafetyInv, ScopeHeld, Demanded
<1>5. completion.required \cup Charged \subseteq Completed
  BY <1>2, <1>3, <1>4 DEF Unfinished
<1>6. [of |-> {Identity}, passed |-> TRUE] \in final /\ running = {}
  BY <1>2 DEF SafetyInv, PassedLast, AtRest
<1> QED BY <1>5, <1>6

\* What a run accepts is completed, every charged repair too, and the final checkpoint
\* passed on the branch, plan and scope as they are (the finally of run).
THEOREM AcceptsWhatIsThere == Spec => AcceptedAsIs
BY TypeCorrect, SafetyHolds, AcceptStep, PTL DEF Spec, AcceptedAsIs

\* A step that claims the product has all of it, reviewed.
LEMMA ProductStep ==
    TypeOK /\ SafetyInv /\ [Next]_vars =>
      (claim'.product /\ ~claim.product =>
         /\ (Nodes \cap Present) \ Optional \subseteq Completed
         /\ Review => review = [of |-> {Identity}, status |-> "pass"])
<1> SUFFICES ASSUME TypeOK, SafetyInv, [Next]_vars, claim'.product, ~claim.product
             PROVE  /\ (Nodes \cap Present) \ Optional \subseteq Completed
                    /\ Review => review = [of |-> {Identity}, status |-> "pass"]
  OBVIOUS
<1>1. RunEnd
  <2>1. Claims
    BY Zenon DEF Claims
  <2> QED BY <2>1, OnlyRunEndClaims
<1>2. /\ Unfinished = {} /\ ~issue /\ Passing /\ pc = "ending" /\ completion.mode = "whole"
      /\ Review => \E f \in final : review.of = f.of /\ review.status = "pass"
  BY <1>1 DEF RunEnd, Whole
<1>3. final = {[of |-> {Identity}, passed |-> TRUE]}
  BY <1>2 DEF SafetyInv, PassedLast
<1>4. (Nodes \cap Present) \ Optional \subseteq Completed
  BY <1>2 DEF SafetyInv, ScopeHeld, Unfinished, Demanded
<1>5. Review => review = [of |-> {Identity}, status |-> "pass"]
  BY <1>2, <1>3 DEF TypeOK
<1> QED BY <1>4, <1>5

\* The product is claimed only when every node that is not optional is completed and
\* the review passed on the accepted identity (the finally of run).
THEOREM ProductIsThere == Spec => ProductIsWhole
BY TypeCorrect, SafetyHolds, ProductStep, PTL DEF Spec, ProductIsWhole

\* A step that does not narrow what is required.
Widens == completion.required \subseteq completion'.required

\* Only a run of an explicit selection narrows what is required.
LEMMA RequiredStep ==
    TypeOK /\ [Next]_vars => Widens \/ \E sel \in Selections : Start(sel)
<1> SUFFICES ASSUME TypeOK, [Next]_vars, ~\E sel \in Selections : Start(sel) PROVE Widens
  OBVIOUS
<1>1. CASE Start({})
  <2>1. CASE completion' = completion
    BY <2>1 DEF Widens
  <2>2. CASE completion' = CompletionScope({})
    <3> DEFINE chosen == IF CompletionMode({}) = "whole" THEN (Nodes \cap Present) \ Optional
                         ELSE IF Mode = "none" THEN Selected({}) \ Optional ELSE Required
    <3>1. completion'.required = Closure(chosen \cup Kept({}))
      BY <2>2 DEF CompletionScope
    <3>2. chosen \cup Kept({}) \in SUBSET Tasks
      BY ScopeTyped, ConstantsAssumption DEF Kept, TypeOK
    <3>3. completion.required \subseteq Kept({})
      BY DEF Kept
    <3> QED BY <3>1, <3>2, <3>3, Reached DEF Widens
  <2> QED BY <1>1, <2>1, <2>2 DEF Start
<1>2. CASE Reopen
  BY <1>2 DEF Reopen, Widened, Widens, TypeOK
<1>3. CASE Runner /\ ~Reopen
  <2>1. (\E r \in Repairs : Mend(r) \/ Materialize(r)) \/ Mended \/ NextWave \/ WaveEnds \/ CheckEnds => Widens
    BY DEF Mend, Materialize, Mended, NextWave, WaveEnds, CheckEnds, Widens
  <2>2. WavePasses \/ Charge \/ Decide \/ FinalPasses \/ FinalFails \/ ReviewEnds \/ RunEnd => Widens
    BY DEF WavePasses, Charge, Decide, FinalPasses, FinalFails, ReviewEnds, RunEnd, Widens
  <2>3. (\E c \in queue : \E t \in c : Launch(c, t)) => Widens
    BY DEF Launch, Widens
  <2>4. ASSUME NEW c \in running, NEW t \in c, NEW result \in {"completed", "failed", "pending"},
               NEW fault \in BOOLEAN, NodeEnds(c, t, result, fault)
        PROVE  Widens
    BY <2>4 DEF NodeEnds, Widens
  <2> QED BY <1>3, <2>1, <2>2, <2>3, <2>4 DEF Runner, NodeStep
<1>4. CASE Environment
  <2>1. (\E sel \in Selections \cup {{}} : Refuse(sel)) \/ Stop \/ DeadlinePasses \/ Crash => Widens
    BY DEF Refuse, vars, Stop, DeadlinePasses, Crash, Widens
  <2>2. (\E t \in Tasks : Retry(t) \/ Remove(t)) \/ (\E n \in Nodes : Edit(n) \/ Approve(n)) => Widens
    BY DEF Retry, Remove, Edit, Approve, Operator, Widens
  <2> QED BY <1>1, <1>4, <2>1, <2>2 DEF Environment
<1>5. CASE UNCHANGED vars
  BY <1>5 DEF vars, Widens
<1> QED BY <1>2, <1>3, <1>4, <1>5 DEF Next

\* What is required stays required until another target is selected (completionScope).
THEOREM RequiredIsKept == Spec => RequiredStays
BY TypeCorrect, RequiredStep, PTL DEF Spec, RequiredStays, Widens
=============================================================================
