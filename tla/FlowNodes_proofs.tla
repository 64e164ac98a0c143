-------------------------- MODULE FlowNodes_proofs --------------------------
(***************************************************************************)
(* Proofs about FlowNodes, for every value of the constants: its types, then *)
(* the inductive invariant of its nodes and what follows from it.  For the  *)
(* types a step is split into the record of its task and everything else;   *)
(* for the invariant it is reduced to what it does to the fields that are   *)
(* read, and the tasks it does not belong to are left to the lemma          *)
(* Bystander.                                                              *)
(***************************************************************************)
EXTENDS FlowNodes, FiniteSetTheorems, SequenceTheorems, TLAPS

\* What the code does to the record of a task leaves a record of a task.
LEMMA RecordsTyped ==
  ASSUME NEW r \in TaskRecord
  PROVE  /\ \A kind \in Kinds : Failed(r, kind) \in TaskRecord
         /\ Charged(r) \in TaskRecord
         /\ Materialized(r) \in TaskRecord
         /\ Recovered(r) \in TaskRecord
         /\ Cleared(r) \in TaskRecord
         /\ Requeued(r) \in TaskRecord
         /\ \A some \in BOOLEAN : Kept(r, some) \in TaskRecord
<1> USE DEF TaskRecord, Status, Kinds, Decisions
<1>0. r.attempts + 1 \in Nat /\ r.cycle + 1 \in Nat
  OBVIOUS
<1>1. \A kind \in Kinds : Failed(r, kind) \in TaskRecord
  <2>1. CASE stopping
    BY <2>1 DEF Failed
  <2>2. CASE ~stopping
    BY <2>2 DEF Failed
  <2> QED BY <2>1, <2>2
<1>2. Charged(r) \in TaskRecord
  BY <1>0 DEF Charged
<1>3. Materialized(r) \in TaskRecord
  BY DEF Materialized
<1>4. Recovered(r) \in TaskRecord
  BY DEF Recovered
<1>5. Cleared(r) \in TaskRecord
  BY DEF Cleared
<1>6. Requeued(r) \in TaskRecord
  BY <1>5 DEF Requeued
<1>7. \A some \in BOOLEAN : Kept(r, some) \in TaskRecord
  BY DEF Kept
<1> QED BY <1>1, <1>2, <1>3, <1>4, <1>5, <1>6, <1>7

\* A new plan has the types.
LEMMA TypeInit == Init => TypeOK
<1> SUFFICES ASSUME Init PROVE TypeOK
  OBVIOUS
<1>1. \A s \in Status : NewTask(s) \in TaskRecord
  BY DEF NewTask, TaskRecord, Kinds, Decisions
<1>2. task \in [Tasks -> TaskRecord]
  BY <1>1 DEF Init, Status
<1>3. pc \in [Tasks -> Places]
  BY DEF Init, Places
<1>4. merge \in [of : SUBSET Candidates, conflict : BOOLEAN]
  BY DEF Init, NoMerge
<1>5. /\ used \in [Nodes -> Nat] /\ fails \in [Nodes -> SUBSET Prints]
      /\ after \in [Repairs -> SUBSET Tasks]
      /\ base \in [Tasks -> SUBSET Candidates] /\ diffBase \in [Tasks -> SUBSET Candidates]
      /\ works \in [Tasks -> Nat] /\ fixes \in [Tasks -> Nat]
  BY DEF Init
<1>6. landq \in Seq(Tasks)
  BY DEF Init
<1>7. /\ intents \subseteq Repairs /\ approved \subseteq Nodes /\ landed \subseteq Candidates
      /\ round \in Nat /\ revision \in Nat \ {0} /\ crashes \in Nat /\ ops \in Nat
  BY DEF Init
<1>8. up \in BOOLEAN /\ stopping \in BOOLEAN /\ expired \in BOOLEAN /\ recPids \in BOOLEAN
  BY DEF Init
<1> QED BY <1>2, <1>3, <1>4, <1>5, <1>6, <1>7, <1>8 DEF TypeOK

\* What the runner does to a task that is not one of the named changes.
LEMMA UpdatesTyped ==
  ASSUME NEW r \in TaskRecord
  PROVE  /\ [r EXCEPT !.status = "running", !.pid = TRUE] \in TaskRecord
         /\ [r EXCEPT !.status = "running"] \in TaskRecord
         /\ [r EXCEPT !.status = "completed", !.kind = "none", !.pid = FALSE] \in TaskRecord
         /\ [r EXCEPT !.baseline = TRUE, !.pid = TRUE] \in TaskRecord
         /\ \A b \in BOOLEAN : [r EXCEPT !.pid = b] \in TaskRecord
         /\ \A d \in Decisions : Decided(r, d) \in TaskRecord
         /\ \A d \in Decisions, b \in BOOLEAN : [r EXCEPT !.decision = d, !.pid = b] \in TaskRecord
         /\ \A n \in Nat : [r EXCEPT !.context = n] \in TaskRecord
         /\ \A n \in Nat : [r EXCEPT !.defn = n] \in TaskRecord
         /\ \A d \in Decisions, n \in Nat :
              [r EXCEPT !.decision = d, !.context = n, !.pid = FALSE] \in TaskRecord
         /\ \A d \in Decisions :
              [r EXCEPT !.cand = r.attempts, !.candDefn = r.defn, !.commit = r.attempts,
                        !.pid = FALSE, !.decision = d] \in TaskRecord
         /\ \A s \in Status, k \in Kinds : [r EXCEPT !.status = s, !.kind = k, !.pid = FALSE] \in TaskRecord
         /\ \A s \in Status, k \in Kinds, d \in Decisions :
              [r EXCEPT !.status = s, !.kind = k, !.pid = FALSE, !.decision = d] \in TaskRecord
  BY DEF Decided, TaskRecord, Status, Kinds

\* A step leaves a record for every task: the first half of the types.
LEMMA TaskStep == TypeOK /\ [Next]_vars => task' \in [Tasks -> TaskRecord]
<1> SUFFICES ASSUME TypeOK, [Next]_vars PROVE task' \in [Tasks -> TaskRecord]
  OBVIOUS
<1> USE DEF Kinds, Status, Decisions
<1>0. ASSUME NEW t \in Tasks, NEW r \in TaskRecord, task' = [task EXCEPT ![t] = r]
      PROVE  task' \in [Tasks -> TaskRecord]
  BY <1>0 DEF TypeOK
<1>r. \A t \in Tasks : task[t] \in TaskRecord
  BY DEF TypeOK
<1>s. revision + 1 \in Nat
  BY DEF TypeOK
<1>1. ASSUME NEW t \in Tasks, EnterHeld(t) PROVE task' \in [Tasks -> TaskRecord]
  <2>1. Failed(task[t], "budget") \in TaskRecord
    BY <1>r, RecordsTyped
  <2> QED BY <1>0, <1>1, <2>1 DEF EnterHeld
<1>2. ASSUME NEW t \in Tasks, EnterRecovery(t) PROVE task' \in [Tasks -> TaskRecord]
  <2>1. [task[t] EXCEPT !.status = "running", !.pid = TRUE] \in TaskRecord
    BY <1>r, UpdatesTyped
  <2>2. \A kind \in Kinds : Failed(task[t], kind) \in TaskRecord
    BY <1>r, RecordsTyped
  <2>3. \/ task' = [task EXCEPT ![t] = [task[t] EXCEPT !.status = "running", !.pid = TRUE]]
        \/ \E kind \in Kinds : task' = [task EXCEPT ![t] = Failed(task[t], kind)]
    BY <1>2 DEF EnterRecovery
  <2> QED BY <1>0, <2>1, <2>2, <2>3
<1>3. ASSUME NEW t \in Tasks, EnterSaved(t) PROVE task' \in [Tasks -> TaskRecord]
  <2>1. [task[t] EXCEPT !.status = "running"] \in TaskRecord
    BY <1>r, UpdatesTyped
  <2>2. Failed(task[t], "integration") \in TaskRecord
    BY <1>r, RecordsTyped
  <2>3. \/ task' = [task EXCEPT ![t] = [task[t] EXCEPT !.status = "running"]]
        \/ task' = [task EXCEPT ![t] = Failed(task[t], "integration")]
    BY <1>3 DEF EnterSaved
  <2> QED BY <1>0, <2>1, <2>2, <2>3
<1>4. ASSUME NEW t \in Tasks, EnterAttempt(t) PROVE task' \in [Tasks -> TaskRecord]
  <2>1. Charged(task[t]) \in TaskRecord /\ Failed(task[t], "budget") \in TaskRecord
    BY <1>r, RecordsTyped
  <2>2. task[t].decision \in Decisions
    BY <1>r DEF TaskRecord
  <2>3. \A d \in Decisions : [Charged(task[t]) EXCEPT !.decision = d, !.pid = TRUE] \in TaskRecord
    BY <2>1, UpdatesTyped
  <2>4. CASE task[t].cycle < Limit(t) /\ t \in Repairs
    <3>1. task' = [task EXCEPT ![t] = [Charged(task[t]) EXCEPT !.decision = task[t].decision, !.pid = TRUE]]
      BY <1>4, <2>4 DEF EnterAttempt
    <3> QED BY <1>0, <2>2, <2>3, <3>1
  <2>5. CASE task[t].cycle < Limit(t) /\ t \notin Repairs
    <3>1. task' = [task EXCEPT ![t] = [Charged(task[t]) EXCEPT !.decision = "none", !.pid = TRUE]]
      BY <1>4, <2>5 DEF EnterAttempt
    <3> QED BY <1>0, <2>3, <3>1
  <2>6. CASE ~(task[t].cycle < Limit(t))
    <3>1. task' = [task EXCEPT ![t] = Failed(task[t], "budget")]
      BY <1>4, <2>6 DEF EnterAttempt
    <3> QED BY <1>0, <2>1, <3>1
  <2> QED BY <2>4, <2>5, <2>6
<1>5. ASSUME NEW t \in Tasks, Dispatch(t) PROVE task' \in [Tasks -> TaskRecord]
  <2>1. /\ [task[t] EXCEPT !.pid = TRUE] \in TaskRecord
        /\ [task[t] EXCEPT !.baseline = TRUE, !.pid = TRUE] \in TaskRecord
    BY <1>r, UpdatesTyped
  <2>2. Failed(task[t], "integration") \in TaskRecord
    BY <1>r, RecordsTyped
  <2>3. \A some \in BOOLEAN : Kept(Failed(task[t], "integration"), some) \in TaskRecord
    BY <2>2, RecordsTyped
  <2>4. \/ task' = [task EXCEPT ![t].pid = TRUE]
        \/ task' = [task EXCEPT ![t] = [task[t] EXCEPT !.baseline = TRUE, !.pid = TRUE]]
        \/ \E some \in BOOLEAN : task' = [task EXCEPT ![t] = Kept(Failed(task[t], "integration"), some)]
    BY <1>5 DEF Dispatch
  <2> QED BY <1>0, <2>1, <2>3, <2>4
<1>6. ASSUME NEW t \in Tasks, AttemptFails(t) PROVE task' \in [Tasks -> TaskRecord]
  <2>1. PICK some \in BOOLEAN :
          \/ task' = [task EXCEPT ![t] = Failed(Kept(task[t], some), "exit")]
          \/ \E d \in Decisions, kind \in Kinds :
               task' = [task EXCEPT ![t] = Failed(Decided(Kept(task[t], some), d), kind)]
          \/ task' = [task EXCEPT ![t] = [Charged(Kept(task[t], some)) EXCEPT !.decision = "none", !.pid = FALSE]]
    BY <1>6 DEF AttemptFails
  <2>2. Kept(task[t], some) \in TaskRecord
    BY <1>r, RecordsTyped
  <2>3. /\ Failed(Kept(task[t], some), "exit") \in TaskRecord
        /\ Charged(Kept(task[t], some)) \in TaskRecord
    BY <2>2, RecordsTyped
  <2>4. [Charged(Kept(task[t], some)) EXCEPT !.decision = "none", !.pid = FALSE] \in TaskRecord
    BY <2>3, UpdatesTyped
  <2>5. \A d \in Decisions, kind \in Kinds : Failed(Decided(Kept(task[t], some), d), kind) \in TaskRecord
    BY <2>2, UpdatesTyped, RecordsTyped
  <2> QED BY <1>0, <2>1, <2>3, <2>4, <2>5
<1>7. ASSUME NEW t \in Tasks, AgentDone(t) PROVE task' \in [Tasks -> TaskRecord]
  <2>1. [task[t] EXCEPT !.pid = TRUE] \in TaskRecord
    BY <1>r, UpdatesTyped
  <2> QED BY <1>0, <1>7, <2>1 DEF AgentDone
<1>8. ASSUME NEW t \in Tasks, Verified(t) PROVE task' \in [Tasks -> TaskRecord]
  <2>1. PICK d \in Decisions :
          task' = [task EXCEPT ![t] =
                     [task[t] EXCEPT !.cand = task[t].attempts, !.candDefn = task[t].defn,
                                     !.commit = task[t].attempts, !.pid = FALSE, !.decision = d]]
    <3>1. task[t].decision \in Decisions
      BY <1>r DEF TaskRecord
    <3>2. CASE pc[t] = "verify"
      BY <1>8, <3>2 DEF Verified
    <3>3. CASE pc[t] # "verify"
      BY <1>8, <3>1, <3>3 DEF Verified
    <3> QED BY <3>2, <3>3
  <2>2. [task[t] EXCEPT !.cand = task[t].attempts, !.candDefn = task[t].defn,
                        !.commit = task[t].attempts, !.pid = FALSE, !.decision = d] \in TaskRecord
    BY <1>r, UpdatesTyped
  <2> QED BY <1>0, <2>1, <2>2
<1>9. ASSUME NEW t \in Tasks, DispatchRepair(t) PROVE task' \in [Tasks -> TaskRecord]
  <2>1. [task[t] EXCEPT !.baseline = TRUE, !.pid = TRUE] \in TaskRecord
    BY <1>r, UpdatesTyped
  <2> QED BY <1>0, <1>9, <2>1 DEF DispatchRepair
<1>10. ASSUME NEW t \in Tasks, VerifyFails(t) PROVE task' \in [Tasks -> TaskRecord]
  <2>1. \/ task' = [task EXCEPT ![t] = [task[t] EXCEPT !.decision = "repair", !.context = revision, !.pid = FALSE]]
        \/ \E d \in Decisions, some \in BOOLEAN :
             task' = [task EXCEPT ![t] = Kept(Failed(Decided(task[t], d), "exit"), some)]
    BY <1>10 DEF VerifyFails
  <2>2. [task[t] EXCEPT !.decision = "repair", !.context = revision, !.pid = FALSE] \in TaskRecord
    <3>1. revision \in Nat
      BY DEF TypeOK
    <3> QED BY <1>r, <3>1, UpdatesTyped
  <2>3. \A d \in Decisions, some \in BOOLEAN : Kept(Failed(Decided(task[t], d), "exit"), some) \in TaskRecord
    <3> TAKE d \in Decisions, some \in BOOLEAN
    <3>1. Decided(task[t], d) \in TaskRecord
      BY <1>r, UpdatesTyped
    <3>2. Failed(Decided(task[t], d), "exit") \in TaskRecord
      BY <3>1, RecordsTyped
    <3> QED BY <3>2, RecordsTyped
  <2> QED BY <1>0, <2>1, <2>2, <2>3
<1>11. ASSUME NEW t \in Tasks, RepairFails(t) PROVE task' \in [Tasks -> TaskRecord]
  <2>1. PICK some \in BOOLEAN :
          task' = [task EXCEPT ![t] = Kept(Failed(Decided(task[t], "hold"), "exit"), some)]
    BY <1>11 DEF RepairFails
  <2>2. Decided(task[t], "hold") \in TaskRecord
    BY <1>r, UpdatesTyped
  <2>3. Failed(Decided(task[t], "hold"), "exit") \in TaskRecord
    BY <2>2, RecordsTyped
  <2>4. Kept(Failed(Decided(task[t], "hold"), "exit"), some) \in TaskRecord
    BY <2>3, RecordsTyped
  <2> QED BY <1>0, <2>1, <2>4
<1>12. ASSUME NEW t \in Tasks, RecoveryFails(t) PROVE task' \in [Tasks -> TaskRecord]
  <2>1. PICK d \in Decisions : task' = [task EXCEPT ![t] = Failed(Decided(task[t], d), "exit")]
    BY <1>12 DEF RecoveryFails
  <2>2. Decided(task[t], d) \in TaskRecord
    BY <1>r, UpdatesTyped
  <2>3. Failed(Decided(task[t], d), "exit") \in TaskRecord
    BY <2>2, RecordsTyped
  <2> QED BY <1>0, <2>1, <2>3
<1>13. ASSUME NEW t \in Tasks, Interrupted(t) PROVE task' \in [Tasks -> TaskRecord]
  <2>1. PICK kind \in Kinds, d \in Decisions :
          task' = [task EXCEPT ![t] =
                     [task[t] EXCEPT !.status = "pending", !.kind = kind, !.pid = FALSE, !.decision = d]]
    <3>1. task[t].decision \in Decisions
      BY <1>r DEF TaskRecord
    <3>2. CASE pc[t] \in {"verify", "repair", "recover"}
      BY <1>13, <3>2 DEF Interrupted
    <3>3. CASE pc[t] \notin {"verify", "repair", "recover"}
      BY <1>13, <3>1, <3>3 DEF Interrupted
    <3> QED BY <3>2, <3>3
  <2>2. [task[t] EXCEPT !.status = "pending", !.kind = kind, !.pid = FALSE, !.decision = d] \in TaskRecord
    BY <1>r, UpdatesTyped
  <2> QED BY <1>0, <2>1, <2>2
<1>14. ASSUME NEW t \in Tasks, LandRefused(t) PROVE task' \in [Tasks -> TaskRecord]
  <2>1. Failed(task[t], "killed") \in TaskRecord
    BY <1>r, RecordsTyped
  <2> QED BY <1>0, <1>14, <2>1 DEF LandRefused
<1>15. ASSUME NEW t \in Tasks, LandAlready(t) PROVE task' \in [Tasks -> TaskRecord]
  BY <1>15 DEF LandAlready, store, TypeOK
<1>16. ASSUME NEW t \in Tasks, LandMerge(t) PROVE task' \in [Tasks -> TaskRecord]
  <2>1. [task[t] EXCEPT !.pid = TRUE] \in TaskRecord
    BY <1>r, UpdatesTyped
  <2>2. Failed(task[t], "merge") \in TaskRecord
    BY <1>r, RecordsTyped
  <2>3. \/ task' = task
        \/ task' = [task EXCEPT ![t].pid = TRUE]
        \/ task' = [task EXCEPT ![t] = Failed(task[t], "merge")]
    BY <1>16 DEF LandMerge
  <2> QED BY <1>0, <2>1, <2>2, <2>3 DEF TypeOK
<1>17. ASSUME NEW t \in Tasks, ResolveDone(t) PROVE task' \in [Tasks -> TaskRecord]
  <2>1. [task[t] EXCEPT !.pid = FALSE] \in TaskRecord
    BY <1>r, UpdatesTyped
  <2> QED BY <1>0, <1>17, <2>1 DEF ResolveDone
<1>18. ASSUME NEW t \in Tasks, ResolveFails(t) PROVE task' \in [Tasks -> TaskRecord]
  <2>1. PICK s \in Status :
          task' = [task EXCEPT ![t] = [task[t] EXCEPT !.status = s, !.kind = "merge", !.pid = FALSE]]
    BY <1>18 DEF ResolveFails
  <2>2. [task[t] EXCEPT !.status = s, !.kind = "merge", !.pid = FALSE] \in TaskRecord
    BY <1>r, UpdatesTyped
  <2> QED BY <1>0, <2>1, <2>2
<1>19. ASSUME NEW t \in Tasks, LandCommit(t) PROVE task' \in [Tasks -> TaskRecord]
  <2>1. Failed(task[t], "merge") \in TaskRecord
    BY <1>r, RecordsTyped
  <2>2. task' = task \/ task' = [task EXCEPT ![t] = Failed(task[t], "merge")]
    BY <1>19 DEF LandCommit
  <2> QED BY <1>0, <2>1, <2>2 DEF TypeOK
<1>20. ASSUME NEW t \in Tasks, Complete(t) PROVE task' \in [Tasks -> TaskRecord]
  <2>1. [task[t] EXCEPT !.status = "completed", !.kind = "none", !.pid = FALSE] \in TaskRecord
    BY <1>r, UpdatesTyped
  <2> QED BY <1>0, <1>20, <2>1 DEF Complete
<1>21. ASSUME NEW t \in Repairs, ChargeRepair(t) PROVE task' \in [Tasks -> TaskRecord]
  <2>1. [task[t] EXCEPT !.context = revision] \in TaskRecord
    BY <1>r, UpdatesTyped DEF TypeOK, Tasks
  <2> QED BY <1>0, <1>21, <2>1 DEF ChargeRepair, Tasks
<1>22. ASSUME NEW t \in Repairs, Materialize(t) PROVE task' \in [Tasks -> TaskRecord]
  <2>1. Materialized(task[t]) \in TaskRecord
    BY <1>r, RecordsTyped DEF Tasks
  <2> QED BY <1>0, <1>22, <2>1 DEF Materialize, Tasks
<1>23. CASE RunStart
  <2>1. \A t \in Tasks : Recovered(IF t \in intents THEN Materialized(task[t]) ELSE task[t]) \in TaskRecord
    <3> TAKE t \in Tasks
    <3>1. (IF t \in intents THEN Materialized(task[t]) ELSE task[t]) \in TaskRecord
      BY <1>r, RecordsTyped
    <3> QED BY <3>1, RecordsTyped
  <2> QED BY <1>23, <2>1 DEF RunStart
<1>24. ASSUME NEW t \in Tasks, Retry(t) PROVE task' \in [Tasks -> TaskRecord]
  <2>1. \A u \in Tasks : Requeued(task[u]) \in TaskRecord
    BY <1>r, RecordsTyped
  <2>2. PICK again : task' = [u \in Tasks |-> IF u \in again THEN Requeued(task[u]) ELSE task[u]]
    BY <1>24 DEF Retry
  <2> QED BY <1>r, <2>1, <2>2
<1>25. ASSUME NEW t \in Nodes, SetCommand(t) PROVE task' \in [Tasks -> TaskRecord]
  <2>1. [task[t] EXCEPT !.defn = revision + 1] \in TaskRecord
    BY <1>r, <1>s, UpdatesTyped DEF Tasks
  <2> QED BY <1>0, <1>25, <2>1 DEF SetCommand, Tasks
<1>26. ASSUME NEW t \in Nodes, EditNode(t) PROVE task' \in [Tasks -> TaskRecord]
  <2>1. Cleared(task[t]) \in TaskRecord
    BY <1>r, RecordsTyped DEF Tasks
  <2>2. [Cleared(task[t]) EXCEPT !.defn = revision + 1] \in TaskRecord
    BY <1>s, <2>1, UpdatesTyped
  <2> QED BY <1>0, <1>26, <2>2 DEF EditNode, Tasks
<1>27. CASE KillOrphans
  <2>1. \A t \in Tasks : [task[t] EXCEPT !.pid = FALSE] \in TaskRecord
    BY <1>r, UpdatesTyped
  <2> QED BY <1>27, <2>1 DEF KillOrphans, Reaped
<1>28. ASSUME NEW kill \in BOOLEAN, Resume(kill) PROVE task' \in [Tasks -> TaskRecord]
  <2> DEFINE again == [t \in Tasks |-> Recovered(task[t])]
  <2>1. \A t \in Tasks : again[t] \in TaskRecord
    BY <1>r, RecordsTyped
  <2>2. \A t \in Tasks : [again[t] EXCEPT !.pid = FALSE] \in TaskRecord
    BY <2>1, UpdatesTyped
  <2>3. task' = Reaped(again) \/ task' = again
    BY <1>28 DEF Resume
  <2> QED BY <2>1, <2>2, <2>3 DEF Reaped
<1>29. CASE UNCHANGED task
  BY <1>29 DEF TypeOK
<1> HIDE DEF Kinds, Status, Decisions
<1>30. \/ \E t \in Tasks : Node(t)
       \/ \E t \in Repairs : ChargeRepair(t) \/ Materialize(t)
       \/ RunStart \/ KillOrphans
       \/ \E t \in Tasks : Retry(t)
       \/ \E n \in Nodes : SetCommand(n) \/ EditNode(n)
       \/ \E kill \in BOOLEAN : Resume(kill)
       \/ UNCHANGED task
  BY DEF Next, Run, Environment, RunEnd, Stop, DeadlinePasses, Crash, Approve, vars, store
<1> QED BY <1>1, <1>2, <1>3, <1>4, <1>5, <1>6, <1>7, <1>8, <1>9, <1>10, <1>11, <1>12, <1>13, <1>14,
           <1>15, <1>16, <1>17, <1>18, <1>19, <1>20, <1>21, <1>22, <1>23, <1>24, <1>25, <1>26, <1>27,
           <1>28, <1>29, <1>30 DEF Node

\* The other variables, given that the tasks keep their type.
LEMMA OthersStep == TypeOK /\ [Next]_vars /\ task' \in [Tasks -> TaskRecord] => TypeOK'
<1> SUFFICES ASSUME TypeOK, [Next]_vars, task' \in [Tasks -> TaskRecord] PROVE TypeOK'
  OBVIOUS
<1> USE DEF branch, memory, ghosts, bounds
<1>a. \A n \in Nat : n + 1 \in Nat
  OBVIOUS
<1>b. \A t \in Tasks : Append(landq, t) \in Seq(Tasks)
  BY DEF TypeOK
<1>c. Settled \in Seq(Tasks)
  BY DEF TypeOK, Settled
<1>d. \A t \in Tasks : Saved(t) \in Candidates
  BY DEF TypeOK, TaskRecord, Saved, Candidates
<1>e. \A t \in Tasks : \A p \in Places : [pc EXCEPT ![t] = p] \in [Tasks -> Places]
  BY DEF TypeOK
<1>1. ASSUME NEW t \in Tasks, EnterHeld(t) PROVE TypeOK'
  BY <1>1, <1>a, <1>b, <1>c, <1>d DEF EnterHeld, TypeOK, Places, Phases
<1>2. ASSUME NEW t \in Tasks, EnterRecovery(t) PROVE TypeOK'
  BY <1>2, <1>a, <1>b, <1>c, <1>d DEF EnterRecovery, TypeOK, Places, Phases
<1>3. ASSUME NEW t \in Tasks, EnterSaved(t) PROVE TypeOK'
  BY <1>3, <1>a, <1>b, <1>c, <1>d DEF EnterSaved, TypeOK, Places, Phases
<1>4. ASSUME NEW t \in Tasks, EnterAttempt(t) PROVE TypeOK'
  BY <1>4, <1>a, <1>b, <1>c, <1>d DEF EnterAttempt, TypeOK, Places, Phases
<1>5. ASSUME NEW t \in Tasks, Dispatch(t) PROVE TypeOK'
  <2>1. pc' \in [Tasks -> Places]
    BY <1>5 DEF Dispatch, TypeOK, Places, Phases
  <2>2. base' \in [Tasks -> SUBSET Candidates]
    BY <1>5 DEF Dispatch, TypeOK
  <2>3. works' \in [Tasks -> Nat] /\ fixes' \in [Tasks -> Nat]
    <3>1. /\ works' = works \/ works' = [works EXCEPT ![t] = works[t] + 1]
          /\ fixes' = fixes \/ fixes' = [fixes EXCEPT ![t] = fixes[t] + 1]
      BY <1>5 DEF Dispatch
    <3>2. works[t] + 1 \in Nat /\ fixes[t] + 1 \in Nat
      BY <1>a DEF TypeOK
    <3>3. works' \in [Tasks -> Nat]
      BY <3>1, <3>2 DEF TypeOK
    <3>4. fixes' \in [Tasks -> Nat]
      BY <3>1, <3>2 DEF TypeOK
    <3> QED BY <3>3, <3>4
  <2> QED BY <1>5, <2>1, <2>2, <2>3 DEF Dispatch, TypeOK
<1>6. ASSUME NEW t \in Tasks, AttemptFails(t) PROVE TypeOK'
  <2>1. pc' = [pc EXCEPT ![t] = "idle"] \/ pc' = [pc EXCEPT ![t] = "restart"]
    BY <1>6 DEF AttemptFails
  <2>2. pc' \in [Tasks -> Places]
    BY <2>1 DEF TypeOK, Places
  <2> QED BY <1>6, <2>2 DEF AttemptFails, TypeOK
<1>7. ASSUME NEW t \in Tasks, AgentDone(t) PROVE TypeOK'
  BY <1>7, <1>a, <1>b, <1>c, <1>d DEF AgentDone, TypeOK, Places, Phases
<1>8. ASSUME NEW t \in Tasks, Verified(t) PROVE TypeOK'
  BY <1>8, <1>a, <1>b, <1>c, <1>d DEF Verified, TypeOK, Places, Phases
<1>9. ASSUME NEW t \in Tasks, DispatchRepair(t) PROVE TypeOK'
  BY <1>9, <1>a, <1>b, <1>c, <1>d DEF DispatchRepair, TypeOK, Places, Phases
<1>10. ASSUME NEW t \in Tasks, VerifyFails(t) PROVE TypeOK'
  <2>1. pc' = [pc EXCEPT ![t] = "idle"] \/ pc' = [pc EXCEPT ![t] = "charged"]
    BY <1>10 DEF VerifyFails
  <2>2. pc' \in [Tasks -> Places]
    BY <2>1 DEF TypeOK, Places
  <2>3. \/ UNCHANGED <<used, fails>>
        \/ \E f \in Prints : /\ t \in Nodes
                             /\ used' = [used EXCEPT ![t] = used[t] + 1]
                             /\ fails' = [fails EXCEPT ![t] = fails[t] \cup {f}]
    BY <1>10 DEF VerifyFails
  <2>4. used' \in [Nodes -> Nat] /\ fails' \in [Nodes -> SUBSET Prints]
    <3>1. ASSUME NEW f \in Prints, t \in Nodes,
                 used' = [used EXCEPT ![t] = used[t] + 1],
                 fails' = [fails EXCEPT ![t] = fails[t] \cup {f}]
          PROVE  used' \in [Nodes -> Nat] /\ fails' \in [Nodes -> SUBSET Prints]
      <4>1. used[t] + 1 \in Nat /\ fails[t] \cup {f} \in SUBSET Prints
        BY <3>1, <1>a DEF TypeOK
      <4> QED BY <3>1, <4>1 DEF TypeOK
    <3> QED BY <2>3, <3>1 DEF TypeOK
  <2> QED BY <1>10, <2>2, <2>4 DEF VerifyFails, TypeOK
<1>11. ASSUME NEW t \in Tasks, RepairFails(t) PROVE TypeOK'
  BY <1>11, <1>a, <1>b, <1>c, <1>d DEF RepairFails, TypeOK, Places, Phases
<1>12. ASSUME NEW t \in Tasks, RecoveryFails(t) PROVE TypeOK'
  BY <1>12, <1>a, <1>b, <1>c, <1>d DEF RecoveryFails, TypeOK, Places, Phases
<1>13. ASSUME NEW t \in Tasks, Interrupted(t) PROVE TypeOK'
  BY <1>13, <1>a, <1>b, <1>c, <1>d DEF Interrupted, TypeOK, Places, Phases
<1>14. ASSUME NEW t \in Tasks, LandRefused(t) PROVE TypeOK'
  BY <1>14, <1>a, <1>b, <1>c, <1>d DEF LandRefused, TypeOK, Places, Phases
<1>15. ASSUME NEW t \in Tasks, LandAlready(t) PROVE TypeOK'
  <2>1. IsNext(t)
    BY <1>15 DEF LandAlready
  <2>2. landq' \in Seq(Tasks)
    BY <1>15, <1>c, <2>1 DEF LandAlready
  <2>3. diffBase' \in [Tasks -> SUBSET Candidates] /\ pc' \in [Tasks -> Places]
    BY <1>15 DEF LandAlready, TypeOK, Places
  <2> QED BY <1>15, <2>2, <2>3 DEF LandAlready, TypeOK, store
<1>16. ASSUME NEW t \in Tasks, LandMerge(t) PROVE TypeOK'
  <2>1. Settled \in Seq(Tasks)
    BY <1>16, <1>c DEF LandMerge
  <2>2. landq' \in Seq(Tasks)
    BY <1>16, <2>1 DEF LandMerge, TypeOK
  <2>3. diffBase' \in [Tasks -> SUBSET Candidates]
    BY <1>16 DEF LandMerge, TypeOK
  <2>4. \E p \in {"merging", "resolve", "idle"} : pc' = [pc EXCEPT ![t] = p]
    BY <1>16 DEF LandMerge
  <2>5. pc' \in [Tasks -> Places]
    BY <2>4 DEF TypeOK, Places, Phases
  <2>6. \/ \E b \in BOOLEAN : merge' = [of |-> {Saved(t)}, conflict |-> b]
        \/ merge' = merge
        \/ merge' = [of |-> {}, conflict |-> FALSE]
    BY <1>16 DEF LandMerge, NoMerge
  <2>7. merge' \in [of : SUBSET Candidates, conflict : BOOLEAN]
    <3>1. \A b \in BOOLEAN : [of |-> {Saved(t)}, conflict |-> b] \in [of : SUBSET Candidates, conflict : BOOLEAN]
      BY <1>d
    <3>2. merge \in [of : SUBSET Candidates, conflict : BOOLEAN]
      BY DEF TypeOK
    <3>3. [of |-> {}, conflict |-> FALSE] \in [of : SUBSET Candidates, conflict : BOOLEAN]
      OBVIOUS
    <3> QED BY <2>6, <3>1, <3>2, <3>3
  <2> QED BY <1>16, <2>2, <2>3, <2>5, <2>7 DEF LandMerge, TypeOK
<1>17. ASSUME NEW t \in Tasks, ResolveDone(t) PROVE TypeOK'
  BY <1>17, <1>a, <1>b, <1>c, <1>d DEF ResolveDone, TypeOK, Places, Phases
<1>18. ASSUME NEW t \in Tasks, ResolveFails(t) PROVE TypeOK'
  <2>1. pc' \in [Tasks -> Places] /\ landed' \subseteq Candidates /\ stopping' \in BOOLEAN
    BY <1>18 DEF ResolveFails, TypeOK, Places
  <2>2. merge' \in [of : SUBSET Candidates, conflict : BOOLEAN]
    BY <1>18 DEF ResolveFails, NoMerge
  <2>3. landq' \in Seq(Tasks)
    BY <1>18, <1>c DEF ResolveFails
  <2> QED BY <1>18, <2>1, <2>2, <2>3 DEF ResolveFails, TypeOK
<1>19. ASSUME NEW t \in Tasks, LandCommit(t) PROVE TypeOK'
  <2>1. pc' = [pc EXCEPT ![t] = "idle"] \/ pc' = [pc EXCEPT ![t] = "landed"]
    BY <1>19 DEF LandCommit
  <2>2. pc' \in [Tasks -> Places]
    BY <2>1 DEF TypeOK, Places
  <2>3. merge' \in [of : SUBSET Candidates, conflict : BOOLEAN] /\ landed' \subseteq Candidates
    BY <1>19 DEF LandCommit, NoMerge, TypeOK
  <2>4. landq' \in Seq(Tasks)
    BY <1>19, <1>c DEF LandCommit
  <2> QED BY <1>19, <2>2, <2>3, <2>4 DEF LandCommit, TypeOK
<1>20. ASSUME NEW t \in Tasks, Complete(t) PROVE TypeOK'
  BY <1>20, <1>a, <1>b, <1>c, <1>d DEF Complete, TypeOK, Places, Phases
<1>21. ASSUME NEW t \in Repairs, ChargeRepair(t) PROVE TypeOK'
  BY <1>21, <1>a DEF ChargeRepair, TypeOK, Completed
<1>22. ASSUME NEW t \in Repairs, Materialize(t) PROVE TypeOK'
  BY <1>22, <1>a DEF Materialize, TypeOK, Completed
<1>23. ASSUME NEW t \in Tasks, Retry(t) PROVE TypeOK'
  BY <1>23, <1>a DEF Retry, TypeOK, store, Operator, TaskRecord
<1>25. ASSUME NEW t \in Nodes, SetCommand(t) PROVE TypeOK'
  BY <1>25, <1>a DEF SetCommand, TypeOK, store, Operator, Tasks
<1>26. ASSUME NEW t \in Nodes, EditNode(t) PROVE TypeOK'
  BY <1>26, <1>a DEF EditNode, TypeOK, store, Operator, Tasks
<1>27. ASSUME NEW t \in Nodes, Approve(t) PROVE TypeOK'
  BY <1>27, <1>a DEF Approve, TypeOK, store, Operator, Tasks
<1>28. CASE RunStart
  BY <1>28, <1>a DEF RunStart, TypeOK, store, Operator, TaskRecord, Places, NoMerge
<1>29. CASE RunEnd
  BY <1>29, <1>a DEF RunEnd, TypeOK, store, Operator, TaskRecord, Places, NoMerge
<1>30. CASE Stop
  BY <1>30, <1>a DEF Stop, TypeOK, store, Operator, TaskRecord, Places, NoMerge
<1>31. CASE DeadlinePasses
  BY <1>31, <1>a DEF DeadlinePasses, TypeOK, store, Operator, TaskRecord, Places, NoMerge
<1>32. CASE Crash
  <2>2. pc' \in [Tasks -> Places] /\ landq' \in Seq(Tasks)
    BY <1>32 DEF Crash, Places
  <2> QED BY <1>32, <1>a, <2>2 DEF Crash, TypeOK, store
<1>33. CASE KillOrphans
  BY <1>33, <1>a DEF KillOrphans, TypeOK, store, Operator, TaskRecord, Places, NoMerge
<1>34. ASSUME NEW kill \in BOOLEAN, Resume(kill) PROVE TypeOK'
  BY <1>34, <1>a DEF Resume, TypeOK, Operator
<1>35. CASE UNCHANGED vars
  BY <1>35 DEF TypeOK, store, vars
<1> QED BY <1>1, <1>2, <1>3, <1>4, <1>5, <1>6, <1>7, <1>8, <1>9, <1>10, <1>11, <1>12, <1>13, <1>14, <1>15, <1>16, <1>17, <1>18, <1>19, <1>20, <1>21, <1>22, <1>23, <1>25, <1>26, <1>27, <1>28, <1>29, <1>30, <1>31, <1>32, <1>33, <1>34, <1>35 DEF Next, Node, Run, Environment

\* A step keeps all the types; what is not a record of a task goes action by action.
LEMMA TypeStep == TypeOK /\ [Next]_vars => TypeOK'
BY TaskStep, OthersStep

\* Whatever the plan, the settings and the failures, every variable keeps its
\* type: no counter of attempts, repairs or rounds goes below zero, no task gets
\* a status, a place or a candidate the runner does not know.
THEOREM TypeCorrect == Spec => []TypeOK
<1>1. Init => TypeOK
  BY TypeInit
<1>2. TypeOK /\ [Next]_vars => TypeOK'
  BY TypeStep
<1> QED BY <1>1, <1>2, PTL DEF Spec

-----------------------------------------------------------------------------
\* A task that a step leaves alone stays sound, provided that nothing integrated
\* is lost and that the step does not take the integration worktree from it.
LEMMA Bystander ==
  ASSUME NEW u \in Tasks, Sound(u),
         task'[u] = task[u], pc'[u] = pc[u], pc[u] # "idle" => up',
         landed \subseteq landed',
         pc[u] \in Landing => /\ merge'.of = merge.of /\ landed' = landed
                              /\ landq' # <<>> /\ Head(landq') = Head(landq)
                              /\ diffBase'[u] = diffBase[u]
  PROVE  Sound(u)'
BY DEF Sound, Saved, Landing, Unverified, Integrated

\* A task that the runner does not hold stays sound if it is not said to be
\* completed, and keeps its commit and either keeps or loses its candidate.
LEMMA Asleep ==
  ASSUME NEW u \in Tasks, Sound(u), pc'[u] = "idle", landed' = landed,
         task'[u].commit = task[u].commit, task'[u].cand \in {0, task[u].cand},
         task'[u].status = "completed" => task[u].status = "completed"
  PROVE  Sound(u)'
BY DEF Sound, Saved, Landing, Unverified, Integrated

\* The queue grows at its end.
LEMMA Queued ==
  ASSUME TypeOK, NEW t \in Tasks
  PROVE  /\ Append(landq, t) # <<>>
         /\ landq # <<>> => Head(Append(landq, t)) = Head(landq)
<1>1. landq \in Seq(Tasks)
  BY DEF TypeOK
<1> QED BY <1>1, AppendProperties, HeadTailAppend

\* One task lands at a time.
LEMMA OneHead ==
  ASSUME IInv, NEW t \in Tasks, NEW u \in Tasks, t # u,
         pc[u] \in Landing, landq # <<>> /\ Head(landq) = t
  PROVE  FALSE
BY DEF IInv, Sound

\* The named changes, on the fields that the invariant reads.
LEMMA Fields ==
  ASSUME NEW r \in TaskRecord
  PROVE  /\ \A kind : /\ Failed(r, kind).status \in {"pending", "failed"}
                      /\ Failed(r, kind).cand = r.cand
                      /\ Failed(r, kind).attempts = r.attempts
                      /\ Failed(r, kind).commit = r.commit
         /\ /\ Charged(r).status = "running" /\ Charged(r).cand = r.cand
            /\ Charged(r).attempts # 0 /\ Charged(r).commit = r.commit
         /\ \A some \in BOOLEAN : /\ Kept(r, some).status = r.status /\ Kept(r, some).cand = r.cand
                      /\ Kept(r, some).attempts = r.attempts
         /\ /\ Materialized(r).cand = r.cand /\ Materialized(r).commit = r.commit
            /\ Materialized(r).attempts = r.attempts
            /\ Materialized(r).status \in {r.status, "pending"}
         /\ /\ Recovered(r).cand = r.cand /\ Recovered(r).commit = r.commit
            /\ Recovered(r).attempts = r.attempts
            /\ Recovered(r).status \in {r.status, "pending"}
         /\ /\ Requeued(r).cand \in {0, r.cand} /\ Requeued(r).commit = r.commit
            /\ Requeued(r).status = "pending"
         /\ Cleared(r).cand = 0 /\ Cleared(r).commit = r.commit /\ Cleared(r).status = r.status
BY DEF Failed, Charged, Kept, Materialized, Recovered, Requeued, Cleared, TaskRecord

\* A failed attempt, and what it left, whatever was decided about it.
LEMMA Ends ==
  ASSUME NEW r \in TaskRecord, NEW some \in BOOLEAN
  PROVE  /\ Kept(r, some) \in TaskRecord /\ Kept(r, some).cand = r.cand
         /\ \A kind \in Kinds : LET e == Kept(Failed(r, kind), some) IN
              e.status \in {"pending", "failed"} /\ e.cand = r.cand
         /\ \A d \in Decisions, kind \in Kinds : LET e == Failed(Decided(r, d), kind) IN
              e.status \in {"pending", "failed"} /\ e.cand = r.cand
         /\ \A d \in Decisions, kind \in Kinds : LET e == Kept(Failed(Decided(r, d), kind), some) IN
              e.status \in {"pending", "failed"} /\ e.cand = r.cand
<1>1. Kept(r, some) \in TaskRecord /\ Kept(r, some).cand = r.cand
  BY RecordsTyped, Fields
<1>2. \A d \in Decisions : Decided(r, d) \in TaskRecord /\ Decided(r, d).cand = r.cand
  <2>1. \A d \in Decisions : Decided(r, d) \in TaskRecord
    BY UpdatesTyped
  <2>2. \A d : Decided(r, d).cand = r.cand
    BY DEF Decided, TaskRecord
  <2> QED BY <2>1, <2>2
<1>3. ASSUME NEW q \in TaskRecord, q.cand = r.cand, NEW kind \in Kinds
      PROVE  /\ Failed(q, kind).status \in {"pending", "failed"} /\ Failed(q, kind).cand = r.cand
             /\ Kept(Failed(q, kind), some).status \in {"pending", "failed"}
             /\ Kept(Failed(q, kind), some).cand = r.cand
  <2>1. Failed(q, kind) \in TaskRecord
    BY RecordsTyped
  <2>2. Failed(q, kind).status \in {"pending", "failed"} /\ Failed(q, kind).cand = r.cand
    BY <1>3, Fields
  <2>3. /\ Kept(Failed(q, kind), some).status = Failed(q, kind).status
        /\ Kept(Failed(q, kind), some).cand = Failed(q, kind).cand
    BY <2>1, Fields
  <2> QED BY <2>2, <2>3
<1> QED BY <1>1, <1>2, <1>3

\* Every task is sound after a step: the task the step works on by the case of its
\* action, the others as bystanders.
LEMMA SoundStep == IInv /\ [Next]_vars => \A t \in Tasks : Sound(t)'
<1> SUFFICES ASSUME IInv, [Next]_vars PROVE \A t \in Tasks : Sound(t)'
  OBVIOUS
<1> USE DEF branch, memory, ghosts, bounds
<1>t. /\ task \in [Tasks -> TaskRecord] /\ pc \in [Tasks -> Places]
      /\ diffBase \in [Tasks -> SUBSET Candidates]
  BY DEF IInv, TypeOK
<1>r. \A t \in Tasks : task[t] \in TaskRecord
  BY <1>t
<1>s. \A t \in Tasks : Sound(t)
  BY DEF IInv
<1>q. ~up => \A t \in Tasks : pc[t] = "idle"
  BY <1>s DEF Sound
<1>1. ASSUME NEW t \in Tasks, EnterHeld(t) PROVE \A u \in Tasks : Sound(u)'
  <2>1. \A u \in Tasks \ {t} : task'[u] = task[u] /\ pc'[u] = pc[u]
    BY <1>1, <1>t DEF EnterHeld
  <2>2. /\ pc[t] = "idle" /\ pc'[t] = pc[t] /\ task'[t].status \in {"pending", "failed"}
        /\ task'[t].cand = task[t].cand /\ task'[t].commit = task[t].commit
    BY <1>1, <1>t, <1>r, Fields DEF EnterHeld, TaskRecord, Enter
  <2>3. UNCHANGED <<landed, merge, up, landq, diffBase>>
    BY <1>1 DEF EnterHeld
  <2>4. Sound(t)'
    BY <1>s, <2>2, <2>3 DEF Sound, Unverified, Integrated, Landing
  <2>5. ASSUME NEW u \in Tasks, u # t PROVE Sound(u)'
    BY <1>s, <2>1, <2>3, <2>5, Bystander DEF Sound
  <2> QED BY <2>4, <2>5
<1>2. ASSUME NEW t \in Tasks, EnterRecovery(t) PROVE \A u \in Tasks : Sound(u)'
  <2>1. \A u \in Tasks \ {t} : task'[u] = task[u] /\ pc'[u] = pc[u]
    BY <1>2, <1>t DEF EnterRecovery
  <2>2. UNCHANGED <<landed, merge, up, landq, diffBase>>
    BY <1>2 DEF EnterRecovery
  <2>3. pc[t] = "idle" /\ up /\ task[t].cand = 0 /\ task[t].attempts # 0
    BY <1>2, <1>r DEF EnterRecovery, Enter, IsRecovery, TaskRecord
  <2>4. /\ task'[t].cand = task[t].cand /\ task'[t].attempts = task[t].attempts
        /\ \/ pc'[t] = "recover" /\ task'[t].status = "running"
           \/ pc'[t] = pc[t] /\ task'[t].status \in {"pending", "failed"}
    <3>1. \/ task'[t] = [task[t] EXCEPT !.status = "running", !.pid = TRUE] /\ pc'[t] = "recover"
          \/ pc' = pc /\ \E kind \in Kinds : task'[t] = Failed(task[t], kind)
      BY <1>2, <1>t DEF EnterRecovery, Kinds
    <3>2. CASE task'[t] = [task[t] EXCEPT !.status = "running", !.pid = TRUE] /\ pc'[t] = "recover"
      BY <1>r, <3>2 DEF TaskRecord
    <3>3. CASE pc' = pc /\ \E kind \in Kinds : task'[t] = Failed(task[t], kind)
      BY <1>r, <3>3, Fields
    <3> QED BY <3>1, <3>2, <3>3
  <2>5. Sound(t)'
    BY <1>s, <2>3, <2>4, <2>2 DEF Sound, Unverified, Integrated, Landing
  <2>6. ASSUME NEW u \in Tasks, u # t PROVE Sound(u)'
    BY <1>s, <2>1, <2>2, <2>6, Bystander DEF Sound
  <2> QED BY <2>5, <2>6
<1>3. ASSUME NEW t \in Tasks, EnterSaved(t) PROVE \A u \in Tasks : Sound(u)'
  <2>1. \A u \in Tasks \ {t} : task'[u] = task[u] /\ pc'[u] = pc[u]
    BY <1>3, <1>t DEF EnterSaved
  <2>2. /\ pc[t] = "idle" /\ up /\ task[t].cand # 0
        /\ task'[t].cand = task[t].cand /\ task'[t].commit = task[t].commit
    BY <1>3, <1>t, <1>r, Fields DEF EnterSaved, TaskRecord, Enter, IsSaved
  <2>3. \/ pc'[t] = "queued" /\ task'[t].status = "running"
        \/ pc'[t] = pc[t] /\ task'[t].status \in {"pending", "failed"}
    BY <1>3, <1>t, <1>r, Fields DEF EnterSaved, TaskRecord, Enter, IsSaved
  <2>4. /\ UNCHANGED <<landed, merge, up, diffBase>>
        /\ landq' = landq \/ landq' = Append(landq, t)
    BY <1>3 DEF EnterSaved
  <2>5. Sound(t)'
    BY <1>s, <2>2, <2>3, <2>4 DEF Sound, Unverified, Integrated, Landing
  <2>6. ASSUME NEW u \in Tasks, u # t PROVE Sound(u)'
    BY <1>s, <2>1, <2>4, <2>6, Bystander, Queued DEF Sound, IInv
  <2> QED BY <2>5, <2>6
<1>4. ASSUME NEW t \in Tasks, EnterAttempt(t) PROVE \A u \in Tasks : Sound(u)'
  <2>1. \A u \in Tasks \ {t} : task'[u] = task[u] /\ pc'[u] = pc[u]
    BY <1>4, <1>t DEF EnterAttempt
  <2>2. UNCHANGED <<landed, merge, up, landq, diffBase>>
    BY <1>4 DEF EnterAttempt
  <2>3. pc[t] = "idle" /\ up /\ task[t].cand = 0
    BY <1>4 DEF EnterAttempt, Enter, IsAttempt, IsSaved
  <2>4. /\ task'[t].cand = task[t].cand
        /\ \/ pc'[t] = "setup" /\ task'[t].status = "running" /\ task'[t].attempts # 0
           \/ pc'[t] = pc[t] /\ task'[t].status \in {"pending", "failed"}
    <3>1. CASE task[t].cycle < Limit(t)
      <4>1. PICK d : task'[t] = [Charged(task[t]) EXCEPT !.decision = d, !.pid = TRUE] /\ pc'[t] = "setup"
        BY <1>4, <1>t, <3>1 DEF EnterAttempt
      <4>2. Charged(task[t]) \in TaskRecord
        BY <1>r, RecordsTyped
      <4>3. task'[t].status = Charged(task[t]).status /\ task'[t].cand = Charged(task[t]).cand
            /\ task'[t].attempts = Charged(task[t]).attempts
        BY <4>1, <4>2 DEF TaskRecord
      <4> QED BY <1>r, <4>1, <4>3, Fields
    <3>2. CASE ~(task[t].cycle < Limit(t))
      <4>1. task'[t] = Failed(task[t], "budget") /\ pc' = pc
        BY <1>4, <1>t, <3>2 DEF EnterAttempt
      <4> QED BY <1>r, <4>1, Fields
    <3> QED BY <3>1, <3>2
  <2>5. Sound(t)'
    BY <1>s, <2>3, <2>4, <2>2 DEF Sound, Unverified, Integrated, Landing
  <2>6. ASSUME NEW u \in Tasks, u # t PROVE Sound(u)'
    BY <1>s, <2>1, <2>2, <2>6, Bystander DEF Sound
  <2> QED BY <2>5, <2>6
<1>5. ASSUME NEW t \in Tasks, Dispatch(t) PROVE \A u \in Tasks : Sound(u)'
  <2>1. \A u \in Tasks \ {t} : task'[u] = task[u] /\ pc'[u] = pc[u]
    BY <1>5, <1>t DEF Dispatch
  <2>2. UNCHANGED <<landed, merge, up, landq, diffBase>>
    BY <1>5 DEF Dispatch
  <2>3. pc[t] \in {"setup", "restart"}
    BY <1>5 DEF Dispatch
  <2>4. /\ task'[t].cand = task[t].cand
        /\ \/ /\ pc'[t] \in {"work", "repair"} /\ task'[t].status = task[t].status
              /\ task'[t].commit = task[t].commit /\ task'[t].attempts = task[t].attempts
           \/ pc'[t] = "idle" /\ task'[t].status \in {"pending", "failed"}
    <3>k. {"budget", "integration", "exit"} \subseteq Kinds /\ {"none", "repair", "hold"} \subseteq Decisions
      BY DEF Kinds, Decisions
    <3>1. \/ /\ pc'[t] \in {"work", "repair"}
             /\ \/ task'[t] = [task[t] EXCEPT !.pid = TRUE]
                \/ task'[t] = [task[t] EXCEPT !.baseline = TRUE, !.pid = TRUE]
          \/ /\ pc'[t] = "idle"
             /\ \E some \in BOOLEAN : task'[t] = Kept(Failed(task[t], "integration"), some)
      BY <1>5, <1>t DEF Dispatch
    <3>2. CASE /\ pc'[t] \in {"work", "repair"}
               /\ \/ task'[t] = [task[t] EXCEPT !.pid = TRUE]
                  \/ task'[t] = [task[t] EXCEPT !.baseline = TRUE, !.pid = TRUE]
      BY <1>r, <3>2 DEF TaskRecord
    <3>3. CASE /\ pc'[t] = "idle"
               /\ \E some \in BOOLEAN : task'[t] = Kept(Failed(task[t], "integration"), some)
      BY <1>r, <3>3, <3>k, Ends
    <3> QED BY <3>1, <3>2, <3>3
  <2>5. Sound(t)'
    BY <1>s, <2>3, <2>4, <2>2 DEF Sound, Unverified, Integrated, Landing
  <2>6. ASSUME NEW u \in Tasks, u # t PROVE Sound(u)'
    BY <1>s, <2>1, <2>2, <2>6, Bystander DEF Sound
  <2> QED BY <2>5, <2>6
<1>6. ASSUME NEW t \in Tasks, AttemptFails(t) PROVE \A u \in Tasks : Sound(u)'
  <2>1. \A u \in Tasks \ {t} : task'[u] = task[u] /\ pc'[u] = pc[u]
    BY <1>6, <1>t DEF AttemptFails
  <2>2. UNCHANGED <<landed, merge, up, landq, diffBase>>
    BY <1>6 DEF AttemptFails
  <2>3. pc[t] \in {"setup", "work"}
    BY <1>6 DEF AttemptFails
  <2>4. /\ task'[t].cand = task[t].cand
        /\ \/ pc'[t] = "restart" /\ task'[t].status = "running" /\ task'[t].attempts # 0
           \/ pc'[t] = "idle" /\ task'[t].status \in {"pending", "failed"}
    <3>1. PICK some \in BOOLEAN :
            \/ /\ pc'[t] = "idle"
               /\ \/ task'[t] = Failed(Kept(task[t], some), "exit")
                  \/ \E d \in Decisions, kind \in Kinds : task'[t] = Failed(Decided(Kept(task[t], some), d), kind)
            \/ /\ pc'[t] = "restart"
               /\ task'[t] = [Charged(Kept(task[t], some)) EXCEPT !.decision = "none", !.pid = FALSE]
      BY <1>6, <1>t DEF AttemptFails, Decisions, Kinds
    <3>2. Kept(task[t], some) \in TaskRecord /\ Kept(task[t], some).cand = task[t].cand
      BY <1>r, Ends
    <3>3. CASE pc'[t] = "idle" /\ task'[t] = Failed(Kept(task[t], some), "exit")
      BY <3>2, <3>3, Fields
    <3>4. CASE /\ pc'[t] = "idle"
               /\ \E d \in Decisions, kind \in Kinds : task'[t] = Failed(Decided(Kept(task[t], some), d), kind)
      BY <3>2, <3>4, Ends
    <3>5. CASE /\ pc'[t] = "restart"
               /\ task'[t] = [Charged(Kept(task[t], some)) EXCEPT !.decision = "none", !.pid = FALSE]
      <4>1. Charged(Kept(task[t], some)) \in TaskRecord
        BY <3>2, RecordsTyped
      <4>2. /\ task'[t].status = Charged(Kept(task[t], some)).status
            /\ task'[t].cand = Charged(Kept(task[t], some)).cand
            /\ task'[t].attempts = Charged(Kept(task[t], some)).attempts
        BY <3>5, <4>1 DEF TaskRecord
      <4> QED BY <3>2, <3>5, <4>2, Fields
    <3> QED BY <3>1, <3>3, <3>4, <3>5
  <2>5. Sound(t)'
    BY <1>s, <2>3, <2>4, <2>2 DEF Sound, Unverified, Integrated, Landing
  <2>6. ASSUME NEW u \in Tasks, u # t PROVE Sound(u)'
    BY <1>s, <2>1, <2>2, <2>6, Bystander DEF Sound
  <2> QED BY <2>5, <2>6
<1>7. ASSUME NEW t \in Tasks, AgentDone(t) PROVE \A u \in Tasks : Sound(u)'
  <2>1. \A u \in Tasks \ {t} : task'[u] = task[u] /\ pc'[u] = pc[u]
    BY <1>7, <1>t DEF AgentDone
  <2>2. /\ pc[t] \in {"work", "repair"} /\ pc'[t] = "verify" /\ task'[t].status = task[t].status
        /\ task'[t].cand = task[t].cand /\ task'[t].attempts = task[t].attempts
    BY <1>7, <1>t, <1>r, Fields DEF AgentDone, TaskRecord
  <2>3. UNCHANGED <<landed, merge, up, landq, diffBase>>
    BY <1>7 DEF AgentDone
  <2>4. Sound(t)'
    BY <1>s, <2>2, <2>3 DEF Sound, Unverified, Integrated, Landing
  <2>5. ASSUME NEW u \in Tasks, u # t PROVE Sound(u)'
    BY <1>s, <2>1, <2>3, <2>5, Bystander DEF Sound
  <2> QED BY <2>4, <2>5
<1>8. ASSUME NEW t \in Tasks, Verified(t) PROVE \A u \in Tasks : Sound(u)'
  <2>1. \A u \in Tasks \ {t} : task'[u] = task[u] /\ pc'[u] = pc[u]
    BY <1>8, <1>t DEF Verified
  <2>2. /\ pc[t] \in {"verify", "recover"} /\ pc'[t] = "queued"
        /\ task'[t].status = task[t].status /\ task'[t].commit = task'[t].cand
        /\ task'[t].cand = task[t].attempts
    BY <1>8, <1>t, <1>r, Fields DEF Verified, TaskRecord
  <2>3. UNCHANGED <<landed, merge, up, diffBase>> /\ landq' = Append(landq, t)
    BY <1>8 DEF Verified
  <2>4. Sound(t)'
    BY <1>s, <2>2, <2>3 DEF Sound, Unverified, Integrated, Landing
  <2>5. ASSUME NEW u \in Tasks, u # t PROVE Sound(u)'
    BY <1>s, <2>1, <2>3, <2>5, Bystander, Queued DEF Sound, IInv
  <2> QED BY <2>4, <2>5
<1>9. ASSUME NEW t \in Tasks, DispatchRepair(t) PROVE \A u \in Tasks : Sound(u)'
  <2>1. \A u \in Tasks \ {t} : task'[u] = task[u] /\ pc'[u] = pc[u]
    BY <1>9, <1>t DEF DispatchRepair
  <2>2. /\ pc[t] = "charged" /\ pc'[t] = "repair" /\ task'[t].status = task[t].status
        /\ task'[t].cand = task[t].cand /\ task'[t].attempts = task[t].attempts
    BY <1>9, <1>t, <1>r, Fields DEF DispatchRepair, TaskRecord
  <2>3. UNCHANGED <<landed, merge, up, landq, diffBase>>
    BY <1>9 DEF DispatchRepair
  <2>4. Sound(t)'
    BY <1>s, <2>2, <2>3 DEF Sound, Unverified, Integrated, Landing
  <2>5. ASSUME NEW u \in Tasks, u # t PROVE Sound(u)'
    BY <1>s, <2>1, <2>3, <2>5, Bystander DEF Sound
  <2> QED BY <2>4, <2>5
<1>10. ASSUME NEW t \in Tasks, VerifyFails(t) PROVE \A u \in Tasks : Sound(u)'
  <2>1. \A u \in Tasks \ {t} : task'[u] = task[u] /\ pc'[u] = pc[u]
    BY <1>10, <1>t DEF VerifyFails
  <2>2. UNCHANGED <<landed, merge, up, landq, diffBase>>
    BY <1>10 DEF VerifyFails
  <2>3. pc[t] = "verify"
    BY <1>10 DEF VerifyFails
  <2>4. /\ task'[t].cand = task[t].cand
        /\ \/ /\ pc'[t] = "charged" /\ task'[t].status = task[t].status
              /\ task'[t].attempts = task[t].attempts
           \/ pc'[t] = "idle" /\ task'[t].status \in {"pending", "failed"}
    <3>k. {"budget", "integration", "exit"} \subseteq Kinds /\ {"none", "repair", "hold"} \subseteq Decisions
      BY DEF Kinds, Decisions
    <3>1. \/ /\ pc'[t] = "charged"
             /\ task'[t] = [task[t] EXCEPT !.decision = "repair", !.context = revision, !.pid = FALSE]
          \/ /\ pc'[t] = "idle"
             /\ \E d \in Decisions, some \in BOOLEAN :
                  task'[t] = Kept(Failed(Decided(task[t], d), "exit"), some)
      BY <1>10, <1>t DEF VerifyFails, Decisions
    <3>2. CASE /\ pc'[t] = "charged"
               /\ task'[t] = [task[t] EXCEPT !.decision = "repair", !.context = revision, !.pid = FALSE]
      BY <1>r, <3>2 DEF TaskRecord
    <3>3. CASE /\ pc'[t] = "idle"
               /\ \E d \in Decisions, some \in BOOLEAN :
                    task'[t] = Kept(Failed(Decided(task[t], d), "exit"), some)
      BY <1>r, <3>3, <3>k, Ends
    <3> QED BY <3>1, <3>2, <3>3
  <2>5. Sound(t)'
    BY <1>s, <2>3, <2>4, <2>2 DEF Sound, Unverified, Integrated, Landing
  <2>6. ASSUME NEW u \in Tasks, u # t PROVE Sound(u)'
    BY <1>s, <2>1, <2>2, <2>6, Bystander DEF Sound
  <2> QED BY <2>5, <2>6
<1>11. ASSUME NEW t \in Tasks, RepairFails(t) PROVE \A u \in Tasks : Sound(u)'
  <2>1. \A u \in Tasks \ {t} : task'[u] = task[u] /\ pc'[u] = pc[u]
    BY <1>11, <1>t DEF RepairFails
  <2>2. UNCHANGED <<landed, merge, up, landq, diffBase>>
    BY <1>11 DEF RepairFails
  <2>3. pc[t] = "repair" /\ pc'[t] = "idle"
    BY <1>11, <1>t DEF RepairFails
  <2>4. task'[t].cand = task[t].cand /\ task'[t].status \in {"pending", "failed"}
    <3>k. {"budget", "integration", "exit"} \subseteq Kinds /\ {"none", "repair", "hold"} \subseteq Decisions
      BY DEF Kinds, Decisions
    <3>1. PICK some \in BOOLEAN : task'[t] = Kept(Failed(Decided(task[t], "hold"), "exit"), some)
      BY <1>11, <1>t DEF RepairFails
    <3> QED BY <1>r, <3>1, <3>k, Ends
  <2>5. Sound(t)'
    BY <1>s, <2>3, <2>4, <2>2 DEF Sound, Unverified, Integrated, Landing
  <2>6. ASSUME NEW u \in Tasks, u # t PROVE Sound(u)'
    BY <1>s, <2>1, <2>2, <2>6, Bystander DEF Sound
  <2> QED BY <2>5, <2>6
<1>12. ASSUME NEW t \in Tasks, RecoveryFails(t) PROVE \A u \in Tasks : Sound(u)'
  <2>1. \A u \in Tasks \ {t} : task'[u] = task[u] /\ pc'[u] = pc[u]
    BY <1>12, <1>t DEF RecoveryFails
  <2>2. UNCHANGED <<landed, merge, up, landq, diffBase>>
    BY <1>12 DEF RecoveryFails
  <2>3. pc[t] = "recover" /\ pc'[t] = "idle"
    BY <1>12, <1>t DEF RecoveryFails
  <2>4. task'[t].cand = task[t].cand /\ task'[t].status \in {"pending", "failed"}
    <3>1. PICK d \in Decisions : task'[t] = Failed(Decided(task[t], d), "exit")
      BY <1>12, <1>t DEF RecoveryFails, Decisions
    <3>2. Decided(task[t], d) \in TaskRecord
      BY <1>r, UpdatesTyped
    <3>3. Decided(task[t], d).cand = task[t].cand
      BY <1>r DEF Decided, TaskRecord
    <3> QED BY <3>1, <3>2, <3>3, Fields
  <2>5. Sound(t)'
    BY <1>s, <2>3, <2>4, <2>2 DEF Sound, Unverified, Integrated, Landing
  <2>6. ASSUME NEW u \in Tasks, u # t PROVE Sound(u)'
    BY <1>s, <2>1, <2>2, <2>6, Bystander DEF Sound
  <2> QED BY <2>5, <2>6
<1>13. ASSUME NEW t \in Tasks, Interrupted(t) PROVE \A u \in Tasks : Sound(u)'
  <2>1. \A u \in Tasks \ {t} : task'[u] = task[u] /\ pc'[u] = pc[u]
    BY <1>13, <1>t DEF Interrupted
  <2>2. /\ pc'[t] = "idle" /\ task'[t].status = "pending"
        /\ task'[t].cand = task[t].cand /\ task'[t].commit = task[t].commit
    BY <1>13, <1>t, <1>r, Fields DEF Interrupted, TaskRecord
  <2>3. UNCHANGED <<landed, merge, up, landq, diffBase>>
    BY <1>13 DEF Interrupted
  <2>4. Sound(t)'
    BY <1>s, <2>2, <2>3 DEF Sound, Unverified, Integrated, Landing
  <2>5. ASSUME NEW u \in Tasks, u # t PROVE Sound(u)'
    BY <1>s, <2>1, <2>3, <2>5, Bystander DEF Sound
  <2> QED BY <2>4, <2>5
<1>14. ASSUME NEW t \in Tasks, LandRefused(t) PROVE \A u \in Tasks : Sound(u)'
  <2>1. \A u \in Tasks \ {t} : task'[u] = task[u] /\ pc'[u] = pc[u] /\ diffBase'[u] = diffBase[u]
    BY <1>14, <1>t DEF LandRefused
  <2>2. /\ pc[t] = "queued" /\ landq # <<>> /\ Head(landq) = t
        /\ pc'[t] = "idle" /\ task'[t].status \in {"pending", "failed"}
        /\ task'[t].cand = task[t].cand /\ task'[t].commit = task[t].commit
    BY <1>14, <1>t, <1>r, Fields DEF LandRefused, TaskRecord, IsNext
  <2>3. UNCHANGED <<landed, merge, up, diffBase>>
    BY <1>14 DEF LandRefused
  <2>4. Sound(t)'
    BY <1>s, <2>2, <2>3 DEF Sound, Unverified, Integrated, Landing
  <2>5. ASSUME NEW u \in Tasks, u # t PROVE Sound(u)'
    <3>1. pc[u] \notin Landing
      BY <2>2, <2>5, OneHead
    <3> QED BY <1>s, <2>1, <2>2, <2>3, <2>5, <3>1, Bystander DEF Sound
  <2> QED BY <2>4, <2>5
<1>15. ASSUME NEW t \in Tasks, LandAlready(t) PROVE \A u \in Tasks : Sound(u)'
  <2>1. \A u \in Tasks \ {t} : task'[u] = task[u] /\ pc'[u] = pc[u] /\ diffBase'[u] = diffBase[u]
    BY <1>15, <1>t DEF LandAlready, store
  <2>2. /\ pc[t] = "queued" /\ landq # <<>> /\ Head(landq) = t
        /\ pc'[t] = "landed" /\ task'[t] = task[t] /\ Saved(t) \in landed
    BY <1>15, <1>t, <1>r, Fields DEF LandAlready, TaskRecord, IsNext, Contained, store
  <2>3. landed' = landed /\ merge' = merge /\ up' = up
    BY <1>15 DEF LandAlready, store
  <2>4. Sound(t)'
    BY <1>s, <2>2, <2>3 DEF Sound, Unverified, Integrated, Landing, Saved
  <2>5. ASSUME NEW u \in Tasks, u # t PROVE Sound(u)'
    <3>1. pc[u] \notin Landing
      BY <2>2, <2>5, OneHead
    <3> QED BY <1>s, <2>1, <2>2, <2>3, <2>5, <3>1, Bystander DEF Sound
  <2> QED BY <2>4, <2>5
<1>16. ASSUME NEW t \in Tasks, LandMerge(t) PROVE \A u \in Tasks : Sound(u)'
  <2>1. \A u \in Tasks \ {t} : task'[u] = task[u] /\ pc'[u] = pc[u] /\ diffBase'[u] = diffBase[u]
    BY <1>16, <1>t DEF LandMerge
  <2>2. /\ pc[t] = "queued" /\ landq # <<>> /\ Head(landq) = t /\ diffBase'[t] = landed
        /\ task'[t].cand = task[t].cand /\ task'[t].commit = task[t].commit
    BY <1>16, <1>t, <1>r, Fields DEF LandMerge, TaskRecord, IsNext
  <2>3. \/ pc'[t] = "merging" /\ landq' = landq /\ merge'.of = {Saved(t)} /\ task'[t] = task[t]
        \/ pc'[t] = "resolve" /\ landq' = landq /\ task'[t].status = task[t].status
        \/ pc'[t] = "idle" /\ task'[t].status \in {"pending", "failed"}
    BY <1>16, <1>t, <1>r, Fields DEF LandMerge, TaskRecord, IsNext
  <2>4. landed' = landed /\ up' = up
    BY <1>16 DEF LandMerge
  <2>5. Sound(t)'
    BY <1>s, <2>2, <2>3, <2>4 DEF Sound, Unverified, Integrated, Landing, Saved
  <2>6. ASSUME NEW u \in Tasks, u # t PROVE Sound(u)'
    <3>1. pc[u] \notin Landing
      BY <2>2, <2>6, OneHead
    <3> QED BY <1>s, <2>1, <2>2, <2>4, <2>6, <3>1, Bystander DEF Sound
  <2> QED BY <2>5, <2>6
<1>17. ASSUME NEW t \in Tasks, ResolveDone(t) PROVE \A u \in Tasks : Sound(u)'
  <2>1. \A u \in Tasks \ {t} : task'[u] = task[u] /\ pc'[u] = pc[u]
    BY <1>17, <1>t DEF ResolveDone
  <2>2. /\ pc[t] = "resolve" /\ pc'[t] = "merging" /\ task'[t].status = task[t].status
        /\ merge'.of = {Saved(t)} /\ landed = diffBase[t]
        /\ task'[t].cand = task[t].cand /\ task'[t].commit = task[t].commit
    BY <1>17, <1>t, <1>r, Fields DEF ResolveDone, TaskRecord, IInv, TypeOK
  <2>3. UNCHANGED <<landed, up, landq, diffBase>>
    BY <1>17 DEF ResolveDone
  <2>4. Sound(t)'
    BY <1>s, <2>2, <2>3 DEF Sound, Unverified, Integrated, Landing, Saved
  <2>5. ASSUME NEW u \in Tasks, u # t PROVE Sound(u)'
    <3>0. landq # <<>> /\ Head(landq) = t
      BY <1>s, <2>2 DEF Sound, Landing
    <3>1. pc[u] \notin Landing
      BY <3>0, <2>5, OneHead
    <3> QED BY <1>s, <2>1, <2>2, <2>3, <2>5, <3>1, Bystander DEF Sound
  <2> QED BY <2>4, <2>5
<1>18. ASSUME NEW t \in Tasks, ResolveFails(t) PROVE \A u \in Tasks : Sound(u)'
  <2>1. \A u \in Tasks \ {t} : task'[u] = task[u] /\ pc'[u] = pc[u]
    BY <1>18, <1>t DEF ResolveFails
  <2>2. /\ pc[t] = "resolve" /\ pc'[t] = "idle" /\ task'[t].status \in {"pending", "failed"}
        /\ (landed' = landed \/ landed' = diffBase[t])
        /\ task'[t].cand = task[t].cand /\ task'[t].commit = task[t].commit
    BY <1>18, <1>t, <1>r, Fields DEF ResolveFails, TaskRecord
  <2>3. up' = up /\ diffBase' = diffBase
    BY <1>18 DEF ResolveFails
  <2>4. Sound(t)'
    BY <1>s, <2>2, <2>3 DEF Sound, Unverified, Integrated, Landing
  <2>5. ASSUME NEW u \in Tasks, u # t PROVE Sound(u)'
    <3>0. landq # <<>> /\ Head(landq) = t /\ landed = diffBase[t]
      BY <1>s, <2>2 DEF Sound, Landing
    <3>1. pc[u] \notin Landing
      BY <3>0, <2>5, OneHead
    <3> QED BY <1>s, <2>1, <2>2, <2>3, <2>5, <3>0, <3>1, Bystander DEF Sound
  <2> QED BY <2>4, <2>5
<1>19. ASSUME NEW t \in Tasks, LandCommit(t) PROVE \A u \in Tasks : Sound(u)'
  <2>1. \A u \in Tasks \ {t} : task'[u] = task[u] /\ pc'[u] = pc[u]
    BY <1>19, <1>t DEF LandCommit
  <2>2. /\ pc[t] = "merging" /\ task'[t].cand = task[t].cand /\ task'[t].commit = task[t].commit
    BY <1>19, <1>t, <1>r, Fields DEF LandCommit, TaskRecord
  <2>3. \/ pc'[t] = "landed" /\ task'[t] = task[t] /\ landed' = landed \cup merge.of
        \/ pc'[t] = "idle" /\ task'[t].status \in {"pending", "failed"}
    BY <1>19, <1>t, <1>r, Fields DEF LandCommit, TaskRecord
  <2>4. up' = up /\ diffBase' = diffBase /\ landed \subseteq landed'
    BY <1>19 DEF LandCommit
  <2>5. Sound(t)'
    BY <1>s, <2>2, <2>3, <2>4 DEF Sound, Unverified, Integrated, Landing, Saved
  <2>6. ASSUME NEW u \in Tasks, u # t PROVE Sound(u)'
    <3>0. landq # <<>> /\ Head(landq) = t
      BY <1>s, <2>2 DEF Sound, Landing
    <3>1. pc[u] \notin Landing
      BY <3>0, <2>6, OneHead
    <3> QED BY <1>s, <2>1, <2>2, <2>4, <2>6, <3>1, Bystander DEF Sound
  <2> QED BY <2>5, <2>6
<1>20. ASSUME NEW t \in Tasks, Complete(t) PROVE \A u \in Tasks : Sound(u)'
  <2>1. \A u \in Tasks \ {t} : task'[u] = task[u] /\ pc'[u] = pc[u]
    BY <1>20, <1>t DEF Complete
  <2>2. /\ pc[t] = "landed" /\ pc'[t] = "idle"
        /\ task'[t].cand = task[t].cand /\ task'[t].commit = task[t].commit
    BY <1>20, <1>t, <1>r, Fields DEF Complete, TaskRecord
  <2>3. UNCHANGED <<landed, merge, up, landq, diffBase>>
    BY <1>20 DEF Complete
  <2>4. Sound(t)'
    BY <1>s, <2>2, <2>3 DEF Sound, Unverified, Integrated, Landing, Saved
  <2>5. ASSUME NEW u \in Tasks, u # t PROVE Sound(u)'
    BY <1>s, <2>1, <2>3, <2>5, Bystander DEF Sound
  <2> QED BY <2>4, <2>5
<1>21. ASSUME NEW t \in Repairs, ChargeRepair(t) PROVE \A u \in Tasks : Sound(u)'
  <2>1. \A u \in Tasks \ {t} : task'[u] = task[u] /\ pc'[u] = pc[u]
    BY <1>21, <1>t DEF ChargeRepair, Tasks
  <2>2. task'[t].status = task[t].status /\ task'[t].attempts = task[t].attempts /\ pc' = pc
        /\ task'[t].cand = task[t].cand /\ task'[t].commit = task[t].commit
    BY <1>21, <1>t, <1>r, Fields DEF ChargeRepair, TaskRecord, Tasks
  <2>3. UNCHANGED <<landed, merge, up, landq, diffBase>>
    BY <1>21 DEF ChargeRepair
  <2>4. Sound(t)'
    BY <1>s, <2>2, <2>3 DEF Sound, Unverified, Integrated, Landing, Saved, Tasks
  <2>5. ASSUME NEW u \in Tasks, u # t PROVE Sound(u)'
    BY <1>s, <2>1, <2>3, <2>5, Bystander DEF Sound
  <2> QED BY <2>4, <2>5
<1>22. ASSUME NEW t \in Repairs, Materialize(t) PROVE \A u \in Tasks : Sound(u)'
  <2>1. \A u \in Tasks \ {t} : task'[u] = task[u] /\ pc'[u] = pc[u]
    BY <1>22, <1>t DEF Materialize, Tasks
  <2>2. task'[t].status \in {task[t].status, "pending"} /\ task'[t].attempts = task[t].attempts /\ pc' = pc
        /\ task[t].status = "absent" /\ task'[t].cand = task[t].cand /\ task'[t].commit = task[t].commit
    BY <1>22, <1>t, <1>r, Fields DEF Materialize, TaskRecord, Tasks
  <2>3. UNCHANGED <<landed, merge, up, landq, diffBase>>
    BY <1>22 DEF Materialize
  <2>4. Sound(t)'
    BY <1>s, <2>2, <2>3 DEF Sound, Unverified, Integrated, Landing, Saved, Tasks
  <2>5. ASSUME NEW u \in Tasks, u # t PROVE Sound(u)'
    BY <1>s, <2>1, <2>3, <2>5, Bystander DEF Sound
  <2> QED BY <2>4, <2>5
<1>23. CASE RunStart
  <2> TAKE u \in Tasks
  <2>1. task'[u] = Recovered(IF u \in intents THEN Materialized(task[u]) ELSE task[u])
    BY <1>23 DEF RunStart
  <2>2. (IF u \in intents THEN Materialized(task[u]) ELSE task[u]) \in TaskRecord
    BY <1>r, RecordsTyped
  <2>3. /\ task'[u].commit = task[u].commit /\ task'[u].cand = task[u].cand
        /\ task'[u].status \in {task[u].status, "pending"}
    BY <1>r, <2>1, <2>2, Fields
  <2>4. pc'[u] = "idle" /\ landed' = landed
    BY <1>23, <1>q DEF RunStart
  <2> QED BY <1>s, <2>3, <2>4, Asleep
<1>24. CASE RunEnd
  <2> TAKE u \in Tasks
  <2>1. pc'[u] = "idle" /\ landed' = landed /\ task' = task
    BY <1>24 DEF RunEnd, Active, store
  <2> QED BY <1>s, <2>1, Asleep
<1>25. CASE Crash
  <2> TAKE u \in Tasks
  <2>1. pc'[u] = "idle" /\ landed' = landed /\ task' = task
    BY <1>25 DEF Crash, store
  <2> QED BY <1>s, <2>1, Asleep
<1>26. ASSUME NEW t \in Tasks, Retry(t) PROVE \A u \in Tasks : Sound(u)'
  <2> TAKE u \in Tasks
  <2>1. task'[u] = task[u] \/ task'[u] = Requeued(task[u])
    BY <1>26 DEF Retry
  <2>2. /\ task'[u].commit = task[u].commit /\ task'[u].cand \in {0, task[u].cand}
        /\ task'[u].status \in {task[u].status, "pending"}
    BY <1>r, <2>1, Fields
  <2>3. pc'[u] = "idle" /\ landed' = landed
    BY <1>26, <1>q DEF Retry, Operator
  <2> QED BY <1>s, <2>2, <2>3, Asleep
<1>27. ASSUME NEW t \in Nodes, SetCommand(t) PROVE \A u \in Tasks : Sound(u)'
  <2> TAKE u \in Tasks
  <2>1. /\ task'[u].commit = task[u].commit /\ task'[u].cand = task[u].cand
        /\ task'[u].status = task[u].status
    BY <1>27, <1>r, <1>t DEF SetCommand, TaskRecord
  <2>2. pc'[u] = "idle" /\ landed' = landed
    BY <1>27, <1>q DEF SetCommand, Operator
  <2> QED BY <1>s, <2>1, <2>2, Asleep
<1>28. ASSUME NEW t \in Nodes, EditNode(t) PROVE \A u \in Tasks : Sound(u)'
  <2> TAKE u \in Tasks
  <2>1. task'[u] = task[u] \/ task'[u] = [Cleared(task[u]) EXCEPT !.defn = revision + 1]
    BY <1>28, <1>t DEF EditNode
  <2>2. Cleared(task[u]) \in TaskRecord
    BY <1>r, RecordsTyped
  <2>3. /\ task'[u].commit = task[u].commit /\ task'[u].cand \in {0, task[u].cand}
        /\ task'[u].status = task[u].status
    <3>1. CASE task'[u] = task[u]
      BY <3>1
    <3>2. CASE task'[u] = [Cleared(task[u]) EXCEPT !.defn = revision + 1]
      <4>1. /\ task'[u].commit = Cleared(task[u]).commit /\ task'[u].cand = Cleared(task[u]).cand
            /\ task'[u].status = Cleared(task[u]).status
        BY <2>2, <3>2 DEF TaskRecord
      <4> QED BY <1>r, <4>1, Fields
    <3> QED BY <2>1, <3>1, <3>2
  <2>4. pc'[u] = "idle" /\ landed' = landed
    BY <1>28, <1>q DEF EditNode, Operator
  <2> QED BY <1>s, <2>3, <2>4, Asleep
<1>29. CASE KillOrphans
  <2> TAKE u \in Tasks
  <2>1. task'[u] = [task[u] EXCEPT !.pid = FALSE]
    BY <1>29 DEF KillOrphans, Reaped
  <2>2. /\ task'[u].commit = task[u].commit /\ task'[u].cand = task[u].cand
        /\ task'[u].status = task[u].status
    BY <1>r, <2>1 DEF TaskRecord
  <2>3. pc'[u] = "idle" /\ landed' = landed
    BY <1>29, <1>q DEF KillOrphans, Operator
  <2> QED BY <1>s, <2>2, <2>3, Asleep
<1>30. ASSUME NEW kill \in BOOLEAN, Resume(kill) PROVE \A u \in Tasks : Sound(u)'
  <2> TAKE u \in Tasks
  <2>1. task'[u] = Recovered(task[u]) \/ task'[u] = [Recovered(task[u]) EXCEPT !.pid = FALSE]
    BY <1>30 DEF Resume, Reaped
  <2>2. Recovered(task[u]) \in TaskRecord
    BY <1>r, RecordsTyped
  <2>3. /\ task'[u].commit = Recovered(task[u]).commit /\ task'[u].cand = Recovered(task[u]).cand
        /\ task'[u].status = Recovered(task[u]).status
    BY <2>1, <2>2 DEF TaskRecord
  <2>4. /\ task'[u].commit = task[u].commit /\ task'[u].cand = task[u].cand
        /\ task'[u].status \in {task[u].status, "pending"}
    BY <1>r, <2>3, Fields
  <2>5. pc'[u] = "idle" /\ landed' = landed
    BY <1>30, <1>q DEF Resume, Operator
  <2> QED BY <1>s, <2>4, <2>5, Asleep
<1>31. CASE UNCHANGED <<task, landed, merge, up, pc, diffBase, landq>>
  BY <1>s, <1>31 DEF Sound, Saved
<1>32. \/ \E t \in Tasks : Node(t) \/ Retry(t)
       \/ \E t \in Repairs : ChargeRepair(t) \/ Materialize(t)
       \/ RunStart \/ RunEnd \/ Crash \/ KillOrphans
       \/ \E n \in Nodes : SetCommand(n) \/ EditNode(n)
       \/ \E kill \in BOOLEAN : Resume(kill)
       \/ UNCHANGED <<task, landed, merge, up, pc, diffBase, landq>>
  BY DEF Next, Run, Environment, Stop, DeadlinePasses, Approve, vars, store, branch, memory
<1> QED
  BY <1>1, <1>2, <1>3, <1>4, <1>5, <1>6, <1>7, <1>8, <1>9, <1>10, <1>11, <1>12, <1>13, <1>14,
     <1>15, <1>16, <1>17, <1>18, <1>19, <1>20, <1>21, <1>22, <1>23, <1>24, <1>25, <1>26,
     <1>27, <1>28, <1>29, <1>30, <1>31, <1>32 DEF Node

\* A step keeps the types and the soundness of every task.
LEMMA IInvStep == IInv /\ [Next]_vars => IInv'
BY TypeStep, SoundStep DEF IInv

\* A new plan, where nothing is started, is sound.
LEMMA IInvInit == Init => IInv
<1> SUFFICES ASSUME Init PROVE \A t \in Tasks : Sound(t)
  BY TypeInit DEF IInv
<1>1. \A t \in Tasks : /\ task[t].status \in {"pending", "absent"} /\ task[t].cand = 0
                       /\ pc[t] = "idle"
  BY DEF Init, NewTask
<1> QED BY <1>1 DEF Sound, Unverified, Integrated, Landing

\* The inductive invariant, of which the next three theorems are consequences.
THEOREM Inductive == Spec => []IInv
<1> QED BY IInvInit, IInvStep, PTL DEF Spec

\* Whatever is stopped, retried, aborted or lost in a crash, a task that the run
\* file calls completed has its commit in the integration branch.
THEOREM CompletedIsLanded == Spec => []CompletedLanded
<1>1. IInv => CompletedLanded
  BY DEF IInv, Sound, CompletedLanded, Completed
<1> QED BY <1>1, Inductive, PTL

\* Whatever the number of chains, one task at a time uses the integration
\* worktree, and the branch is where that task found it.
THEOREM OneLands == Spec => []OneLander
<1>1. IInv => OneLander
  BY DEF IInv, Sound, OneLander
<1> QED BY <1>1, Inductive, PTL

\* Nothing that was integrated is dropped from the branch: a failed resolution
\* resets it to what it was when the merge began, which nothing has changed since.
THEOREM LandedIsKept == Spec => LandedStays
<1>1. ASSUME IInv, [Next]_vars PROVE [landed \subseteq landed']_vars
  <2>1. ASSUME NEW t \in Tasks, ResolveFails(t) PROVE landed' = landed
    <3>1. pc[t] = "resolve" /\ (landed' = landed \/ landed' = diffBase[t])
      BY <2>1 DEF ResolveFails
    <3> QED BY <3>1, <1>1 DEF IInv, Sound, Landing
  <2>2. ASSUME NEW t \in Tasks, LandCommit(t) PROVE landed \subseteq landed'
    BY <2>2 DEF LandCommit
  <2>3. ASSUME NEW t \in Tasks, Node(t) PROVE landed' = landed \/ ResolveFails(t) \/ LandCommit(t)
    <3>1. CASE EnterHeld(t) \/ EnterRecovery(t) \/ EnterSaved(t) \/ EnterAttempt(t)
      BY <3>1 DEF EnterHeld, EnterRecovery, EnterSaved, EnterAttempt, branch
    <3>2. CASE Dispatch(t) \/ AttemptFails(t) \/ AgentDone(t) \/ Verified(t)
      BY <3>2 DEF Dispatch, AttemptFails, AgentDone, Verified, branch
    <3>3. CASE DispatchRepair(t) \/ VerifyFails(t) \/ RepairFails(t) \/ RecoveryFails(t) \/ Interrupted(t)
      BY <3>3 DEF DispatchRepair, VerifyFails, RepairFails, RecoveryFails, Interrupted, branch
    <3>4. CASE LandRefused(t) \/ LandAlready(t) \/ LandMerge(t) \/ ResolveDone(t) \/ Complete(t)
      BY <3>4 DEF LandRefused, LandAlready, LandMerge, ResolveDone, Complete, branch
    <3> QED BY <2>3, <3>1, <3>2, <3>3, <3>4 DEF Node
  <2>4. CASE Run
    BY <2>4 DEF Run, RunStart, RunEnd, ChargeRepair, Materialize, branch
  <2>5. CASE Environment
    BY <2>5 DEF Environment, Stop, DeadlinePasses, Crash, Retry, SetCommand, EditNode,
                Approve, KillOrphans, Resume, branch
  <2>6. CASE UNCHANGED vars
    BY <2>6 DEF vars, branch
  <2> QED BY <1>1, <2>1, <2>2, <2>3, <2>4, <2>5, <2>6 DEF Next
<1> QED BY <1>1, Inductive, PTL DEF Spec, LandedStays

\* No agent is ever sent over a saved candidate.
THEOREM SavedIsKept == Spec => []SavedNotRedone
<1>1. IInv => SavedNotRedone
  BY DEF IInv, Sound, SavedNotRedone, Unverified
<1> QED BY <1>1, Inductive, PTL
-----------------------------------------------------------------------------
\* What a task has cost: an agent is sent to implement a node for an attempt that
\* was charged and not used yet, and to repair it for a repair that was; a
\* checkpoint repair has one attempt and goes straight to its agent.
Account(t) ==
  LET n == task[t].attempts IN
  IF t \in Nodes
  THEN /\ works[t] <= n /\ (pc[t] \in {"setup", "restart"} => works[t] < n)
       /\ fixes[t] <= used[t] /\ used[t] <= NodeRepairRounds
       /\ pc[t] = "charged" => fixes[t] < used[t]
  ELSE /\ works[t] = 0 /\ n <= 1 /\ fixes[t] <= n
       /\ pc[t] = "setup" => fixes[t] < n
       /\ pc[t] \notin {"work", "restart", "charged"}

\* The allowance of checkpoint repairs, and the account of every task.
Accounts ==
  /\ TypeOK /\ Cardinality(intents) = round /\ round <= RepairRounds
  /\ \A t \in Tasks : Account(t)

\* The steps that charge a task, or use what was charged.
Costs(t) == EnterAttempt(t) \/ Dispatch(t) \/ AttemptFails(t) \/ VerifyFails(t) \/ DispatchRepair(t)

\* Where nothing is charged or used: places that a task enters for nothing.
Dear == {"setup", "restart", "work", "charged"}
Bears(t) == /\ task'[t].attempts = task[t].attempts /\ works'[t] = works[t] /\ fixes'[t] = fixes[t]
            /\ pc'[t] = pc[t] \/ pc'[t] \notin Dear \/ (pc'[t] = "work" /\ t \in Nodes)

\* A task that bears its step keeps its account.
LEMMA AccountStays ==
  ASSUME NEW t \in Tasks, Account(t), Bears(t), t \in Nodes => used'[t] = used[t]
  PROVE  Account(t)'
BY DEF Account, Bears, Dear

\* The named changes that charge nothing.
LEMMA Uncharged ==
  ASSUME NEW r \in TaskRecord
  PROVE  /\ \A d \in Decisions : Decided(r, d) \in TaskRecord /\ Decided(r, d).attempts = r.attempts
         /\ Cleared(r).attempts = r.attempts /\ Requeued(r).attempts = r.attempts
         /\ Recovered(r).attempts = r.attempts /\ Materialized(r).attempts = r.attempts
         /\ \A kind \in Kinds : Failed(r, kind) \in TaskRecord /\ Failed(r, kind).attempts = r.attempts
         /\ \A some \in BOOLEAN : Kept(r, some) \in TaskRecord /\ Kept(r, some).attempts = r.attempts
<1>1. \A d \in Decisions : Decided(r, d) \in TaskRecord
  BY UpdatesTyped
<1>2. \A d \in Decisions : Decided(r, d).attempts = r.attempts
  BY DEF Decided, TaskRecord
<1>3. Cleared(r).attempts = r.attempts /\ Requeued(r).attempts = r.attempts
  BY DEF Cleared, Requeued, TaskRecord
<1>4. /\ Recovered(r).attempts = r.attempts /\ Materialized(r).attempts = r.attempts
      /\ \A kind \in Kinds : Failed(r, kind).attempts = r.attempts
      /\ \A some \in BOOLEAN : Kept(r, some).attempts = r.attempts
  BY Fields
<1>5. /\ \A kind \in Kinds : Failed(r, kind) \in TaskRecord
      /\ \A some \in BOOLEAN : Kept(r, some) \in TaskRecord
  BY RecordsTyped
<1> QED BY <1>1, <1>2, <1>3, <1>4, <1>5

\* An attempt that is over costs what it cost, whatever is decided and kept.
LEMMA OverUncharged ==
  ASSUME NEW r \in TaskRecord, NEW kind \in Kinds, NEW d \in Decisions, NEW some \in BOOLEAN
  PROVE  /\ Failed(r, kind).attempts = r.attempts
         /\ Kept(Failed(r, kind), some).attempts = r.attempts
         /\ Failed(Kept(r, some), kind).attempts = r.attempts
         /\ Failed(Decided(r, d), kind).attempts = r.attempts
         /\ Failed(Decided(Kept(r, some), d), kind).attempts = r.attempts
         /\ Kept(Failed(Decided(r, d), kind), some).attempts = r.attempts
<1>1. \A q \in TaskRecord : Failed(q, kind) \in TaskRecord /\ Failed(q, kind).attempts = q.attempts
  BY Uncharged
<1>2. \A q \in TaskRecord : Decided(q, d) \in TaskRecord /\ Decided(q, d).attempts = q.attempts
  BY Uncharged
<1>3. \A q \in TaskRecord : Kept(q, some) \in TaskRecord /\ Kept(q, some).attempts = q.attempts
  BY Uncharged
<1> QED BY <1>1, <1>2, <1>3

\* The steps of a node that neither charge nor use a charge.
LEMMA NodeBears ==
  ASSUME TypeOK, NEW t \in Tasks, Node(t), ~Costs(t),
         t \in Repairs => pc[t] # "work"
  PROVE  Bears(t) /\ UNCHANGED <<used, works, fixes>>
<1> USE DEF Dear, ghosts, store
<1>t. task \in [Tasks -> TaskRecord] /\ pc \in [Tasks -> Places] /\ task[t] \in TaskRecord
  BY DEF TypeOK
<1>k. {"integration", "exit", "budget", "killed", "merge"} \subseteq Kinds /\ {"hold", "repair"} \subseteq Decisions
  BY DEF Kinds, Decisions
<1>f. \A kind \in Kinds : Failed(task[t], kind).attempts = task[t].attempts
  BY <1>t, Uncharged
<1>1. CASE EnterHeld(t)
  BY <1>1, <1>t, <1>k, <1>f DEF EnterHeld, memory, Bears
<1>2. CASE EnterRecovery(t)
  <2>1. \/ task'[t] = [task[t] EXCEPT !.status = "running", !.pid = TRUE] /\ pc'[t] = "recover"
        \/ pc'[t] = pc[t] /\ \E kind \in {"budget", "integration"} : task'[t] = Failed(task[t], kind)
    BY <1>2, <1>t DEF EnterRecovery
  <2>2. task'[t].attempts = task[t].attempts
    BY <2>1, <1>t, <1>k, <1>f DEF TaskRecord
  <2> QED BY <1>2, <2>1, <2>2 DEF EnterRecovery, Bears
<1>3. CASE EnterSaved(t)
  <2>1. \/ task'[t] = [task[t] EXCEPT !.status = "running"] /\ pc'[t] = "queued"
        \/ pc'[t] = pc[t] /\ task'[t] = Failed(task[t], "integration")
    BY <1>3, <1>t DEF EnterSaved
  <2>2. task'[t].attempts = task[t].attempts
    BY <2>1, <1>t, <1>k, <1>f DEF TaskRecord
  <2> QED BY <1>3, <2>1, <2>2 DEF EnterSaved, Bears
<1>4. CASE AgentDone(t) \/ Verified(t)
  <2>1. /\ \/ task'[t] = [task[t] EXCEPT !.pid = TRUE]
           \/ \E d \in Decisions : task'[t] =
                [task[t] EXCEPT !.cand = task[t].attempts, !.candDefn = task[t].defn,
                                !.commit = task[t].attempts, !.pid = FALSE, !.decision = d]
        /\ pc'[t] \in {"verify", "queued"}
    <3>1. CASE AgentDone(t)
      BY <3>1, <1>t DEF AgentDone
    <3>2. CASE Verified(t)
      <4>1. task[t].decision \in Decisions /\ "none" \in Decisions
        BY <1>t DEF TaskRecord, Decisions
      <4> QED BY <3>2, <4>1, <1>t DEF Verified
    <3> QED BY <1>4, <3>1, <3>2
  <2>2. task'[t].attempts = task[t].attempts
    BY <2>1, <1>t DEF TaskRecord
  <2> QED BY <1>4, <2>1, <2>2 DEF AgentDone, Verified, Bears
<1>5. CASE RepairFails(t)
  <2>1. PICK some \in BOOLEAN : task'[t] = Kept(Failed(Decided(task[t], "hold"), "exit"), some)
    BY <1>5, <1>t DEF RepairFails
  <2>2. Kept(Failed(Decided(task[t], "hold"), "exit"), some).attempts = task[t].attempts
    BY <1>t, <1>k, OverUncharged
  <2> QED BY <1>5, <1>t, <2>1, <2>2 DEF RepairFails, Bears
<1>6. CASE RecoveryFails(t)
  <2>1. PICK d \in {"repair", "hold"} : task'[t] = Failed(Decided(task[t], d), "exit")
    BY <1>6, <1>t DEF RecoveryFails
  <2>2. Failed(Decided(task[t], d), "exit").attempts = task[t].attempts
    <3>1. d \in Decisions /\ "exit" \in Kinds
      BY <1>k
    <3> QED BY <1>t, <3>1, OverUncharged
  <2> QED BY <1>6, <1>t, <2>1, <2>2 DEF RecoveryFails, Bears
<1>7. CASE Interrupted(t)
  <2>1. task'[t].attempts = task[t].attempts /\ pc'[t] = "idle"
    BY <1>7, <1>t DEF Interrupted, TaskRecord
  <2> QED BY <1>7, <2>1 DEF Interrupted, Bears
<1>8. CASE LandRefused(t)
  BY <1>8, <1>t, <1>k, <1>f DEF LandRefused, Bears
<1>9. CASE LandAlready(t)
  BY <1>9, <1>t DEF LandAlready, Bears
<1>10. CASE LandMerge(t)
  <2>1. /\ task'[t] \in {task[t], [task[t] EXCEPT !.pid = TRUE], Failed(task[t], "merge")}
        /\ pc'[t] \in {"merging", "resolve", "idle"}
    BY <1>10, <1>t DEF LandMerge
  <2>2. task'[t].attempts = task[t].attempts
    BY <2>1, <1>t, <1>k, <1>f DEF TaskRecord
  <2> QED BY <1>10, <2>1, <2>2 DEF LandMerge, Bears
<1>11. CASE ResolveDone(t) \/ Complete(t)
  <2>1. /\ task'[t] \in {[task[t] EXCEPT !.pid = FALSE],
                         [task[t] EXCEPT !.status = "completed", !.kind = "none", !.pid = FALSE]}
        /\ pc'[t] \in {"merging", "idle"}
    BY <1>11, <1>t DEF ResolveDone, Complete
  <2>2. task'[t].attempts = task[t].attempts
    BY <2>1, <1>t DEF TaskRecord
  <2> QED BY <1>11, <2>1, <2>2 DEF ResolveDone, Complete, Bears
<1>13. CASE ResolveFails(t)
  <2>1. /\ \E st \in Status : task'[t] = [task[t] EXCEPT !.status = st, !.kind = "merge", !.pid = FALSE]
        /\ pc'[t] = "idle"
    BY <1>13, <1>t DEF ResolveFails, Status
  <2>2. task'[t].attempts = task[t].attempts
    BY <2>1, <1>t DEF TaskRecord
  <2> QED BY <1>13, <2>1, <2>2 DEF ResolveFails, Bears
<1>12. CASE LandCommit(t)
  <2>1. /\ task'[t] \in {task[t], Failed(task[t], "merge")} /\ pc'[t] \in {"landed", "idle"}
    BY <1>12, <1>t DEF LandCommit
  <2>2. task'[t].attempts = task[t].attempts
    BY <2>1, <1>k, <1>f
  <2> QED BY <1>12, <2>1, <2>2 DEF LandCommit, Bears
<1> QED BY <1>1, <1>2, <1>3, <1>4, <1>5, <1>6, <1>7, <1>8, <1>9, <1>10, <1>11, <1>12, <1>13 DEF Node, Costs
\* A step of a node leaves the accounts of the others alone.
LEMMA NodeOthers ==
  ASSUME TypeOK, NEW t \in Tasks, Node(t), NEW u \in Tasks \ {t}
  PROVE  /\ task'[u] = task[u] /\ pc'[u] = pc[u] /\ works'[u] = works[u] /\ fixes'[u] = fixes[u]
         /\ u \in Nodes => used'[u] = used[u]
<1> USE DEF ghosts, store, memory
<1>t. /\ DOMAIN task = Tasks /\ DOMAIN pc = Tasks /\ DOMAIN works = Tasks /\ DOMAIN fixes = Tasks
      /\ DOMAIN used = Nodes
  BY DEF TypeOK
<1>1. CASE EnterHeld(t) \/ EnterRecovery(t) \/ EnterSaved(t) \/ EnterAttempt(t)
  BY <1>t, <1>1 DEF EnterHeld, EnterRecovery, EnterSaved, EnterAttempt
<1>2. CASE Dispatch(t) \/ AttemptFails(t)
  BY <1>t, <1>2 DEF Dispatch, AttemptFails
<1>3. CASE AgentDone(t) \/ Verified(t) \/ DispatchRepair(t)
  BY <1>t, <1>3 DEF AgentDone, Verified, DispatchRepair
<1>4. CASE VerifyFails(t)
  BY <1>t, <1>4 DEF VerifyFails
<1>5. CASE RepairFails(t) \/ RecoveryFails(t) \/ Interrupted(t)
  BY <1>t, <1>5 DEF RepairFails, RecoveryFails, Interrupted
<1>6. CASE LandRefused(t) \/ LandAlready(t) \/ LandMerge(t) \/ LandCommit(t) \/ Complete(t)
  BY <1>t, <1>6 DEF LandRefused, LandAlready, LandMerge, LandCommit, Complete
<1>7. CASE ResolveDone(t) \/ ResolveFails(t)
  BY <1>t, <1>7 DEF ResolveDone, ResolveFails
<1> QED BY <1>1, <1>2, <1>3, <1>4, <1>5, <1>6, <1>7 DEF Node

\* An attempt is charged before its agent: the account has room for one.
LEMMA EnterAccount ==
  ASSUME TypeOK, NEW t \in Tasks, Account(t), EnterAttempt(t)
  PROVE  Account(t)'
<1>t. /\ task[t] \in TaskRecord /\ pc \in [Tasks -> Places] /\ task \in [Tasks -> TaskRecord]
      /\ works[t] \in Nat /\ fixes[t] \in Nat /\ task[t].attempts \in Nat /\ t \in Nodes \cup Repairs
  BY DEF TypeOK, TaskRecord, Tasks
<1>2. UNCHANGED <<used, works, fixes>> /\ pc[t] = "idle"
  BY DEF EnterAttempt, Enter, ghosts
<1>3. CASE task[t].cycle < Limit(t)
  <2>1. PICK d : task'[t] = [Charged(task[t]) EXCEPT !.decision = d, !.pid = TRUE] /\ pc'[t] = "setup"
    BY <1>3, <1>t DEF EnterAttempt
  <2>2. Charged(task[t]) \in TaskRecord
    BY <1>t, RecordsTyped
  <2>3. Charged(task[t]).attempts = task[t].attempts + 1
    BY <1>t DEF Charged, TaskRecord
  <2>4. task'[t].attempts = task[t].attempts + 1
    BY <2>1, <2>2, <2>3 DEF TaskRecord
  <2>5. t \in Repairs => task[t].attempts = 0
    BY <1>t DEF EnterAttempt, IsAttempt, IsRecovery, IsSaved
  <2>6. CASE t \in Nodes
    BY <1>2, <1>t, <2>1, <2>4, <2>6 DEF Account
  <2>7. CASE t \notin Nodes
    BY <1>2, <1>t, <2>1, <2>4, <2>5, <2>7 DEF Account
  <2> QED BY <2>6, <2>7
<1>4. CASE ~(task[t].cycle < Limit(t))
  <2>1. task'[t] = Failed(task[t], "budget") /\ pc' = pc
    BY <1>4, <1>t DEF EnterAttempt
  <2>2. task'[t].attempts = task[t].attempts
    BY <1>t, <2>1, Uncharged DEF Kinds
  <2> QED BY <1>2, <2>1, <2>2 DEF Account
<1> QED BY <1>3, <1>4

\* The dispatch uses what was charged.
LEMMA DispatchAccount ==
  ASSUME TypeOK, NEW t \in Tasks, Account(t), Dispatch(t) \/ DispatchRepair(t)
  PROVE  Account(t)'
<1>t. /\ task[t] \in TaskRecord /\ task[t].attempts \in Nat /\ t \in Nodes \cup Repairs
      /\ pc \in [Tasks -> Places] /\ task \in [Tasks -> TaskRecord]
      /\ works \in [Tasks -> Nat] /\ fixes \in [Tasks -> Nat] /\ used \in [Nodes -> Nat]
  BY DEF TypeOK, TaskRecord, Tasks
<1>d. used' = used
  BY DEF Dispatch, DispatchRepair
<1>k. "integration" \in Kinds /\ "hold" \in Decisions
  BY DEF Kinds, Decisions
<1>n. t \in Repairs => t \notin Nodes
  BY FlowAssumption
<1>1. CASE /\ t \in Nodes /\ Dispatch(t)
  <2>1. /\ pc[t] \in {"setup", "restart"} /\ pc'[t] = "work"
        /\ task'[t] = [task[t] EXCEPT !.pid = TRUE]
        /\ works'[t] = works[t] + 1 /\ fixes' = fixes
    BY <1>1, <1>t, <1>n DEF Dispatch
  <2>2. task'[t].attempts = task[t].attempts
    BY <2>1, <1>t DEF TaskRecord
  <2> QED BY <1>1, <1>t, <1>d, <2>1, <2>2 DEF Account
<1>2. CASE t \in Repairs /\ Dispatch(t) /\ Authority(t)
  <2>1. /\ pc[t] \in {"setup", "restart"} /\ pc'[t] = "repair"
        /\ task'[t] = [task[t] EXCEPT !.baseline = TRUE, !.pid = TRUE]
        /\ fixes'[t] = fixes[t] + 1 /\ works' = works
    BY <1>2, <1>t, <1>n DEF Dispatch
  <2>2. task'[t].attempts = task[t].attempts
    BY <2>1, <1>t DEF TaskRecord
  <2> QED BY <1>2, <1>n, <1>t, <1>d, <2>1, <2>2 DEF Account
<1>3. CASE t \in Repairs /\ Dispatch(t) /\ ~Authority(t)
  <2>1. PICK some \in BOOLEAN : task'[t] = Kept(Failed(task[t], "integration"), some)
    BY <1>3, <1>t, <1>n DEF Dispatch
  <2>2. Kept(Failed(task[t], "integration"), some).attempts = task[t].attempts
    BY <1>t, <1>k, OverUncharged
  <2>3. pc'[t] = "idle" /\ works' = works /\ fixes' = fixes
    BY <1>3, <1>t, <1>n DEF Dispatch
  <2> QED BY <1>3, <1>n, <1>d, <2>1, <2>2, <2>3 DEF Account
<1>4. CASE DispatchRepair(t)
  <2>1. /\ t \in Nodes /\ pc[t] = "charged" /\ pc'[t] = "repair"
        /\ task'[t] = [task[t] EXCEPT !.baseline = TRUE, !.pid = TRUE]
        /\ fixes'[t] = fixes[t] + 1 /\ works' = works
    BY <1>4, <1>t DEF DispatchRepair
  <2>2. task'[t].attempts = task[t].attempts
    BY <2>1, <1>t DEF TaskRecord
  <2> QED BY <1>t, <1>d, <2>1, <2>2 DEF Account
<1> QED BY <1>1, <1>2, <1>3, <1>4, <1>t
\* A failure ends the attempt, or charges what comes next, if the limit allows it.
LEMMA FailureAccount ==
  ASSUME TypeOK, NEW t \in Tasks, Account(t), AttemptFails(t) \/ VerifyFails(t)
  PROVE  Account(t)'
<1>t. /\ task[t] \in TaskRecord /\ task[t].attempts \in Nat /\ t \in Nodes \cup Repairs
      /\ pc \in [Tasks -> Places] /\ task \in [Tasks -> TaskRecord]
      /\ works \in [Tasks -> Nat] /\ fixes \in [Tasks -> Nat] /\ used \in [Nodes -> Nat]
  BY DEF TypeOK, TaskRecord, Tasks
<1>g. works' = works /\ fixes' = fixes
  BY DEF AttemptFails, VerifyFails, ghosts
<1>k. "exit" \in Kinds /\ "budget" \in Kinds /\ {"hold", "repair"} \subseteq Decisions
  BY DEF Kinds, Decisions
<1>c. NodeRepairRounds \in Nat
  BY FlowAssumption
<1>1. CASE AttemptFails(t)
  <2>1. PICK some \in BOOLEAN :
           \/ task'[t] = Failed(Kept(task[t], some), "exit") /\ pc'[t] = "idle"
           \/ task'[t] = Failed(Decided(Kept(task[t], some), "hold"), "exit") /\ pc'[t] = "idle"
           \/ task'[t] = Failed(Decided(Kept(task[t], some), "repair"), "budget") /\ pc'[t] = "idle"
           \/ /\ task'[t] = [Charged(Kept(task[t], some)) EXCEPT !.decision = "none", !.pid = FALSE]
              /\ pc[t] = "work" /\ pc'[t] = "restart"
    BY <1>1, <1>t DEF AttemptFails
  <2>2. /\ Failed(Kept(task[t], some), "exit").attempts = task[t].attempts
        /\ Failed(Decided(Kept(task[t], some), "hold"), "exit").attempts = task[t].attempts
        /\ Failed(Decided(Kept(task[t], some), "repair"), "budget").attempts = task[t].attempts
    BY <1>t, <1>k, OverUncharged
  <2>3. used' = used
    BY <1>1 DEF AttemptFails
  <2>4. CASE pc'[t] = "idle"
    BY <1>g, <2>1, <2>2, <2>3, <2>4 DEF Account
  <2>5. CASE pc[t] = "work" /\ pc'[t] = "restart"
            /\ task'[t] = [Charged(Kept(task[t], some)) EXCEPT !.decision = "none", !.pid = FALSE]
    <3>1. Kept(task[t], some) \in TaskRecord /\ Kept(task[t], some).attempts = task[t].attempts
      BY <1>t, Uncharged
    <3>2. /\ Charged(Kept(task[t], some)) \in TaskRecord
          /\ Charged(Kept(task[t], some)).attempts = task[t].attempts + 1
      <4>1. Charged(Kept(task[t], some)) \in TaskRecord
        BY <3>1, RecordsTyped
      <4>2. Charged(Kept(task[t], some)).attempts = Kept(task[t], some).attempts + 1
        BY <3>1 DEF Charged, TaskRecord
      <4> QED BY <3>1, <4>1, <4>2
    <3>3. task'[t].attempts = task[t].attempts + 1
      BY <2>5, <3>2 DEF TaskRecord
    <3> QED BY <1>t, <1>g, <2>3, <2>5, <3>3 DEF Account
  <2> QED BY <2>1, <2>4, <2>5
<1>2. CASE VerifyFails(t)
  <2>1. \/ /\ t \in Nodes /\ used[t] < NodeRepairRounds /\ used' = [used EXCEPT ![t] = @ + 1]
           /\ task'[t] = [task[t] EXCEPT !.decision = "repair", !.context = revision, !.pid = FALSE]
           /\ pc'[t] = "charged"
        \/ /\ \E d \in {"repair", "hold"}, some \in BOOLEAN :
                task'[t] = Kept(Failed(Decided(task[t], d), "exit"), some)
           /\ pc'[t] = "idle" /\ used' = used
    BY <1>2, <1>t DEF VerifyFails
  <2>2. CASE /\ t \in Nodes /\ used[t] < NodeRepairRounds /\ used' = [used EXCEPT ![t] = @ + 1]
             /\ task'[t] = [task[t] EXCEPT !.decision = "repair", !.context = revision, !.pid = FALSE]
             /\ pc'[t] = "charged"
    <3>1. task'[t].attempts = task[t].attempts
      BY <2>2, <1>t DEF TaskRecord
    <3>2. used'[t] = used[t] + 1
      BY <2>2, <1>t
    <3> QED BY <1>t, <1>g, <1>c, <2>2, <3>1, <3>2 DEF Account
  <2>3. CASE /\ \E d \in {"repair", "hold"}, some \in BOOLEAN :
                  task'[t] = Kept(Failed(Decided(task[t], d), "exit"), some)
             /\ pc'[t] = "idle" /\ used' = used
    <3>1. PICK d \in {"repair", "hold"}, some \in BOOLEAN :
             task'[t] = Kept(Failed(Decided(task[t], d), "exit"), some)
      BY <2>3
    <3>2. d \in Decisions /\ "exit" \in Kinds
      BY <1>k
    <3>3. Kept(Failed(Decided(task[t], d), "exit"), some).attempts = task[t].attempts
      BY <1>t, <3>2, OverUncharged
    <3> QED BY <1>g, <2>3, <3>1, <3>3 DEF Account
  <2> QED BY <2>1, <2>2, <2>3
<1> QED BY <1>1, <1>2

\* The steps of the run, of the operator and of the machine charge no task and
\* send no agent; what is charged for the checkpoint is a round.
RunStep == Run \/ Environment \/ UNCHANGED vars
LEMMA RunBears ==
  ASSUME TypeOK, RunStep, \A t \in Tasks : t \in Repairs => pc[t] # "work"
  PROVE  UNCHANGED <<used, works, fixes>> /\ \A t \in Tasks : Bears(t)
<1> USE DEF ghosts, store, memory, branch, bounds
<1>t. task \in [Tasks -> TaskRecord] /\ pc \in [Tasks -> Places] /\ Repairs \subseteq Tasks /\ Nodes \subseteq Tasks
  BY DEF TypeOK, Tasks
<1>r. \A t \in Tasks : task[t] \in TaskRecord
  BY <1>t
<1>1. UNCHANGED <<used, works, fixes>> /\ \A t \in Tasks : pc'[t] = pc[t] \/ pc'[t] = "idle"
  <2>1. CASE Run
    BY <2>1, <1>t DEF Run, RunStart, RunEnd, ChargeRepair, Materialize
  <2>2. CASE Environment
    BY <2>2, <1>t DEF Environment, Stop, DeadlinePasses, Crash, Retry, SetCommand, EditNode, Approve,
                      KillOrphans, Resume
  <2>3. CASE UNCHANGED vars
    BY <2>3 DEF vars
  <2> QED BY <2>1, <2>2, <2>3 DEF RunStep
<1>2. ASSUME NEW t \in Tasks PROVE task'[t].attempts = task[t].attempts
  <2>1. CASE RunStart
    <3>1. task'[t] = Recovered(IF t \in intents THEN Materialized(task[t]) ELSE task[t])
      BY <2>1 DEF RunStart
    <3>2. /\ Materialized(task[t]) \in TaskRecord
          /\ Materialized(task[t]).attempts = task[t].attempts
      BY <1>r, Uncharged, RecordsTyped
    <3>3. \A q \in TaskRecord : Recovered(q).attempts = q.attempts
      BY Uncharged
    <3> QED BY <1>r, <3>1, <3>2, <3>3
  <2>2. ASSUME NEW r \in Repairs, ChargeRepair(r) PROVE task'[t].attempts = task[t].attempts
    BY <2>2, <1>t, <1>r DEF ChargeRepair, TaskRecord
  <2>3. ASSUME NEW r \in Repairs, Materialize(r) PROVE task'[t].attempts = task[t].attempts
    <3>1. task'[t] = task[t] \/ task'[t] = Materialized(task[t])
      BY <2>3, <1>t DEF Materialize
    <3> QED BY <1>r, <3>1, Uncharged
  <2>4. ASSUME NEW u \in Tasks, Retry(u) PROVE task'[t].attempts = task[t].attempts
    <3>1. task'[t] = task[t] \/ task'[t] = Requeued(task[t])
      BY <2>4 DEF Retry
    <3> QED BY <1>r, <3>1, Uncharged
  <2>5. ASSUME NEW n \in Nodes, SetCommand(n) PROVE task'[t].attempts = task[t].attempts
    BY <2>5, <1>t, <1>r DEF SetCommand, TaskRecord
  <2>6. ASSUME NEW n \in Nodes, EditNode(n) PROVE task'[t].attempts = task[t].attempts
    <3>1. task'[t] = task[t] \/ task'[t] = [Cleared(task[t]) EXCEPT !.defn = revision + 1]
      BY <2>6, <1>t DEF EditNode
    <3>2. Cleared(task[t]) \in TaskRecord /\ Cleared(task[t]).attempts = task[t].attempts
      BY <1>r, Uncharged, RecordsTyped
    <3> QED BY <3>1, <3>2 DEF TaskRecord
  <2>7. CASE KillOrphans
    <3>1. task'[t] = [task[t] EXCEPT !.pid = FALSE]
      BY <2>7 DEF KillOrphans, Reaped
    <3> QED BY <1>r, <3>1 DEF TaskRecord
  <2>8. ASSUME NEW kill \in BOOLEAN, Resume(kill) PROVE task'[t].attempts = task[t].attempts
    <3>1. task'[t] = Recovered(task[t]) \/ task'[t] = [Recovered(task[t]) EXCEPT !.pid = FALSE]
      BY <2>8 DEF Resume, Reaped
    <3>2. Recovered(task[t]) \in TaskRecord /\ Recovered(task[t]).attempts = task[t].attempts
      BY <1>r, Uncharged, RecordsTyped
    <3> QED BY <3>1, <3>2 DEF TaskRecord
  <2>9. CASE RunEnd \/ Stop \/ DeadlinePasses \/ Crash \/ (\E n \in Nodes : Approve(n)) \/ UNCHANGED vars
    BY <2>9 DEF RunEnd, Stop, DeadlinePasses, Crash, Approve, vars
  <2> QED BY <2>1, <2>2, <2>3, <2>4, <2>5, <2>6, <2>7, <2>8, <2>9 DEF RunStep, Run, Environment
<1> QED BY <1>1, <1>2 DEF Bears, Dear

\* A round is charged together with its intent, and for no intent twice.
LEMMA LedgerStep ==
  ASSUME Accounts, [Next]_vars
  PROVE  (Cardinality(intents) = round /\ round <= RepairRounds)'
<1> USE DEF ghosts, store, memory, branch, bounds
<1>1. ASSUME NEW r \in Repairs, ChargeRepair(r) PROVE (Cardinality(intents) = round /\ round <= RepairRounds)'
  <2>1. IsFiniteSet(intents) /\ r \notin intents /\ intents' = intents \cup {r} /\ round' = round + 1
        /\ round < RepairRounds /\ round \in Nat /\ RepairRounds \in Nat
    BY <1>1, FlowAssumption, FS_Subset DEF ChargeRepair, Accounts, TypeOK
  <2>2. Cardinality(intents') = Cardinality(intents) + 1
    BY <2>1, FS_AddElement
  <2> QED BY <2>1, <2>2 DEF Accounts
<1>2. ASSUME NEW t \in Tasks, Node(t) PROVE UNCHANGED <<intents, round>>
  <2>1. CASE EnterHeld(t) \/ EnterRecovery(t) \/ EnterSaved(t) \/ EnterAttempt(t) \/ Dispatch(t) \/ AttemptFails(t)
    BY <2>1 DEF EnterHeld, EnterRecovery, EnterSaved, EnterAttempt, Dispatch, AttemptFails
  <2>2. CASE AgentDone(t) \/ Verified(t) \/ DispatchRepair(t) \/ VerifyFails(t) \/ RepairFails(t) \/ RecoveryFails(t)
    BY <2>2 DEF AgentDone, Verified, DispatchRepair, VerifyFails, RepairFails, RecoveryFails
  <2>3. CASE Interrupted(t) \/ LandRefused(t) \/ LandAlready(t) \/ LandMerge(t)
             \/ ResolveDone(t) \/ ResolveFails(t) \/ LandCommit(t) \/ Complete(t)
    BY <2>3 DEF Interrupted, LandRefused, LandAlready, LandMerge, ResolveDone, ResolveFails, LandCommit, Complete
  <2> QED BY <1>2, <2>1, <2>2, <2>3 DEF Node
<1>3. ASSUME RunStart \/ RunEnd \/ (\E r \in Repairs : Materialize(r)) \/ Environment \/ UNCHANGED vars
      PROVE  UNCHANGED <<intents, round>>
  BY <1>3 DEF RunStart, RunEnd, Materialize, Environment, Stop, DeadlinePasses, Crash, Retry, SetCommand,
              EditNode, Approve, KillOrphans, Resume, vars
<1>4. CASE UNCHANGED <<intents, round>>
  BY <1>4 DEF Accounts
<1> QED BY <1>1, <1>2, <1>3, <1>4 DEF Next, Run, Accounts

\* Every step keeps every account.
LEMMA AccountsStep == ASSUME Accounts, [Next]_vars PROVE Accounts'
<1>t. TypeOK /\ \A t \in Tasks : Account(t)
  BY DEF Accounts
<1>w. \A t \in Tasks : t \in Repairs => pc[t] # "work"
  BY <1>t, FlowAssumption DEF Account
<1>1. ASSUME NEW t \in Tasks, Node(t) PROVE \A u \in Tasks : Account(u)'
  <2>1. Account(t)'
    <3>1. CASE Costs(t)
      BY <1>t, <3>1, EnterAccount, DispatchAccount, FailureAccount DEF Costs
    <3>2. CASE ~Costs(t)
      <4>1. Bears(t) /\ used' = used
        BY <1>t, <1>w, <1>1, <3>2, NodeBears
      <4> QED BY <1>t, <4>1, AccountStays
    <3> QED BY <3>1, <3>2
  <2>2. ASSUME NEW u \in Tasks \ {t} PROVE Account(u)'
    <3>1. Bears(u) /\ (u \in Nodes => used'[u] = used[u])
      BY <1>t, <1>1, NodeOthers DEF Bears
    <3> QED BY <1>t, <3>1, AccountStays
  <2> QED BY <2>1, <2>2
<1>2. ASSUME RunStep PROVE \A u \in Tasks : Account(u)'
  <2>1. used' = used /\ \A t \in Tasks : Bears(t)
    BY <1>t, <1>w, <1>2, RunBears
  <2> QED BY <1>t, <2>1, AccountStays
<1>3. \A u \in Tasks : Account(u)'
  BY <1>1, <1>2 DEF Next, RunStep
<1>4. (Cardinality(intents) = round /\ round <= RepairRounds)'
  BY LedgerStep
<1>5. TypeOK'
  BY <1>t, TypeStep
<1> QED BY <1>3, <1>4, <1>5 DEF Accounts

\* No task has cost anything in a new plan.
LEMMA AccountsInit == Init => Accounts
<1> SUFFICES ASSUME Init PROVE Accounts
  OBVIOUS
<1>1. \A t \in Tasks : /\ task[t].attempts = 0 /\ works[t] = 0 /\ fixes[t] = 0 /\ pc[t] = "idle"
                       /\ t \in Nodes => used[t] = 0
  BY DEF Init, NewTask
<1>2. Cardinality(intents) = round /\ round <= RepairRounds
  BY FS_EmptySet, FlowAssumption DEF Init
<1>3. NodeRepairRounds \in Nat
  BY FlowAssumption
<1>4. \A t \in Tasks : Account(t)
  BY <1>1, <1>3 DEF Account
<1> QED BY <1>2, <1>4, TypeInit DEF Accounts

\* No agent works for nothing, whatever dies between the charge and the dispatch:
\* no node is implemented or repaired more often than was charged, no charge
\* exceeds its allowance, and a checkpoint repair is sent one agent.
THEOREM NothingIsFree == Spec => []ChargedFirst
<1>1. Accounts => ChargedFirst
  <2> SUFFICES ASSUME Accounts PROVE ChargedFirst
    OBVIOUS
  <2>t. /\ task \in [Tasks -> TaskRecord] /\ works \in [Tasks -> Nat] /\ fixes \in [Tasks -> Nat]
        /\ Nodes \cup Repairs = Tasks /\ Nodes \cap Repairs = {}
    BY FlowAssumption DEF Accounts, TypeOK, Tasks
  <2>1. \A n \in Nodes : works[n] <= task[n].attempts /\ fixes[n] <= used[n] /\ used[n] <= NodeRepairRounds
    BY <2>t DEF Accounts, Account
  <2>2. ASSUME NEW r \in Repairs PROVE works[r] = 0 /\ fixes[r] <= 1
    <3>1. r \in Tasks /\ r \notin Nodes /\ task[r].attempts \in Nat /\ fixes[r] \in Nat
      BY <2>t DEF TaskRecord
    <3>2. works[r] = 0 /\ task[r].attempts <= 1 /\ fixes[r] <= task[r].attempts
      BY <3>1 DEF Accounts, Account
    <3> QED BY <3>1, <3>2
  <2> QED BY <2>1, <2>2 DEF Accounts, ChargedFirst
<1> QED BY <1>1, AccountsInit, AccountsStep, PTL DEF Spec
-----------------------------------------------------------------------------
\* Where an agent, or the verification of what it wrote, works on the base of its task.
Based == {"restart", "work", "verify", "charged", "repair"}

\* What an agent builds on: at the places where its base was taken, and at the
\* setup that is about to take it, the dependencies of a node are still completed,
\* and the base that was taken holds the commits they have now.
Grounded(t) ==
  \A d \in Deps[t] :
    /\ pc[t] \in Based \cup {"setup"} => task[d].status = "completed"
    /\ pc[t] \in Based => <<d, task[d].commit>> \in base[t]

\* A node that is completed is at no place of node(), so no step of a node, its
\* own included, touches its record while the run goes on.
LEMMA CompletedRests ==
  ASSUME IInv, NEW t \in Tasks, Node(t), NEW d \in Tasks, task[d].status = "completed"
  PROVE  d # t /\ task'[d] = task[d]
<1>1. pc[d] = "idle"
  BY DEF IInv, Sound
<1>2. ASSUME d = t PROVE FALSE
  <2> USE <1>1, <1>2
  <2>1. ~Enter(t)
    BY DEF Enter, Ready
  <2>2. ~(EnterHeld(t) \/ EnterRecovery(t) \/ EnterSaved(t) \/ EnterAttempt(t))
    BY <2>1 DEF EnterHeld, EnterRecovery, EnterSaved, EnterAttempt
  <2>3. ~(Dispatch(t) \/ AttemptFails(t) \/ AgentDone(t) \/ Verified(t) \/ DispatchRepair(t) \/ VerifyFails(t))
    BY DEF Dispatch, AttemptFails, AgentDone, Verified, DispatchRepair, VerifyFails
  <2>4. ~(RepairFails(t) \/ RecoveryFails(t) \/ Interrupted(t))
    BY DEF RepairFails, RecoveryFails, Interrupted, Phases
  <2>5. ~(LandRefused(t) \/ LandAlready(t) \/ LandMerge(t))
    BY DEF LandRefused, LandAlready, LandMerge, IsNext
  <2>6. ~(ResolveDone(t) \/ ResolveFails(t) \/ LandCommit(t) \/ Complete(t))
    BY DEF ResolveDone, ResolveFails, LandCommit, Complete
  <2> QED BY <2>2, <2>3, <2>4, <2>5, <2>6 DEF Node
<1>3. d # t
  BY <1>2
<1> QED BY <1>3, NodeOthers DEF IInv

\* The base of a task is taken by its dispatch and by nothing else, and a task is
\* at a place where it has one only through its setup.
LEMMA BaseIsTaken ==
  ASSUME TypeOK, NEW t \in Tasks, Node(t)
  PROVE  /\ \A u \in Tasks \ {t} : base'[u] = base[u]
         /\ \/ pc'[t] \notin Based \cup {"setup"}
            \/ EnterAttempt(t)
            \/ pc[t] \in Based /\ base'[t] = base[t] /\ pc'[t] \in Based
            \/ pc[t] = "setup" /\ base'[t] = landed
<1> USE DEF Based, memory
<1>t. DOMAIN pc = Tasks /\ DOMAIN base = Tasks
  BY DEF TypeOK
<1>1. CASE EnterHeld(t) \/ EnterRecovery(t) \/ EnterSaved(t) \/ EnterAttempt(t)
  BY <1>t, <1>1 DEF EnterHeld, EnterRecovery, EnterSaved, EnterAttempt, Enter
<1>2. CASE Dispatch(t)
  BY <1>t, <1>2 DEF Dispatch
<1>3. CASE AttemptFails(t)
  BY <1>t, <1>3 DEF AttemptFails
<1>4. CASE AgentDone(t) \/ Verified(t) \/ DispatchRepair(t)
  BY <1>t, <1>4 DEF AgentDone, Verified, DispatchRepair
<1>5. CASE VerifyFails(t)
  BY <1>t, <1>5 DEF VerifyFails
<1>6. CASE RepairFails(t) \/ RecoveryFails(t) \/ Interrupted(t)
  BY <1>t, <1>6 DEF RepairFails, RecoveryFails, Interrupted
<1>7. CASE LandRefused(t) \/ LandAlready(t) \/ LandMerge(t)
  BY <1>t, <1>7 DEF LandRefused, LandAlready, LandMerge
<1>8. CASE ResolveDone(t) \/ ResolveFails(t) \/ LandCommit(t) \/ Complete(t)
  BY <1>t, <1>8 DEF ResolveDone, ResolveFails, LandCommit, Complete
<1> QED BY <1>1, <1>2, <1>3, <1>4, <1>5, <1>6, <1>7, <1>8 DEF Node

\* A step of a node keeps every other node grounded, and grounds its own.
LEMMA NodeGrounds ==
  ASSUME IInv, \A u \in Nodes : Grounded(u), NEW t \in Tasks, Node(t), NEW u \in Nodes
  PROVE  Grounded(u)'
<1>t. TypeOK /\ u \in Tasks /\ Deps[u] \subseteq Tasks
  BY FlowAssumption DEF IInv, Tasks
<1>1. \A d \in Deps[u] : task[d].status = "completed" =>
        task'[d] = task[d] /\ <<d, task[d].commit>> \in landed
  BY <1>t, CompletedRests DEF IInv, Sound
<1>2. CASE u # t
  <2>1. pc'[u] = pc[u] /\ base'[u] = base[u]
    BY <1>2, <1>t, NodeOthers, BaseIsTaken
  <2> QED BY <1>1, <2>1 DEF Grounded, Based
<1>3. CASE u = t
  <2>1. CASE pc'[t] \notin Based \cup {"setup"}
    BY <1>3, <2>1 DEF Grounded
  <2>2. CASE EnterAttempt(t)
    <3>1. \A d \in Deps[u] : task[d].status = "completed"
      BY <1>3, <1>t, <2>2, FlowAssumption
      DEF EnterAttempt, Enter, Ready, DepsMet, DepsOf, Completed
    <3>2. pc'[t] \notin Based
      BY <1>t, <2>2 DEF EnterAttempt, Enter, Based, TypeOK
    <3> QED BY <1>1, <1>3, <3>1, <3>2 DEF Grounded
  <2>3. CASE pc[t] \in Based /\ base'[t] = base[t] /\ pc'[t] \in Based
    BY <1>1, <1>3, <2>3 DEF Grounded
  <2>4. CASE pc[t] = "setup" /\ base'[t] = landed
    BY <1>1, <1>3, <2>4 DEF Grounded
  <2> QED BY <1>t, <2>1, <2>2, <2>3, <2>4, BaseIsTaken
<1> QED BY <1>2, <1>3

\* The runner and the operator keep every node grounded: a run starts and ends, and
\* its operator works, where no node is in flight, and the runner adds repairs only.
LEMMA OthersGround ==
  ASSUME IInv, \A u \in Nodes : Grounded(u), Run \/ Environment \/ UNCHANGED vars, NEW u \in Nodes
  PROVE  Grounded(u)'
<1>t. TypeOK /\ u \in Tasks /\ Deps[u] \subseteq Tasks
  BY FlowAssumption DEF IInv, Tasks
<1>d. ~up \/ Active = {} => pc[u] = "idle"
  BY <1>t DEF IInv, Sound, Active
<1>1. ASSUME pc'[u] = "idle" PROVE Grounded(u)'
  BY <1>1 DEF Grounded, Based
<1>2. CASE RunStart \/ RunEnd \/ \E r \in Repairs : ChargeRepair(r)
  BY <1>1, <1>2, <1>d DEF RunStart, RunEnd, ChargeRepair, memory
<1>3. ASSUME NEW r \in Repairs, Materialize(r) PROVE Grounded(u)'
  <2>1. \A d \in Deps[u] : d \in Tasks /\ d # r /\ task'[d] = task[d]
    BY <1>t, <1>3, FlowAssumption DEF Materialize, TypeOK
  <2> QED BY <1>3, <2>1 DEF Grounded, Materialize, memory
<1>4. CASE Stop \/ DeadlinePasses \/ UNCHANGED vars
  BY <1>4 DEF Grounded, Stop, DeadlinePasses, vars, store, memory
<1>5. CASE Crash
  BY <1>1, <1>5, <1>t DEF Crash
<1>6. CASE \/ \E t \in Tasks : Retry(t)
           \/ \E n \in Nodes : SetCommand(n) \/ EditNode(n) \/ Approve(n)
           \/ KillOrphans \/ \E kill \in BOOLEAN : Resume(kill)
  BY <1>1, <1>6, <1>d DEF Retry, SetCommand, EditNode, Approve, KillOrphans, Resume, Operator, memory
<1> QED BY <1>2, <1>3, <1>4, <1>5, <1>6 DEF Run, Environment

\* An agent, and the verification of what it wrote, work on a base that holds the
\* commit every dependency of the task has now: a dependency is integrated before
\* the task is taken, and neither retried, edited nor redone while it is in flight.
THEOREM AgentsBuildOnDeps == Spec => []BuiltOnDeps
<1>1. Init => \A u \in Nodes : Grounded(u)
  BY DEF Init, Grounded, Based, Tasks
<1>2. IInv /\ (\A u \in Nodes : Grounded(u)) /\ [Next]_vars => (\A u \in Nodes : Grounded(u))'
  BY NodeGrounds, OthersGround DEF Next
<1>3. (\A u \in Nodes : Grounded(u)) => BuiltOnDeps
  BY DEF Grounded, Based, BuiltOnDeps
<1> QED BY <1>1, <1>2, <1>3, Inductive, PTL DEF Spec
=============================================================================
