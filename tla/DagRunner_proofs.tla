-------------------------- MODULE DagRunner_proofs --------------------------
(***************************************************************************)
(* Proofs about DagRunner, for every value of the constants: its types, by  *)
(* the way of what its steps come to, then the inductive invariants Sound   *)
(* (what is completed landed, what runs was charged), Killed (what a stop   *)
(* leaves alive) and Published (what was published is not redone).  A      *)
(* record is opened in the first lemmas only: a step is reduced to the few  *)
(* facts about one task (Rest, Move, Dispatched, Finishes, ...) or about    *)
(* the run (Skips, Closes, Falls, ...) that the invariants read.            *)
(***************************************************************************)
EXTENDS DagRunner, TLAPS

USE DEF saved, review, Quiet, Still

Sts == Terminal \cup {"pending", "running"}
Whys == {"none", "killed", "interrupted", "review", "review-protocol", "timeout", "merge",
         "integration", "budget", "exit", "plan", "worktree"}
Finals == {"none", "pass", "fail", "error"}
Pauses == [stage : {"none", "captured", "stopped", "claimed"}, of : [Tasks -> Nat], done : SUBSET Tasks]
Orphan == [task : Tasks, n : Nat, from : {"stop", "final", "crash"}]

-----------------------------------------------------------------------------
(* Records and places *)

\* The run that was chosen has the settings the assumption allows.
LEMMA ConfTyped ==
    ASSUME TypeOK
    PROVE  /\ conf \in Confs
           /\ conf.final \in {"off", "run", "per-task"}
           /\ {conf.concurrency, conf.attempts} \subseteq Nat \ {0}
           /\ {conf.reviewRounds, conf.mergeRounds, conf.finalRounds, conf.infraRetries, conf.faults} \subseteq Nat
           /\ conf.deps \in [Tasks -> SUBSET Tasks]
           /\ conf.attempts \in Nat /\ conf.faults \in Nat
BY ConfsAssumption DEF TypeOK

\* The first state has the types.
LEMMA TypeInit == Init => TypeOK
<1> SUFFICES ASSUME Init PROVE TypeOK
  OBVIOUS
<1>1. conf \in Confs /\ conf.attempts \in Nat /\ conf.faults \in Nat
  BY ConfsAssumption DEF Init
<1>2. Fresh \in Record
  BY <1>1 DEF Fresh, Record
<1>3. Idle \in Place
  BY DEF Idle, Place
<1>4. NoPause \in [stage : {"none", "captured", "stopped", "claimed"}, of : [Tasks -> Nat], done : SUBSET Tasks]
  BY DEF NoPause
<1> QED BY <1>1, <1>2, <1>3, <1>4 DEF Init, TypeOK

\* What most changes of a record leave alone.
Same(q, r) == /\ q \in Record
              /\ q.n = r.n /\ q.used = r.used /\ q.limit = r.limit
              /\ q.receipt = r.receipt /\ q.asked = r.asked

LEMMA Numbers ==
    ASSUME NEW r \in Record
    PROVE  /\ r.st \in Sts /\ r.why \in Whys /\ r.final \in Finals
           /\ {r.n, r.cycle, r.reviews, r.merges, r.used, r.limit, r.receipt, r.commit, r.asked} \subseteq Nat
           /\ Same(r, r)
BY DEF Record, Sts, Whys, Finals, Same

\* A record with one field set.
PutSt(r, x) == [r EXCEPT !.st = x]
PutWhy(r, x) == [r EXCEPT !.why = x]
PutN(r, x) == [r EXCEPT !.n = x]
PutCycle(r, x) == [r EXCEPT !.cycle = x]
PutReviews(r, x) == [r EXCEPT !.reviews = x]
PutMerges(r, x) == [r EXCEPT !.merges = x]
PutUsed(r, x) == [r EXCEPT !.used = x]
PutLimit(r, x) == [r EXCEPT !.limit = x]
PutFinal(r, x) == [r EXCEPT !.final = x]
PutReceipt(r, x) == [r EXCEPT !.receipt = x]
PutCommit(r, x) == [r EXCEPT !.commit = x]
PutAsked(r, x) == [r EXCEPT !.asked = x]

\* A field that is set leaves the ledger alone.
LEMMA Setters ==
    ASSUME NEW r \in Record
    PROVE  /\ \A x \in Sts : Same(PutSt(r, x), r) /\ PutSt(r, x).st = x
           /\ \A x \in Whys : Same(PutWhy(r, x), r) /\ PutWhy(r, x).st = r.st
           /\ \A x \in Finals : Same(PutFinal(r, x), r) /\ PutFinal(r, x).st = r.st
           /\ \A x \in Nat : Same(PutCycle(r, x), r) /\ PutCycle(r, x).st = r.st
           /\ \A x \in Nat : Same(PutReviews(r, x), r) /\ PutReviews(r, x).st = r.st
           /\ \A x \in Nat : Same(PutMerges(r, x), r) /\ PutMerges(r, x).st = r.st
           /\ \A x \in Nat : Same(PutCommit(r, x), r) /\ PutCommit(r, x).st = r.st
<1>1. \A x \in Sts : Same(PutSt(r, x), r) /\ PutSt(r, x).st = x
  BY DEF PutSt, Same, Record, Sts
<1>2. \A x \in Whys : Same(PutWhy(r, x), r) /\ PutWhy(r, x).st = r.st
  BY DEF PutWhy, Same, Record, Whys
<1>3. \A x \in Finals : Same(PutFinal(r, x), r) /\ PutFinal(r, x).st = r.st
  BY DEF PutFinal, Same, Record, Finals
<1>4. \A x \in Nat : Same(PutCycle(r, x), r) /\ PutCycle(r, x).st = r.st
  BY DEF PutCycle, Same, Record
<1>5. \A x \in Nat : Same(PutReviews(r, x), r) /\ PutReviews(r, x).st = r.st
  BY DEF PutReviews, Same, Record
<1>6. \A x \in Nat : Same(PutMerges(r, x), r) /\ PutMerges(r, x).st = r.st
  BY DEF PutMerges, Same, Record
<1>7. \A x \in Nat : Same(PutCommit(r, x), r) /\ PutCommit(r, x).st = r.st
  BY DEF PutCommit, Same, Record
<1> QED BY <1>1, <1>2, <1>3, <1>4, <1>5, <1>6, <1>7

\* A field of the ledger that is set has its value, and the others theirs.
LEMMA LedgerSetters ==
    ASSUME NEW r \in Record
    PROVE  /\ \A x \in Nat : /\ PutN(r, x) \in Record /\ PutN(r, x).n = x /\ PutN(r, x).st = r.st
                        /\ PutN(r, x).used = r.used /\ PutN(r, x).limit = r.limit /\ PutN(r, x).receipt = r.receipt /\ PutN(r, x).asked = r.asked
           /\ \A x \in Nat : /\ PutUsed(r, x) \in Record /\ PutUsed(r, x).used = x /\ PutUsed(r, x).st = r.st
                        /\ PutUsed(r, x).n = r.n /\ PutUsed(r, x).limit = r.limit /\ PutUsed(r, x).receipt = r.receipt /\ PutUsed(r, x).asked = r.asked
           /\ \A x \in Nat : /\ PutLimit(r, x) \in Record /\ PutLimit(r, x).limit = x /\ PutLimit(r, x).st = r.st
                        /\ PutLimit(r, x).n = r.n /\ PutLimit(r, x).used = r.used /\ PutLimit(r, x).receipt = r.receipt /\ PutLimit(r, x).asked = r.asked
           /\ \A x \in Nat : /\ PutReceipt(r, x) \in Record /\ PutReceipt(r, x).receipt = x /\ PutReceipt(r, x).st = r.st
                        /\ PutReceipt(r, x).n = r.n /\ PutReceipt(r, x).used = r.used /\ PutReceipt(r, x).limit = r.limit /\ PutReceipt(r, x).asked = r.asked
           /\ \A x \in Nat : /\ PutAsked(r, x) \in Record /\ PutAsked(r, x).asked = x /\ PutAsked(r, x).st = r.st
                        /\ PutAsked(r, x).n = r.n /\ PutAsked(r, x).used = r.used /\ PutAsked(r, x).limit = r.limit /\ PutAsked(r, x).receipt = r.receipt
<1>1. \A x \in Nat : /\ PutN(r, x) \in Record /\ PutN(r, x).n = x /\ PutN(r, x).st = r.st
                     /\ PutN(r, x).used = r.used /\ PutN(r, x).limit = r.limit /\ PutN(r, x).receipt = r.receipt /\ PutN(r, x).asked = r.asked
  BY DEF PutN, Same, Record
<1>2. \A x \in Nat : /\ PutUsed(r, x) \in Record /\ PutUsed(r, x).used = x /\ PutUsed(r, x).st = r.st
                     /\ PutUsed(r, x).n = r.n /\ PutUsed(r, x).limit = r.limit /\ PutUsed(r, x).receipt = r.receipt /\ PutUsed(r, x).asked = r.asked
  BY DEF PutUsed, Same, Record
<1>3. \A x \in Nat : /\ PutLimit(r, x) \in Record /\ PutLimit(r, x).limit = x /\ PutLimit(r, x).st = r.st
                     /\ PutLimit(r, x).n = r.n /\ PutLimit(r, x).used = r.used /\ PutLimit(r, x).receipt = r.receipt /\ PutLimit(r, x).asked = r.asked
  BY DEF PutLimit, Same, Record
<1>4. \A x \in Nat : /\ PutReceipt(r, x) \in Record /\ PutReceipt(r, x).receipt = x /\ PutReceipt(r, x).st = r.st
                     /\ PutReceipt(r, x).n = r.n /\ PutReceipt(r, x).used = r.used /\ PutReceipt(r, x).limit = r.limit /\ PutReceipt(r, x).asked = r.asked
  BY DEF PutReceipt, Same, Record
<1>5. \A x \in Nat : /\ PutAsked(r, x) \in Record /\ PutAsked(r, x).asked = x /\ PutAsked(r, x).st = r.st
                     /\ PutAsked(r, x).n = r.n /\ PutAsked(r, x).used = r.used /\ PutAsked(r, x).limit = r.limit /\ PutAsked(r, x).receipt = r.receipt
  BY DEF PutAsked, Same, Record
<1> QED BY <1>1, <1>2, <1>3, <1>4, <1>5



\* A state and a reason are recorded.
LEMMA Worded ==
    ASSUME NEW r \in Record, NEW s \in Sts, NEW w \in Whys
    PROVE  Same(PutWhy(PutSt(r, s), w), r) /\ PutWhy(PutSt(r, s), w).st = s
<1>1. PICK q1 : q1 = PutSt(r, s)
  OBVIOUS
<1>2. q1 \in Record /\ Same(q1, r) /\ q1.st = s
  BY <1>1, Setters DEF Same
<1>3. PICK q2 : q2 = PutWhy(q1, w)
  OBVIOUS
<1>4. q2 \in Record /\ Same(q2, q1) /\ q2.st = q1.st
  BY <1>3, <1>2, Setters DEF Same
<1>5. PutWhy(PutSt(r, s), w) = q2
  BY <1>1, <1>3
<1> QED BY <1>2, <1>4, <1>5 DEF Same

\* ... and a source, or none.
LEMMA Reworded ==
    ASSUME NEW r \in Record, NEW s \in Sts, NEW w \in Whys, NEW c \in Nat
    PROVE  /\ Same(PutCommit(PutWhy(PutSt(r, s), w), c), r)
           /\ PutCommit(PutWhy(PutSt(r, s), w), c).st = s
<1>1. PICK q1 : q1 = PutSt(r, s)
  OBVIOUS
<1>2. q1 \in Record /\ Same(q1, r) /\ q1.st = s
  BY <1>1, Setters DEF Same
<1>3. PICK q2 : q2 = PutWhy(q1, w)
  OBVIOUS
<1>4. q2 \in Record /\ Same(q2, q1) /\ q2.st = q1.st
  BY <1>3, <1>2, Setters DEF Same
<1>5. PICK q3 : q3 = PutCommit(q2, c)
  OBVIOUS
<1>6. q3 \in Record /\ Same(q3, q2) /\ q3.st = q2.st
  BY <1>5, <1>4, Setters DEF Same
<1>7. PutCommit(PutWhy(PutSt(r, s), w), c) = q3
  BY <1>1, <1>3, <1>5
<1> QED BY <1>2, <1>4, <1>6, <1>7 DEF Same

\* A state and a source are recorded.
LEMMA Sourced ==
    ASSUME NEW r \in Record, NEW s \in Sts, NEW c \in Nat
    PROVE  Same(PutCommit(PutSt(r, s), c), r) /\ PutCommit(PutSt(r, s), c).st = s
<1>1. PICK q1 : q1 = PutSt(r, s)
  OBVIOUS
<1>2. q1 \in Record /\ Same(q1, r) /\ q1.st = s
  BY <1>1, Setters DEF Same
<1>3. PICK q2 : q2 = PutCommit(q1, c)
  OBVIOUS
<1>4. q2 \in Record /\ Same(q2, q1) /\ q2.st = q1.st
  BY <1>3, <1>2, Setters DEF Same
<1>5. PutCommit(PutSt(r, s), c) = q2
  BY <1>1, <1>3
<1> QED BY <1>2, <1>4, <1>5 DEF Same

\* A chain review that rejects counts a round.
LEMMA Rejected ==
    ASSUME NEW r \in Record, NEW k \in Nat, NEW s \in Sts, NEW w \in Whys
    PROVE  /\ Same(PutWhy(PutSt(PutReviews(r, k), s), w), r)
           /\ PutWhy(PutSt(PutReviews(r, k), s), w).st = s
<1>1. PICK q1 : q1 = PutReviews(r, k)
  OBVIOUS
<1>2. q1 \in Record /\ Same(q1, r) /\ q1.st = r.st
  BY <1>1, Setters DEF Same
<1>3. PICK q2 : q2 = PutSt(q1, s)
  OBVIOUS
<1>4. q2 \in Record /\ Same(q2, q1) /\ q2.st = s
  BY <1>3, <1>2, Setters DEF Same
<1>5. PICK q3 : q3 = PutWhy(q2, w)
  OBVIOUS
<1>6. q3 \in Record /\ Same(q3, q2) /\ q3.st = q2.st
  BY <1>5, <1>4, Setters DEF Same
<1>7. PutWhy(PutSt(PutReviews(r, k), s), w) = q3
  BY <1>1, <1>3, <1>5
<1> QED BY <1>2, <1>4, <1>6, <1>7 DEF Same

\* A merge conflict counts a round.
LEMMA Conflicting ==
    ASSUME NEW r \in Record, NEW k \in Nat, NEW s \in Sts, NEW w \in Whys
    PROVE  /\ Same(PutWhy(PutSt(PutMerges(r, k), s), w), r)
           /\ PutWhy(PutSt(PutMerges(r, k), s), w).st = s
<1>1. PICK q1 : q1 = PutMerges(r, k)
  OBVIOUS
<1>2. q1 \in Record /\ Same(q1, r) /\ q1.st = r.st
  BY <1>1, Setters DEF Same
<1>3. PICK q2 : q2 = PutSt(q1, s)
  OBVIOUS
<1>4. q2 \in Record /\ Same(q2, q1) /\ q2.st = s
  BY <1>3, <1>2, Setters DEF Same
<1>5. PICK q3 : q3 = PutWhy(q2, w)
  OBVIOUS
<1>6. q3 \in Record /\ Same(q3, q2) /\ q3.st = q2.st
  BY <1>5, <1>4, Setters DEF Same
<1>7. PutWhy(PutSt(PutMerges(r, k), s), w) = q3
  BY <1>1, <1>3, <1>5
<1> QED BY <1>2, <1>4, <1>6, <1>7 DEF Same

\* beginAttempt: one more attempt; a lean one is charged.
LEMMA BegunRecord ==
    ASSUME TypeOK, NEW t \in Tasks
    PROVE  /\ Begun(t) \in Record /\ Begun(t).st = "running" /\ Begun(t).n = mem[t].n + 1
           /\ Begun(t).used = IF conf.lean THEN mem[t].used + 1 ELSE mem[t].used
           /\ Begun(t).limit = mem[t].limit /\ Begun(t).receipt = mem[t].receipt /\ Begun(t).asked = mem[t].asked
<1>1. mem[t] \in Record
  BY DEF TypeOK
<1>2. mem[t].n + 1 \in Nat /\ mem[t].commit \in Nat
  BY <1>1, Numbers
<1>3. PICK u \in Nat : u = IF conf.lean THEN mem[t].used + 1 ELSE mem[t].used
  BY <1>1, Numbers
<1>4. "running" \in Sts /\ "none" \in Whys /\ "none" \in Finals
  BY DEF Sts, Whys, Finals
<1>5. PICK c \in Nat : c = IF conf.isolated THEN 0 ELSE mem[t].commit
  BY <1>2
<1>6. PICK k \in Nat : k = mem[t].cycle + 1
  BY <1>1, Numbers
<1>7. PICK a \in Nat : a = mem[t].n + 1
  BY <1>2
<1>8. PICK q1 : q1 = PutSt(mem[t], "running")
  OBVIOUS
<1>9. q1 \in Record /\ Same(q1, mem[t]) /\ q1.st = "running"
  BY <1>8, <1>1, <1>4, Setters DEF Same
<1>10. PICK q2 : q2 = PutWhy(q1, "none")
  OBVIOUS
<1>11. q2 \in Record /\ Same(q2, q1) /\ q2.st = q1.st
  BY <1>10, <1>9, <1>4, Setters DEF Same
<1>12. PICK q3 : q3 = PutN(q2, a)
  OBVIOUS
<1>13. /\ q3 \in Record /\ q3.n = a /\ q3.st = q2.st
      /\ q3.used = q2.used /\ q3.limit = q2.limit /\ q3.receipt = q2.receipt /\ q3.asked = q2.asked
  BY <1>12, <1>11, LedgerSetters DEF Same
<1>14. PICK q4 : q4 = PutCycle(q3, k)
  OBVIOUS
<1>15. q4 \in Record /\ Same(q4, q3) /\ q4.st = q3.st
  BY <1>14, <1>13, Setters DEF Same
<1>16. PICK q5 : q5 = PutUsed(q4, u)
  OBVIOUS
<1>17. /\ q5 \in Record /\ q5.used = u /\ q5.st = q4.st
      /\ q5.n = q4.n /\ q5.limit = q4.limit /\ q5.receipt = q4.receipt /\ q5.asked = q4.asked
  BY <1>16, <1>15, LedgerSetters DEF Same
<1>18. PICK q6 : q6 = PutFinal(q5, "none")
  OBVIOUS
<1>19. q6 \in Record /\ Same(q6, q5) /\ q6.st = q5.st
  BY <1>18, <1>17, <1>4, Setters DEF Same
<1>20. PICK q7 : q7 = PutCommit(q6, c)
  OBVIOUS
<1>21. q7 \in Record /\ Same(q7, q6) /\ q7.st = q6.st
  BY <1>20, <1>19, Setters DEF Same
<1>22. Begun(t) = PutCommit(PutFinal(PutUsed(PutCycle(PutN(PutWhy(PutSt(mem[t], "running"), "none"), a), k), u), "none"), c)
  BY <1>3, <1>5, <1>6, <1>7 DEF Begun, PutSt, PutWhy, PutN, PutCycle, PutUsed, PutFinal, PutCommit
<1>23. PutCommit(PutFinal(PutUsed(PutCycle(PutN(PutWhy(PutSt(mem[t], "running"), "none"), a), k), u), "none"), c) = q7
  BY <1>8, <1>10, <1>12, <1>14, <1>16, <1>18, <1>20
<1> QED BY <1>9, <1>11, <1>13, <1>15, <1>17, <1>19, <1>21, <1>22, <1>3, <1>5, <1>6, <1>7, <1>23 DEF Same

\* The source and the verdict of a worker that ended.
LEMMA WorkedRecord ==
    ASSUME TypeOK, NEW t \in Tasks
    PROVE  Same(Worked(t), mem[t]) /\ Worked(t).st = mem[t].st
<1>1. mem[t] \in Record
  BY DEF TypeOK
<1>2. PICK c \in Nat : c = IF conf.lean /\ conf.isolated /\ phase # "off" THEN mem[t].n ELSE mem[t].commit
  BY <1>1, Numbers
<1>3. PICK f \in Finals : f = IF JudgesItself(t) THEN "pass" ELSE mem[t].final
  BY <1>1, Numbers DEF Finals
<1>4. PICK q1 : q1 = PutCommit(mem[t], c)
  OBVIOUS
<1>5. q1 \in Record /\ Same(q1, mem[t]) /\ q1.st = mem[t].st
  BY <1>4, <1>1, Setters DEF Same
<1>6. PICK q2 : q2 = PutFinal(q1, f)
  OBVIOUS
<1>7. q2 \in Record /\ Same(q2, q1) /\ q2.st = q1.st
  BY <1>6, <1>5, Setters DEF Same
<1>8. Worked(t) = PutFinal(PutCommit(mem[t], c), f)
  BY <1>2, <1>3 DEF Worked, PutCommit, PutFinal
<1>9. PutFinal(PutCommit(mem[t], c), f) = q2
  BY <1>4, <1>6
<1> QED BY <1>5, <1>7, <1>8, <1>2, <1>3, <1>9 DEF Same

\* A rejected task is sent back by the final review.
LEMMA SentBack ==
    ASSUME NEW r \in Record, NEW a \in Nat
    PROVE  \E q \in Record : /\ q = PutAsked(PutWhy(PutSt(PutFinal(r, "none"), "pending"), "none"), a)
                             /\ q.st = "pending" /\ q.asked = a
                             /\ q.n = r.n /\ q.used = r.used /\ q.limit = r.limit /\ q.receipt = r.receipt
<1>1. "pending" \in Sts /\ "none" \in Whys /\ "none" \in Finals
  BY DEF Sts, Whys, Finals
<1>2. PICK q1 : q1 = PutFinal(r, "none")
  OBVIOUS
<1>3. q1 \in Record /\ Same(q1, r) /\ q1.st = r.st
  BY <1>2, <1>1, Setters DEF Same
<1>4. PICK q2 : q2 = PutSt(q1, "pending")
  OBVIOUS
<1>5. q2 \in Record /\ Same(q2, q1) /\ q2.st = "pending"
  BY <1>4, <1>3, <1>1, Setters DEF Same
<1>6. PICK q3 : q3 = PutWhy(q2, "none")
  OBVIOUS
<1>7. q3 \in Record /\ Same(q3, q2) /\ q3.st = q2.st
  BY <1>6, <1>5, <1>1, Setters DEF Same
<1>8. PICK q4 : q4 = PutAsked(q3, a)
  OBVIOUS
<1>9. /\ q4 \in Record /\ q4.asked = a /\ q4.st = q3.st
      /\ q4.n = q3.n /\ q4.used = q3.used /\ q4.limit = q3.limit /\ q4.receipt = q3.receipt
  BY <1>8, <1>7, LedgerSetters DEF Same
<1>10. PutAsked(PutWhy(PutSt(PutFinal(r, "none"), "pending"), "none"), a) = q4
  BY <1>2, <1>4, <1>6, <1>8
<1> QED BY <1>3, <1>5, <1>7, <1>9, <1>10 DEF Same

\* A verdict that ends a task.
LEMMA VerdictRecord ==
    ASSUME NEW r \in Record, NEW f \in Finals, NEW s \in Sts, NEW w \in Whys
    PROVE  Same(PutWhy(PutSt(PutFinal(r, f), s), w), r) /\ PutWhy(PutSt(PutFinal(r, f), s), w).st = s
<1>1. PICK q1 : q1 = PutFinal(r, f)
  OBVIOUS
<1>2. q1 \in Record /\ Same(q1, r) /\ q1.st = r.st
  BY <1>1, Setters DEF Same
<1>3. PICK q2 : q2 = PutSt(q1, s)
  OBVIOUS
<1>4. q2 \in Record /\ Same(q2, q1) /\ q2.st = s
  BY <1>3, <1>2, Setters DEF Same
<1>5. PICK q3 : q3 = PutWhy(q2, w)
  OBVIOUS
<1>6. q3 \in Record /\ Same(q3, q2) /\ q3.st = q2.st
  BY <1>5, <1>4, Setters DEF Same
<1>7. PutWhy(PutSt(PutFinal(r, f), s), w) = q3
  BY <1>1, <1>3, <1>5
<1> QED BY <1>2, <1>4, <1>6, <1>7 DEF Same

\* A retry resumes the source, or asks for work later than an attempt.
LEMMA RetriedRecord ==
    ASSUME NEW r \in Record, NEW a \in Nat
    PROVE  \E q \in Record :
             /\ q = PutAsked(PutFinal(PutReviews(PutCycle(PutWhy(PutSt(r, "pending"), "none"), 0), 0), "none"), a)
             /\ q.st = "pending" /\ q.asked = a
             /\ q.n = r.n /\ q.used = r.used /\ q.limit = r.limit /\ q.receipt = r.receipt
<1>1. 0 \in Nat /\ "pending" \in Sts /\ "none" \in Whys /\ "none" \in Finals
  BY DEF Sts, Whys, Finals
<1>2. PICK q1 : q1 = PutSt(r, "pending")
  OBVIOUS
<1>3. q1 \in Record /\ Same(q1, r) /\ q1.st = "pending"
  BY <1>2, <1>1, Setters DEF Same
<1>4. PICK q2 : q2 = PutWhy(q1, "none")
  OBVIOUS
<1>5. q2 \in Record /\ Same(q2, q1) /\ q2.st = q1.st
  BY <1>4, <1>3, <1>1, Setters DEF Same
<1>6. PICK q3 : q3 = PutCycle(q2, 0)
  OBVIOUS
<1>7. q3 \in Record /\ Same(q3, q2) /\ q3.st = q2.st
  BY <1>6, <1>5, <1>1, Setters DEF Same
<1>8. PICK q4 : q4 = PutReviews(q3, 0)
  OBVIOUS
<1>9. q4 \in Record /\ Same(q4, q3) /\ q4.st = q3.st
  BY <1>8, <1>7, <1>1, Setters DEF Same
<1>10. PICK q5 : q5 = PutFinal(q4, "none")
  OBVIOUS
<1>11. q5 \in Record /\ Same(q5, q4) /\ q5.st = q4.st
  BY <1>10, <1>9, <1>1, Setters DEF Same
<1>12. PICK q6 : q6 = PutAsked(q5, a)
  OBVIOUS
<1>13. /\ q6 \in Record /\ q6.asked = a /\ q6.st = q5.st
      /\ q6.n = q5.n /\ q6.used = q5.used /\ q6.limit = q5.limit /\ q6.receipt = q5.receipt
  BY <1>12, <1>11, LedgerSetters DEF Same
<1>14. PutAsked(PutFinal(PutReviews(PutCycle(PutWhy(PutSt(r, "pending"), "none"), 0), 0), "none"), a) = q6
  BY <1>2, <1>4, <1>6, <1>8, <1>10, <1>12
<1> QED BY <1>3, <1>5, <1>7, <1>9, <1>11, <1>13, <1>14 DEF Same
-----------------------------------------------------------------------------
(* Steps of one task *)

\* One task's record and place change; what is saved is all or nothing.
Turn(t, q, p) ==
    /\ q \in Record /\ p \in Place
    /\ mem' = [mem EXCEPT ![t] = q] /\ disk' \in {disk, mem'}
    /\ job' = [job EXCEPT ![t] = p]

\* What a step changes outside the records and the places stays in its types.
Aside ==
    /\ conf' = conf /\ phase' \in {"off", "tasks", "final"} /\ stop' \in {"no", "grace", "gated"}
    /\ awake' \in {"no", "top", "launching"}
    /\ accepted' \subseteq Tasks \X Nat /\ receipts' \subseteq Tasks \X Nat /\ late' \subseteq Tasks
    /\ rev' \in [Tasks -> {"no", "todo", "busy"}] /\ tally' \subseteq {"failed", "requeued", "error"}
    /\ round' \in Nat /\ incidents' \in 0 .. conf.faults
    /\ pause' \in Pauses /\ orphans' \subseteq Orphan

\* A task that is not the one a step is about.
Bystander(u) == mem'[u] = mem[u] /\ disk'[u] \in {disk[u], mem[u]} /\ job'[u] = job[u]

\* A turn leaves records and places, and the other tasks where they were.
LEMMA TurnTyped ==
    ASSUME TypeOK, NEW t \in Tasks, NEW q, NEW p, Turn(t, q, p)
    PROVE  /\ mem' \in [Tasks -> Record] /\ disk' \in [Tasks -> Record] /\ job' \in [Tasks -> Place]
           /\ mem'[t] = q /\ job'[t] = p /\ disk'[t] \in {disk[t], q}
           /\ \A u \in Tasks \ {t} : Bystander(u)
<1>1. mem \in [Tasks -> Record] /\ disk \in [Tasks -> Record] /\ job \in [Tasks -> Place]
  BY DEF TypeOK
<1>2. mem' \in [Tasks -> Record] /\ mem'[t] = q /\ \A u \in Tasks \ {t} : mem'[u] = mem[u]
  BY <1>1 DEF Turn
<1>3. job' \in [Tasks -> Place] /\ job'[t] = p /\ \A u \in Tasks \ {t} : job'[u] = job[u]
  BY <1>1 DEF Turn
<1>4. disk' = disk \/ disk' = mem'
  BY DEF Turn
<1> QED BY <1>1, <1>2, <1>3, <1>4 DEF Bystander

\* A step whose records and places have their types keeps all types.
LEMMA AsideTyped ==
    ASSUME TypeOK, Aside, mem' \in [Tasks -> Record], disk' \in [Tasks -> Record], job' \in [Tasks -> Place]
    PROVE  TypeOK'
BY DEF TypeOK, Aside, Pauses, Orphan

\* What a quiet step leaves alone, or an incident counts, stays in its types.
LEMMA StillAside ==
    ASSUME TypeOK, UNCHANGED <<conf, phase, stop, accepted, receipts, late, review, pause>>,
           awake' \in {awake, "no", "top", "launching"}, orphans' \subseteq Orphan,
           UNCHANGED incidents \/ Incident
    PROVE  Aside
<1>1. incidents' \in 0 .. conf.faults
  BY ConfTyped DEF Incident, TypeOK
<1> QED BY <1>1 DEF TypeOK, Aside, Pauses

\* The places of a phase that begins, of an attempt that ends, of a signal.
LEMMA Places ==
    ASSUME TypeOK, NEW t \in Tasks
    PROVE  /\ Idle \in Place /\ Idle.pc = "idle"
           /\ \A x \in Live \cup Sync \cup {"idle", "backoff"} :
                At(t, x) => \E p \in Place : /\ job' = [job EXCEPT ![t] = p] /\ p.pc = x /\ ~p.hit
                                              /\ p.base = job[t].base /\ p.rec = job[t].rec
           /\ \A u \in Tasks : /\ Hit(u) \in Place /\ Hit(u).pc = job[u].pc /\ Hit(u).base = job[u].base
                               /\ (Hit(u).hit <=> job[u].pc \in Live)
           /\ \A x \in Live \cup Sync, rec \in {"none", "resume", "verify"} :
                /\ Checkout(x, rec) \in Place /\ Checkout(x, rec).pc = x /\ Checkout(x, rec).base = accepted
                /\ ~Checkout(x, rec).hit
<1>1. job \in [Tasks -> Place] /\ \A u \in Tasks : job[u] \in Place
  BY DEF TypeOK
<1>2. Idle \in Place /\ Idle.pc = "idle"
  BY DEF Place, Idle
<1>3. ASSUME NEW x \in Live \cup Sync \cup {"idle", "backoff"}, At(t, x)
      PROVE  \E p \in Place : /\ job' = [job EXCEPT ![t] = p] /\ p.pc = x /\ ~p.hit
                              /\ p.base = job[t].base /\ p.rec = job[t].rec
  <2>1. PICK p1 : p1 = [job[t] EXCEPT !.pc = x]
    OBVIOUS
  <2>2. p1 \in Place /\ p1.pc = x /\ p1.base = job[t].base /\ p1.rec = job[t].rec
    BY <1>1, <2>1 DEF Place
  <2>3. PICK p2 : p2 = [p1 EXCEPT !.tries = 0]
    OBVIOUS
  <2>4. p2 \in Place /\ p2.pc = x /\ p2.base = job[t].base /\ p2.rec = job[t].rec
    BY <2>2, <2>3 DEF Place
  <2>5. PICK p3 : p3 = [p2 EXCEPT !.hit = FALSE]
    OBVIOUS
  <2>6. p3 \in Place /\ p3.pc = x /\ p3.base = job[t].base /\ p3.rec = job[t].rec /\ ~p3.hit
    BY <2>4, <2>5 DEF Place
  <2>7. job' = [job EXCEPT ![t] = p3]
    BY <1>3, <2>1, <2>3, <2>5 DEF At
  <2> QED BY <2>6, <2>7
<1>4. ASSUME NEW u \in Tasks
      PROVE  /\ Hit(u) \in Place /\ Hit(u).pc = job[u].pc /\ Hit(u).base = job[u].base
             /\ (Hit(u).hit <=> job[u].pc \in Live)
  <2>1. CASE job[u].pc \in Live
    <3>1. (job[u].pc \in Live) = TRUE
      BY <2>1
    <3>2. Hit(u) = [job[u] EXCEPT !.hit = TRUE]
      BY <3>1 DEF Hit
    <3> QED BY <1>1, <2>1, <3>2 DEF Place
  <2>2. CASE ~(job[u].pc \in Live)
    <3>1. (job[u].pc \in Live) = FALSE
      BY <2>2
    <3>2. Hit(u) = [job[u] EXCEPT !.hit = FALSE]
      BY <3>1 DEF Hit
    <3> QED BY <1>1, <2>2, <3>2 DEF Place
  <2> QED BY <2>1, <2>2
<1>5. ASSUME NEW x \in Live \cup Sync, NEW rec \in {"none", "resume", "verify"}
      PROVE  /\ Checkout(x, rec) \in Place /\ Checkout(x, rec).pc = x /\ Checkout(x, rec).base = accepted
             /\ ~Checkout(x, rec).hit
  <2>1. accepted \in SUBSET (Tasks \X Nat)
    BY DEF TypeOK
  <2>2. ~Idle.hit
    BY DEF Idle
  <2>3. PICK p1 : p1 = [Idle EXCEPT !.pc = x]
    OBVIOUS
  <2>4. p1 \in Place /\ p1.pc = x /\ ~p1.hit
    BY <1>2, <2>2, <2>3 DEF Place
  <2>5. PICK p2 : p2 = [p1 EXCEPT !.base = accepted]
    OBVIOUS
  <2>6. p2 \in Place /\ p2.pc = x /\ ~p2.hit /\ p2.base = accepted
    BY <2>1, <2>4, <2>5 DEF Place
  <2>7. PICK p3 : p3 = [p2 EXCEPT !.rec = rec]
    OBVIOUS
  <2>8. p3 \in Place /\ p3.pc = x /\ ~p3.hit /\ p3.base = accepted
    BY <2>6, <2>7 DEF Place
  <2>9. Checkout(x, rec) = p3
    BY <2>3, <2>5, <2>7 DEF Checkout
  <2> QED BY <2>8, <2>9
<1> QED BY <1>2, <1>3, <1>4, <1>5

\* The agents of tasks in flight are well-formed orphans.
LEMMA AgentsTyped ==
    ASSUME TypeOK, NEW ts \in SUBSET Tasks, NEW from \in {"stop", "final", "crash"}
    PROVE  AgentsOf(ts, from) \subseteq Orphan
<1>1. \A t \in ts : mem[t].n \in Nat
  BY Numbers DEF TypeOK
<1> QED BY <1>1 DEF AgentsOf, Orphan

\* What the failure of an attempt records, and what salvage adds to it.
LEMMA FailureRecords ==
    ASSUME TypeOK, NEW t \in Tasks
    PROVE  /\ mem[t] \in Record /\ Same(mem[t], mem[t])
           /\ \A w \in Whys, same \in BOOLEAN :
                Same(Failed(t, w, same), mem[t]) /\ Failed(t, w, same).st \in {"pending", "failed"}
           /\ \A r \in Record : \A q \in Salvaged(t, r) : Same(q, r) /\ q.st = r.st
           /\ Same(Conflicted(t), mem[t]) /\ Conflicted(t).st \in {"pending", "failed"}
<1>1. mem[t] \in Record /\ Same(mem[t], mem[t])
  BY Numbers DEF TypeOK
<1>2. {"pending", "failed"} \subseteq Sts /\ {"killed", "none", "merge"} \subseteq Whys
  BY DEF Sts, Terminal, Whys
<1>3. ASSUME NEW w \in Whys, NEW same \in BOOLEAN
      PROVE  Same(Failed(t, w, same), mem[t]) /\ Failed(t, w, same).st \in {"pending", "failed"}
  <2>1. CASE stop # "no"
    <3>1. Failed(t, w, same) = PutWhy(PutSt(mem[t], "pending"), "killed")
      BY <2>1 DEF Failed, PutSt, PutWhy
    <3> QED BY <1>1, <1>2, <3>1, Worded
  <2>2. CASE stop = "no" /\ Retryable(t, w, same)
    <3>1. Failed(t, w, same) = PutWhy(PutSt(mem[t], "pending"), "none")
      BY <2>2 DEF Failed, PutSt, PutWhy
    <3> QED BY <1>1, <1>2, <3>1, Worded
  <2>3. CASE stop = "no" /\ ~Retryable(t, w, same)
    <3>1. Failed(t, w, same) = PutWhy(PutSt(mem[t], "failed"), w)
      BY <2>3 DEF Failed, PutSt, PutWhy
    <3> QED BY <1>1, <1>2, <3>1, Worded
  <2>4. Retryable(t, w, same) \/ ~Retryable(t, w, same)
    OBVIOUS
  <2> QED BY <2>1, <2>2, <2>3, <2>4
<1>4. ASSUME NEW r \in Record, NEW q \in Salvaged(t, r)
      PROVE  Same(q, r) /\ q.st = r.st
  <2>1. q = r \/ q = PutCommit(r, r.n)
    BY <1>4 DEF Salvaged, PutCommit
  <2>2. r.n \in Nat /\ Same(r, r)
    BY Numbers
  <2> QED BY <1>4, <2>1, <2>2, Setters
<1>5. Same(Conflicted(t), mem[t]) /\ Conflicted(t).st \in {"pending", "failed"}
  <2>1. \/ Conflicted(t) = PutWhy(PutSt(PutMerges(mem[t], mem[t].merges + 1), "pending"), "none")
        \/ Conflicted(t) = PutWhy(PutSt(mem[t], "failed"), "merge")
    BY DEF Conflicted, PutSt, PutWhy, PutMerges
  <2>2. CASE Conflicted(t) = PutWhy(PutSt(PutMerges(mem[t], mem[t].merges + 1), "pending"), "none")
    BY <1>1, <1>2, <2>2, Conflicting, Numbers
  <2>3. CASE Conflicted(t) = PutWhy(PutSt(mem[t], "failed"), "merge")
    BY <1>1, <1>2, <2>3, Worded
  <2> QED BY <2>1, <2>2, <2>3
<1> QED BY <1>1, <1>3, <1>4, <1>5

\* An attempt is given up, or waits before the next: its record goes back to
\* pending or fails, its place is left, nothing is saved by the step.
Rest(t) ==
    \E q, p :
        /\ Turn(t, q, p) /\ disk' = disk /\ job[t].pc \notin {"idle", "published"}
        /\ Same(q, mem[t])
        /\ q = mem[t] \/ (job[t].pc \in (Live \cup Sync) \ {"published"} /\ q.st \in {"pending", "failed"})
        /\ p.pc \in {"idle", "backoff"} /\ (p.pc = "backoff" => p.base = job[t].base)

\* A phase follows a phase, or the landing follows the last one.
Move(t) ==
    \E q, p :
        /\ Turn(t, q, p)
        /\ job[t].pc \in Live \cup {"verify"} /\ p.pc \in Live \cup {"verify", "land"}
        /\ p.pc = "prepare" => job[t].pc = "prepare"
        /\ (job[t].hit /\ job[t].pc \in Live \ {"prepare"}) => p.hit
        /\ p.pc \in {"verify", "land"} => ~p.hit
        /\ p.pc \in Sync => ~Busy \/ job[t].pc \in Sync
        /\ Same(q, mem[t]) /\ q.st = mem[t].st /\ p.base = job[t].base

Shared == <<conf, phase, stop, accepted, receipts, late, rev, tally, round, pause>>

\* Every way of giving an attempt up is a rest.
LEMMA FailRests ==
    ASSUME TypeOK, NEW t \in Tasks, NEW why \in Whys, job[t].pc \in (Live \cup Sync) \ {"published"},
           FailAttempt(t, why)
    PROVE  Rest(t) /\ awake' \in {awake, "top"}
<1>1. PICK same \in MaySame(t) :
        \E r \in Salvaged(t, Failed(t, why, same)) :
            /\ Becomes(t, r)
            /\ IF stop = "no" /\ Retryable(t, why, same)
               THEN At(t, "backoff") /\ UNCHANGED awake
               ELSE Ends(t)
  BY DEF FailAttempt
<1>11. PICK r \in Salvaged(t, Failed(t, why, same)) :
            /\ Becomes(t, r)
            /\ (At(t, "backoff") /\ UNCHANGED awake) \/ Ends(t)
  BY <1>1
<1>2. same \in BOOLEAN
  BY DEF MaySame
<1>3. Same(r, mem[t]) /\ r.st \in {"pending", "failed"}
  <2>1. Same(Failed(t, why, same), mem[t]) /\ Failed(t, why, same).st \in {"pending", "failed"}
    BY <1>2, FailureRecords
  <2>2. Failed(t, why, same) \in Record
    BY <2>1 DEF Same
  <2>3. Same(r, Failed(t, why, same)) /\ r.st = Failed(t, why, same).st
    BY <2>2, FailureRecords
  <2> QED BY <2>1, <2>3 DEF Same
<1>4. \E p \in Place : /\ job' = [job EXCEPT ![t] = p] /\ awake' \in {awake, "top"}
                       /\ p.pc \in {"idle", "backoff"} /\ (p.pc = "backoff" => p.base = job[t].base)
  <2>1. CASE At(t, "backoff") /\ UNCHANGED awake
    BY <2>1, Places
  <2>2. CASE Ends(t)
    BY <2>2, Places DEF Ends
  <2> QED BY <1>11, <2>1, <2>2
<1>5. r \in Record
  BY <1>3 DEF Same
<1>6. job[t].pc \notin {"idle", "published"}
  BY DEF Live, Sync
<1> QED BY <1>11, <1>3, <1>4, <1>5, <1>6 DEF Rest, Turn, Becomes

\* An attempt that ends with a record that was salvaged, or none, rests.
LEMMA EndRests ==
    ASSUME TypeOK, NEW t \in Tasks, NEW r \in Record, Same(r, mem[t]), NEW q \in Salvaged(t, r),
           (r = mem[t] /\ q = r) \/ r.st \in {"pending", "failed"},
           job[t].pc \in (Live \cup Sync) \ {"published"}, Becomes(t, q), Ends(t)
    PROVE  Rest(t) /\ awake' \in {awake, "top"}
<1>1. Same(q, r) /\ q.st = r.st
  BY FailureRecords
<1>2. Same(q, mem[t]) /\ q \in Record
  BY <1>1 DEF Same
<1>3. Idle \in Place /\ Idle.pc = "idle"
  BY Places
<1>4. job[t].pc \notin {"idle", "published"}
  BY DEF Live, Sync
<1>5. Turn(t, q, Idle)
  BY <1>2, <1>3 DEF Turn, Becomes, Ends
<1> QED BY <1>1, <1>2, <1>3, <1>4, <1>5 DEF Rest, Becomes, Ends

\* Every step that gives an attempt up is a rest and leaves the shared state.
LEMMA RestSteps ==
    ASSUME TypeOK, NEW t \in Tasks,
           \/ PhaseFails(t) \/ ReviewRejects(t) \/ ReviewErrs(t) \/ BackoffEnds(t)
           \/ Conflict(t) \/ LandStale(t) \/ GateRejects(t)
    PROVE  Rest(t) /\ UNCHANGED Shared /\ Aside
<1>1. /\ \A x \in {"plan", "run", "review", "land", "intent"} : x \in (Live \cup Sync) \ {"published"}
      /\ "pending" \in Sts /\ "failed" \in Sts /\ "killed" \in Whys /\ "none" \in Whys /\ "review" \in Whys
      /\ {"none", "killed", "plan", "exit", "budget", "integration", "review", "review-protocol", "timeout"} \subseteq Whys
      /\ orphans \subseteq Orphan
  BY DEF Live, Sync, Sts, Terminal, Whys, TypeOK, Orphan
<1>2. mem[t] \in Record /\ Same(mem[t], mem[t]) /\ mem[t].reviews + 1 \in Nat
  BY Numbers DEF TypeOK
<1>3. CASE PhaseFails(t)
  <2>1. PICK why \in Whys : FailAttempt(t, why)
    BY <1>1, <1>3 DEF PhaseFails
  <2>2. job[t].pc \in {"plan", "run"}
    BY <1>3 DEF PhaseFails
  <2>3. Rest(t) /\ awake' \in {awake, "top"}
    BY <1>1, <2>1, <2>2, FailRests
  <2>4. UNCHANGED Shared /\ UNCHANGED <<orphans, incidents>>
    BY <1>3 DEF PhaseFails, Shared
  <2> QED BY <1>1, <2>3, <2>4, StillAside DEF Shared
<1>4. CASE ReviewRejects(t)
  <2>1. PICK same \in MaySame(t) :
          \E q \in Salvaged(t, [mem[t] EXCEPT !.reviews = @ + 1,
                                   !.st = IF Redo(t, same) THEN "pending" ELSE "failed",
                                   !.why = IF Redo(t, same) THEN "none" ELSE "review"]) :
              Becomes(t, q)
    BY <1>4 DEF ReviewRejects
  <2>2. PICK s \in {"pending", "failed"} : s = IF Redo(t, same) THEN "pending" ELSE "failed"
    OBVIOUS
  <2>3. PICK w \in {"none", "review"} : w = IF Redo(t, same) THEN "none" ELSE "review"
    OBVIOUS
  <2>4. PICK k \in Nat : k = mem[t].reviews + 1
    BY <1>2
  <2>5. [mem[t] EXCEPT !.reviews = @ + 1,
                       !.st = IF Redo(t, same) THEN "pending" ELSE "failed",
                       !.why = IF Redo(t, same) THEN "none" ELSE "review"]
        = PutWhy(PutSt(PutReviews(mem[t], k), s), w)
    BY <2>2, <2>3, <2>4 DEF PutWhy, PutSt, PutReviews
  <2>6. PICK r : r = PutWhy(PutSt(PutReviews(mem[t], k), s), w)
    OBVIOUS
  <2>7. Same(r, mem[t]) /\ r.st = s /\ r \in Record
    <3>1. s \in Sts /\ w \in Whys
      BY <1>1
    <3>2. Same(r, mem[t]) /\ r.st = s
      BY <1>2, <2>6, <3>1, Rejected
    <3> QED BY <3>2 DEF Same
  <2>8. PICK q \in Salvaged(t, r) : Becomes(t, q)
    BY <2>1, <2>5, <2>6
  <2>9. job[t].pc = "review" /\ Ends(t) /\ UNCHANGED Shared /\ UNCHANGED <<orphans, incidents>>
    BY <1>4 DEF ReviewRejects, Shared
  <2>10. Rest(t) /\ awake' \in {awake, "top"}
    BY <1>1, <2>7, <2>8, <2>9, EndRests
  <2> QED BY <1>1, <2>9, <2>10, StillAside DEF Shared
<1>5. CASE ReviewErrs(t)
  <2>1. PICK why \in ReviewFaults :
          \E q \in Salvaged(t, IF stop # "no" THEN [mem[t] EXCEPT !.st = "pending", !.why = "killed"]
                               ELSE [mem[t] EXCEPT !.st = "failed", !.why = why]) :
              Becomes(t, q)
    BY <1>5 DEF ReviewErrs
  <2>2. why \in Whys
    BY <1>1 DEF ReviewFaults
  <2>3. PICK r : r = IF stop # "no" THEN PutWhy(PutSt(mem[t], "pending"), "killed")
                     ELSE PutWhy(PutSt(mem[t], "failed"), why)
    OBVIOUS
  <2>4. (IF stop # "no" THEN [mem[t] EXCEPT !.st = "pending", !.why = "killed"]
         ELSE [mem[t] EXCEPT !.st = "failed", !.why = why]) = r
    BY <2>3 DEF PutWhy, PutSt
  <2>5. Same(r, mem[t]) /\ r.st \in {"pending", "failed"} /\ r \in Record
    <3>1. CASE stop # "no"
      <4>1. r = PutWhy(PutSt(mem[t], "pending"), "killed")
        BY <2>3, <3>1
      <4>2. Same(r, mem[t]) /\ r.st = "pending"
        BY <1>1, <1>2, <4>1, Worded
      <4> QED BY <4>2 DEF Same
    <3>2. CASE stop = "no"
      <4>1. r = PutWhy(PutSt(mem[t], "failed"), why)
        BY <2>3, <3>2
      <4>2. Same(r, mem[t]) /\ r.st = "failed"
        BY <1>1, <1>2, <2>2, <4>1, Worded
      <4> QED BY <4>2 DEF Same
    <3> QED BY <3>1, <3>2
  <2>6. PICK q \in Salvaged(t, r) : Becomes(t, q)
    BY <2>1, <2>4
  <2>7. job[t].pc = "review" /\ Ends(t) /\ UNCHANGED Shared /\ UNCHANGED <<orphans, incidents>>
    BY <1>5 DEF ReviewErrs, Shared
  <2>8. Rest(t) /\ awake' \in {awake, "top"}
    BY <1>1, <2>5, <2>6, <2>7, EndRests
  <2> QED BY <1>1, <2>7, <2>8, StillAside DEF Shared
<1>6. CASE BackoffEnds(t)
  <2>1. Ends(t) /\ UNCHANGED <<mem, disk, orphans, incidents>> /\ UNCHANGED Shared /\ job[t].pc = "backoff"
    BY <1>6 DEF BackoffEnds, Shared
  <2>2. mem' = [mem EXCEPT ![t] = mem[t]]
    BY <2>1 DEF TypeOK
  <2>3. Idle \in Place /\ Idle.pc = "idle"
    BY Places
  <2>4. Turn(t, mem[t], Idle)
    BY <1>2, <2>1, <2>2, <2>3 DEF Turn, Ends
  <2>5. Rest(t)
    BY <1>2, <2>1, <2>3, <2>4 DEF Rest
  <2> QED BY <1>1, <2>1, <2>5, StillAside DEF Shared, Ends
<1>7. CASE Conflict(t)
  <2>1. Same(Conflicted(t), mem[t]) /\ Conflicted(t).st \in {"pending", "failed"} /\ Conflicted(t) \in Record
    BY FailureRecords DEF Same
  <2>2. /\ Becomes(t, Conflicted(t)) /\ Ends(t) /\ job[t].pc = "land"
        /\ UNCHANGED Shared /\ UNCHANGED <<orphans, incidents>>
    BY <1>7 DEF Conflict, Shared
  <2>3. Conflicted(t) \in Salvaged(t, Conflicted(t))
    BY DEF Salvaged
  <2>4. Rest(t) /\ awake' \in {awake, "top"}
    BY <1>1, <2>1, <2>2, <2>3, EndRests
  <2> QED BY <1>1, <2>2, <2>4, StillAside DEF Shared
<1>8. CASE LandStale(t)
  <2>1. PICK why \in Whys : FailAttempt(t, why)
    BY <1>1, <1>8 DEF LandStale
  <2>2. job[t].pc \in {"land", "intent"} /\ UNCHANGED Shared /\ UNCHANGED orphans
    BY <1>8 DEF LandStale, Shared
  <2>3. UNCHANGED incidents \/ Incident
    BY <1>8 DEF LandStale
  <2>4. Rest(t) /\ awake' \in {awake, "top"}
    BY <1>1, <2>1, <2>2, FailRests
  <2> QED BY <1>1, <2>2, <2>3, <2>4, StillAside DEF Shared
<1>9. CASE GateRejects(t)
  <2>1. /\ job[t].pc \in (Live \ {"prepare"}) \cup {"backoff"} /\ Ends(t)
        /\ UNCHANGED Shared /\ UNCHANGED incidents
        /\ orphans' = orphans \cup AgentsOf({t} \cap {u \in Running : ~job[u].hit}, "stop")
    BY <1>9 DEF GateRejects, Shared
  <2>2. orphans' \subseteq Orphan
    BY <1>1, <2>1, AgentsTyped
  <2>3. Rest(t) /\ awake' \in {awake, "top"}
    <3>1. CASE job[t].pc = "backoff"
      <4>1. Becomes(t, mem[t])
        BY <1>9, <3>1 DEF GateRejects
      <4>2. Idle \in Place /\ Idle.pc = "idle"
        BY Places
      <4>3. Turn(t, mem[t], Idle)
        BY <1>2, <2>1, <4>1, <4>2 DEF Turn, Becomes, Ends
      <4> QED BY <1>2, <2>1, <3>1, <4>1, <4>2, <4>3 DEF Rest, Becomes, Ends
    <3>2. CASE job[t].pc # "backoff"
      <4>1. PICK r : r = PutWhy(PutSt(mem[t], "pending"), "killed")
        OBVIOUS
      <4>2. [mem[t] EXCEPT !.st = "pending", !.why = "killed"] = r
        BY <4>1 DEF PutWhy, PutSt
      <4>3. Same(r, mem[t]) /\ r.st = "pending" /\ r \in Record
        <5>1. Same(r, mem[t]) /\ r.st = "pending"
          BY <1>1, <1>2, <4>1, Worded
        <5> QED BY <5>1 DEF Same
      <4>4. PICK q \in Salvaged(t, r) : Becomes(t, q)
        BY <1>9, <3>2, <4>2 DEF GateRejects
      <4>5. job[t].pc \in (Live \cup Sync) \ {"published"}
        BY <2>1, <3>2 DEF Live, Sync
      <4> QED BY <2>1, <4>3, <4>4, <4>5, EndRests
    <3> QED BY <3>1, <3>2
  <2> QED BY <2>1, <2>2, <2>3, StillAside DEF Shared
<1> QED BY <1>3, <1>4, <1>5, <1>6, <1>7, <1>8, <1>9

\* Every step from a phase to the next is a move and leaves the shared state.
LEMMA MoveSteps ==
    ASSUME TypeOK, NEW t \in Tasks,
           PrepareEnds(t) \/ PlanEnds(t) \/ WorkEnds(t) \/ PhaseAgain(t) \/ ReviewPasses(t)
    PROVE  Move(t) /\ UNCHANGED Shared /\ Aside
<1>1. /\ mem[t] \in Record /\ Same(mem[t], mem[t]) /\ mem \in [Tasks -> Record] /\ orphans \subseteq Orphan
      /\ job[t] \in Place /\ job \in [Tasks -> Place]
  BY Numbers DEF TypeOK, Orphan
<1>2. /\ \A x \in {"plan", "run", "verify", "review", "land"} :
            x \in Live \cup Sync \cup {"idle", "backoff"} /\ x \in Live \cup {"verify", "land"} /\ x # "prepare"
      /\ "land" \in Sync \ Live /\ "verify" \in Sync /\ "verify" \notin Live /\ \A x \in {"prepare", "plan", "run", "review"} : x \in Live \ Sync
  BY DEF Live, Sync
<1>3. ASSUME UNCHANGED <<mem, disk, awake, orphans, incidents>>, UNCHANGED Shared,
             NEW x \in {"plan", "run", "verify", "review", "land"}, At(t, x),
             job[t].pc \in Live, ~job[t].hit \/ job[t].pc = "prepare", ~Busy
      PROVE  Move(t) /\ UNCHANGED Shared /\ Aside
  <2>1. PICK p \in Place : /\ job' = [job EXCEPT ![t] = p] /\ p.pc = x /\ ~p.hit
                           /\ p.base = job[t].base /\ p.rec = job[t].rec
    BY <1>2, <1>3, Places
  <2>2. mem' = [mem EXCEPT ![t] = mem[t]]
    BY <1>1, <1>3
  <2>3. Turn(t, mem[t], p)
    BY <1>1, <1>3, <2>1, <2>2 DEF Turn
  <2>4. Move(t)
    BY <1>1, <1>2, <1>3, <2>1, <2>3 DEF Move
  <2> QED BY <1>1, <1>3, <2>4, StillAside DEF Shared
<1>4. CASE PrepareEnds(t)
  BY <1>2, <1>3, <1>4 DEF PrepareEnds, Dispatch, Shared, Live
<1>5. CASE PlanEnds(t)
  BY <1>2, <1>3, <1>5 DEF PlanEnds, Shared, Live
<1>6. CASE ReviewPasses(t)
  BY <1>2, <1>3, <1>6 DEF ReviewPasses, Shared, Live
<1>7. CASE WorkEnds(t)
  <2>1. /\ Becomes(t, Worked(t)) /\ UNCHANGED Shared /\ UNCHANGED <<awake, orphans, incidents>>
        /\ job[t].pc = "verify" \/ (job[t].pc = "run" /\ ~job[t].hit /\ ~Busy)
    BY <1>7 DEF WorkEnds, Shared
  <2>2. PICK x \in {"review", "land"} : At(t, x)
    BY <1>7 DEF WorkEnds
  <2>3. PICK p \in Place : /\ job' = [job EXCEPT ![t] = p] /\ p.pc = x /\ ~p.hit
                           /\ p.base = job[t].base /\ p.rec = job[t].rec
    BY <1>2, <2>2, Places
  <2>4. Same(Worked(t), mem[t]) /\ Worked(t).st = mem[t].st /\ Worked(t) \in Record
    BY WorkedRecord DEF Same
  <2>5. Turn(t, Worked(t), p)
    BY <2>1, <2>3, <2>4 DEF Turn, Becomes
  <2>6. Move(t)
    BY <1>2, <2>1, <2>3, <2>4, <2>5 DEF Move
  <2> QED BY <1>1, <2>1, <2>6, StillAside DEF Shared
<1>8. CASE PhaseAgain(t)
  <2>1. /\ job[t].pc \in Live \ {"prepare"} /\ ~Busy
        /\ job' = [job EXCEPT ![t].tries = @ + 1] /\ disk' = mem /\ mem' = mem
        /\ UNCHANGED Shared /\ UNCHANGED <<awake, orphans, incidents>>
    BY <1>8 DEF PhaseAgain, Shared
  <2>2. PICK p : p = [job[t] EXCEPT !.tries = job[t].tries + 1]
    OBVIOUS
  <2>3. p \in Place /\ p.pc = job[t].pc /\ p.base = job[t].base /\ p.hit = job[t].hit
    BY <1>1, <2>2 DEF Place
  <2>4. job' = [job EXCEPT ![t] = p]
    BY <2>1, <2>2
  <2>5. mem' = [mem EXCEPT ![t] = mem[t]]
    BY <1>1, <2>1
  <2>6. Turn(t, mem[t], p)
    BY <1>1, <2>1, <2>3, <2>4, <2>5 DEF Turn
  <2>7. Move(t)
    BY <1>1, <1>2, <2>1, <2>3, <2>6 DEF Move
  <2> QED BY <1>1, <2>1, <2>7, StillAside DEF Shared
<1> QED BY <1>4, <1>5, <1>6, <1>7, <1>8

\* An attempt that is refused, not charged or not set up fails before any agent.
Shelve(t) ==
    \E q :
        /\ Turn(t, q, job[t]) /\ Ready(t) /\ phase = "tasks" /\ stop = "no"
        /\ q.st = "failed" /\ q.limit = mem[t].limit /\ q.receipt = mem[t].receipt /\ q.asked = mem[t].asked
        /\ \/ q.n = mem[t].n /\ q.used = mem[t].used
           \/ /\ q.n = mem[t].n + 1
              /\ conf.lean => q.used = mem[t].used + 1 /\ mem[t].used < mem[t].limit

\* An attempt begins, or the interrupted one goes on, on the branch as it is.
Dispatched(t) ==
    \E q, p :
        /\ Turn(t, q, p) /\ Ready(t) /\ phase = "tasks" /\ stop = "no" /\ ~Busy
        /\ q.st = "running" /\ q.limit = mem[t].limit /\ q.receipt = mem[t].receipt /\ q.asked = mem[t].asked
        /\ p.base = accepted /\ p.pc \in Live \cup {"verify"} /\ (p.pc = "prepare" => t \in conf.prepared)
        /\ \/ /\ q.n = mem[t].n + 1
              /\ conf.lean => disk' = mem' /\ q.used = mem[t].used + 1 /\ mem[t].used < mem[t].limit
           \/ /\ Same(q, mem[t]) /\ disk' = disk
              /\ pause.stage = "claimed" /\ pause.of[t] # 0

\* An attempt lands: its task is completed and its place is left.
Finishes(t) ==
    \E q :
        /\ Turn(t, q, Idle) /\ job[t].pc \in {"land", "published"}
        /\ q.st = "completed" /\ Same(q, mem[t])
        /\ accepted' \in {accepted, accepted \cup {<<t, mem[t].n>>}}
        /\ \/ ~conf.isolated \/ phase = "off" \/ job[t].pc = "published"
           \/ <<t, mem[t].n>> \in accepted' /\ conf.isolated /\ ~conf.lean
        /\ accepted' # accepted => conf.isolated /\ ~conf.lean

\* A launch that comes to nothing leaves the shared state.
LEMMA ShelveSteps ==
    ASSUME TypeOK, NEW t \in Tasks, LaunchRefused(t) \/ ChargeLost(t) \/ WorktreeFails(t)
    PROVE  Shelve(t) /\ UNCHANGED Shared /\ Aside
<1>1. /\ "failed" \in Sts /\ "budget" \in Whys /\ "worktree" \in Whys
      /\ mem[t] \in Record /\ mem[t].commit \in Nat /\ orphans \subseteq Orphan
      /\ job[t] \in Place /\ job \in [Tasks -> Place]
  BY Numbers DEF Sts, Terminal, Whys, TypeOK, Orphan
<1>2. ASSUME Looping, t \in Launchable
      PROVE  Ready(t) /\ phase = "tasks" /\ stop = "no"
  BY <1>2 DEF Looping, Launchable
<1>3. job' = job => job' = [job EXCEPT ![t] = job[t]]
  BY <1>1
<1>4. CASE LaunchRefused(t)
  <2>1. /\ Looping /\ t \in Launchable /\ UNCHANGED Shared /\ UNCHANGED <<job, orphans, incidents>> /\ awake' = "top"
        /\ Becomes(t, [mem[t] EXCEPT !.st = "failed", !.why = "budget"])
    BY <1>4 DEF LaunchRefused, Shared
  <2>2. PICK q : q = PutWhy(PutSt(mem[t], "failed"), "budget")
    OBVIOUS
  <2>3. [mem[t] EXCEPT !.st = "failed", !.why = "budget"] = q
    BY <2>2 DEF PutWhy, PutSt
  <2>4. Same(q, mem[t]) /\ q.st = "failed"
    BY <1>1, <2>2, Worded
  <2>5. Turn(t, q, job[t])
    BY <1>1, <1>3, <2>1, <2>3, <2>4 DEF Turn, Becomes, Same
  <2>6. Shelve(t)
    BY <1>2, <2>1, <2>4, <2>5 DEF Shelve, Same
  <2> QED BY <1>1, <2>1, <2>6, StillAside DEF Shared
<1>5. CASE ChargeLost(t)
  <2>1. /\ Looping /\ t \in Launchable /\ UNCHANGED Shared /\ UNCHANGED <<job, orphans>> /\ awake' = "top"
        /\ Incident /\ conf.lean /\ BudgetRemaining(t)
        /\ Becomes(t, [Begun(t) EXCEPT !.st = "failed", !.why = "budget", !.commit = mem[t].commit])
    BY <1>5 DEF ChargeLost, Shared
  <2>2. PICK q : q = PutCommit(PutWhy(PutSt(Begun(t), "failed"), "budget"), mem[t].commit)
    OBVIOUS
  <2>3. [Begun(t) EXCEPT !.st = "failed", !.why = "budget", !.commit = mem[t].commit] = q
    BY <2>2 DEF PutWhy, PutSt, PutCommit
  <2>4. Begun(t) \in Record
    BY BegunRecord
  <2>5. Same(q, Begun(t)) /\ q.st = "failed"
    BY <1>1, <2>2, <2>4, Reworded
  <2>6. Turn(t, q, job[t])
    BY <1>1, <1>3, <2>1, <2>3, <2>5 DEF Turn, Becomes, Same
  <2>7. Shelve(t)
    BY <1>2, <2>1, <2>5, <2>6, BegunRecord DEF Shelve, Same, BudgetRemaining
  <2> QED BY <1>1, <2>1, <2>7, StillAside DEF Shared
<1>6. CASE WorktreeFails(t)
  <2>1. /\ Looping /\ t \in Launchable /\ UNCHANGED Shared /\ UNCHANGED <<job, orphans>> /\ awake' = "top"
        /\ Incident /\ BudgetRemaining(t)
    BY <1>6 DEF WorktreeFails, Shared
  <2>2. PICK q : q = PutWhy(PutSt(Begun(t), "failed"), "worktree")
    OBVIOUS
  <2>3. [Begun(t) EXCEPT !.st = "failed", !.why = "worktree"] = q
    BY <2>2 DEF PutWhy, PutSt
  <2>4. Begun(t) \in Record
    BY BegunRecord
  <2>5. Same(q, Begun(t)) /\ q.st = "failed"
    BY <1>1, <2>2, <2>4, Worded
  <2>6. Becomes(t, q) \/ Flushed(t, q)
    BY <1>6, <2>3 DEF WorktreeFails
  <2>7. Turn(t, q, job[t])
    BY <1>1, <1>3, <2>1, <2>5, <2>6 DEF Turn, Becomes, Flushed, Same
  <2>8. Shelve(t)
    BY <1>2, <2>1, <2>5, <2>7, BegunRecord DEF Shelve, Same, BudgetRemaining
  <2> QED BY <1>1, <2>1, <2>8, StillAside DEF Shared
<1> QED BY <1>4, <1>5, <1>6

\* A launch and a continuation leave the shared state.
LEMMA DispatchSteps ==
    ASSUME TypeOK, NEW t \in Tasks, Launch(t) \/ Continue(t)
    PROVE  Dispatched(t) /\ UNCHANGED Shared /\ Aside
<1>1. /\ "running" \in Sts /\ "none" \in Whys /\ 0 \in Nat /\ mem[t] \in Record /\ orphans \subseteq Orphan
      /\ \A x \in {"prepare", "plan", "run", "verify"} : x \in Live \cup Sync /\ x \in Live \cup {"verify"}
  BY DEF Sts, Whys, TypeOK, Orphan, Live, Sync
<1>2. CASE Launch(t)
  <2>1. /\ Looping /\ t \in Launchable /\ UNCHANGED Shared /\ UNCHANGED <<orphans, incidents>> /\ awake' = "launching"
        /\ BudgetRemaining(t) /\ job' = [job EXCEPT ![t] = Checkout(FirstPhase(t), "none")]
    BY <1>2 DEF Launch, Shared
  <2>2. (Becomes(t, Begun(t)) \/ Flushed(t, Begun(t))) /\ (conf.lean => Flushed(t, Begun(t)))
    BY <1>2 DEF Launch
  <2>3. Ready(t) /\ phase = "tasks" /\ stop = "no" /\ ~Busy
    BY <2>1 DEF Looping, Launchable
  <2>4. PICK x \in {"prepare", "plan", "run"} : x = FirstPhase(t) /\ (x = "prepare" => t \in conf.prepared)
    BY DEF FirstPhase
  <2>5. PICK p \in Place : p = Checkout(FirstPhase(t), "none") /\ p.pc = x /\ p.base = accepted
    BY <1>1, <2>4, Places
  <2>6. Turn(t, Begun(t), p)
    BY <2>1, <2>2, <2>5, BegunRecord DEF Turn, Becomes, Flushed
  <2>7. Dispatched(t)
    <3>1. conf.lean => disk' = mem' /\ Begun(t).used = mem[t].used + 1 /\ mem[t].used < mem[t].limit
      BY <2>1, <2>2, BegunRecord DEF Flushed, BudgetRemaining
    <3> QED BY <1>1, <2>3, <2>4, <2>5, <2>6, <3>1, BegunRecord DEF Dispatched
  <2> QED BY <1>1, <2>1, <2>7, StillAside DEF Shared
<1>3. CASE Continue(t)
  <2>1. /\ Looping /\ t \in Launchable /\ UNCHANGED Shared /\ UNCHANGED <<orphans, incidents>> /\ awake' = "launching"
        /\ Recovery(t) # "none"
        /\ Becomes(t, [mem[t] EXCEPT !.st = "running", !.why = "none", !.commit = 0])
        /\ job' = [job EXCEPT ![t] =
                 Checkout(IF t \in conf.prepared THEN "prepare" ELSE Dispatch(Recovery(t)), Recovery(t))]
    BY <1>3 DEF Continue, Shared
  <2>2. Ready(t) /\ phase = "tasks" /\ stop = "no" /\ ~Busy
    BY <2>1 DEF Looping, Launchable
  <2>3. Recovery(t) \in {"none", "resume", "verify"} /\ pause.stage = "claimed" /\ pause.of[t] # 0
    BY <2>1 DEF Recovery
  <2>4. PICK x \in {"prepare", "run", "verify"} :
          /\ x = IF t \in conf.prepared THEN "prepare" ELSE Dispatch(Recovery(t))
          /\ x = "prepare" => t \in conf.prepared
    BY DEF Dispatch
  <2>5. PICK p \in Place : p = Checkout(x, Recovery(t)) /\ p.pc = x /\ p.base = accepted
    BY <1>1, <2>3, <2>4, Places
  <2>6. PICK q : q = PutCommit(PutWhy(PutSt(mem[t], "running"), "none"), 0)
    OBVIOUS
  <2>7. [mem[t] EXCEPT !.st = "running", !.why = "none", !.commit = 0] = q
    BY <2>6 DEF PutWhy, PutSt, PutCommit
  <2>8. Same(q, mem[t]) /\ q.st = "running"
    BY <1>1, <2>6, Reworded
  <2>9. Turn(t, q, p) /\ disk' = disk
    BY <2>1, <2>4, <2>5, <2>7, <2>8 DEF Turn, Becomes, Same
  <2>10. Dispatched(t)
    BY <1>1, <2>2, <2>3, <2>4, <2>5, <2>8, <2>9 DEF Dispatched, Same
  <2> QED BY <1>1, <2>1, <2>10, StillAside DEF Shared
<1> QED BY <1>2, <1>3

\* A landing that completes its task changes no more than the branch.
LEMMA FinishSteps ==
    ASSUME TypeOK, NEW t \in Tasks, LandNothing(t) \/ LandClassic(t) \/ CompleteLean(t)
    PROVE  /\ Finishes(t) /\ Aside
           /\ UNCHANGED <<conf, phase, stop, receipts, late, rev, tally, round, pause>>
<1>1. /\ "completed" \in Sts /\ mem[t] \in Record /\ mem[t].n \in Nat /\ mem[t].commit \in Nat
      /\ orphans \subseteq Orphan /\ Idle \in Place
  BY Numbers, Places DEF Sts, Terminal, TypeOK, Orphan
<1>2. PICK r : r = PutSt(mem[t], "completed")
  OBVIOUS
<1>3. Completed(mem[t]) = r
  BY <1>2 DEF Completed, PutSt
<1>4. Same(r, mem[t]) /\ r.st = "completed" /\ r \in Record
  BY <1>1, <1>2, Setters DEF Same
<1>5. CASE LandNothing(t) \/ CompleteLean(t)
  <2>1. /\ UNCHANGED Shared /\ UNCHANGED <<orphans, incidents>> /\ Ends(t)
        /\ Becomes(t, r) \/ Flushed(t, r)
        /\ \/ job[t].pc = "land" /\ (~conf.isolated \/ phase = "off")
           \/ job[t].pc = "published"
    BY <1>3, <1>5 DEF LandNothing, CompleteLean, Shared
  <2>2. Turn(t, r, Idle)
    BY <1>1, <1>4, <2>1 DEF Turn, Becomes, Flushed, Ends
  <2>3. Finishes(t)
    BY <1>4, <2>1, <2>2 DEF Finishes, Shared
  <2> QED BY <1>1, <2>1, <2>3, StillAside DEF Shared, Ends
<1>6. CASE LandClassic(t)
  <2>1. PICK n \in {mem[t].n, mem[t].commit} : Becomes(t, [Completed(mem[t]) EXCEPT !.commit = n])
    BY <1>6 DEF LandClassic
  <2>2. PICK q : q = PutCommit(r, n)
    OBVIOUS
  <2>3. [Completed(mem[t]) EXCEPT !.commit = n] = q
    BY <1>3, <2>2 DEF PutCommit
  <2>4. Same(q, r) /\ q.st = "completed"
    BY <1>1, <1>4, <2>2, Setters
  <2>5. /\ job[t].pc = "land" /\ conf.isolated /\ ~conf.lean /\ Ends(t)
        /\ accepted' = accepted \cup {<<t, mem[t].n>>}
        /\ UNCHANGED <<conf, phase, stop, receipts, late, rev, tally, round, pause, orphans, incidents>>
    BY <1>6 DEF LandClassic, Accept
  <2>6. Turn(t, q, Idle)
    BY <1>1, <2>1, <2>3, <2>4, <2>5 DEF Turn, Becomes, Ends, Same
  <2>7. Finishes(t)
    BY <1>4, <2>4, <2>5, <2>6 DEF Finishes, Same
  <2>8. Aside
    BY <1>1, <2>5 DEF Aside, TypeOK, Ends, Pauses
  <2> QED BY <2>5, <2>7, <2>8
<1> QED BY <1>5, <1>6

\* The receipt is written and its name is saved with the rest of the run.
Intends(t) ==
    \E q, p :
        /\ Turn(t, q, p) /\ disk' = mem' /\ job[t].pc = "land" /\ p.pc = "intent" /\ p.base = job[t].base
        /\ conf.lean /\ conf.isolated
        /\ q.st = mem[t].st /\ q.n = mem[t].n /\ q.used = mem[t].used /\ q.limit = mem[t].limit
        /\ q.receipt = mem[t].n /\ q.asked = mem[t].asked
        /\ receipts' = receipts \cup {<<t, mem[t].n>>}
LEMMA IntentSteps ==
    ASSUME TypeOK, NEW t \in Tasks, LandIntent(t)
    PROVE  Intends(t) /\ Aside /\ UNCHANGED <<conf, phase, stop, accepted, late, rev, tally, round, pause>>
<1>1. /\ mem[t] \in Record /\ mem[t].n \in Nat /\ orphans \subseteq Orphan
      /\ job[t] \in Place /\ job \in [Tasks -> Place] /\ "intent" \in Live \cup Sync
  BY Numbers DEF TypeOK, Orphan, Sync
<1>2. /\ Flushed(t, [mem[t] EXCEPT !.receipt = mem[t].n]) /\ job' = [job EXCEPT ![t].pc = "intent"]
      /\ job[t].pc = "land" /\ conf.lean /\ conf.isolated
      /\ receipts' = receipts \cup {<<t, mem[t].n>>}
      /\ UNCHANGED <<conf, phase, awake, stop, accepted, late, rev, tally, round, pause, orphans, incidents>>
  BY DEF LandIntent
<1>3. PICK q : q = PutReceipt(mem[t], mem[t].n)
  OBVIOUS
<1>4. [mem[t] EXCEPT !.receipt = mem[t].n] = q
  BY <1>3 DEF PutReceipt
<1>5. /\ q \in Record /\ q.st = mem[t].st /\ q.n = mem[t].n /\ q.used = mem[t].used /\ q.limit = mem[t].limit
      /\ q.receipt = mem[t].n /\ q.asked = mem[t].asked
  BY <1>1, <1>3, LedgerSetters
<1>6. PICK p : p = [job[t] EXCEPT !.pc = "intent"]
  OBVIOUS
<1>7. p \in Place /\ p.pc = "intent" /\ p.base = job[t].base
  BY <1>1, <1>6 DEF Place
<1>8. job' = [job EXCEPT ![t] = p]
  BY <1>2, <1>6
<1>9. Turn(t, q, p)
  BY <1>2, <1>4, <1>5, <1>7, <1>8 DEF Turn, Flushed
<1>10. Intends(t)
  BY <1>2, <1>5, <1>7, <1>9 DEF Intends, Flushed
<1>11. Aside
  BY <1>1, <1>2 DEF Aside, TypeOK, Pauses
<1> QED BY <1>2, <1>10, <1>11

\* update-ref moves the branch, and nothing else.
Publishes(t) ==
    \E p :
        /\ Turn(t, mem[t], p) /\ disk' = disk /\ job[t].pc = "intent" /\ p.pc = "published" /\ p.base = job[t].base
        /\ accepted' = accepted \cup {<<t, mem[t].n>>}
LEMMA PublishSteps ==
    ASSUME TypeOK, NEW t \in Tasks, Publish(t)
    PROVE  Publishes(t) /\ Aside /\ UNCHANGED <<conf, phase, stop, receipts, late, rev, tally, round, pause>>
<1>1. /\ mem[t] \in Record /\ mem[t].n \in Nat /\ mem \in [Tasks -> Record] /\ orphans \subseteq Orphan
      /\ job[t] \in Place /\ job \in [Tasks -> Place] /\ "published" \in Live \cup Sync
  BY Numbers DEF TypeOK, Orphan, Sync
<1>2. /\ job[t].pc = "intent" /\ job' = [job EXCEPT ![t].pc = "published"]
      /\ accepted' = accepted \cup {<<t, mem[t].n>>} /\ UNCHANGED <<mem, disk>>
      /\ UNCHANGED <<conf, phase, awake, stop, receipts, late, rev, tally, round, pause, orphans, incidents>>
  BY DEF Publish, Accept
<1>3. PICK p : p = [job[t] EXCEPT !.pc = "published"]
  OBVIOUS
<1>4. p \in Place /\ p.pc = "published" /\ p.base = job[t].base
  BY <1>1, <1>3 DEF Place
<1>5. job' = [job EXCEPT ![t] = p] /\ mem' = [mem EXCEPT ![t] = mem[t]]
  BY <1>1, <1>2, <1>3
<1>6. Turn(t, mem[t], p)
  BY <1>1, <1>2, <1>4, <1>5 DEF Turn
<1>7. Publishes(t)
  BY <1>2, <1>4, <1>6 DEF Publishes
<1>8. Aside
  BY <1>1, <1>2 DEF Aside, TypeOK, Pauses
<1> QED BY <1>2, <1>7, <1>8

\* Every agent is signalled and the attempt whose completion was lost is over.
Loses(t) ==
    /\ mem' \in [Tasks -> Record] /\ disk' = disk /\ job' \in [Tasks -> Place] /\ job[t].pc = "published"
    /\ Same(mem'[t], mem[t]) /\ mem'[t].st = "pending" /\ job'[t].pc = "idle"
    /\ \A u \in Tasks \ {t} : /\ mem'[u] = mem[u] /\ job'[u].pc = job[u].pc /\ job'[u].base = job[u].base
                              /\ (job'[u].hit <=> job[u].pc \in Live)
    /\ stop' = "gated"
LEMMA LostSteps ==
    ASSUME TypeOK, NEW t \in Tasks, CompletionLost(t)
    PROVE  Loses(t) /\ Aside /\ UNCHANGED <<conf, phase, accepted, receipts, late, rev, tally, round, pause>>
<1>1. /\ mem[t] \in Record /\ mem \in [Tasks -> Record] /\ orphans \subseteq Orphan
      /\ "pending" \in Sts /\ "integration" \in Whys
  BY Numbers DEF TypeOK, Orphan, Sts, Whys
<1>2. /\ job[t].pc = "published" /\ Becomes(t, [mem[t] EXCEPT !.st = "pending", !.why = "integration"])
      /\ job' = [u \in Tasks |-> IF u = t THEN Idle ELSE Hit(u)]
      /\ stop' = "gated" /\ awake' = "top" /\ Incident
      /\ UNCHANGED <<conf, phase, accepted, receipts, late, rev, tally, round, pause, orphans>>
  BY DEF CompletionLost
<1>3. PICK q : q = PutWhy(PutSt(mem[t], "pending"), "integration")
  OBVIOUS
<1>4. [mem[t] EXCEPT !.st = "pending", !.why = "integration"] = q
  BY <1>3 DEF PutWhy, PutSt
<1>5. Same(q, mem[t]) /\ q.st = "pending"
  BY <1>1, <1>3, Worded
<1>6. mem' = [mem EXCEPT ![t] = q] /\ q \in Record /\ disk' = disk
  BY <1>2, <1>4, <1>5 DEF Becomes, Same
<1>7. mem' \in [Tasks -> Record] /\ mem'[t] = q /\ \A u \in Tasks \ {t} : mem'[u] = mem[u]
  BY <1>1, <1>6
<1>8. /\ job' \in [Tasks -> Place] /\ job'[t].pc = "idle"
      /\ \A u \in Tasks \ {t} : /\ job'[u].pc = job[u].pc /\ job'[u].base = job[u].base
                                /\ (job'[u].hit <=> job[u].pc \in Live)
  <2>1. \A u \in Tasks : job'[u] = IF u = t THEN Idle ELSE Hit(u)
    BY <1>2
  <2>2. \A u \in Tasks : job'[u] \in Place
    BY <2>1, Places
  <2>3. job' \in [Tasks -> Place]
    BY <1>2, <2>2
  <2> QED BY <2>1, <2>3, Places
<1>9. Loses(t)
  BY <1>2, <1>5, <1>6, <1>7, <1>8 DEF Loses
<1>10. incidents' \in 0 .. conf.faults
  BY <1>2, ConfTyped DEF Incident, TypeOK
<1>11. Aside
  BY <1>1, <1>2, <1>10 DEF Aside, TypeOK, Pauses
<1> QED BY <1>2, <1>9, <1>11

\* Whatever is in flight is settled by force: running work waits, all places
\* are left, nothing is saved.
Settles == /\ mem' \in [Tasks -> Record] /\ disk' = disk /\ job' = [u \in Tasks |-> Idle] /\ stop' = "gated"
           /\ ~Busy
           /\ \A u \in Tasks : /\ Same(mem'[u], mem[u])
                               /\ \/ mem'[u].st = mem[u].st /\ (u \in InFlight => mem[u].st # "running")
                                  \/ u \in InFlight /\ mem[u].st = "running" /\ mem'[u].st = "pending"
LEMMA ForceSteps ==
    ASSUME TypeOK, ForceSettle
    PROVE  Settles /\ Aside /\ UNCHANGED <<conf, phase, accepted, receipts, late, rev, tally, round, pause>>
<1>1. /\ \A u \in Tasks : mem[u] \in Record
      /\ "pending" \in Sts /\ "killed" \in Whys /\ orphans \subseteq Orphan
  BY DEF TypeOK, Orphan, Sts, Whys
<1>2. PICK commits \in SUBSET {t \in InFlight : conf.isolated} :
        mem' = [t \in Tasks |->
                  LET r == IF t \in InFlight /\ mem[t].st = "running"
                           THEN [mem[t] EXCEPT !.st = "pending", !.why = "killed"] ELSE mem[t]
                  IN  IF t \in commits THEN [r EXCEPT !.commit = r.n] ELSE r]
  BY DEF ForceSettle
<1>3. /\ ~Busy /\ job' = [t \in Tasks |-> Idle] /\ stop' = "gated" /\ awake' = "top"
      /\ orphans' = orphans \cup AgentsOf({t \in Running : ~job[t].hit}, "stop")
      /\ UNCHANGED <<conf, phase, disk, accepted, receipts, late, rev, tally, round, pause, incidents>>
  BY DEF ForceSettle
<1>4. ASSUME NEW u \in Tasks
      PROVE  /\ mem'[u] \in Record /\ Same(mem'[u], mem[u])
             /\ \/ mem'[u].st = mem[u].st /\ (u \in InFlight => mem[u].st # "running")
                \/ u \in InFlight /\ mem[u].st = "running" /\ mem'[u].st = "pending"
  <2>1. PICK r : r = IF u \in InFlight /\ mem[u].st = "running"
                     THEN [mem[u] EXCEPT !.st = "pending", !.why = "killed"] ELSE mem[u]
    OBVIOUS
  <2>2. mem'[u] = IF u \in commits THEN PutCommit(r, r.n) ELSE r
    <3>1. mem'[u] = IF u \in commits THEN [r EXCEPT !.commit = r.n] ELSE r
      <4>1. mem'[u] = LET x == IF u \in InFlight /\ mem[u].st = "running"
                                THEN [mem[u] EXCEPT !.st = "pending", !.why = "killed"] ELSE mem[u]
                      IN  IF u \in commits THEN [x EXCEPT !.commit = x.n] ELSE x
        BY <1>2
      <4> QED BY <2>1, <4>1, Zenon
    <3> QED BY <3>1, Zenon DEF PutCommit
  <2>3. /\ r \in Record /\ Same(r, mem[u])
        /\ \/ r.st = mem[u].st /\ (u \in InFlight => mem[u].st # "running")
           \/ u \in InFlight /\ mem[u].st = "running" /\ r.st = "pending"
    <3>1. CASE u \in InFlight /\ mem[u].st = "running"
      <4>1. r = [mem[u] EXCEPT !.st = "pending", !.why = "killed"]
        BY <2>1, <3>1
      <4>3. r = PutWhy(PutSt(mem[u], "pending"), "killed")
        BY <4>1, Zenon DEF PutWhy, PutSt
      <4>2. Same(r, mem[u]) /\ r.st = "pending"
        BY <1>1, <4>3, Worded
      <4> QED BY <3>1, <4>2 DEF Same
    <3>2. CASE ~(u \in InFlight /\ mem[u].st = "running")
      <4>1. r = mem[u]
        BY <2>1, <3>2
      <4> QED BY <1>1, <3>2, <4>1, Numbers
    <3> QED BY <3>1, <3>2
  <2>4. r.n \in Nat /\ Same(r, r)
    BY <2>3, Numbers
  <2>5. Same(mem'[u], r) /\ mem'[u].st = r.st
    <3>1. CASE u \in commits
      BY <2>2, <2>3, <2>4, <3>1, Setters
    <3>2. CASE u \notin commits
      BY <2>2, <2>4, <3>2
    <3> QED BY <3>1, <3>2
  <2> QED BY <2>3, <2>5 DEF Same
<1>5. mem' \in [Tasks -> Record]
  BY <1>2, <1>4
<1>6. Settles
  BY <1>3, <1>4, <1>5 DEF Settles
<1>7. Running \subseteq Tasks
  BY DEF Running
<1>8. orphans' \subseteq Orphan
  BY <1>1, <1>3, <1>7, AgentsTyped
<1>9. Aside
  BY <1>3, <1>8 DEF Aside, TypeOK, Pauses
<1> QED BY <1>3, <1>6, <1>9

\* Work that waits for what failed is skipped.
Skips == /\ mem' \in [Tasks -> Record] /\ disk' = disk /\ job' = job /\ phase = "tasks" /\ stop = "no"
         /\ \A u \in Tasks : \/ mem'[u] = mem[u]
                             \/ mem[u].st = "pending" /\ mem'[u].st = "skipped" /\ Same(mem'[u], mem[u])
LEMMA SkipSteps ==
    ASSUME TypeOK, PolicySkip
    PROVE  Skips /\ Aside /\ UNCHANGED Shared
<1>1. /\ \A u \in Tasks : mem[u] \in Record
      /\ "skipped" \in Sts /\ orphans \subseteq Orphan
  BY DEF TypeOK, Orphan, Sts, Terminal
<1>2. /\ mem' = [t \in Tasks |-> IF t \in Skippable THEN [mem[t] EXCEPT !.st = "skipped"] ELSE mem[t]]
      /\ phase = "tasks" /\ stop = "no" /\ awake' = "top" /\ UNCHANGED <<disk, job, orphans, incidents>> /\ UNCHANGED Shared
  BY DEF PolicySkip, Looping, Shared
<1>3. ASSUME NEW u \in Tasks
      PROVE  /\ mem'[u] \in Record
             /\ \/ mem'[u] = mem[u]
                \/ mem[u].st = "pending" /\ mem'[u].st = "skipped" /\ Same(mem'[u], mem[u])
  <2>1. mem'[u] = IF u \in Skippable THEN PutSt(mem[u], "skipped") ELSE mem[u]
    BY <1>2 DEF PutSt
  <2>2. CASE u \in Skippable
    <3>1. mem[u].st = "pending"
      BY <2>2 DEF Skippable
    <3>2. Same(mem'[u], mem[u]) /\ mem'[u].st = "skipped"
      BY <1>1, <2>1, <2>2, Setters
    <3> QED BY <3>1, <3>2 DEF Same
  <2>3. CASE u \notin Skippable
    BY <1>1, <2>1, <2>3
  <2> QED BY <2>2, <2>3
<1>4. mem' \in [Tasks -> Record]
  BY <1>2, <1>3
<1>5. Skips
  BY <1>2, <1>3, <1>4 DEF Skips
<1> QED BY <1>1, <1>2, <1>5, StillAside DEF Shared

\* A start keeps the ledger: interrupted work waits, work that the branch
\* proves is completed, and everything is saved.
Opened ==
    /\ mem' \in [Tasks -> Record] /\ disk' = mem' /\ job' = job /\ phase = "off" /\ InFlight = {}
    /\ phase' \in {"off", "tasks"}
    /\ \A u \in Tasks :
        /\ Same(mem'[u], mem[u]) /\ (mem[u].st = "completed" => mem'[u].st = "completed")
        /\ \/ mem'[u].st \in {mem[u].st, "pending"}
              /\ (phase' = "tasks" /\ conf.lean /\ conf.isolated /\ mem[u].st # "completed" /\ mem[u].n >= 1
                    => <<u, mem[u].receipt>> \notin receipts \cap accepted)
           \/ /\ mem'[u].st = "completed" /\ mem[u].n >= 1 /\ mem[u].n = mem[u].receipt
              /\ <<u, mem[u].receipt>> \in accepted
    /\ receipts' \subseteq receipts /\ receipts \cap accepted \subseteq receipts'

LEMMA OpenSteps ==
    ASSUME TypeOK, NEW kept, NEW claim \in Pauses, phase = "off", InFlight = {}, Opens(kept, claim),
           \A u \in Tasks : /\ Same(kept[u], mem[u]) /\ kept[u].st \in {mem[u].st, "pending"}
                            /\ kept[u].st = "completed" <=> mem[u].st = "completed",
           kept = [u \in Tasks |-> kept[u]], incidents' \in 0 .. conf.faults
    PROVE  /\ Opened /\ Aside
           /\ UNCHANGED <<conf, stop, accepted, late, rev, tally, round>>
           /\ pause' \in {claim, NoPause}
<1>1. "completed" \in Sts
  BY DEF Sts, Terminal
<1>2. /\ mem' = IF Refused THEN kept ELSE [t \in Tasks |-> Reconciled(kept[t], t)]
      /\ disk' = mem'
      /\ receipts' = IF Refused THEN receipts ELSE receipts \ Unpublished
      /\ phase' = IF Refused THEN "off" ELSE "tasks"
      /\ awake' = IF Refused THEN "no" ELSE "top"
      /\ pause' = IF claim.stage = "claimed" /\ Refused THEN NoPause ELSE claim
      /\ UNCHANGED <<conf, stop, job, accepted, late, rev, tally, round, orphans>>
  BY DEF Opens
<1>3. \A u \in Tasks : kept[u] \in Record /\ mem[u] \in Record /\ mem[u].receipt \in Nat
  BY Numbers DEF Same, TypeOK
<1>4. \A u \in Tasks : Receipted(kept[u], u) <=> Receipted(mem[u], u)
  BY DEF Receipted, Same
<1>5. ASSUME NEW u \in Tasks
      PROVE  /\ mem'[u] \in Record /\ Same(mem'[u], mem[u]) /\ (mem[u].st = "completed" => mem'[u].st = "completed")
             /\ \/ mem'[u].st \in {mem[u].st, "pending"}
                   /\ (phase' = "tasks" /\ conf.lean /\ conf.isolated /\ mem[u].st # "completed" /\ mem[u].n >= 1
                         => <<u, mem[u].receipt>> \notin receipts \cap accepted)
                \/ /\ mem'[u].st = "completed" /\ mem[u].n >= 1 /\ mem[u].n = mem[u].receipt
                   /\ <<u, mem[u].receipt>> \in accepted
  <2>1. CASE Refused
    <3>1. mem'[u] = kept[u] /\ phase' = "off"
      BY <1>2, <2>1
    <3> QED BY <1>3, <3>1
  <2>2. CASE ~Refused
    <3>1. mem'[u] = Reconciled(kept[u], u)
      BY <1>2, <2>2
    <3>2. CASE Receipted(kept[u], u) /\ <<u, kept[u].receipt>> \in accepted
      <4>1. mem'[u] = PutCommit(PutSt(kept[u], "completed"), kept[u].receipt)
        BY <3>1, <3>2 DEF Reconciled, PutCommit, PutSt
      <4>2. Same(mem'[u], kept[u]) /\ mem'[u].st = "completed"
        BY <1>1, <1>3, <4>1, Sourced, Numbers
      <4>3. mem[u].receipt = mem[u].n /\ mem[u].n >= 1
        BY <1>4, <2>2, <3>2 DEF Refused, Receipted
      <4> QED BY <3>2, <4>2, <4>3 DEF Same
    <3>3. CASE ~(Receipted(kept[u], u) /\ <<u, kept[u].receipt>> \in accepted)
      <4>1. mem'[u] = kept[u]
        BY <3>1, <3>3 DEF Reconciled
      <4>2. kept[u].receipt = mem[u].receipt
        BY DEF Same
      <4>3. conf.lean /\ conf.isolated /\ mem[u].st # "completed" /\ mem[u].n >= 1
              => <<u, mem[u].receipt>> \notin receipts \cap accepted
        BY <1>4, <3>3, <4>2 DEF Receipted
      <4> QED BY <1>3, <4>1, <4>3
    <3> QED BY <3>2, <3>3
  <2> QED BY <2>1, <2>2
<1>6. mem' \in [Tasks -> Record]
  <2>1. mem' = [u \in Tasks |-> mem'[u]]
    BY <1>2
  <2> QED BY <1>5, <2>1
<1>7. receipts' \subseteq receipts /\ receipts \cap accepted \subseteq receipts'
  BY <1>2 DEF Unpublished
<1>8. Opened
  BY <1>2, <1>5, <1>6, <1>7 DEF Opened
<1>9. NoPause \in Pauses
  BY DEF NoPause, Pauses
<1>10. Aside
  BY <1>2, <1>7, <1>9 DEF Aside, TypeOK, Orphan
<1> QED BY <1>2, <1>8, <1>10

\* A verdict of the end-of-run review sends the task back, fails or leaves it.
Judges(t) ==
    \E q :
        /\ Turn(t, q, job[t]) /\ disk' = disk /\ phase = "final" /\ rev[t] = "busy"
        /\ rev' = [rev EXCEPT ![t] = "no"]
        /\ q.n = mem[t].n /\ q.used = mem[t].used /\ q.limit = mem[t].limit /\ q.receipt = mem[t].receipt
        /\ \/ q.st \in {mem[t].st, "failed"} /\ q.asked = mem[t].asked
           \/ q.st = "pending" /\ q.asked = mem[t].n
LEMMA JudgeSteps ==
    ASSUME TypeOK, NEW t \in Tasks, FinalJudges(t)
    PROVE  Judges(t) /\ Aside /\ UNCHANGED <<conf, phase, stop, accepted, receipts, late, round, pause>>
<1>1. /\ mem[t] \in Record /\ mem[t].n \in Nat /\ Same(mem[t], mem[t]) /\ orphans \subseteq Orphan
      /\ job[t] \in Place /\ job' = job /\ job = [job EXCEPT ![t] = job[t]]
      /\ \A x \in {"failed", "pending"} : x \in Sts
      /\ \A x \in {"none", "review", "review-protocol"} : x \in Whys
      /\ \A x \in {"pass", "fail", "error", "none"} : x \in Finals
  BY Numbers DEF TypeOK, Orphan, Sts, Terminal, Whys, Finals, FinalJudges
<1>2. PICK verdict \in {"pass", "fail", "error", "review-protocol"} :
        /\ Becomes(t, Judged(t, verdict))
        /\ tally' = tally \cup (IF verdict = "pass" THEN {} ELSE IF verdict # "fail" THEN {"error"}
                                ELSE IF RoundsLeft > 0 THEN {"failed", "requeued"} ELSE {"failed"})
  BY DEF FinalJudges
<1>3. /\ phase = "final" /\ rev[t] = "busy" /\ rev' = [rev EXCEPT ![t] = "no"]
      /\ orphans' = IF stop = "gated" THEN orphans \cup AgentsOf({t}, "final") ELSE orphans
      /\ UNCHANGED <<conf, phase, awake, stop, accepted, receipts, late, round, pause, incidents>>
  BY DEF FinalJudges
<1>4. PICK q : q = Judged(t, verdict)
  OBVIOUS
<1>5. RoundsLeft \in Int
  BY ConfTyped DEF RoundsLeft, TypeOK
<1>6. /\ q \in Record
      /\ q.n = mem[t].n /\ q.used = mem[t].used /\ q.limit = mem[t].limit /\ q.receipt = mem[t].receipt
      /\ \/ q.st \in {mem[t].st, "failed"} /\ q.asked = mem[t].asked
         \/ q.st = "pending" /\ q.asked = mem[t].n
  <2>1. CASE verdict = "pass"
    <3>1. q = PutFinal(mem[t], "pass")
      BY <1>4, <2>1 DEF Judged, PutFinal
    <3> QED BY <1>1, <3>1, Setters DEF Same
  <2>2. CASE verdict = "error"
    <3>1. q = PutFinal(mem[t], "error")
      BY <1>4, <2>2 DEF Judged, PutFinal
    <3> QED BY <1>1, <3>1, Setters DEF Same
  <2>3. CASE verdict = "fail" /\ RoundsLeft > 0
    <3>1. q = PutAsked(PutWhy(PutSt(PutFinal(mem[t], "none"), "pending"), "none"), mem[t].n)
      BY <1>4, <1>5, <2>3 DEF Judged, PutFinal, PutAsked, PutWhy, PutSt
    <3> QED BY <1>1, <3>1, SentBack
  <2>4. CASE verdict = "fail" /\ RoundsLeft <= 0
    <3>1. q = PutWhy(PutSt(PutFinal(mem[t], "fail"), "failed"), "review")
      BY <1>4, <1>5, <2>4 DEF Judged, PutFinal, PutWhy, PutSt
    <3>2. Same(q, mem[t]) /\ q.st = "failed"
      BY <1>1, <3>1, VerdictRecord
    <3> QED BY <3>2 DEF Same
  <2>5. CASE verdict = "review-protocol"
    <3>1. q = PutWhy(PutSt(PutFinal(mem[t], "error"), "failed"), "review-protocol")
      BY <1>4, <2>5 DEF Judged, PutFinal, PutWhy, PutSt
    <3>2. Same(q, mem[t]) /\ q.st = "failed"
      BY <1>1, <3>1, VerdictRecord
    <3> QED BY <3>2 DEF Same
  <2> QED BY <1>5, <2>1, <2>2, <2>3, <2>4, <2>5
<1>7. Turn(t, q, job[t]) /\ disk' = disk
  BY <1>1, <1>2, <1>4, <1>6 DEF Turn, Becomes
<1>8. Judges(t)
  BY <1>3, <1>6, <1>7 DEF Judges
<1>9. orphans' \subseteq Orphan
  BY <1>1, <1>3, AgentsTyped
<1>10. tally' \subseteq {"failed", "requeued", "error"} /\ rev' \in [Tasks -> {"no", "todo", "busy"}]
  BY <1>2, <1>3 DEF TypeOK
<1>11. Aside
  BY <1>3, <1>9, <1>10 DEF Aside, TypeOK, Pauses
<1> QED BY <1>3, <1>8, <1>11

\* An operator's retry, or more time for a lean task, between two runs.
Repairs(t) ==
    \E q :
        /\ Turn(t, q, job[t]) /\ disk' = mem' /\ phase = "off" /\ InFlight = {}
        /\ q.n = mem[t].n /\ q.used = mem[t].used /\ q.limit >= mem[t].limit /\ q.receipt = mem[t].receipt
        /\ q.st \in {mem[t].st, "pending"} /\ q.asked \in {mem[t].asked, mem[t].n}
LEMMA RepairSteps ==
    ASSUME TypeOK, NEW t \in Tasks, Retry(t) \/ Renew(t)
    PROVE  Repairs(t) /\ Aside /\ UNCHANGED <<conf, phase, stop, accepted, receipts, rev, tally, round, pause>>
<1>1. /\ mem[t] \in Record /\ mem[t].n \in Nat /\ mem[t].asked \in Nat /\ mem[t].limit \in Nat
      /\ Same(mem[t], mem[t]) /\ orphans \subseteq Orphan
      /\ job[t] \in Place /\ job = [job EXCEPT ![t] = job[t]]
  BY Numbers DEF TypeOK, Orphan
<1>2. incidents' \in 0 .. conf.faults
  BY ConfTyped DEF Incident, TypeOK, Retry, Renew
<1>3. CASE Retry(t)
  <2>1. PICK a \in Nat : a = IF mem[t].why \in Resuming THEN mem[t].asked ELSE mem[t].n
    BY <1>1
  <2>2. PICK q : q = PutAsked(PutFinal(PutReviews(PutCycle(PutWhy(PutSt(mem[t], "pending"), "none"), 0), 0), "none"), a)
    OBVIOUS
  <2>3. mem' = [mem EXCEPT ![t] = q]
    <3>1. [mem[t] EXCEPT !.st = "pending", !.why = "none", !.cycle = 0, !.reviews = 0, !.final = "none",
                         !.asked = IF mem[t].why \in Resuming THEN mem[t].asked ELSE mem[t].n] = q
      BY <2>1, <2>2 DEF PutAsked, PutFinal, PutReviews, PutCycle, PutWhy, PutSt
    <3>2. mem' = [mem EXCEPT ![t] = [mem[t] EXCEPT !.st = "pending", !.why = "none", !.cycle = 0, !.reviews = 0,
                                  !.final = "none",
                                  !.asked = IF mem[t].why \in Resuming THEN mem[t].asked ELSE mem[t].n]]
      BY <1>3 DEF Retry
    <3> QED BY <3>1, <3>2
  <2>4. /\ q \in Record /\ q.st = "pending" /\ q.asked = a
        /\ q.n = mem[t].n /\ q.used = mem[t].used /\ q.limit = mem[t].limit /\ q.receipt = mem[t].receipt
    <3>1. PICK z \in Record :
            /\ z = PutAsked(PutFinal(PutReviews(PutCycle(PutWhy(PutSt(mem[t], "pending"), "none"), 0), 0), "none"), a)
            /\ z.st = "pending" /\ z.asked = a
            /\ z.n = mem[t].n /\ z.used = mem[t].used /\ z.limit = mem[t].limit /\ z.receipt = mem[t].receipt
      BY <1>1, RetriedRecord
    <3> QED BY <2>2, <3>1
  <2>5. /\ phase = "off" /\ InFlight = {} /\ disk' = mem' /\ job' = job
        /\ UNCHANGED <<conf, phase, awake, stop, accepted, receipts, late, rev, tally, round, pause, orphans>>
    BY <1>3 DEF Retry
  <2>6. Turn(t, q, job[t])
    BY <1>1, <2>3, <2>4, <2>5 DEF Turn
  <2>7. Repairs(t)
    BY <1>1, <2>1, <2>4, <2>5, <2>6 DEF Repairs
  <2>8. Aside
    BY <1>1, <1>2, <2>5 DEF Aside, TypeOK, Pauses
  <2> QED BY <2>5, <2>7, <2>8
<1>4. CASE Renew(t)
  <2>1. PICK extra \in {0, 1} : mem' = [mem EXCEPT ![t].limit = @ + extra]
    BY <1>4 DEF Renew
  <2>2. PICK k \in Nat : k = mem[t].limit + extra /\ k >= mem[t].limit
    BY <1>1
  <2>3. PICK q : q = PutLimit(mem[t], k)
    OBVIOUS
  <2>4. mem' = [mem EXCEPT ![t] = q]
    BY <2>1, <2>2, <2>3 DEF PutLimit
  <2>5. /\ q \in Record /\ q.st = mem[t].st /\ q.asked = mem[t].asked /\ q.limit = k
        /\ q.n = mem[t].n /\ q.used = mem[t].used /\ q.receipt = mem[t].receipt
    BY <1>1, <2>3, LedgerSetters
  <2>6. /\ phase = "off" /\ InFlight = {} /\ disk' = mem' /\ job' = job /\ late' \subseteq late
        /\ UNCHANGED <<conf, phase, awake, stop, accepted, receipts, rev, tally, round, pause, orphans>>
    BY <1>4 DEF Renew
  <2>7. Turn(t, q, job[t])
    BY <1>1, <2>4, <2>5, <2>6 DEF Turn
  <2>8. Repairs(t)
    BY <1>1, <2>2, <2>5, <2>6, <2>7 DEF Repairs
  <2>9. Aside
    BY <1>1, <1>2, <2>6 DEF Aside, TypeOK, Pauses
  <2> QED BY <2>6, <2>8, <2>9
<1> QED BY <1>3, <1>4

\* Both kinds of start, the quota continuation and the verification recovery.
LEMMA StartSteps ==
    ASSUME TypeOK, (\E quota \in BOOLEAN : Start(quota)) \/ (\E t \in Tasks : StartVerification(t))
    PROVE  /\ Opened /\ Aside
           /\ UNCHANGED <<conf, stop, accepted, late, rev, tally, round>>
           /\ \A u \in Tasks : pause'.of[u] \in {0, pause.of[u], mem[u].n}
<1>1. /\ \A u \in Tasks : mem[u] \in Record /\ Same(mem[u], mem[u]) /\ mem[u].n \in Nat
      /\ "pending" \in Sts /\ "interrupted" \in Whys /\ pause \in Pauses
  BY Numbers DEF TypeOK, Sts, Whys, Pauses
<1>2. \A u \in Tasks : /\ Same(Recovered(mem[u]), mem[u]) /\ Recovered(mem[u]).st \in {mem[u].st, "pending"}
                       /\ Recovered(mem[u]).st = "completed" <=> mem[u].st = "completed"
  <2> SUFFICES ASSUME NEW u \in Tasks
               PROVE  /\ Same(Recovered(mem[u]), mem[u]) /\ Recovered(mem[u]).st \in {mem[u].st, "pending"}
                      /\ Recovered(mem[u]).st = "completed" <=> mem[u].st = "completed"
    OBVIOUS
  <2>1. CASE mem[u].st = "running"
    <3>1. Recovered(mem[u]) = PutWhy(PutSt(mem[u], "pending"), "interrupted")
      BY <2>1 DEF Recovered, PutWhy, PutSt
    <3> QED BY <1>1, <2>1, <3>1, Worded
  <2>2. CASE mem[u].st # "running"
    <3>1. Recovered(mem[u]) = mem[u]
      BY <2>2 DEF Recovered
    <3> QED BY <1>1, <3>1
  <2> QED BY <2>1, <2>2
<1>3. NoPause \in Pauses /\ \A u \in Tasks : NoPause.of[u] = 0
  BY DEF NoPause, Pauses
<1>4. ASSUME NEW quota \in BOOLEAN, Start(quota)
      PROVE  /\ Opened /\ Aside
             /\ UNCHANGED <<conf, stop, accepted, late, rev, tally, round>>
             /\ \A u \in Tasks : pause'.of[u] \in {0, pause.of[u], mem[u].n}
  <2>1. PICK kept : kept = [t \in Tasks |-> Recovered(mem[t])]
    OBVIOUS
  <2>2. PICK claim : claim = [pause EXCEPT !.stage = IF quota THEN "claimed" ELSE @]
    OBVIOUS
  <2>3. claim \in Pauses /\ claim.of = pause.of
    BY <1>1, <2>2 DEF Pauses
  <2>4. phase = "off" /\ InFlight = {} /\ Opens(kept, claim) /\ incidents' \in 0 .. conf.faults
    BY <1>4, <2>1, <2>2 DEF Start, TypeOK, Opens
  <2>5. \A u \in Tasks : kept[u] = Recovered(mem[u])
    BY <2>1
  <2>6. kept = [u \in Tasks |-> kept[u]]
    BY <2>1
  <2>7. /\ Opened /\ Aside
        /\ UNCHANGED <<conf, stop, accepted, late, rev, tally, round>> /\ pause' \in {claim, NoPause}
    BY <1>2, <2>3, <2>4, <2>5, <2>6, OpenSteps
  <2> QED BY <1>3, <2>3, <2>7
<1>5. ASSUME NEW t \in Tasks, StartVerification(t)
      PROVE  /\ Opened /\ Aside
             /\ UNCHANGED <<conf, stop, accepted, late, rev, tally, round>>
             /\ \A u \in Tasks : pause'.of[u] \in {0, pause.of[u], mem[u].n}
  <2>1. PICK kept : kept = [u \in Tasks |-> IF u = t THEN [mem[t] EXCEPT !.st = "pending"] ELSE Recovered(mem[u])]
    OBVIOUS
  <2>2. PICK claim : claim = [stage |-> "claimed", of |-> [NoPause.of EXCEPT ![t] = mem[t].n], done |-> {t}]
    OBVIOUS
  <2>3. claim \in Pauses /\ \A u \in Tasks : claim.of[u] \in {0, mem[u].n}
    BY <1>1, <1>3, <2>2 DEF Pauses
  <2>4. phase = "off" /\ InFlight = {} /\ Opens(kept, claim) /\ mem[t].st = "failed" /\ incidents' \in 0 .. conf.faults
    BY <1>5, <2>1, <2>2, ConfTyped DEF StartVerification, TypeOK, Opens, Incident
  <2>5. \A u \in Tasks : kept[u] = IF u = t THEN PutSt(mem[t], "pending") ELSE Recovered(mem[u])
    BY <2>1 DEF PutSt
  <2>6. Same(PutSt(mem[t], "pending"), mem[t]) /\ PutSt(mem[t], "pending").st = "pending"
    BY <1>1, Setters
  <2>7. \A u \in Tasks : /\ Same(kept[u], mem[u]) /\ kept[u].st \in {mem[u].st, "pending"}
                         /\ kept[u].st = "completed" <=> mem[u].st = "completed"
    BY <1>2, <2>4, <2>5, <2>6
  <2>8. kept = [u \in Tasks |-> kept[u]]
    BY <2>1
  <2>9. /\ Opened /\ Aside
        /\ UNCHANGED <<conf, stop, accepted, late, rev, tally, round>> /\ pause' \in {claim, NoPause}
    BY <2>3, <2>4, <2>7, <2>8, OpenSteps
  <2> QED BY <1>3, <2>3, <2>9
<1> QED BY <1>4, <1>5

\* Steps of the loop and of the clock that leave records and places alone.
Calms ==
    /\ mem' = mem /\ disk' \in {disk, mem} /\ job' = job
    /\ \/ phase' = phase /\ \A u \in Tasks : rev'[u] # "no" => rev[u] # "no"
       \/ /\ phase = "tasks" /\ phase' = "final" /\ InFlight = {}
          /\ \A u \in Tasks : rev'[u] # "no" => mem[u].st = "completed"
       \/ phase = "final" /\ phase' = "tasks" /\ \A u \in Tasks : rev'[u] = "no"
LEMMA CalmSteps ==
    ASSUME TypeOK, \/ LoopWaits \/ FinalBegins \/ NextRound \/ Save
                   \/ \E t \in Tasks : FinalStarts(t) \/ Deadline(t)
    PROVE  Calms /\ Aside /\ UNCHANGED <<conf, stop, accepted, receipts, pause>>
<1>1. orphans \subseteq Orphan
  BY DEF TypeOK, Orphan
<1>2. CASE LoopWaits \/ Save
  <2>1. /\ UNCHANGED <<conf, phase, stop, mem, job, accepted, receipts, late, rev, tally, round, pause, orphans, incidents>>
        /\ disk' \in {disk, mem} /\ awake' \in {awake, "no"}
    BY <1>2 DEF LoopWaits, Save
  <2> QED BY <1>1, <2>1 DEF Calms, Aside, TypeOK, Pauses
<1>3. CASE FinalBegins
  <2>1. /\ phase = "tasks" /\ phase' = "final" /\ awake' = "no" /\ tally' = {} /\ InFlight = {}
        /\ rev' = [t \in Tasks |-> IF conf.final = "per-task" /\ conf.isolated /\ t \in Candidates THEN "todo" ELSE "no"]
        /\ UNCHANGED <<conf, stop, mem, disk, job, accepted, receipts, late, round, pause, orphans, incidents>>
    BY <1>3 DEF FinalBegins, Looping, Settled
  <2>2. \A u \in Tasks : rev'[u] # "no" => mem[u].st = "completed"
    BY <2>1 DEF Candidates
  <2>3. rev' \in [Tasks -> {"no", "todo", "busy"}]
    BY <2>1
  <2> QED BY <1>1, <2>1, <2>2, <2>3 DEF Calms, Aside, TypeOK, Pauses
<1>4. CASE NextRound
  <2>1. /\ phase = "final" /\ phase' = "tasks" /\ awake' = "top" /\ tally' = {} /\ round' = round + 1
        /\ rev' = [t \in Tasks |-> "no"]
        /\ UNCHANGED <<conf, stop, mem, disk, job, accepted, receipts, late, pause, orphans, incidents>>
    BY <1>4 DEF NextRound, FinalOver
  <2> QED BY <1>1, <2>1 DEF Calms, Aside, TypeOK, Pauses
<1>5. ASSUME NEW t \in Tasks, FinalStarts(t)
      PROVE  Calms /\ Aside /\ UNCHANGED <<conf, stop, accepted, receipts, pause>>
  <2>1. /\ rev[t] = "todo" /\ rev' = [rev EXCEPT ![t] = "busy"]
        /\ UNCHANGED <<conf, phase, awake, stop, mem, disk, job, accepted, receipts, late, tally, round, pause, orphans, incidents>>
    BY <1>5 DEF FinalStarts
  <2> QED BY <1>1, <2>1 DEF Calms, Aside, TypeOK, Pauses
<1>6. ASSUME NEW t \in Tasks, Deadline(t)
      PROVE  Calms /\ Aside /\ UNCHANGED <<conf, stop, accepted, receipts, pause>>
  <2>1. /\ late' = late \cup {t} /\ Incident
        /\ UNCHANGED <<conf, phase, awake, stop, mem, disk, job, accepted, receipts, rev, tally, round, pause, orphans>>
    BY <1>6 DEF Deadline
  <2>2. incidents' \in 0 .. conf.faults
    BY <2>1, ConfTyped DEF Incident, TypeOK
  <2> QED BY <1>1, <2>1, <2>2 DEF Calms, Aside, TypeOK, Pauses
<1> QED BY <1>2, <1>3, <1>4, <1>5, <1>6

\* The end of a run saves everything; only the deadline of the whole run ends
\* it with tasks in flight.
Closes ==
    /\ mem' = mem /\ disk' = mem /\ job' = job /\ phase' = "off" /\ stop' = "no"
    /\ conf.wall \/ InFlight = {} \/ phase = "final"
    /\ \A u \in Tasks : rev'[u] = "no" /\ pause'.of[u] \in {0, pause.of[u]}
LEMMA CloseSteps ==
    ASSUME TypeOK, EndRun \/ WallClock \/ FinalEnds
    PROVE  Closes /\ Aside /\ UNCHANGED <<conf, accepted, receipts>>
<1>1. /\ UNCHANGED <<conf, job, accepted, receipts, late, orphans>> /\ pause' = Closed(pause)
      /\ phase' = "off" /\ awake' = "no" /\ stop' = "no"
      /\ rev' = [t \in Tasks |-> "no"] /\ tally' = {} /\ round' = 0 /\ disk' = mem /\ mem' = mem
  BY DEF EndRun, WallClock, FinalEnds, Over
<1>2. conf.wall \/ InFlight = {} \/ phase = "final"
  BY DEF EndRun, WallClock, FinalEnds, Settled, FinalOver
<1>3. incidents' \in 0 .. conf.faults
  BY ConfTyped DEF EndRun, WallClock, FinalEnds, Incident, TypeOK
<1>4. pause' \in Pauses /\ \A u \in Tasks : pause'.of[u] \in {0, pause.of[u]}
  <2>1. pause \in Pauses /\ NoPause \in Pauses /\ \A u \in Tasks : NoPause.of[u] = 0
    BY DEF TypeOK, NoPause, Pauses
  <2>2. PICK of : of = [t \in Tasks |-> IF mem[t].st = "completed" THEN 0 ELSE pause.of[t]]
    OBVIOUS
  <2>3. of \in [Tasks -> Nat] /\ \A u \in Tasks : of[u] \in {0, pause.of[u]}
    BY <2>1, <2>2 DEF Pauses
  <2>4. PICK p1 : p1 = [pause EXCEPT !.stage = "stopped"]
    OBVIOUS
  <2>5. p1 \in Pauses
    BY <2>1, <2>4 DEF Pauses
  <2>6. PICK p2 : p2 = [p1 EXCEPT !.of = of]
    OBVIOUS
  <2>7. p2 \in Pauses /\ p2.of = of
    BY <2>3, <2>5, <2>6 DEF Pauses
  <2>8. pause' = p2 \/ pause' = pause \/ pause' = NoPause
    BY <1>1, <2>2, <2>4, <2>6 DEF Closed
  <2> QED BY <2>1, <2>3, <2>7, <2>8
<1>5. Closes
  BY <1>1, <1>2, <1>4 DEF Closes
<1>6. Aside
  BY <1>1, <1>3, <1>4 DEF Aside, TypeOK, Orphan
<1> QED BY <1>1, <1>5, <1>6

\* A stop saves everything and signals every agent.
Signals ==
    /\ mem' = mem /\ disk' = mem /\ job' \in [Tasks -> Place] /\ phase # "off" /\ ~Busy /\ stop = "no" /\ stop' = "grace"
    /\ \A u \in Tasks : /\ job'[u].pc = job[u].pc /\ job'[u].base = job[u].base
                        /\ (job'[u].hit <=> job[u].pc \in Live)
                        /\ pause'.of[u] \in {0, pause.of[u], mem[u].n}
LEMMA StopSteps ==
    ASSUME TypeOK, \E quota \in BOOLEAN : Stop(quota)
    PROVE  Signals /\ Aside /\ UNCHANGED <<conf, phase, accepted, receipts, rev>>
<1>1. PICK quota \in BOOLEAN : Stop(quota)
  OBVIOUS
<1>2. /\ phase # "off" /\ ~Busy /\ stop = "no" /\ stop' = "grace" /\ Incident
      /\ job' = [t \in Tasks |-> Hit(t)] /\ disk' = mem
      /\ pause' = IF ~quota THEN pause
                  ELSE [stage |-> "captured", of |-> [t \in Tasks |-> IF mem[t].st = "running" THEN mem[t].n ELSE 0],
                        done |-> {t \in Tasks : job[t].pc = "review"}]
      /\ UNCHANGED <<conf, phase, awake, mem, accepted, receipts, late, rev, tally, round, orphans>>
  BY <1>1 DEF Stop
<1>3. incidents' \in 0 .. conf.faults
  BY <1>2, ConfTyped DEF Incident, TypeOK
<1>4. \A u \in Tasks : mem[u].n \in Nat
  BY Numbers DEF TypeOK
<1>5. pause' \in Pauses /\ \A u \in Tasks : pause'.of[u] \in {0, pause.of[u], mem[u].n}
  <2>1. CASE ~quota
    BY <1>2, <2>1 DEF TypeOK, Pauses
  <2>2. CASE quota
    <3>1. PICK of : of = [t \in Tasks |-> IF mem[t].st = "running" THEN mem[t].n ELSE 0]
      OBVIOUS
    <3>2. of \in [Tasks -> Nat] /\ \A u \in Tasks : of[u] \in {0, mem[u].n}
      BY <1>4, <3>1
    <3>3. PICK done \in SUBSET Tasks : done = {t \in Tasks : job[t].pc = "review"}
      OBVIOUS
    <3>4. pause' = [stage |-> "captured", of |-> of, done |-> done]
      BY <1>2, <2>2, <3>1, <3>3
    <3> QED BY <3>2, <3>4 DEF Pauses
  <2> QED BY <2>1, <2>2
<1>6. /\ job' \in [Tasks -> Place]
      /\ \A u \in Tasks : /\ job'[u].pc = job[u].pc /\ job'[u].base = job[u].base
                          /\ (job'[u].hit <=> job[u].pc \in Live)
  <2>1. \A u \in Tasks : job'[u] = Hit(u)
    BY <1>2
  <2> QED BY <1>2, <2>1, Places
<1>7. Signals
  BY <1>2, <1>5, <1>6 DEF Signals
<1>8. Aside
  BY <1>2, <1>3, <1>5 DEF Aside, TypeOK, Orphan
<1> QED BY <1>2, <1>7, <1>8

\* A crash keeps what was saved.
Falls ==
    /\ mem' = disk /\ disk' = disk /\ job' = [t \in Tasks |-> Idle] /\ phase' = "off" /\ stop' = "no"
    /\ \A u \in Tasks : rev'[u] = "no" /\ pause'.of[u] \in {0, pause.of[u]}
LEMMA CrashSteps ==
    ASSUME TypeOK, Crash
    PROVE  Falls /\ Aside /\ UNCHANGED <<conf, accepted, receipts>>
<1>1. /\ mem' = disk /\ disk' = disk /\ job' = [t \in Tasks |-> Idle]
      /\ phase' = "off" /\ awake' = "no" /\ stop' = "no"
      /\ rev' = [t \in Tasks |-> "no"] /\ tally' = {} /\ round' = 0
      /\ pause' = IF pause.stage = "stopped" THEN pause ELSE NoPause
      /\ orphans' = orphans \cup AgentsOf(Running \cup {t \in Tasks : rev[t] = "busy"}, "crash")
      /\ Incident /\ UNCHANGED <<conf, accepted, receipts, late>>
  BY DEF Crash
<1>2. incidents' \in 0 .. conf.faults
  BY <1>1, ConfTyped DEF Incident, TypeOK
<1>3. pause \in Pauses /\ NoPause \in Pauses /\ \A u \in Tasks : NoPause.of[u] = 0
  BY DEF TypeOK, NoPause, Pauses
<1>4. Running \cup {t \in Tasks : rev[t] = "busy"} \subseteq Tasks /\ orphans \subseteq Orphan
  BY DEF Running, TypeOK, Orphan
<1>5. orphans' \subseteq Orphan
  BY <1>1, <1>4, AgentsTyped
<1>6. Falls
  BY <1>1, <1>3 DEF Falls
<1>7. Aside
  BY <1>1, <1>2, <1>3, <1>5 DEF Aside, TypeOK
<1> QED BY <1>1, <1>6, <1>7

-----------------------------------------------------------------------------
(* Every step is one of these *)

\* What the steps of one task come to.
Change(t) ==
    \/ (Rest(t) \/ Move(t) \/ Shelve(t) \/ Dispatched(t)) /\ UNCHANGED Shared
    \/ Finishes(t) /\ UNCHANGED <<conf, phase, stop, receipts, late, rev, tally, round, pause>>
    \/ Intends(t) /\ UNCHANGED <<conf, phase, stop, accepted, late, rev, tally, round, pause>>
    \/ Publishes(t) /\ UNCHANGED <<conf, phase, stop, receipts, late, rev, tally, round, pause>>
    \/ Loses(t) /\ UNCHANGED <<conf, phase, accepted, receipts, late, rev, tally, round, pause>>
    \/ Judges(t) /\ UNCHANGED <<conf, phase, stop, accepted, receipts, late, round, pause>>
    \/ Repairs(t) /\ UNCHANGED <<conf, phase, stop, accepted, receipts, rev, tally, round, pause>>
\* What the steps of the run come to.
RunChange ==
    \/ Skips /\ UNCHANGED Shared
    \/ Calms /\ UNCHANGED <<conf, stop, accepted, receipts, pause>>
    \/ Closes /\ UNCHANGED <<conf, accepted, receipts>>
    \/ Settles /\ UNCHANGED <<conf, phase, accepted, receipts, late, rev, tally, round, pause>>
    \/ Signals /\ UNCHANGED <<conf, phase, accepted, receipts, rev>>
    \/ Falls /\ UNCHANGED <<conf, accepted, receipts>>
    \/ /\ Opened /\ UNCHANGED <<conf, stop, accepted, late, rev, tally, round>>
       /\ \A u \in Tasks : pause'.of[u] \in {0, pause.of[u], mem[u].n}

\* Every step changes one task or the run, and keeps the other types.
LEMMA EveryStep ==
    ASSUME TypeOK, Next
    PROVE  Aside /\ ((\E t \in Tasks : Change(t)) \/ RunChange)
<1>1. CASE LoopStep \/ ForceSettle \/ Save \/ Crash \/ WallClock
  <2>1. CASE PolicySkip
    BY <2>1, SkipSteps DEF RunChange
  <2>2. CASE LoopWaits \/ FinalBegins \/ NextRound \/ Save
    BY <2>2, CalmSteps DEF RunChange
  <2>3. CASE EndRun \/ FinalEnds \/ WallClock
    BY <2>3, CloseSteps DEF RunChange
  <2>4. CASE ForceSettle
    BY <2>4, ForceSteps DEF RunChange
  <2>5. CASE Crash
    BY <2>5, CrashSteps DEF RunChange
  <2> QED BY <1>1, <2>1, <2>2, <2>3, <2>4, <2>5 DEF LoopStep
<1>2. CASE \E quota \in BOOLEAN : Start(quota)
  BY <1>2, StartSteps DEF RunChange
<1>3. CASE \E quota \in BOOLEAN : Stop(quota)
  BY <1>3, StopSteps DEF RunChange
<1>4. ASSUME NEW t \in Tasks, TaskStep(t) \/ Fault(t) \/ Operator(t)
      PROVE  Aside /\ (Change(t) \/ RunChange)
  <2>1. CASE \/ PhaseFails(t) \/ ReviewRejects(t) \/ ReviewErrs(t) \/ BackoffEnds(t)
             \/ Conflict(t) \/ LandStale(t) \/ GateRejects(t)
    BY <2>1, RestSteps DEF Change
  <2>2. CASE PrepareEnds(t) \/ PlanEnds(t) \/ WorkEnds(t) \/ PhaseAgain(t) \/ ReviewPasses(t)
    BY <2>2, MoveSteps DEF Change
  <2>3. CASE LaunchRefused(t) \/ ChargeLost(t) \/ WorktreeFails(t)
    BY <2>3, ShelveSteps DEF Change
  <2>4. CASE Launch(t) \/ Continue(t)
    BY <2>4, DispatchSteps DEF Change
  <2>5. CASE LandNothing(t) \/ LandClassic(t) \/ CompleteLean(t)
    BY <2>5, FinishSteps DEF Change
  <2>6. CASE LandIntent(t)
    BY <2>6, IntentSteps DEF Change
  <2>7. CASE Publish(t)
    BY <2>7, PublishSteps DEF Change
  <2>8. CASE CompletionLost(t)
    BY <2>8, LostSteps DEF Change
  <2>9. CASE FinalJudges(t)
    BY <2>9, JudgeSteps DEF Change
  <2>10. CASE FinalStarts(t) \/ Deadline(t)
    BY <2>10, CalmSteps DEF RunChange
  <2>11. CASE Retry(t) \/ Renew(t)
    BY <2>11, RepairSteps DEF Change
  <2>12. CASE StartVerification(t)
    BY <2>12, StartSteps DEF RunChange
  <2> QED BY <1>4, <2>1, <2>2, <2>3, <2>4, <2>5, <2>6, <2>7, <2>8, <2>9, <2>10, <2>11, <2>12
        DEF TaskStep, Fault, Operator
<1> QED BY <1>1, <1>2, <1>3, <1>4 DEF Next

\* Every step keeps the types.
LEMMA TypeNext == ASSUME TypeOK, [Next]_vars PROVE TypeOK'
<1>1. CASE UNCHANGED vars
  BY <1>1 DEF TypeOK, vars
<1>2. CASE Next
  <2>1. Aside /\ ((\E t \in Tasks : Change(t)) \/ RunChange)
    BY <1>2, EveryStep
  <2>2. mem \in [Tasks -> Record] /\ disk \in [Tasks -> Record] /\ job \in [Tasks -> Place]
    BY DEF TypeOK
  <2>3. ASSUME NEW t \in Tasks, Change(t)
        PROVE  mem' \in [Tasks -> Record] /\ disk' \in [Tasks -> Record] /\ job' \in [Tasks -> Place]
    <3>1. CASE \E q, p : Turn(t, q, p)
      BY <3>1, TurnTyped
    <3>2. CASE Loses(t)
      BY <2>2, <3>2 DEF Loses
    <3>3. CASE Rest(t) \/ Move(t) \/ Shelve(t) \/ Dispatched(t)
      BY <3>1, <3>3 DEF Rest, Move, Shelve, Dispatched
    <3>4. CASE Finishes(t) \/ Intends(t) \/ Publishes(t)
      BY <3>1, <3>4 DEF Finishes, Intends, Publishes
    <3>5. CASE Judges(t) \/ Repairs(t)
      BY <3>1, <3>5 DEF Judges, Repairs
    <3> QED BY <2>3, <3>2, <3>3, <3>4, <3>5 DEF Change
  <2>4. ASSUME RunChange
        PROVE  mem' \in [Tasks -> Record] /\ disk' \in [Tasks -> Record] /\ job' \in [Tasks -> Place]
    <3>1. [t \in Tasks |-> Idle] \in [Tasks -> Place]
      BY DEF Idle, Place
    <3>2. CASE Skips \/ Calms \/ Closes
      BY <2>2, <3>2 DEF Skips, Calms, Closes
    <3>3. CASE Settles \/ Signals \/ Falls
      BY <2>2, <3>1, <3>3 DEF Settles, Signals, Falls
    <3>4. CASE Opened
      BY <2>2, <3>4 DEF Opened
    <3> QED BY <2>4, <3>2, <3>3, <3>4 DEF RunChange
  <2> QED BY <2>1, <2>3, <2>4, AsideTyped
<1> QED BY <1>1, <1>2

\* Every variable of the runner keeps its type, in every run.
THEOREM TypeCorrect == Spec => []TypeOK
<1>1. Init => TypeOK
  BY TypeInit
<1>2. TypeOK /\ [Next]_vars => TypeOK'
  BY TypeNext
<1> QED BY <1>1, <1>2, PTL DEF Spec

-----------------------------------------------------------------------------
(* The invariant *)

\* Where a task can be: work in flight has an attempt and runs, the final
\* review looks at completed tasks of an idle runner, the file is behind the
\* runner, and a pause names attempts that were saved.
Home(t) ==
    /\ job[t].pc # "idle" => mem[t].n >= 1
    /\ job[t].pc \in Live \cup Sync => mem[t].st = "running"
    /\ phase = "final" => job[t].pc = "idle"
    /\ phase = "off" /\ ~conf.wall => job[t].pc = "idle"
    /\ rev[t] # "no" => mem[t].st = "completed" /\ phase = "final"
    /\ disk[t].n <= mem[t].n /\ pause.of[t] <= disk[t].n

\* What is completed landed, in the file too, and so did what a worker needs.
LandedBy(t, n) == \E k \in 1 .. n : <<t, k>> \in accepted
Landing(t) ==
    conf.isolated /\ ~conf.wall =>
        /\ mem[t].st = "completed" => LandedBy(t, mem[t].n)
        /\ disk[t].st = "completed" => LandedBy(t, disk[t].n)
        /\ job[t].pc = "published" => <<t, mem[t].n>> \in accepted
        /\ job[t].pc # "idle" => \A d \in conf.deps[t] : \E p \in job[t].base : p[1] = d

\* The saved ledger has every attempt of a task that did not fail.
Charged(t) ==
    conf.lean =>
        /\ mem[t].used <= mem[t].limit /\ disk[t].used <= disk[t].limit
        /\ mem[t].st = "failed" \/ (disk[t].used = mem[t].used /\ disk[t].n = mem[t].n)

\* After a stop no agent is alive that was not signalled, but behind a prepare
\* command; and one task at most is between two awaits.
Held(t) ==
    /\ job[t].pc = "prepare" => t \in conf.prepared
    /\ stop # "no" /\ (job[t].pc = "verify" \/ (job[t].pc \in Live /\ ~job[t].hit)) => t \in conf.prepared
    /\ job[t].pc \in Sync => \A u \in Tasks : job[u].pc \in Sync => t = u

Sound == \A t \in Tasks : Home(t) /\ Landing(t) /\ Charged(t)
Killed == \A t \in Tasks : Held(t)

\* The numbers of a task.
LEMMA Figures ==
    ASSUME TypeOK, NEW t \in Tasks
    PROVE  /\ mem[t].n \in Nat /\ mem[t].used \in Nat /\ mem[t].limit \in Nat
           /\ disk[t].n \in Nat /\ disk[t].used \in Nat /\ disk[t].limit \in Nat
           /\ pause.of[t] \in Nat /\ rev[t] \in {"no", "todo", "busy"}
           /\ conf.deps[t] \subseteq Tasks /\ accepted \subseteq Tasks \X Nat
<1>1. mem[t] \in Record /\ disk[t] \in Record /\ pause \in Pauses
  BY DEF TypeOK, Pauses
<1> QED BY <1>1, Numbers, ConfTyped DEF Pauses, TypeOK

\* The first state is sound.
LEMMA SoundInit == Init => Sound
<1> SUFFICES ASSUME Init, NEW t \in Tasks PROVE Home(t) /\ Landing(t) /\ Charged(t)
  BY DEF Sound
<1>1. TypeOK /\ conf.attempts \in Nat
  BY TypeInit, ConfTyped
<1>2. mem[t] = Fresh /\ disk[t] = Fresh /\ job[t] = Idle /\ rev[t] = "no" /\ pause.of[t] = 0
  BY DEF Init, NoPause
<1>3. Fresh.st = "pending" /\ Fresh.n = 0 /\ Fresh.used = 0 /\ Fresh.limit = conf.attempts /\ Idle.pc = "idle"
  BY DEF Fresh, Idle
<1>4. Home(t)
  BY <1>2, <1>3 DEF Home, Live, Sync
<1>5. Landing(t)
  BY <1>2, <1>3 DEF Landing
<1>6. Charged(t)
  BY <1>1, <1>2, <1>3 DEF Charged
<1> QED BY <1>4, <1>5, <1>6

\* A task keeps its record and its place, and may be saved.
Stays(u) == /\ mem'[u] = mem[u] /\ disk'[u] \in {disk[u], mem[u]}
            /\ job'[u].pc = job[u].pc /\ job'[u].base = job[u].base

\* A task that stays as it was in a phase that goes on is as sound as before.
LEMMA StaysSound ==
    ASSUME TypeOK, NEW u \in Tasks, Home(u), Landing(u), Charged(u), Stays(u),
           conf' = conf, phase' = phase, accepted \subseteq accepted',
           rev'[u] \in {rev[u], "no"}, pause'.of[u] \in {0, pause.of[u]}
    PROVE  Home(u)' /\ Landing(u)' /\ Charged(u)'
<1>1. /\ mem[u].n \in Nat /\ disk[u].n \in Nat /\ mem[u].used \in Nat /\ mem[u].limit \in Nat
      /\ disk[u].used \in Nat /\ disk[u].limit \in Nat /\ pause.of[u] \in Nat
  BY Figures
<1>2. Home(u)'
  BY <1>1 DEF Home, Stays
<1>3. Landing(u)'
  BY DEF Landing, Stays, LandedBy
<1>4. Charged(u)'
  BY <1>1 DEF Charged, Stays
<1> QED BY <1>2, <1>3, <1>4

\* An attempt that is given up is as sound as it was.
LEMMA RestSound ==
    ASSUME TypeOK, NEW t \in Tasks, Home(t), Landing(t), Charged(t), Rest(t), UNCHANGED Shared
    PROVE  Home(t)' /\ Landing(t)' /\ Charged(t)'
<1>1. PICK q, p :
        /\ Turn(t, q, p) /\ disk' = disk /\ job[t].pc # "idle"
        /\ Same(q, mem[t])
        /\ q = mem[t] \/ (job[t].pc \in (Live \cup Sync) \ {"published"} /\ q.st \in {"pending", "failed"})
        /\ p.pc \in {"idle", "backoff"} /\ (p.pc = "backoff" => p.base = job[t].base)
  BY DEF Rest
<1>2. mem'[t] = q /\ job'[t] = p /\ disk'[t] = disk[t]
  BY <1>1, TurnTyped
<1>3. q.n = mem[t].n /\ q.used = mem[t].used /\ q.limit = mem[t].limit
  BY <1>1 DEF Same
<1>4. phase' = phase /\ conf' = conf /\ rev' = rev /\ pause' = pause /\ accepted' = accepted
  BY DEF Shared
<1>5. Home(t)'
  BY <1>1, <1>2, <1>3, <1>4, Figures DEF Home, Live, Sync
<1>6. Landing(t)'
  BY <1>1, <1>2, <1>3, <1>4 DEF Landing, LandedBy
<1>7. Charged(t)'
  BY <1>1, <1>2, <1>3, <1>4, Figures DEF Charged, Home, Live, Sync
<1> QED BY <1>5, <1>6, <1>7

\* So is an attempt that goes on with its next phase.
LEMMA MoveSound ==
    ASSUME TypeOK, NEW t \in Tasks, Home(t), Landing(t), Charged(t), Move(t), UNCHANGED Shared
    PROVE  Home(t)' /\ Landing(t)' /\ Charged(t)'
<1>1. PICK q, p :
        /\ Turn(t, q, p)
        /\ job[t].pc \in Live \cup {"verify"} /\ p.pc \in Live \cup {"verify", "land"}
        /\ Same(q, mem[t]) /\ q.st = mem[t].st /\ p.base = job[t].base
  BY DEF Move
<1>2. mem'[t] = q /\ job'[t] = p /\ disk'[t] \in {disk[t], q}
  BY <1>1, TurnTyped
<1>3. q.n = mem[t].n /\ q.used = mem[t].used /\ q.limit = mem[t].limit
  BY <1>1 DEF Same
<1>4. phase' = phase /\ conf' = conf /\ rev' = rev /\ pause' = pause /\ accepted' = accepted
  BY DEF Shared
<1>5. job[t].pc # "idle" /\ p.pc # "published" /\ mem[t].st = "running"
  BY <1>1 DEF Live, Sync, Home
<1>6. Home(t)'
  BY <1>1, <1>2, <1>3, <1>4, <1>5, Figures DEF Home
<1>7. Landing(t)'
  BY <1>1, <1>2, <1>3, <1>4, <1>5 DEF Landing, LandedBy
<1>8. Charged(t)'
  BY <1>1, <1>2, <1>3, <1>4, <1>5, Figures DEF Charged
<1> QED BY <1>6, <1>7, <1>8

\* A launch that comes to nothing fails its task and charges what was begun.
LEMMA ShelveSound ==
    ASSUME TypeOK, NEW t \in Tasks, Home(t), Landing(t), Charged(t), Shelve(t), UNCHANGED Shared
    PROVE  Home(t)' /\ Landing(t)' /\ Charged(t)'
<1>1. PICK q :
        /\ Turn(t, q, job[t]) /\ Ready(t) /\ phase = "tasks"
        /\ q.st = "failed" /\ q.limit = mem[t].limit
        /\ \/ q.n = mem[t].n /\ q.used = mem[t].used
           \/ /\ q.n = mem[t].n + 1
              /\ conf.lean => q.used = mem[t].used + 1 /\ mem[t].used < mem[t].limit
  BY DEF Shelve
<1>2. mem'[t] = q /\ job'[t] = job[t] /\ disk'[t] \in {disk[t], q}
  BY <1>1, TurnTyped
<1>3. phase' = phase /\ conf' = conf /\ rev' = rev /\ pause' = pause /\ accepted' = accepted
  BY DEF Shared
<1>4. job[t].pc = "idle" /\ mem[t].st = "pending"
  BY <1>1 DEF Ready, InFlight
<1>5. Home(t)'
  BY <1>1, <1>2, <1>3, <1>4, Figures DEF Home, Live, Sync
<1>6. Landing(t)'
  BY <1>1, <1>2, <1>3, <1>4 DEF Landing, LandedBy
<1>7. Charged(t)'
  BY <1>1, <1>2, <1>3, <1>4, Figures DEF Charged
<1> QED BY <1>5, <1>6, <1>7

\* A worker is sent when what its task depends on has landed; its attempt is
\* charged and saved, or is the saved one that a pause interrupted.
LEMMA DispatchSound ==
    ASSUME TypeOK, NEW t \in Tasks, Sound, Dispatched(t), UNCHANGED Shared
    PROVE  Home(t)' /\ Landing(t)' /\ Charged(t)'
<1>1. PICK q, p :
        /\ Turn(t, q, p) /\ Ready(t) /\ phase = "tasks"
        /\ q.st = "running" /\ q.limit = mem[t].limit
        /\ p.base = accepted /\ p.pc \in Live \cup {"verify"}
        /\ \/ /\ q.n = mem[t].n + 1
              /\ conf.lean => disk' = mem' /\ q.used = mem[t].used + 1 /\ mem[t].used < mem[t].limit
           \/ /\ Same(q, mem[t]) /\ disk' = disk
              /\ pause.of[t] # 0
  BY DEF Dispatched
<1>2. mem'[t] = q /\ job'[t] = p /\ disk'[t] \in {disk[t], q} /\ (disk' = mem' => disk'[t] = q)
  BY <1>1, TurnTyped
<1>3. phase' = phase /\ conf' = conf /\ rev' = rev /\ pause' = pause /\ accepted' = accepted
  BY DEF Shared
<1>4. job[t].pc = "idle" /\ mem[t].st = "pending" /\ \A d \in conf.deps[t] : mem[d].st = "completed"
  BY <1>1 DEF Ready, InFlight
<1>5. Home(t) /\ Landing(t) /\ Charged(t)
  BY DEF Sound
<1>6. p.pc \notin {"idle", "published"}
  BY <1>1 DEF Live
<1>7. Same(q, mem[t]) => q.n = mem[t].n /\ q.used = mem[t].used
  BY DEF Same
<1>8. Home(t)'
  BY <1>1, <1>2, <1>3, <1>4, <1>5, <1>7, Figures DEF Home
<1>9. conf.isolated /\ ~conf.wall => \A d \in conf.deps[t] : \E r \in accepted : r[1] = d
  <2> SUFFICES ASSUME conf.isolated, ~conf.wall, NEW d \in conf.deps[t] PROVE \E r \in accepted : r[1] = d
    OBVIOUS
  <2>1. d \in Tasks
    BY Figures
  <2>2. LandedBy(d, mem[d].n)
    BY <1>4, <2>1 DEF Sound, Landing
  <2>3. PICK k \in 1 .. mem[d].n : <<d, k>> \in accepted
    BY <2>2 DEF LandedBy
  <2> QED BY <2>3
<1>10. Landing(t)'
  BY <1>1, <1>2, <1>3, <1>4, <1>5, <1>6, <1>9 DEF Landing, LandedBy
<1>11. Charged(t)'
  BY <1>1, <1>2, <1>3, <1>4, <1>5, <1>7, Figures DEF Charged
<1> QED BY <1>8, <1>10, <1>11

\* A landing completes its task by what it merged, or by what was published.
LEMMA FinishSound ==
    ASSUME TypeOK, NEW t \in Tasks, Home(t), Landing(t), Charged(t), Finishes(t),
           UNCHANGED <<conf, phase, rev, pause>>
    PROVE  Home(t)' /\ Landing(t)' /\ Charged(t)'
<1>1. PICK q :
        /\ Turn(t, q, Idle) /\ job[t].pc \in {"land", "published"}
        /\ q.st = "completed" /\ Same(q, mem[t])
        /\ accepted' \in {accepted, accepted \cup {<<t, mem[t].n>>}}
        /\ \/ ~conf.isolated \/ phase = "off" \/ job[t].pc = "published"
           \/ <<t, mem[t].n>> \in accepted' /\ conf.isolated /\ ~conf.lean
  BY DEF Finishes
<1>2. mem'[t] = q /\ job'[t] = Idle /\ disk'[t] \in {disk[t], q} /\ Idle.pc = "idle"
  BY <1>1, TurnTyped, Places
<1>3. q.n = mem[t].n /\ q.used = mem[t].used /\ q.limit = mem[t].limit
  BY <1>1 DEF Same
<1>4. job[t].pc # "idle" /\ mem[t].st = "running" /\ mem[t].n >= 1
  BY <1>1 DEF Live, Sync, Home
<1>5. Home(t)'
  BY <1>1, <1>2, <1>3, <1>4, Figures DEF Home, Live, Sync
<1>6. ASSUME conf.isolated, ~conf.wall PROVE \E k \in 1 .. mem[t].n : <<t, k>> \in accepted'
  <2>1. mem[t].n \in 1 .. mem[t].n
    BY <1>4, Figures
  <2>2. phase # "off"
    BY <1>4, <1>6 DEF Home
  <2>3. <<t, mem[t].n>> \in accepted'
    BY <1>1, <1>6, <2>2 DEF Landing
  <2> QED BY <2>1, <2>3
<1>7. Landing(t)'
  BY <1>1, <1>2, <1>3, <1>4, <1>6 DEF Landing, LandedBy
<1>8. Charged(t)'
  BY <1>1, <1>2, <1>3, <1>4, Figures DEF Charged
<1> QED BY <1>5, <1>7, <1>8

\* The intent is saved with the ledger, and update-ref merges the attempt.
LEMMA PublishSound ==
    ASSUME TypeOK, NEW t \in Tasks, Home(t), Landing(t), Charged(t), Intends(t) \/ Publishes(t),
           UNCHANGED <<conf, phase, rev, pause>>, accepted \subseteq accepted'
    PROVE  Home(t)' /\ Landing(t)' /\ Charged(t)'
<1>1. PICK q, p :
        /\ Turn(t, q, p) /\ job[t].pc \in {"land", "intent"} /\ p.pc \in {"intent", "published"}
        /\ p.base = job[t].base
        /\ q.st = mem[t].st /\ q.n = mem[t].n /\ q.used = mem[t].used /\ q.limit = mem[t].limit
        /\ p.pc = "published" => <<t, mem[t].n>> \in accepted'
  <2>1. CASE Intends(t)
    BY <2>1 DEF Intends
  <2>2. CASE Publishes(t)
    BY <2>2 DEF Publishes
  <2> QED BY <2>1, <2>2
<1>2. mem'[t] = q /\ job'[t] = p /\ disk'[t] \in {disk[t], q}
  BY <1>1, TurnTyped
<1>3. job[t].pc # "idle" /\ mem[t].st = "running" /\ p.pc # "idle"
  BY <1>1 DEF Live, Sync, Home
<1>4. Home(t)'
  BY <1>1, <1>2, <1>3, Figures DEF Home
<1>5. Landing(t)'
  BY <1>1, <1>2, <1>3 DEF Landing, LandedBy
<1>6. Charged(t)'
  BY <1>1, <1>2, <1>3, Figures DEF Charged
<1> QED BY <1>4, <1>5, <1>6

\* The attempt whose completion was lost waits, and is in the branch.
LEMMA LostSound ==
    ASSUME TypeOK, NEW t \in Tasks, Home(t), Landing(t), Charged(t), Loses(t),
           UNCHANGED <<conf, phase, accepted, rev, pause>>
    PROVE  Home(t)' /\ Landing(t)' /\ Charged(t)'
<1>1. /\ disk' = disk /\ job[t].pc = "published"
      /\ Same(mem'[t], mem[t]) /\ mem'[t].st = "pending" /\ job'[t].pc = "idle"
  BY DEF Loses
<1>2. mem'[t].n = mem[t].n /\ mem'[t].used = mem[t].used /\ mem'[t].limit = mem[t].limit
  BY <1>1 DEF Same
<1>3. job[t].pc # "idle" /\ mem[t].st = "running"
  BY <1>1 DEF Live, Sync, Home
<1>4. Home(t)'
  BY <1>1, <1>2, <1>3, Figures DEF Home, Live, Sync
<1>5. Landing(t)'
  BY <1>1, <1>2, <1>3 DEF Landing, LandedBy
<1>6. Charged(t)'
  BY <1>1, <1>2, <1>3, Figures DEF Charged
<1> QED BY <1>4, <1>5, <1>6

\* A verdict on a completed task of an idle runner.
LEMMA JudgeSound ==
    ASSUME TypeOK, NEW t \in Tasks, Home(t), Landing(t), Charged(t), Judges(t),
           UNCHANGED <<conf, phase, accepted, pause>>
    PROVE  Home(t)' /\ Landing(t)' /\ Charged(t)'
<1>1. PICK q :
        /\ Turn(t, q, job[t]) /\ disk' = disk /\ phase = "final" /\ rev[t] = "busy"
        /\ rev' = [rev EXCEPT ![t] = "no"]
        /\ q.n = mem[t].n /\ q.used = mem[t].used /\ q.limit = mem[t].limit
        /\ q.st \in {mem[t].st, "failed", "pending"}
  BY DEF Judges
<1>2. mem'[t] = q /\ job'[t] = job[t] /\ disk'[t] = disk[t] /\ rev'[t] = "no"
  BY <1>1, TurnTyped DEF TypeOK
<1>3. job[t].pc = "idle" /\ mem[t].st = "completed"
  BY <1>1 DEF Home
<1>4. Home(t)'
  BY <1>1, <1>2, <1>3, Figures DEF Home, Live, Sync
<1>5. Landing(t)'
  BY <1>1, <1>2, <1>3 DEF Landing, LandedBy
<1>6. Charged(t)'
  BY <1>1, <1>2, <1>3, Figures DEF Charged
<1> QED BY <1>4, <1>5, <1>6

\* A repair is saved whole and gives no attempt away.
LEMMA RepairSound ==
    ASSUME TypeOK, NEW t \in Tasks, Home(t), Landing(t), Charged(t), Repairs(t),
           UNCHANGED <<conf, phase, accepted, rev, pause>>
    PROVE  Home(t)' /\ Landing(t)' /\ Charged(t)'
<1>1. PICK q :
        /\ Turn(t, q, job[t]) /\ disk' = mem' /\ phase = "off" /\ InFlight = {}
        /\ q.n = mem[t].n /\ q.used = mem[t].used /\ q.limit >= mem[t].limit
        /\ q.st \in {mem[t].st, "pending"}
  BY DEF Repairs
<1>2. mem'[t] = q /\ job'[t] = job[t] /\ disk'[t] = q
  BY <1>1, TurnTyped
<1>3. job[t].pc = "idle" /\ rev[t] = "no" /\ q \in Record
  BY <1>1, TurnTyped DEF Home, InFlight, Turn
<1>4. q.limit \in Nat
  BY <1>3, Numbers
<1>5. Home(t)'
  BY <1>1, <1>2, <1>3, Figures DEF Home, Live, Sync
<1>6. Landing(t)'
  BY <1>1, <1>2, <1>3 DEF Landing, LandedBy
<1>7. Charged(t)'
  BY <1>1, <1>2, <1>3, <1>4, Figures DEF Charged
<1> QED BY <1>5, <1>6, <1>7

\* The other tasks stay as they are in a step of one task.
LEMMA OthersStay ==
    ASSUME TypeOK, NEW t \in Tasks, Change(t), NEW u \in Tasks \ {t}
    PROVE  /\ Stays(u) /\ conf' = conf /\ phase' = phase /\ accepted \subseteq accepted'
           /\ rev'[u] \in {rev[u], "no"} /\ pause' = pause
<1>1. ASSUME \E q, p : Turn(t, q, p) PROVE Stays(u)
  BY <1>1, TurnTyped DEF Bystander, Stays
<1>2. CASE (Rest(t) \/ Move(t) \/ Shelve(t) \/ Dispatched(t)) /\ UNCHANGED Shared
  BY <1>1, <1>2 DEF Rest, Move, Shelve, Dispatched, Shared
<1>3. CASE Finishes(t) /\ UNCHANGED <<conf, phase, rev, pause>>
  BY <1>1, <1>3 DEF Finishes
<1>4. CASE ((Intends(t) /\ UNCHANGED accepted) \/ Publishes(t)) /\ UNCHANGED <<conf, phase, rev, pause>>
  BY <1>1, <1>4 DEF Intends, Publishes
<1>5. CASE Loses(t) /\ UNCHANGED <<conf, phase, accepted, rev, pause>>
  BY <1>5 DEF Loses, Stays
<1>6. CASE Judges(t) /\ UNCHANGED <<conf, phase, accepted, pause>>
  <2>1. rev' = [rev EXCEPT ![t] = "no"] /\ rev \in [Tasks -> {"no", "todo", "busy"}]
    BY <1>6 DEF Judges, TypeOK
  <2>2. Stays(u)
    BY <1>1, <1>6 DEF Judges
  <2> QED BY <1>6, <2>1, <2>2
<1>7. CASE Repairs(t) /\ UNCHANGED <<conf, phase, accepted, rev, pause>>
  BY <1>1, <1>7 DEF Repairs
<1> QED BY <1>2, <1>3, <1>4, <1>5, <1>6, <1>7 DEF Change

\* A step of one task keeps every task sound.
LEMMA ChangeSound ==
    ASSUME TypeOK, Sound, NEW t \in Tasks, Change(t)
    PROVE  Sound'
<1>1. \A u \in Tasks : Home(u) /\ Landing(u) /\ Charged(u)
  BY DEF Sound
<1>2. Home(t)' /\ Landing(t)' /\ Charged(t)'
  <2>1. CASE (Rest(t) \/ Move(t) \/ Shelve(t) \/ Dispatched(t)) /\ UNCHANGED Shared
    BY <1>1, <2>1, RestSound, MoveSound, ShelveSound, DispatchSound
  <2>2. CASE Finishes(t) /\ UNCHANGED <<conf, phase, rev, pause>>
    BY <1>1, <2>2, FinishSound
  <2>3. CASE ((Intends(t) /\ UNCHANGED accepted) \/ Publishes(t)) /\ UNCHANGED <<conf, phase, rev, pause>>
    <3>1. accepted \subseteq accepted'
      BY <2>3 DEF Publishes
    <3> QED BY <1>1, <2>3, <3>1, PublishSound
  <2>4. CASE Loses(t) /\ UNCHANGED <<conf, phase, accepted, rev, pause>>
    BY <1>1, <2>4, LostSound
  <2>5. CASE Judges(t) /\ UNCHANGED <<conf, phase, accepted, pause>>
    BY <1>1, <2>5, JudgeSound
  <2>6. CASE Repairs(t) /\ UNCHANGED <<conf, phase, accepted, rev, pause>>
    BY <1>1, <2>6, RepairSound
  <2> QED BY <2>1, <2>2, <2>3, <2>4, <2>5, <2>6 DEF Change
<1>3. ASSUME NEW u \in Tasks \ {t} PROVE Home(u)' /\ Landing(u)' /\ Charged(u)'
  <2>1. /\ Stays(u) /\ conf' = conf /\ phase' = phase /\ accepted \subseteq accepted'
        /\ rev'[u] \in {rev[u], "no"} /\ pause' = pause
    BY OthersStay
  <2>2. pause'.of[u] \in {0, pause.of[u]}
    BY <2>1
  <2> QED BY <1>1, <2>1, <2>2, StaysSound
<1> QED BY <1>2, <1>3 DEF Sound

\* What is skipped was waiting and saved.
LEMMA SkipSound ==
    ASSUME TypeOK, Sound, Skips, UNCHANGED Shared
    PROVE  Sound'
<1> SUFFICES ASSUME NEW u \in Tasks PROVE Home(u)' /\ Landing(u)' /\ Charged(u)'
  BY DEF Sound
<1>1. Home(u) /\ Landing(u) /\ Charged(u)
  BY DEF Sound
<1>2. conf' = conf /\ phase' = phase /\ rev' = rev /\ pause' = pause /\ accepted' = accepted
  BY DEF Shared
<1>3. disk' = disk /\ job' = job /\ phase = "tasks"
  BY DEF Skips
<1>4. CASE mem'[u] = mem[u]
  BY <1>1, <1>2, <1>3, <1>4, StaysSound DEF Stays
<1>5. CASE mem[u].st = "pending" /\ mem'[u].st = "skipped" /\ Same(mem'[u], mem[u])
  <2>1. mem'[u].n = mem[u].n /\ mem'[u].used = mem[u].used /\ mem'[u].limit = mem[u].limit
    BY <1>5 DEF Same
  <2>2. Home(u)'
    BY <1>1, <1>2, <1>3, <1>5, <2>1 DEF Home
  <2>3. Landing(u)'
    BY <1>1, <1>2, <1>3, <1>5, <2>1 DEF Landing, LandedBy
  <2>4. Charged(u)'
    BY <1>1, <1>2, <1>3, <1>5, <2>1 DEF Charged
  <2> QED BY <2>2, <2>3, <2>4
<1> QED BY <1>4, <1>5 DEF Skips

\* The loop, the clock and the throttled save move no record.
LEMMA CalmSound ==
    ASSUME TypeOK, Sound, Calms, UNCHANGED <<conf, accepted, pause>>
    PROVE  Sound'
<1> SUFFICES ASSUME NEW u \in Tasks PROVE Home(u)' /\ Landing(u)' /\ Charged(u)'
  BY DEF Sound
<1>1. Home(u) /\ Landing(u) /\ Charged(u)
  BY DEF Sound
<1>2. mem'[u] = mem[u] /\ disk'[u] \in {disk[u], mem[u]} /\ job'[u] = job[u]
  BY DEF Calms
<1>3. CASE phase' = phase /\ \A v \in Tasks : rev'[v] # "no" => rev[v] # "no"
  BY <1>1, <1>2, <1>3, Figures DEF Home, Landing, LandedBy, Charged
<1>4. CASE /\ phase = "tasks" /\ phase' = "final" /\ InFlight = {}
           /\ \A v \in Tasks : rev'[v] # "no" => mem[v].st = "completed"
  BY <1>1, <1>2, <1>4, Figures DEF Home, Landing, LandedBy, Charged, InFlight
<1>5. CASE phase = "final" /\ phase' = "tasks" /\ \A v \in Tasks : rev'[v] = "no"
  BY <1>1, <1>2, <1>5, Figures DEF Home, Landing, LandedBy, Charged
<1> QED BY <1>3, <1>4, <1>5 DEF Calms

\* The end of a run saves everything and leaves nothing in flight, but at the
\* deadline of the whole run.
LEMMA CloseSound ==
    ASSUME TypeOK, Sound, Closes, UNCHANGED <<conf, accepted>>
    PROVE  Sound'
<1> SUFFICES ASSUME NEW u \in Tasks PROVE Home(u)' /\ Landing(u)' /\ Charged(u)'
  BY DEF Sound
<1>1. Home(u) /\ Landing(u) /\ Charged(u)
  BY DEF Sound
<1>2. /\ mem'[u] = mem[u] /\ disk'[u] = mem[u] /\ job'[u] = job[u]
      /\ phase' = "off" /\ rev'[u] = "no" /\ pause'.of[u] \in {0, pause.of[u]}
  BY DEF Closes
<1>3. ~conf.wall => job[u].pc = "idle"
  BY <1>1 DEF Closes, Home, InFlight
<1> QED BY <1>1, <1>2, <1>3, Figures DEF Home, Landing, LandedBy, Charged

\* A stop that settles by force leaves no task in flight.
LEMMA SettleSound ==
    ASSUME TypeOK, Sound, Settles, UNCHANGED <<conf, phase, accepted, rev, pause>>
    PROVE  Sound'
<1> SUFFICES ASSUME NEW u \in Tasks PROVE Home(u)' /\ Landing(u)' /\ Charged(u)'
  BY DEF Sound
<1>1. Home(u) /\ Landing(u) /\ Charged(u)
  BY DEF Sound
<1>2. disk' = disk /\ job'[u] = Idle /\ Idle.pc = "idle"
  BY Places DEF Settles
<1>3. mem'[u].n = mem[u].n /\ mem'[u].used = mem[u].used /\ mem'[u].limit = mem[u].limit
  BY DEF Settles, Same
<1>4. \/ mem'[u].st = mem[u].st
      \/ job[u].pc # "idle" /\ mem[u].st = "running" /\ mem'[u].st = "pending"
  BY DEF Settles, InFlight
<1>5. Home(u)'
  BY <1>1, <1>2, <1>3, <1>4 DEF Home, Live, Sync
<1>6. Landing(u)'
  BY <1>1, <1>2, <1>3, <1>4 DEF Landing, LandedBy
<1>7. Charged(u)'
  BY <1>1, <1>2, <1>3, <1>4 DEF Charged
<1> QED BY <1>5, <1>6, <1>7

\* A stop saves what it is about to interrupt.
LEMMA SignalSound ==
    ASSUME TypeOK, Sound, Signals, UNCHANGED <<conf, phase, accepted, rev>>
    PROVE  Sound'
<1> SUFFICES ASSUME NEW u \in Tasks PROVE Home(u)' /\ Landing(u)' /\ Charged(u)'
  BY DEF Sound
<1>1. Home(u) /\ Landing(u) /\ Charged(u)
  BY DEF Sound
<1>2. /\ mem'[u] = mem[u] /\ disk'[u] = mem[u] /\ job'[u].pc = job[u].pc /\ job'[u].base = job[u].base
      /\ pause'.of[u] \in {0, pause.of[u], mem[u].n}
  BY DEF Signals
<1> QED BY <1>1, <1>2, Figures DEF Home, Landing, LandedBy, Charged

\* What a crash loses was not saved; what was saved as completed had landed.
LEMMA FallSound ==
    ASSUME TypeOK, Sound, Falls, UNCHANGED <<conf, accepted>>
    PROVE  Sound'
<1> SUFFICES ASSUME NEW u \in Tasks PROVE Home(u)' /\ Landing(u)' /\ Charged(u)'
  BY DEF Sound
<1>1. Home(u) /\ Landing(u) /\ Charged(u)
  BY DEF Sound
<1>2. /\ mem'[u] = disk[u] /\ disk'[u] = disk[u] /\ job'[u] = Idle /\ Idle.pc = "idle"
      /\ phase' = "off" /\ rev'[u] = "no" /\ pause'.of[u] \in {0, pause.of[u]}
  BY Places DEF Falls
<1>3. Home(u)'
  BY <1>1, <1>2, Figures DEF Home, Live, Sync
<1>4. Landing(u)'
  BY <1>1, <1>2 DEF Landing, LandedBy
<1>5. Charged(u)'
  BY <1>1, <1>2 DEF Charged
<1> QED BY <1>3, <1>4, <1>5

\* What a start completes is in the branch.
LEMMA OpenSound ==
    ASSUME TypeOK, Sound, Opened, UNCHANGED <<conf, accepted, rev>>,
           \A v \in Tasks : pause'.of[v] \in {0, pause.of[v], mem[v].n}
    PROVE  Sound'
<1> SUFFICES ASSUME NEW u \in Tasks PROVE Home(u)' /\ Landing(u)' /\ Charged(u)'
  BY DEF Sound
<1>1. Home(u) /\ Landing(u) /\ Charged(u)
  BY DEF Sound
<1>2. /\ disk'[u] = mem'[u] /\ job'[u] = job[u] /\ phase = "off" /\ job[u].pc = "idle"
      /\ phase' \in {"off", "tasks"}
  BY DEF Opened, InFlight
<1>3. mem'[u].n = mem[u].n /\ mem'[u].used = mem[u].used /\ mem'[u].limit = mem[u].limit
  BY DEF Opened, Same
<1>4. rev[u] = "no" /\ pause'.of[u] \in {0, pause.of[u], mem[u].n}
  BY <1>1, <1>2 DEF Home
<1>5. \/ mem'[u].st \in {mem[u].st, "pending"}
      \/ mem[u].n >= 1 /\ <<u, mem[u].n>> \in accepted
  BY DEF Opened
<1>6. Home(u)'
  BY <1>1, <1>2, <1>3, <1>4, Figures DEF Home, Live, Sync
<1>7. ASSUME conf.isolated, ~conf.wall, mem'[u].st = "completed"
      PROVE  LandedBy(u, mem[u].n)
  <2>1. CASE mem[u].n >= 1 /\ <<u, mem[u].n>> \in accepted
    BY <2>1, Figures DEF LandedBy
  <2>2. CASE mem'[u].st \in {mem[u].st, "pending"}
    BY <1>1, <1>7, <2>2 DEF Landing
  <2> QED BY <1>5, <2>1, <2>2
<1>8. Landing(u)'
  BY <1>2, <1>3, <1>7 DEF Landing, LandedBy
<1>9. Charged(u)'
  BY <1>1, <1>2, <1>3 DEF Charged
<1> QED BY <1>6, <1>8, <1>9

\* Every step keeps every task sound.
LEMMA SoundNext == ASSUME TypeOK, Sound, [Next]_vars PROVE Sound'
<1>1. CASE UNCHANGED vars
  BY <1>1 DEF Sound, Home, Landing, LandedBy, Charged, vars
<1>2. CASE Next
  <2>1. (\E t \in Tasks : Change(t)) \/ RunChange
    BY <1>2, EveryStep
  <2>2. CASE RunChange
    <3>1. CASE Skips /\ UNCHANGED Shared
      BY <3>1, SkipSound
    <3>2. CASE Calms /\ UNCHANGED <<conf, accepted, pause>>
      BY <3>2, CalmSound
    <3>3. CASE Closes /\ UNCHANGED <<conf, accepted>>
      BY <3>3, CloseSound
    <3>4. CASE Settles /\ UNCHANGED <<conf, phase, accepted, rev, pause>>
      BY <3>4, SettleSound
    <3>5. CASE Signals /\ UNCHANGED <<conf, phase, accepted, rev>>
      BY <3>5, SignalSound
    <3>6. CASE Falls /\ UNCHANGED <<conf, accepted>>
      BY <3>6, FallSound
    <3>7. CASE /\ Opened /\ UNCHANGED <<conf, accepted, rev>>
               /\ \A v \in Tasks : pause'.of[v] \in {0, pause.of[v], mem[v].n}
      BY <3>7, OpenSound
    <3> QED BY <2>2, <3>1, <3>2, <3>3, <3>4, <3>5, <3>6, <3>7 DEF RunChange
  <2> QED BY <2>1, <2>2, ChangeSound
<1> QED BY <1>1, <1>2

\* The invariant holds in every run.
THEOREM Invariant == Spec => [](TypeOK /\ Sound)
<1>1. Init => TypeOK /\ Sound
  BY TypeInit, SoundInit
<1>2. TypeOK /\ Sound /\ [Next]_vars => TypeOK' /\ Sound'
  BY TypeNext, SoundNext
<1> QED BY <1>1, <1>2, PTL DEF Spec

\* A task that is completed was merged, whatever was lost on the way.
THEOREM CompletedHasLanded == Spec => []CompletedLanded
<1>1. TypeOK /\ Sound => CompletedLanded
  <2> SUFFICES ASSUME TypeOK, Sound, NEW t \in Tasks, conf.isolated, ~conf.wall,
                      "completed" \in {mem[t].st, disk[t].st}
               PROVE  Landed(t)
    BY DEF CompletedLanded
  <2>1. Home(t) /\ Landing(t)
    BY DEF Sound
  <2>2. CASE mem[t].st = "completed"
    BY <2>1, <2>2 DEF Landing, LandedBy, Landed
  <2>3. CASE disk[t].st = "completed"
    <3>1. PICK k \in 1 .. disk[t].n : <<t, k>> \in accepted
      BY <2>1, <2>3 DEF Landing, LandedBy
    <3>2. k \in 1 .. mem[t].n
      BY <2>1, Figures DEF Home
    <3> QED BY <3>1, <3>2 DEF Landed
  <2> QED BY <2>2, <2>3
<1> QED BY <1>1, Invariant, PTL

\* A worker starts from what its dependencies left in the branch.
THEOREM WorkersBuildOnDeps == Spec => []BuiltOnDeps
<1>1. Sound => BuiltOnDeps
  BY DEF Sound, BuiltOnDeps, Landing, InFlight
<1> QED BY <1>1, Invariant, PTL

\* An attempt is saved before its agent runs, and none is above the limit.
THEOREM AttemptsAreCharged == Spec => []ChargedFirst
<1>1. TypeOK /\ Sound => ChargedFirst
  <2> SUFFICES ASSUME TypeOK, Sound, conf.lean
               PROVE  /\ \A t \in Running : disk[t].used >= mem[t].used /\ disk[t].n = mem[t].n
                      /\ \A t \in Tasks : mem[t].used <= mem[t].limit
    BY DEF ChargedFirst
  <2>1. ASSUME NEW t \in Running PROVE disk[t].used >= mem[t].used /\ disk[t].n = mem[t].n
    <3>1. t \in Tasks /\ mem[t].st = "running"
      BY DEF Running, Sound, Home
    <3> QED BY <3>1, Figures DEF Sound, Charged
  <2> QED BY <2>1 DEF Sound, Charged
<1> QED BY <1>1, Invariant, PTL

-----------------------------------------------------------------------------
(* What a stop leaves alive *)

\* The tasks between two awaits are one at most, and the next step keeps it so.
LEMMA KilledTurn ==
    ASSUME TypeOK, Killed, NEW t \in Tasks, NEW q, NEW p, Turn(t, q, p), conf' = conf,
           p.pc \in Sync => ~Busy \/ job[t].pc \in Sync,
           p.pc = "prepare" => t \in conf.prepared,
           stop' # "no" /\ (p.pc = "verify" \/ (p.pc \in Live /\ ~p.hit)) => t \in conf.prepared,
           stop' # "no" => stop # "no"
    PROVE  Killed'
<1>1. job'[t] = p /\ \A u \in Tasks \ {t} : job'[u] = job[u]
  BY TurnTyped DEF Bystander
<1>2. \A u \in Tasks : Held(u)
  BY DEF Killed
<1>3. ASSUME p.pc \in Sync, NEW u \in Tasks, job[u].pc \in Sync PROVE u = t
  BY <1>2, <1>3 DEF Busy, Held
<1>4. Held(t)'
  BY <1>1, <1>3 DEF Held
<1>5. ASSUME NEW u \in Tasks \ {t} PROVE Held(u)'
  <2>1. job[u].pc \in Sync => \A v \in Tasks : job'[v].pc \in Sync => u = v
    BY <1>1, <1>2, <1>3 DEF Held
  <2> QED BY <1>1, <1>2, <2>1 DEF Held
<1> QED BY <1>4, <1>5 DEF Killed

\* What one task does keeps that, in a stop too.
LEMMA KilledChange ==
    ASSUME TypeOK, Killed, NEW t \in Tasks, Change(t)
    PROVE  Killed'
<1>1. \A u \in Tasks : Held(u)
  BY DEF Killed
<1>2. CASE Rest(t) /\ UNCHANGED Shared
  <2>1. PICK q, p : Turn(t, q, p) /\ p.pc \in {"idle", "backoff"}
    BY <1>2 DEF Rest
  <2>2. p.pc \notin Live \cup Sync /\ p.pc \notin {"prepare", "verify"}
    BY <2>1 DEF Live, Sync
  <2> QED BY <1>2, <2>1, <2>2, KilledTurn DEF Shared
<1>3. CASE Move(t) /\ UNCHANGED Shared
  <2>1. PICK q, p :
        /\ Turn(t, q, p)
        /\ job[t].pc \in Live \cup {"verify"} /\ p.pc \in Live \cup {"verify", "land"}
        /\ p.pc = "prepare" => job[t].pc = "prepare"
        /\ (job[t].hit /\ job[t].pc \in Live \ {"prepare"}) => p.hit
        /\ p.pc \in {"verify", "land"} => ~p.hit
        /\ p.pc \in Sync => ~Busy \/ job[t].pc \in Sync
    BY <1>3 DEF Move
  <2>2. Held(t) /\ conf' = conf /\ stop' = stop
    BY <1>1, <1>3 DEF Shared
  <2>3. p.pc = "prepare" => t \in conf.prepared
    BY <2>1, <2>2 DEF Held
  <2>4. stop' # "no" /\ (p.pc = "verify" \/ (p.pc \in Live /\ ~p.hit)) => t \in conf.prepared
    BY <2>1, <2>2 DEF Held, Live
  <2> QED BY <2>1, <2>2, <2>3, <2>4, KilledTurn
<1>4. CASE (Shelve(t) \/ Judges(t) \/ Repairs(t)) /\ UNCHANGED <<conf, stop>>
  <2>1. PICK q : Turn(t, q, job[t])
    BY <1>4 DEF Shelve, Judges, Repairs
  <2> QED BY <1>1, <1>4, <2>1, KilledTurn DEF Held
<1>5. CASE Dispatched(t) /\ UNCHANGED Shared
  <2>1. PICK q, p : /\ Turn(t, q, p) /\ stop = "no" /\ ~Busy
                    /\ p.pc = "prepare" => t \in conf.prepared
    BY <1>5 DEF Dispatched
  <2> QED BY <1>5, <2>1, KilledTurn DEF Shared
<1>6. CASE Finishes(t) /\ UNCHANGED <<conf, stop>>
  <2>1. PICK q : Turn(t, q, Idle)
    BY <1>6 DEF Finishes
  <2>2. Idle.pc \notin Live \cup Sync /\ Idle.pc \notin {"prepare", "verify"}
    BY Places DEF Live, Sync
  <2> QED BY <1>6, <2>1, <2>2, KilledTurn
<1>7. CASE (Intends(t) \/ Publishes(t)) /\ UNCHANGED <<conf, stop>>
  <2>1. PICK q, p : Turn(t, q, p) /\ job[t].pc \in {"land", "intent"} /\ p.pc \in {"intent", "published"}
    BY <1>7 DEF Intends, Publishes
  <2>2. p.pc \notin Live /\ p.pc \notin {"prepare", "verify"} /\ job[t].pc \in Sync
    BY <2>1 DEF Live, Sync
  <2> QED BY <1>7, <2>1, <2>2, KilledTurn
<1>8. CASE Loses(t) /\ UNCHANGED conf
  <2>1. job[t].pc \in Sync /\ job'[t].pc = "idle" /\ "idle" \notin Live \cup Sync
    BY <1>8 DEF Loses, Live, Sync
  <2>2. ASSUME NEW u \in Tasks \ {t}
        PROVE  job'[u].pc \notin Sync /\ job'[u].pc = job[u].pc /\ (job'[u].pc \in Live => job'[u].hit)
    BY <1>1, <1>8, <2>1, <2>2 DEF Loses, Held
  <2>3. Held(t)'
    BY <2>1 DEF Held, Sync, Live
  <2>4. \A u \in Tasks \ {t} : Held(u)'
    BY <1>1, <1>8, <2>2 DEF Held, Sync
  <2> QED BY <2>3, <2>4 DEF Killed
<1> QED BY <1>2, <1>3, <1>4, <1>5, <1>6, <1>7, <1>8 DEF Change, Shared

\* What the run does keeps that.
LEMMA KilledRun ==
    ASSUME TypeOK, Killed, RunChange
    PROVE  Killed'
<1> SUFFICES ASSUME NEW u \in Tasks PROVE Held(u)'
  BY DEF Killed
<1>1. \A v \in Tasks : Held(v)
  BY DEF Killed
<1>2. CASE job' = job /\ conf' = conf /\ (stop' = stop \/ stop' = "no")
  BY <1>1, <1>2 DEF Held
<1>3. CASE job' = [v \in Tasks |-> Idle]
  <2>1. \A v \in Tasks : job'[v].pc = "idle"
    BY <1>3, Places
  <2> QED BY <2>1 DEF Held, Live, Sync
<1>4. CASE Signals /\ conf' = conf
  <2>1. \A v \in Tasks : job'[v].pc = job[v].pc /\ (job[v].pc \in Live => job'[v].hit) /\ job[v].pc \notin Sync
    BY <1>4 DEF Signals, Busy
  <2> QED BY <1>1, <1>4, <2>1 DEF Held, Sync
<1>5. (Skips /\ UNCHANGED Shared) \/ (Calms /\ UNCHANGED <<conf, stop>>) \/ (Closes /\ conf' = conf)
        \/ (Opened /\ UNCHANGED <<conf, stop>>) => job' = job /\ conf' = conf /\ (stop' = stop \/ stop' = "no")
  BY DEF Skips, Calms, Closes, Opened, Shared
<1>6. Settles \/ Falls => job' = [v \in Tasks |-> Idle]
  BY DEF Settles, Falls
<1> QED BY <1>2, <1>3, <1>4, <1>5, <1>6 DEF RunChange

\* Only a forced end, a gate, a crash or the final review adds an orphan.
LEMMA OrphanSteps ==
    ASSUME TypeOK, Next, NEW o \in orphans', o \notin orphans, o.from = "stop"
    PROVE  stop # "no" /\ o.task \in Tasks /\ job[o.task].pc \in Live /\ ~job[o.task].hit
<1>1. \A S \in SUBSET Tasks : \A x : \A a \in AgentsOf(S, x) : a.from = x /\ a.task \in S
  BY DEF AgentsOf
<1>2. CASE ForceSettle
  <2>1. o \in AgentsOf({t \in Running : ~job[t].hit}, "stop") /\ stop = "grace"
    BY <1>2 DEF ForceSettle
  <2>2. o.task \in {t \in Running : ~job[t].hit}
    BY <1>1, <2>1 DEF Running
  <2> QED BY <2>1, <2>2 DEF Running
<1>3. CASE Crash
  <2>1. o \in AgentsOf(Running \cup {t \in Tasks : rev[t] = "busy"}, "crash")
    BY <1>3 DEF Crash
  <2> QED BY <1>1, <2>1 DEF Running
<1>4. ASSUME NEW t \in Tasks, GateRejects(t)
      PROVE  stop # "no" /\ o.task \in Tasks /\ job[o.task].pc \in Live /\ ~job[o.task].hit
  <2>1. o \in AgentsOf({t} \cap {u \in Running : ~job[u].hit}, "stop") /\ stop = "gated"
    BY <1>4 DEF GateRejects
  <2>2. o.task \in {u \in Running : ~job[u].hit}
    BY <1>1, <2>1 DEF Running
  <2> QED BY <2>1, <2>2 DEF Running
<1>5. ASSUME NEW t \in Tasks, FinalJudges(t)
      PROVE  FALSE
  <2>1. o \in AgentsOf({t}, "final")
    BY <1>5 DEF FinalJudges
  <2> QED BY <1>1, <2>1
<1>6. ASSUME orphans' = orphans PROVE FALSE
  BY <1>6
<1>7. CASE LoopStep \/ Save \/ WallClock
  BY <1>6, <1>7 DEF LoopStep, PolicySkip, LoopWaits, EndRun, FinalBegins, NextRound, FinalEnds, Save, WallClock
<1>8. ASSUME NEW quota \in BOOLEAN, Start(quota) \/ Stop(quota) PROVE FALSE
  BY <1>6, <1>8 DEF Start, Stop, Opens
<1>9. ASSUME NEW t \in Tasks, Fault(t) \/ Operator(t) PROVE FALSE
  BY <1>6, <1>9 DEF Fault, Operator, ChargeLost, WorktreeFails, CompletionLost, Deadline, Retry, Renew,
                    StartVerification, Opens
<1>10. ASSUME NEW t \in Tasks, TaskStep(t)
       PROVE  stop # "no" /\ o.task \in Tasks /\ job[o.task].pc \in Live /\ ~job[o.task].hit
  <2>1. CASE LaunchRefused(t) \/ Launch(t) \/ Continue(t) \/ FinalStarts(t) \/ LandClassic(t) \/ LandIntent(t)
             \/ Publish(t)
    BY <1>6, <2>1 DEF LaunchRefused, Launch, Continue, FinalStarts, LandClassic, LandIntent, Publish
  <2>2. CASE PrepareEnds(t) \/ PlanEnds(t) \/ WorkEnds(t) \/ PhaseFails(t) \/ PhaseAgain(t)
             \/ ReviewPasses(t) \/ ReviewRejects(t) \/ ReviewErrs(t) \/ BackoffEnds(t)
             \/ Conflict(t) \/ LandNothing(t) \/ LandStale(t) \/ CompleteLean(t)
    BY <1>6, <2>2 DEF PrepareEnds, PlanEnds, WorkEnds, PhaseFails, PhaseAgain, ReviewPasses, ReviewRejects,
                      ReviewErrs, BackoffEnds, Conflict, LandNothing, LandStale, CompleteLean
  <2> QED BY <1>4, <1>5, <1>10, <2>1, <2>2 DEF TaskStep
<1> QED BY <1>2, <1>3, <1>4, <1>7, <1>8, <1>9, <1>10 DEF Next

\* An agent that outlives a stop belongs to a task whose prepare command
\* swallowed the kill, in every run of every graph.
THEOREM StopsKill == Spec => []StopKills
<1>1. Init => Killed /\ StopKills
  <2> SUFFICES ASSUME Init PROVE Killed /\ StopKills
    OBVIOUS
  <2>1. TypeOK /\ orphans = {} /\ \A t \in Tasks : job[t].pc = "idle"
    BY TypeInit, Places DEF Init
  <2> QED BY <2>1 DEF Killed, Held, StopKills, Live, Sync
<1>2. TypeOK /\ Killed /\ StopKills /\ [Next]_vars => Killed' /\ StopKills'
  <2> SUFFICES ASSUME TypeOK, Killed, StopKills, [Next]_vars PROVE Killed' /\ StopKills'
    OBVIOUS
  <2>1. CASE UNCHANGED vars
    BY <2>1 DEF Killed, Held, StopKills, vars
  <2>2. CASE Next
    <3>1. conf' = conf /\ Killed'
      <4>1. conf' = conf
        BY <2>2, EveryStep DEF Aside
      <4>2. (\E t \in Tasks : Change(t)) \/ RunChange
        BY <2>2, EveryStep
      <4> QED BY <4>1, <4>2, KilledChange, KilledRun
    <3>2. ASSUME NEW o \in orphans', o.from = "stop" PROVE o.task \in conf.prepared
      <4>1. CASE o \in orphans
        BY <3>2, <4>1 DEF StopKills
      <4>2. CASE o \notin orphans
        BY <2>2, <3>2, <4>2, OrphanSteps DEF Killed, Held
      <4> QED BY <4>1, <4>2
    <3> QED BY <3>1, <3>2 DEF StopKills
  <2> QED BY <2>1, <2>2
<1> QED BY <1>1, <1>2, TypeCorrect, PTL DEF Spec

-----------------------------------------------------------------------------
(* What was published is not redone *)

\* A record knows of a published attempt: it was sent back since, or is the
\* present one and has its receipt.
Known(r, t, m) == m <= r.asked \/ (r.n = m /\ r.receipt = m /\ <<t, m>> \in receipts)

\* Both records know of what was published, and work that nobody sent back is
\* not waiting for a worker in a run that goes on.
Asks(t) == mem[t].asked <= mem[t].n /\ disk[t].asked <= disk[t].n
Intended(t) ==
    conf.lean /\ job[t].pc \in {"intent", "published"} =>
        /\ conf.isolated /\ <<t, mem[t].n>> \in receipts
        /\ mem[t].receipt = mem[t].n /\ disk[t].receipt = mem[t].n /\ disk[t].n = mem[t].n
Recorded(t) ==
    conf.lean => \A m \in Nat : <<t, m>> \in accepted =>
        m >= 1 /\ conf.isolated /\ Known(mem[t], t, m) /\ Known(disk[t], t, m)
Waits(t) == phase # "off" /\ mem[t].st = "pending" /\ stop # "gated"
Parked(t) ==
    conf.lean => \A m \in Nat : <<t, m>> \in accepted /\ m > mem[t].asked =>
        job[t].pc \in {"idle", "published"} /\ ~Waits(t)
Publication(t) == Asks(t) /\ Intended(t) /\ Recorded(t) /\ Parked(t)
Published == \A t \in Tasks : Publication(t)

\* The numbers these speak of.
LEMMA Marks ==
    ASSUME TypeOK, NEW t \in Tasks
    PROVE  /\ mem[t].n \in Nat /\ mem[t].asked \in Nat /\ mem[t].receipt \in Nat
           /\ disk[t].n \in Nat /\ disk[t].asked \in Nat /\ disk[t].receipt \in Nat
BY Numbers DEF TypeOK

\* A task that is not worked on, and whose record stays, knows what it knew.
LEMMA PublicationStays ==
    ASSUME TypeOK, NEW u \in Tasks, Publication(u), conf' = conf,
           mem'[u] = mem[u], disk'[u] \in {disk[u], mem[u]}, job'[u].pc = job[u].pc,
           \A m \in Nat : <<u, m>> \in accepted' => <<u, m>> \in accepted,
           \A m \in Nat : <<u, m>> \in receipts /\ (<<u, m>> \in accepted \/ job[u].pc # "idle") => <<u, m>> \in receipts',
           Waits(u)' => Waits(u)
    PROVE  Publication(u)'
<1>1. Asks(u)'
  BY DEF Publication, Asks
<1>2. Intended(u)'
  BY Marks DEF Publication, Intended
<1>3. Recorded(u)'
  BY DEF Publication, Recorded, Known
<1>4. Parked(u)'
  BY DEF Publication, Parked
<1> QED BY <1>1, <1>2, <1>3, <1>4 DEF Publication

\* A task that is worked on was sent back since it was published, if it was.
LEMMA PublicationTurn ==
    ASSUME TypeOK, NEW t \in Tasks, Publication(t), conf' = conf,
           NEW q, mem'[t] = q, disk'[t] \in {disk[t], q},
           mem[t].n <= q.n, q.n \in Nat, q.asked = mem[t].asked, accepted' = accepted, receipts \subseteq receipts',
           conf.lean => \A m \in Nat : <<t, m>> \in accepted => m <= mem[t].asked,
           conf.lean => job'[t].pc \notin {"intent", "published"}
    PROVE  Publication(t)'
<1>1. Asks(t)'
  BY Marks DEF Publication, Asks
<1>2. Intended(t)'
  BY DEF Intended
<1>3. Recorded(t)'
  BY DEF Publication, Recorded, Known
<1>4. Parked(t)'
  BY Marks DEF Parked
<1> QED BY <1>1, <1>2, <1>3, <1>4 DEF Publication

\* The steps of a task that leave no published attempt behind unsaid.
LEMMA PublicationChange ==
    ASSUME TypeOK, Sound, NEW t \in Tasks, Publication(t), Change(t)
    PROVE  Publication(t)'
<1>1. Home(t) /\ mem[t].n \in Nat /\ disk[t].n \in Nat
  BY Figures DEF Sound
<1>2. ASSUME NEW q, NEW p, Turn(t, q, p)
      PROVE  mem'[t] = q /\ job'[t] = p /\ disk'[t] \in {disk[t], q} /\ (disk' = mem' => disk'[t] = q)
             /\ (disk' = disk => disk'[t] = disk[t])
  BY <1>2, TurnTyped
<1>3. ASSUME job[t].pc \notin {"idle", "published"} \/ Waits(t), conf.lean
      PROVE  \A m \in Nat : <<t, m>> \in accepted => m <= mem[t].asked
  BY <1>3, Marks DEF Publication, Parked
<1>4. CASE Rest(t) /\ UNCHANGED Shared
  <2>1. PICK q, p :
          /\ Turn(t, q, p) /\ job[t].pc \notin {"idle", "published"}
          /\ Same(q, mem[t]) /\ p.pc \in {"idle", "backoff"}
    BY <1>4 DEF Rest
  <2>2. q.n = mem[t].n /\ q.asked = mem[t].asked /\ mem[t].n <= q.n
    BY <1>1, <2>1 DEF Same
  <2>3. conf' = conf /\ accepted' = accepted /\ receipts' = receipts
    BY <1>4 DEF Shared
  <2> QED BY <1>1, <1>2, <1>3, <2>1, <2>2, <2>3, PublicationTurn
<1>5. CASE Move(t) /\ UNCHANGED Shared
  <2>1. PICK q, p :
          /\ Turn(t, q, p) /\ job[t].pc \in Live \cup {"verify"} /\ p.pc \in Live \cup {"verify", "land"}
          /\ Same(q, mem[t])
    BY <1>5 DEF Move
  <2>2. job[t].pc \notin {"idle", "published"} /\ p.pc \notin {"intent", "published"}
    BY <2>1 DEF Live
  <2>3. q.n = mem[t].n /\ q.asked = mem[t].asked /\ mem[t].n <= q.n
    BY <1>1, <2>1 DEF Same
  <2>4. conf' = conf /\ accepted' = accepted /\ receipts' = receipts
    BY <1>5 DEF Shared
  <2> QED BY <1>1, <1>2, <1>3, <2>1, <2>2, <2>3, <2>4, PublicationTurn
<1>6. CASE (Shelve(t) \/ Dispatched(t)) /\ UNCHANGED Shared
  <2>1. PICK q, p :
          /\ Turn(t, q, p) /\ Ready(t) /\ phase = "tasks" /\ stop = "no" /\ q.asked = mem[t].asked
          /\ q.n = mem[t].n \/ q.n = mem[t].n + 1
          /\ p = job[t] \/ p.pc \in Live \cup {"verify"}
    <3>1. CASE Shelve(t)
      BY <3>1 DEF Shelve
    <3>2. CASE Dispatched(t)
      BY <3>2 DEF Dispatched, Same
    <3> QED BY <1>6, <3>1, <3>2
  <2>2. Waits(t) /\ job[t].pc = "idle"
    BY <2>1 DEF Waits, Ready, InFlight
  <2>3. p.pc \notin {"intent", "published"}
    BY <2>1, <2>2 DEF Live
  <2>4. conf' = conf /\ accepted' = accepted /\ receipts' = receipts
    BY <1>6 DEF Shared
  <2>5. q.n \in Nat /\ mem[t].n <= q.n
    BY <1>1, <2>1
  <2> QED BY <1>2, <1>3, <2>1, <2>2, <2>3, <2>4, <2>5, PublicationTurn
<1>7. CASE Finishes(t) /\ UNCHANGED <<conf, phase, stop, receipts>>
  <2>1. PICK q :
          /\ Turn(t, q, Idle) /\ Same(q, mem[t]) /\ q.st = "completed"
          /\ conf.lean => accepted' = accepted
    BY <1>7 DEF Finishes
  <2>2. /\ mem'[t] = q /\ job'[t] = Idle /\ disk'[t] \in {disk[t], q} /\ Idle.pc = "idle"
        /\ q.n = mem[t].n /\ q.asked = mem[t].asked /\ q.receipt = mem[t].receipt
    BY <1>2, <2>1, Places DEF Same
  <2>3. Asks(t)'
    BY <2>2 DEF Publication, Asks
  <2>4. Intended(t)'
    BY <2>2 DEF Intended
  <2>5. Recorded(t)'
    BY <1>7, <2>1, <2>2 DEF Publication, Recorded, Known
  <2>6. Parked(t)'
    BY <2>1, <2>2 DEF Parked, Waits
  <2> QED BY <2>3, <2>4, <2>5, <2>6 DEF Publication
<1>8. CASE Intends(t) /\ UNCHANGED <<conf, phase, stop, accepted>>
  <2>1. PICK q, p :
        /\ Turn(t, q, p) /\ disk' = mem' /\ job[t].pc = "land" /\ p.pc = "intent"
        /\ conf.isolated /\ q.n = mem[t].n /\ q.receipt = mem[t].n /\ q.asked = mem[t].asked
        /\ receipts' = receipts \cup {<<t, mem[t].n>>}
    BY <1>8 DEF Intends
  <2>2. mem'[t] = q /\ job'[t] = p /\ disk'[t] = q
    BY <1>2, <2>1
  <2>3. conf.lean => \A m \in Nat : <<t, m>> \in accepted => m <= mem[t].asked
    BY <1>3, <2>1
  <2>4. Asks(t)'
    BY <2>1, <2>2 DEF Publication, Asks
  <2>5. Intended(t)'
    BY <1>8, <2>1, <2>2 DEF Intended
  <2>6. Recorded(t)'
    BY <1>8, <2>1, <2>2, <2>3 DEF Publication, Recorded, Known
  <2>7. Parked(t)'
    BY <1>8, <2>1, <2>2, <2>3, Marks DEF Parked
  <2> QED BY <2>4, <2>5, <2>6, <2>7 DEF Publication
<1>9. CASE Publishes(t) /\ UNCHANGED <<conf, phase, stop, receipts>>
  <2>1. PICK p :
        /\ Turn(t, mem[t], p) /\ disk' = disk /\ job[t].pc = "intent" /\ p.pc = "published"
        /\ accepted' = accepted \cup {<<t, mem[t].n>>}
    BY <1>9 DEF Publishes
  <2>2. mem'[t] = mem[t] /\ job'[t] = p /\ disk'[t] = disk[t]
    BY <1>2, <2>1
  <2>3. mem[t].n >= 1 /\ mem[t].st = "running"
    BY <1>1, <2>1 DEF Home, Live, Sync
  <2>4. Asks(t)'
    BY <2>2 DEF Publication, Asks
  <2>5. Intended(t)'
    BY <1>9, <2>1, <2>2 DEF Publication, Intended
  <2>6. Recorded(t)'
    <3> SUFFICES ASSUME conf.lean, NEW m \in Nat, <<t, m>> \in accepted'
                 PROVE  m >= 1 /\ conf.isolated /\ Known(mem[t], t, m) /\ Known(disk[t], t, m)
      BY <1>9, <2>2 DEF Recorded, Known
    <3>1. CASE <<t, m>> \in accepted
      BY <3>1 DEF Publication, Recorded
    <3>2. CASE m = mem[t].n
      BY <2>1, <2>3, <3>2 DEF Publication, Intended, Known
    <3> QED BY <2>1, <3>1, <3>2
  <2>7. Parked(t)'
    BY <1>9, <2>1, <2>2, <2>3 DEF Parked, Waits
  <2> QED BY <2>4, <2>5, <2>6, <2>7 DEF Publication
<1>10. CASE Loses(t) /\ UNCHANGED <<conf, phase, accepted, receipts>>
  <2>1. /\ disk'[t] = disk[t] /\ Same(mem'[t], mem[t]) /\ job'[t].pc = "idle" /\ stop' = "gated"
    BY <1>10 DEF Loses
  <2>2. mem'[t].n = mem[t].n /\ mem'[t].asked = mem[t].asked /\ mem'[t].receipt = mem[t].receipt
    BY <2>1 DEF Same
  <2>3. Asks(t)'
    BY <2>1, <2>2 DEF Publication, Asks
  <2>4. Intended(t)'
    BY <2>1 DEF Intended
  <2>5. Recorded(t)'
    BY <1>10, <2>1, <2>2 DEF Publication, Recorded, Known
  <2>6. Parked(t)'
    BY <1>10, <2>1, <2>2 DEF Publication, Parked, Waits
  <2> QED BY <2>3, <2>4, <2>5, <2>6 DEF Publication
<1>11. CASE (Judges(t) \/ Repairs(t)) /\ UNCHANGED <<conf, phase, stop, accepted, receipts>>
  <2>1. PICK q :
        /\ Turn(t, q, job[t]) /\ q.n = mem[t].n /\ q.receipt = mem[t].receipt
        /\ q.asked \in {mem[t].asked, mem[t].n} /\ job[t].pc = "idle"
        /\ (phase # "off" /\ q.st = "pending") => (mem[t].st = "pending" \/ q.asked = mem[t].n)
    <3>1. CASE Judges(t)
      BY <1>1, <3>1 DEF Judges, Home
    <3>2. CASE Repairs(t)
      BY <3>2 DEF Repairs, InFlight
    <3> QED BY <1>11, <3>1, <3>2
  <2>2. mem'[t] = q /\ job'[t] = job[t] /\ disk'[t] \in {disk[t], q}
    BY <1>2, <2>1
  <2>3. Asks(t) /\ q.asked <= q.n /\ mem[t].asked <= q.asked
    BY <2>1, Marks DEF Publication, Asks
  <2>4. Asks(t)'
    BY <2>2, <2>3 DEF Asks
  <2>5. Intended(t)'
    BY <2>1, <2>2 DEF Intended
  <2>6. Recorded(t)'
    <3> SUFFICES ASSUME conf.lean, NEW m \in Nat, <<t, m>> \in accepted
                 PROVE  m >= 1 /\ conf.isolated /\ Known(q, t, m) /\ Known(disk[t], t, m)
      BY <1>11, <2>2 DEF Recorded, Known
    <3>1. m >= 1 /\ conf.isolated /\ Known(mem[t], t, m) /\ Known(disk[t], t, m)
      BY DEF Publication, Recorded
    <3>2. Known(q, t, m)
      BY <2>1, <2>3, <3>1, Marks DEF Known
    <3> QED BY <3>1, <3>2
  <2>7. Parked(t)'
    <3> SUFFICES ASSUME conf.lean, NEW m \in Nat, <<t, m>> \in accepted, m > q.asked
                 PROVE  job[t].pc \in {"idle", "published"} /\ ~(phase # "off" /\ q.st = "pending" /\ stop # "gated")
      BY <1>11, <2>2 DEF Parked, Waits
    <3>1. m > mem[t].asked
      BY <2>1, <2>3, Marks
    <3>2. ~Waits(t)
      BY <3>1 DEF Publication, Parked
    <3>3. Known(mem[t], t, m)
      BY DEF Publication, Recorded
    <3>4. q.asked # mem[t].n
      BY <2>3, <3>1, <3>3, Marks DEF Known
    <3> QED BY <2>1, <3>2, <3>4 DEF Waits
  <2> QED BY <2>4, <2>5, <2>6, <2>7 DEF Publication
<1> QED BY <1>4, <1>5, <1>6, <1>7, <1>8, <1>9, <1>10, <1>11 DEF Change, Shared

\* A step of one task says nothing of the others' work.
LEMMA PublicationOthers ==
    ASSUME TypeOK, NEW t \in Tasks, Change(t), NEW u \in Tasks \ {t}, Publication(u)
    PROVE  Publication(u)'
<1>1. Stays(u) /\ conf' = conf /\ phase' = phase
  BY OthersStay
<1>2. /\ \A m \in Nat : <<u, m>> \in accepted' => <<u, m>> \in accepted
      /\ receipts \subseteq receipts'
      /\ stop' \in {stop, "gated"}
  <2>1. accepted' \subseteq accepted \cup {<<t, mem[t].n>>} /\ receipts \subseteq receipts' /\ stop' \in {stop, "gated"}
    BY DEF Change, Shared, Finishes, Intends, Publishes, Loses, Judges, Repairs
  <2> QED BY <2>1
<1>3. Waits(u)' => Waits(u)
  BY <1>1, <1>2 DEF Waits, Stays
<1> QED BY <1>1, <1>2, <1>3, PublicationStays DEF Stays

\* The run says nothing of a task's work, but where a crash or a start does.
LEMMA PublicationRun ==
    ASSUME TypeOK, Sound, RunChange, NEW u \in Tasks, Publication(u)
    PROVE  Publication(u)'
<1>1. CASE Skips /\ UNCHANGED Shared
  <2>1. /\ disk' = disk /\ job' = job /\ conf' = conf /\ accepted' = accepted /\ receipts' = receipts
        /\ phase' = phase /\ stop' = stop
    BY <1>1 DEF Skips, Shared
  <2>2. CASE mem'[u] = mem[u]
    <3>1. Waits(u)' => Waits(u)
      BY <2>1, <2>2 DEF Waits
    <3> QED BY <2>1, <2>2, <3>1, PublicationStays
  <2>3. CASE mem[u].st = "pending" /\ mem'[u].st = "skipped" /\ Same(mem'[u], mem[u])
    <3>1. mem'[u].n = mem[u].n /\ mem'[u].asked = mem[u].asked /\ mem'[u].receipt = mem[u].receipt
      BY <2>3 DEF Same
    <3>2. Asks(u)' /\ Intended(u)'
      BY <2>1, <3>1 DEF Publication, Asks, Intended
    <3>3. Recorded(u)'
      BY <2>1, <3>1 DEF Publication, Recorded, Known
    <3>4. Parked(u)'
      BY <2>1, <2>3, <3>1 DEF Publication, Parked, Waits
    <3> QED BY <3>2, <3>3, <3>4 DEF Publication
  <2> QED BY <1>1, <2>2, <2>3 DEF Skips
<1>2. CASE ((Calms /\ stop' = stop) \/ Closes \/ (Signals /\ phase' = phase)) /\ UNCHANGED <<conf, accepted, receipts>>
  <2>1. /\ mem'[u] = mem[u] /\ disk'[u] \in {disk[u], mem[u]} /\ job'[u].pc = job[u].pc
        /\ phase' # "off" => (phase # "off" /\ (stop' = stop \/ (stop = "no" /\ stop' = "grace")))
    <3>1. CASE Calms /\ stop' = stop
      BY <3>1 DEF Calms
    <3>2. CASE Closes
      BY <3>2 DEF Closes
    <3>3. CASE Signals /\ phase' = phase
      BY <3>3 DEF Signals
    <3> QED BY <1>2, <3>1, <3>2, <3>3
  <2>2. Waits(u)' => Waits(u)
    BY <2>1 DEF Waits
  <2> QED BY <1>2, <2>1, <2>2, PublicationStays
<1>3. CASE Settles /\ UNCHANGED <<conf, phase, accepted, receipts>>
  <2>1. /\ disk'[u] = disk[u] /\ job'[u].pc = "idle" /\ stop' = "gated" /\ Same(mem'[u], mem[u])
    BY <1>3, Places DEF Settles
  <2>2. mem'[u].n = mem[u].n /\ mem'[u].asked = mem[u].asked /\ mem'[u].receipt = mem[u].receipt
    BY <2>1 DEF Same
  <2>3. Asks(u)' /\ Intended(u)'
    BY <2>1, <2>2 DEF Publication, Asks, Intended
  <2>4. Recorded(u)'
    BY <1>3, <2>1, <2>2 DEF Publication, Recorded, Known
  <2>5. Parked(u)'
    BY <2>1 DEF Parked, Waits
  <2> QED BY <2>3, <2>4, <2>5 DEF Publication
<1>4. CASE Falls /\ UNCHANGED <<conf, accepted, receipts>>
  <2>1. mem'[u] = disk[u] /\ disk'[u] = disk[u] /\ job'[u].pc = "idle" /\ phase' = "off"
    BY <1>4, Places DEF Falls
  <2>2. Asks(u)' /\ Intended(u)'
    BY <2>1 DEF Publication, Asks, Intended
  <2>3. Recorded(u)'
    BY <1>4, <2>1 DEF Publication, Recorded, Known
  <2>4. Parked(u)'
    BY <2>1 DEF Parked, Waits
  <2> QED BY <2>2, <2>3, <2>4 DEF Publication
<1>5. CASE Opened /\ UNCHANGED <<conf, stop, accepted>>
  <2>1. /\ disk'[u] = mem'[u] /\ job'[u] = job[u] /\ job[u].pc = "idle" /\ phase = "off" /\ phase' \in {"off", "tasks"}
        /\ Same(mem'[u], mem[u]) /\ (mem[u].st = "completed" => mem'[u].st = "completed")
        /\ receipts \cap accepted \subseteq receipts'
    BY <1>5 DEF Opened, InFlight
  <2>2. \/ phase' = "tasks" /\ conf.lean /\ conf.isolated /\ mem[u].st # "completed" /\ mem[u].n >= 1
              => <<u, mem[u].receipt>> \notin receipts \cap accepted
        \/ mem'[u].st = "completed"
    BY <1>5 DEF Opened
  <2>3. mem'[u].n = mem[u].n /\ mem'[u].asked = mem[u].asked /\ mem'[u].receipt = mem[u].receipt
    BY <2>1 DEF Same
  <2>4. Asks(u)' /\ Intended(u)'
    BY <2>1, <2>3 DEF Publication, Asks, Intended
  <2>5. Recorded(u)'
    <3> SUFFICES ASSUME conf.lean, NEW m \in Nat, <<u, m>> \in accepted
                 PROVE  m >= 1 /\ conf.isolated /\ Known(mem[u], u, m)'
      BY <1>5, <2>1, <2>3 DEF Recorded, Known
    <3>1. m >= 1 /\ conf.isolated /\ Known(mem[u], u, m)
      BY DEF Publication, Recorded
    <3> QED BY <2>1, <2>3, <3>1 DEF Known
  <2>6. Parked(u)'
    <3> SUFFICES ASSUME conf.lean, NEW m \in Nat, <<u, m>> \in accepted, m > mem[u].asked,
                        phase' # "off", mem'[u].st = "pending"
                 PROVE  FALSE
      BY <1>5, <2>1, <2>3 DEF Parked, Waits
    <3>1. m >= 1 /\ conf.isolated /\ Known(mem[u], u, m)
      BY DEF Publication, Recorded
    <3>2. mem[u].n = m /\ mem[u].receipt = m /\ <<u, m>> \in receipts
      BY <3>1, Marks DEF Known
    <3> QED BY <2>1, <2>2, <3>1, <3>2
  <2> QED BY <2>4, <2>5, <2>6 DEF Publication
<1> QED BY <1>1, <1>2, <1>3, <1>4, <1>5 DEF RunChange

\* Work that was published is done again only if a reviewer or an operator
\* sent it back, in every run of every graph.
THEOREM PublishedStays == Spec => []PublishedNotRedone
<1>1. Init => Published
  <2> SUFFICES ASSUME Init, NEW t \in Tasks PROVE Publication(t)
    BY DEF Published
  <2>1. mem[t] = Fresh /\ disk[t] = Fresh /\ job[t] = Idle /\ accepted = {}
    BY DEF Init
  <2>2. Fresh.asked = 0 /\ Fresh.n = 0 /\ Idle.pc = "idle"
    BY DEF Fresh, Idle
  <2> QED BY <2>1, <2>2 DEF Publication, Asks, Intended, Recorded, Parked
<1>2. TypeOK /\ Sound /\ Published /\ [Next]_vars => Published'
  <2> SUFFICES ASSUME TypeOK, Sound, Published, [Next]_vars, NEW u \in Tasks PROVE Publication(u)'
    BY DEF Published
  <2>1. Publication(u)
    BY DEF Published
  <2>2. CASE UNCHANGED vars
    BY <2>1, <2>2 DEF Publication, Asks, Intended, Recorded, Known, Parked, Waits, vars
  <2>3. CASE Next
    <3>1. (\E t \in Tasks : Change(t)) \/ RunChange
      BY <2>3, EveryStep
    <3>2. ASSUME NEW t \in Tasks, Change(t) PROVE Publication(u)'
      BY <2>1, <3>2, PublicationChange, PublicationOthers
    <3> QED BY <2>1, <3>1, <3>2, PublicationRun
  <2> QED BY <2>2, <2>3
<1>3. TypeOK /\ Published => PublishedNotRedone
  <2> SUFFICES ASSUME TypeOK, Published, conf.lean, NEW t \in Running, NEW p \in accepted,
                      p[1] = t, p[2] < mem[t].n
               PROVE  p[2] <= mem[t].asked
    BY DEF PublishedNotRedone
  <2>1. t \in Tasks /\ job[t].pc \notin {"idle", "published"}
    BY DEF Running, Live
  <2>2. p[2] \in Nat /\ <<t, p[2]>> \in accepted
    BY DEF TypeOK
  <2>3. Parked(t)
    BY <2>1 DEF Published, Publication
  <2> QED BY <2>1, <2>2, <2>3, Marks DEF Parked
<1> QED BY <1>1, <1>2, <1>3, Invariant, PTL DEF Spec
=============================================================================
