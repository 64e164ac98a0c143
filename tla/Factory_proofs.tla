-------------------------- MODULE Factory_proofs ---------------------------
(***************************************************************************)
(* Four facts about the closed-loop factory, for any goal, any number of   *)
(* hypotheses, reviews, answers, commits, deaths and retries:              *)
(*   - a review repairs nothing that nobody asked it to repair;            *)
(*   - verifiers and rechecks are judged by what they were shown;          *)
(*   - what a review reports was found on the commit it names;             *)
(*   - what is complete was certified on one commit, where every defect    *)
(*     was rechecked.                                                      *)
(* The argument is about the files that are still to be written.  A disk   *)
(* is in order (Fine) when what its checkpoint says has been done is in    *)
(* the run file and in the artifacts.  The invariant (FactoryInv) says     *)
(* that the list of writes leads, through disks that are all in order, to  *)
(* one that agrees with the process; a death finds one of them, a write    *)
(* goes on to the next, and a handler is correct when it writes what a     *)
(* stage relies on before the checkpoint that enters the stage.            *)
(***************************************************************************)
EXTENDS Factory, SequenceTheorems, TLAPS

-----------------------------------------------------------------------------
(* The disk, and what is true of it at every stage.                        *)

\* The stages from one on.
Certified == {"convergence", "complete"}
Regressing == {"recertification"} \cup Certified
Rechecking == {"remediation_verification"} \cup Regressing
Repairing == {"remediation"} \cup Rechecking
Reporting == {"report", "reported"} \cup Repairing
Explaining == {"root_cause"} \cup Reporting
Verifying == {"verification"} \cup Explaining
Judging == {"quality"} \cup Verifying
StageNames == {"implementation"} \cup Judging

Names == DOMAIN Blank
Outs == {"none", "text", "garbled"} \cup DOMAIN Reviews \cup DOMAIN Answers
Errors ==
    {"none", "report ready", "stage limit", "foreign", "damaged", "garbled", "dirty", "moved",
     "refused", "too many", "no change", "unresolved", "disputed", "stale", "coverage", "continue"}
States == {"none", "pending", "failed", "completed"}
Runs(hd) == [Tasks -> [st : States, spec : 0 .. hd, at : 0 .. hd, out : Outs]]
Ctls(hd) ==
    [stage : StageNames \cup {"none"}, status : Statuses, error : Errors,
     tasks : SUBSET Tasks, source : 0 .. hd]

\* The artifacts a stage decides with, at commits up to hd.
Written(hd, b) ==
    /\ b.hyps \in [found : SUBSET Hyps, missing : SUBSET Hyps, at : 0 .. hd, judged : BOOLEAN]
    /\ b.plan \subseteq Hyps
    /\ b.source \in 0 .. hd
    /\ b.base.commit \in 0 .. hd

\* What the process finds after a death: the run file, the checkpoint and the
\* text of every artifact.
Holding(r, k, b) == [run |-> r, ctl |-> k, has |-> b]
Text == [n \in Names |-> art[n].body]
Disk == Holding(run, ctl, Text)
Put(b, n, v) == [m \in Names |-> IF m = n THEN v ELSE b[m]]

Defects(d) == {h \in Hyps : d.has.results[h].verdict = "verified"}
Open(d) == {h \in Hyps : d.has.results[h].verdict = "inconclusive"}
There(d, t) == d.run[t].st # "none"
Ended(d, t) == d.run[t].st = "completed"
Stage(d) == d.ctl.stage

DiskTypes(hd, d) ==
    /\ d = Holding(d.run, d.ctl, d.has) /\ d.has = [n \in Names |-> d.has[n]]
    /\ d.run \in Runs(hd) /\ d.ctl \in Ctls(hd) /\ Written(hd, d.has)
    /\ Ended(d, Task("review")) => d.run[Task("review")].out \in DOMAIN Reviews \cup {"garbled"}

\* The tasks a stage looks for are in the list of the checkpoint.
Enrolled(d) ==
    /\ Stage(d) = "quality" => {Task("check"), Task("review")} \subseteq d.ctl.tasks
    /\ Stage(d) = "verification" => About("verify", d.has.hyps.found) \subseteq d.ctl.tasks
    /\ Stage(d) = "remediation_verification" => About("recheck", Defects(d)) \subseteq d.ctl.tasks
    /\ Stage(d) = "recertification" => {Task("regression"), Task("recertify")} \subseteq d.ctl.tasks

\* Repairs of a review come after its report, which somebody acted on.
Authorized(c, fx, d) ==
    c.review => \A h \in Hyps : There(d, <<"repair", h>>) =>
                    Stage(d) \in Reporting /\ d.has.report.commit \in fx

\* A task ran after the commit its prompt was written on, and in a review after
\* the commit the review was started on.
RanLater(c, d) ==
    \A t \in Tasks : Ended(d, t) =>
        d.run[t].spec <= d.run[t].at /\ (c.review => d.ctl.source <= d.run[t].at)

\* Verifications were asked about the packet that is kept, and rechecks about
\* the sources that are pinned.
Packets(d) ==
    /\ Stage(d) \in Verifying =>
          \A h \in d.has.hyps.found : d.run[<<"verify", h>>].spec = d.has.hyps.at
    /\ Stage(d) \in Rechecking =>
          \A h \in Defects(d) : d.run[<<"recheck", h>>].spec = d.has.source

\* What a review has established, stage by stage.
Reviewed(c, d) ==
    c.review =>
        /\ Stage(d) \in Verifying =>
              d.has.base.commit = d.ctl.source /\ d.has.base.at = {d.has.base.commit}
        /\ Stage(d) \in Explaining => \A h \in d.has.hyps.found : Ended(d, <<"verify", h>>)
        /\ Stage(d) \in Reporting =>
              /\ d.has.report.commit = d.has.base.commit
              /\ \A h \in d.has.hyps.found : d.run[<<"verify", h>>].at = d.has.base.commit

\* What the rechecks have: other sources than the baseline, and an end.
Rechecks(d) ==
    /\ Stage(d) \in Rechecking /\ Defects(d) # {} => d.has.source # d.has.base.commit
    /\ Stage(d) \in Regressing => \A h \in Defects(d) : Ended(d, <<"recheck", h>>)

\* The regression suite runs on what was rechecked, or later.
Regressed(d) ==
    \A t \in {Task("regression"), Task("recertify")} :
        /\ There(d, t) => Stage(d) \in Rechecking
        /\ Ended(d, t) => Stage(d) \in Regressing /\ d.has.source <= d.run[t].at

\* What is certified.
Certificates(d) ==
    /\ Stage(d) \in Certified =>
          /\ d.has.cert.at = {d.has.cert.commit} /\ Open(d) = {}
          /\ Defects(d) # {} => d.has.cert.commit # d.has.base.commit
          /\ \A h \in Defects(d) : /\ Conclusive(d.has.rechecks[h])
                                   /\ d.run[<<"recheck", h>>].at = d.has.cert.commit
    /\ Stage(d) = "complete" => d.has.decision = "stop"

\* The disk d is in order, for the goal c, at the commit hd, with fixes at fx.
Fine(c, hd, fx, d) ==
    /\ DiskTypes(hd, d) /\ Enrolled(d) /\ Authorized(c, fx, d) /\ RanLater(c, d) /\ Packets(d)
    /\ Reviewed(c, d) /\ Rechecks(d) /\ Regressed(d) /\ Certificates(d)

-----------------------------------------------------------------------------
(* What is still to be written leads from a disk to a disk, through disks   *)
(* that are all in order: a death finds one of them.                       *)

\* The write w turns the disk d into e.
Puts(w, d, e) ==
    \/ w.k = "run" /\ e = Holding(w.v, d.ctl, d.has)
    \/ w.k = "ctl" /\ e = Holding(d.run, w.v, d.has)
    \/ w.k = "body" /\ w.n \in Names /\ e = Holding(d.run, d.ctl, Put(d.has, w.n, w.v))
    \/ w.k = "ref" /\ w.n \in Names /\ e = d

Listed(ws) == \E S : ws \in Seq(S)
Way(p, ws, d, e) ==
    /\ p[0] = d /\ p[Len(ws)] = e
    /\ \A i \in 1 .. Len(ws) : Puts(ws[i], p[i - 1], p[i])
Leads(c, hd, fx, ws, d, e) ==
    /\ Listed(ws)
    /\ \E p : Way(p, ws, d, e) /\ \A i \in 0 .. Len(ws) : Fine(c, hd, fx, p[i])

\* Nothing to write leads nowhere.
LEMMA Stays ==
    ASSUME NEW c, NEW hd, NEW fx, NEW d, Fine(c, hd, fx, d)
    PROVE  Leads(c, hd, fx, <<>>, d, d)
<1> DEFINE p == [i \in {0} |-> d]
<1>1. <<>> \in Seq({}) /\ Len(<<>>) = 0
  OBVIOUS
<1>2. Way(p, <<>>, d, d) /\ \A i \in 0 .. 0 : Fine(c, hd, fx, p[i])
  BY <1>1 DEF Way
<1> QED BY <1>1, <1>2 DEF Leads, Listed

\* And a list that leads somewhere with nothing in it leads to where it began.
LEMMA StaysThere ==
    ASSUME NEW c, NEW hd, NEW fx, NEW d, NEW e, Leads(c, hd, fx, <<>>, d, e)
    PROVE  d = e
BY DEF Leads, Way

\* Every list leads from and to disks that are in order.
LEMMA Ends ==
    ASSUME NEW c, NEW hd, NEW fx, NEW d, NEW e, NEW ws, Leads(c, hd, fx, ws, d, e)
    PROVE  Fine(c, hd, fx, d) /\ Fine(c, hd, fx, e)
<1>1. PICK S : ws \in Seq(S)
  BY DEF Leads, Listed
<1>2. PICK p : Way(p, ws, d, e) /\ \A i \in 0 .. Len(ws) : Fine(c, hd, fx, p[i])
  BY DEF Leads
<1>3. 0 \in 0 .. Len(ws) /\ Len(ws) \in 0 .. Len(ws)
  BY <1>1
<1> QED BY <1>2, <1>3 DEF Way

\* One write.
LEMMA Writes ==
    ASSUME NEW c, NEW hd, NEW fx, NEW d, NEW e, NEW w, Fine(c, hd, fx, d), Fine(c, hd, fx, e),
           Puts(w, d, e)
    PROVE  Leads(c, hd, fx, <<w>>, d, e)
<1> DEFINE p == [i \in {0, 1} |-> IF i = 0 THEN d ELSE e]
           ws == <<w>>
<1>1. ws \in Seq({w}) /\ Len(ws) = 1 /\ ws[1] = w
  OBVIOUS
<1>2. p[0] = d /\ p[1] = e
  OBVIOUS
<1> HIDE DEF p, ws
<1>3. Way(p, ws, d, e)
  BY <1>1, <1>2 DEF Way
<1>4. \A i \in 0 .. Len(ws) : Fine(c, hd, fx, p[i])
  BY <1>1, <1>2
<1>5. Listed(ws)
  BY <1>1 DEF Listed
<1>6. Leads(c, hd, fx, ws, d, e)
  BY <1>3, <1>4, <1>5 DEF Leads
<1> QED BY <1>6 DEF ws

\* Two lists are of elements of one set.
LEMMA Together ==
    ASSUME NEW ws, NEW vs, Listed(ws), Listed(vs)
    PROVE  \E S : ws \in Seq(S) /\ vs \in Seq(S)
<1>1. PICK S : ws \in Seq(S)
  BY DEF Listed
<1>2. PICK T : vs \in Seq(T)
  BY DEF Listed
<1>3. ws \in Seq(S \cup T) /\ vs \in Seq(S \cup T)
  BY <1>1, <1>2, SeqDef
<1> QED BY <1>3

\* One list after another.
LEMMA Then ==
    ASSUME NEW c, NEW hd, NEW fx, NEW d, NEW e, NEW f, NEW ws, NEW vs,
           Leads(c, hd, fx, ws, d, e), Leads(c, hd, fx, vs, e, f)
    PROVE  Leads(c, hd, fx, ws \o vs, d, f)
<1>1. PICK S : ws \in Seq(S) /\ vs \in Seq(S)
  BY Together DEF Leads
<1>2. PICK p : Way(p, ws, d, e) /\ \A i \in 0 .. Len(ws) : Fine(c, hd, fx, p[i])
  BY DEF Leads
<1>3. PICK q : Way(q, vs, e, f) /\ \A i \in 0 .. Len(vs) : Fine(c, hd, fx, q[i])
  BY DEF Leads
<1> DEFINE m == Len(ws)
           n == Len(vs)
           us == ws \o vs
           r == [i \in 0 .. (m + n) |-> IF i <= m THEN p[i] ELSE q[i - m]]
<1>4. m \in Nat /\ n \in Nat
  BY <1>1
<1>5. /\ us \in Seq(S) /\ Len(us) = m + n
      /\ \A i \in 1 .. (m + n) : us[i] = IF i <= m THEN ws[i] ELSE vs[i - m]
  BY <1>1, ConcatProperties
<1>6. \A i \in 0 .. m : r[i] = p[i]
  BY <1>4
<1>7. \A i \in 0 .. n : r[i + m] = q[i]
  <2>1. p[m] = q[0]
    BY <1>2, <1>3 DEF Way
  <2>2. \A i \in 0 .. n : i # 0 => r[i + m] = q[i]
    BY <1>4
  <2>3. r[m] = p[m] /\ 0 + m = m
    BY <1>4
  <2> QED BY <2>1, <2>2, <2>3
<1> HIDE DEF r, us
<1>8. \A i \in 1 .. (m + n) : Puts(us[i], r[i - 1], r[i])
  <2> TAKE i \in 1 .. (m + n)
  <2>1. CASE i <= m
    <3>1. i \in 1 .. m /\ i \in 0 .. m /\ i - 1 \in 0 .. m
      BY <2>1, <1>4
    <3> QED BY <3>1, <2>1, <1>2, <1>5, <1>6 DEF Way
  <2>2. CASE ~(i <= m)
    <3> DEFINE j == i - m
    <3>1. j \in 1 .. n /\ j \in 0 .. n /\ j - 1 \in 0 .. n /\ j + m = i /\ (j - 1) + m = i - 1
      BY <2>2, <1>4
    <3>2. r[i] = q[j] /\ r[i - 1] = q[j - 1]
      BY <3>1, <1>7
    <3>3. us[i] = vs[j]
      BY <2>2, <1>5
    <3> HIDE DEF j
    <3>4. Puts(vs[j], q[j - 1], q[j])
      BY <1>3, <3>1 DEF Way
    <3> QED BY <3>2, <3>3, <3>4
  <2> QED BY <2>1, <2>2
<1>9. r[0] = d /\ r[m + n] = f
  <2>1. 0 \in 0 .. m /\ n \in 0 .. n /\ n + m = m + n
    BY <1>4
  <2> QED BY <2>1, <1>2, <1>3, <1>6, <1>7 DEF Way
<1>10. \A i \in 0 .. (m + n) : Fine(c, hd, fx, r[i])
  <2> TAKE i \in 0 .. (m + n)
  <2>1. CASE i <= m
    <3>1. i \in 0 .. m
      BY <2>1, <1>4
    <3> QED BY <3>1, <1>2, <1>6
  <2>2. CASE ~(i <= m)
    <3> DEFINE j == i - m
    <3>1. j \in 0 .. n /\ j + m = i
      BY <2>2, <1>4
    <3> HIDE DEF j
    <3> QED BY <3>1, <1>3, <1>7
  <2> QED BY <2>1, <2>2
<1>11. Way(r, us, d, f)
  BY <1>5, <1>8, <1>9 DEF Way
<1>12. Listed(us)
  BY <1>5 DEF Listed
<1>13. Leads(c, hd, fx, us, d, f)
  BY <1>5, <1>10, <1>11, <1>12 DEF Leads
<1> QED BY <1>13 DEF us

\* What remains when the first write is done.
LEMMA Goes ==
    ASSUME NEW c, NEW hd, NEW fx, NEW d, NEW e, NEW ws, Leads(c, hd, fx, ws, d, e), ws # <<>>
    PROVE  \E f : Puts(Head(ws), d, f) /\ Leads(c, hd, fx, Tail(ws), f, e)
<1>1. PICK S : ws \in Seq(S)
  BY DEF Leads, Listed
<1>2. PICK p : Way(p, ws, d, e) /\ \A i \in 0 .. Len(ws) : Fine(c, hd, fx, p[i])
  BY DEF Leads
<1> DEFINE n == Len(ws)
           vs == Tail(ws)
           q == [i \in 0 .. (n - 1) |-> p[i + 1]]
<1>3. n \in Nat /\ n >= 1 /\ Head(ws) = ws[1]
  BY <1>1
<1>4. vs \in Seq(S) /\ Len(vs) = n - 1 /\ \A i \in 1 .. (n - 1) : vs[i] = ws[i + 1]
  BY <1>1
<1>5. \A i \in 0 .. (n - 1) : q[i] = p[i + 1] /\ i + 1 \in 0 .. n
  BY <1>3
<1> HIDE DEF q, vs
<1>6. Puts(Head(ws), d, q[0]) /\ q[0] = p[1]
  <2>1. 1 \in 1 .. n /\ 0 \in 0 .. (n - 1) /\ 1 - 1 = 0 /\ 0 + 1 = 1
    BY <1>3
  <2>2. Puts(ws[1], p[1 - 1], p[1])
    BY <2>1, <1>2 DEF Way
  <2> QED BY <2>1, <2>2, <1>2, <1>3, <1>5 DEF Way
<1>7. \A i \in 1 .. (n - 1) : Puts(vs[i], q[i - 1], q[i])
  <2> TAKE i \in 1 .. (n - 1)
  <2>1. i + 1 \in 1 .. n /\ i \in 0 .. (n - 1) /\ i - 1 \in 0 .. (n - 1) /\ (i + 1) - 1 = i /\ (i - 1) + 1 = i
    BY <1>3
  <2>2. Puts(ws[i + 1], p[(i + 1) - 1], p[i + 1])
    BY <2>1, <1>2 DEF Way
  <2> QED BY <2>1, <2>2, <1>4, <1>5
<1>8. q[n - 1] = e
  <2>1. n - 1 \in 0 .. (n - 1) /\ (n - 1) + 1 = n
    BY <1>3
  <2> QED BY <2>1, <1>2, <1>5 DEF Way
<1>9. \A i \in 0 .. (n - 1) : Fine(c, hd, fx, q[i])
  BY <1>2, <1>5
<1>10. Way(q, vs, q[0], e)
  BY <1>4, <1>7, <1>8 DEF Way
<1>11. Listed(vs)
  BY <1>4 DEF Listed
<1>12. Leads(c, hd, fx, vs, q[0], e)
  BY <1>4, <1>9, <1>10, <1>11 DEF Leads
<1> QED BY <1>6, <1>12 DEF vs

\* Two lists of one write.
LEMMA Two ==
    ASSUME NEW w1, NEW w2 PROVE <<w1>> \o <<w2>> = <<w1, w2>>
<1> DEFINE S == {w1, w2}
           u == <<w1>> \o <<w2>>
           v == <<w1, w2>>
<1>1. <<w1>> \in Seq(S) /\ <<w2>> \in Seq(S) /\ Len(<<w1>>) = 1 /\ Len(<<w2>>) = 1
      /\ <<w1>>[1] = w1 /\ <<w2>>[1] = w2
  OBVIOUS
<1>2. v \in Seq(S) /\ Len(v) = 2 /\ v[1] = w1 /\ v[2] = w2
  OBVIOUS
<1>3. u \in Seq(S) /\ Len(u) = 2 /\ u[1] = w1 /\ u[2] = w2
  BY <1>1, ConcatProperties
<1> HIDE DEF u, v
<1>4. \A i \in 1 .. Len(u) : u[i] = v[i]
  <2>1. \A i \in 1 .. 2 : i = 1 \/ i = 2
    OBVIOUS
  <2> QED BY <2>1, <1>2, <1>3
<1>5. u = v
  BY <1>2, <1>3, <1>4, SeqEqual
<1> QED BY <1>5 DEF u, v

\* Saving an artifact.
LEMMA SaveLeads ==
    ASSUME NEW c, NEW hd, NEW fx, NEW d, NEW e, NEW n \in Names, NEW v,
           e = Holding(d.run, d.ctl, Put(d.has, n, v)), Fine(c, hd, fx, d), Fine(c, hd, fx, e)
    PROVE  Leads(c, hd, fx, Save(n, v), d, e)
<1> DEFINE w1 == [k |-> "body", n |-> n, v |-> v]
           w2 == [k |-> "ref", n |-> n, v |-> v]
<1>1. Puts(w1, d, e) /\ Puts(w2, e, e)
  BY DEF Puts
<1> HIDE DEF w1, w2
<1>2. Leads(c, hd, fx, <<w1>>, d, e) /\ Leads(c, hd, fx, <<w2>>, e, e)
  BY <1>1, Writes
<1>3. Leads(c, hd, fx, <<w1>> \o <<w2>>, d, e)
  BY <1>2, Then
<1>4. <<w1>> \o <<w2>> = <<w1, w2>>
  BY Two
<1> QED BY <1>3, <1>4 DEF Save, w1, w2

\* Saving the run file.
LEMMA RunLeads ==
    ASSUME NEW c, NEW hd, NEW fx, NEW d, NEW e, NEW r, d.run = run,
           e = Holding(r, d.ctl, d.has), Fine(c, hd, fx, d), Fine(c, hd, fx, e)
    PROVE  Leads(c, hd, fx, SaveRun(r), d, e)
<1>1. CASE r = run
  <2>1. d = e
    BY <1>1 DEF Fine, DiskTypes
  <2>2. Leads(c, hd, fx, <<>>, d, e)
    BY <2>1, Stays
  <2> QED BY <2>2, <1>1 DEF SaveRun
<1>2. CASE r # run
  <2> DEFINE w == [k |-> "run", v |-> r]
  <2>1. Puts(w, d, e)
    BY DEF Puts
  <2> HIDE DEF w
  <2>2. Leads(c, hd, fx, <<w>>, d, e)
    BY <2>1, Writes
  <2> QED BY <2>2, <1>2 DEF SaveRun, w
<1> QED BY <1>1, <1>2

\* What a checkpoint of the process s holds.
Kept(s) == [x \in DOMAIN NoCtl |-> s[x]]

\* Saving the checkpoint.
LEMMA CheckpointLeads ==
    ASSUME NEW c, NEW hd, NEW fx, NEW d, NEW e, NEW s,
           e = Holding(d.run, Kept(s), d.has), Fine(c, hd, fx, d), Fine(c, hd, fx, e)
    PROVE  Leads(c, hd, fx, Checkpoint(s), d, e)
<1> DEFINE w == [k |-> "ctl", v |-> Kept(s)]
<1>1. Puts(w, d, e)
  BY DEF Puts
<1>2. Checkpoint(s) = <<w>>
  BY DEF Checkpoint, Kept
<1> HIDE DEF w
<1> QED BY <1>1, <1>2, Writes

-----------------------------------------------------------------------------
(* What keeps a disk in order.                                             *)

\* A disk that was in order still is when commits and fixes were added.
LEMMA FineLater ==
    ASSUME NEW c, NEW hd \in Nat, NEW fx, NEW d, NEW hd2 \in Nat, NEW fx2,
           Fine(c, hd, fx, d), hd <= hd2, fx \subseteq fx2
    PROVE  Fine(c, hd2, fx2, d)
<1>1. 0 .. hd \subseteq 0 .. hd2
  OBVIOUS
<1>2. DiskTypes(hd2, d)
  <2>1. d.run \in Runs(hd2)
    BY <1>1 DEF Fine, DiskTypes, Runs
  <2>2. d.ctl \in Ctls(hd2)
    BY <1>1 DEF Fine, DiskTypes, Ctls
  <2>3. Written(hd2, d.has)
    BY <1>1 DEF Fine, DiskTypes, Written
  <2> QED BY <2>1, <2>2, <2>3 DEF Fine, DiskTypes
<1>3. Authorized(c, fx2, d)
  BY DEF Fine, Authorized
<1> QED BY <1>2, <1>3 DEF Fine

\* Writing the checkpoint at the stage it is at, with more tasks.
LEMMA CtlFine ==
    ASSUME NEW c, NEW hd \in Nat, NEW fx, NEW d, NEW k \in Ctls(hd), Fine(c, hd, fx, d),
           k.stage = d.ctl.stage, k.source = d.ctl.source, d.ctl.tasks \subseteq k.tasks
    PROVE  Fine(c, hd, fx, Holding(d.run, k, d.has))
<1> DEFINE e == Holding(d.run, k, d.has)
<1>1. e.run = d.run /\ e.ctl = k /\ e.has = d.has /\ Stage(e) = Stage(d)
  BY DEF Holding, Stage
<1>2. e = Holding(e.run, e.ctl, e.has)
  BY <1>1
<1> HIDE DEF e
<1>3. /\ Defects(e) = Defects(d) /\ Open(e) = Open(d)
      /\ \A t : There(e, t) = There(d, t) /\ Ended(e, t) = Ended(d, t)
  BY <1>1 DEF Defects, Open, There, Ended
<1>4. DiskTypes(hd, e)
  BY <1>1, <1>2, <1>3 DEF Fine, DiskTypes
<1>5. Enrolled(e)
  BY <1>1, <1>3 DEF Fine, Enrolled
<1>6. Authorized(c, fx, e)
  BY <1>1, <1>3 DEF Fine, Authorized
<1>7. RanLater(c, e)
  BY <1>1, <1>3 DEF Fine, RanLater
<1>8. Packets(e)
  BY <1>1, <1>3 DEF Fine, Packets
<1>9. Reviewed(c, e)
  BY <1>1, <1>3 DEF Fine, Reviewed
<1>10. Rechecks(e)
  BY <1>1, <1>3 DEF Fine, Rechecks
<1>11. Regressed(e)
  BY <1>1, <1>3 DEF Fine, Regressed
<1>12. Certificates(e)
  BY <1>1, <1>3 DEF Fine, Certificates
<1> QED BY <1>4, <1>5, <1>6, <1>7, <1>8, <1>9, <1>10, <1>11, <1>12 DEF Fine, e

\* Nothing but the artifacts in ns changes from b to b2.
Changes(b, b2, ns) == \A n \in Names \ ns : b2[n] = b[n]

\* The artifacts a stage may write, whatever it writes.
May(stage, b, b2) ==
    \/ Changes(b, b2, {"graph"})
    \/ stage = "quality" /\ Changes(b, b2, {"graph", "coverage", "base", "hyps"})
    \/ /\ stage = "verification" /\ Changes(b, b2, {"graph", "hyps", "results"})
       /\ b2.hyps.found = b.hyps.found /\ b2.hyps.at = b.hyps.at
    \/ stage = "root_cause" /\ Changes(b, b2, {"graph", "plan", "report"})
    \/ stage = "remediation" /\ Changes(b, b2, {"source"})
    \/ stage = "remediation_verification" /\ Changes(b, b2, {"graph", "rechecks"})
    \/ stage = "recertification" /\ Changes(b, b2, {"cert"})
    \/ stage = "convergence" /\ Changes(b, b2, {"decision"})

\* The names of the artifacts.
LEMMA NamesAre ==
    Names = {"graph", "hyps", "coverage", "base", "results", "plan", "report", "source", "rechecks",
             "cert", "decision"}
BY DEF Names, Blank

\* A stage writes nothing a later stage relies on.
LEMMA WriteFine ==
    ASSUME NEW c, NEW hd \in Nat, NEW fx, NEW d, NEW b, Fine(c, hd, fx, d),
           b = [n \in Names |-> b[n]], Written(hd, b), May(Stage(d), d.has, b)
    PROVE  Fine(c, hd, fx, Holding(d.run, d.ctl, b))
<1> DEFINE e == Holding(d.run, d.ctl, b)
<1>1. e.run = d.run /\ e.ctl = d.ctl /\ e.has = b /\ Stage(e) = Stage(d)
  BY DEF Holding, Stage
<1>2. e = Holding(e.run, e.ctl, e.has)
  BY <1>1
<1> HIDE DEF e
<1>3. \A t : There(e, t) = There(d, t) /\ Ended(e, t) = Ended(d, t)
  BY <1>1 DEF There, Ended
<1>4. Stage(d) \notin {"verification"} => (b.results = d.has.results)
  BY NamesAre DEF May, Changes
<1>5. Stage(d) \notin {"quality"} => b.hyps.found = d.has.hyps.found /\ b.hyps.at = d.has.hyps.at /\ b.base = d.has.base
  BY NamesAre DEF May, Changes
<1>6. Stage(d) # "root_cause" => b.report = d.has.report
  BY NamesAre DEF May, Changes
<1>7. Stage(d) # "remediation" => b.source = d.has.source
  BY NamesAre DEF May, Changes
<1>8. Stage(d) # "remediation_verification" => b.rechecks = d.has.rechecks
  BY NamesAre DEF May, Changes
<1>9. Stage(d) # "recertification" => b.cert = d.has.cert
  BY NamesAre DEF May, Changes
<1>10. Stage(d) # "convergence" => b.decision = d.has.decision
  BY NamesAre DEF May, Changes
<1>11. Stage(d) # "verification" => Defects(e) = Defects(d) /\ Open(e) = Open(d)
  BY <1>1, <1>4 DEF Defects, Open
<1>12. DiskTypes(hd, e)
  BY <1>1, <1>2, <1>3 DEF Fine, DiskTypes
<1>13. Enrolled(e)
  BY <1>1, <1>3, <1>5, <1>11 DEF Fine, Enrolled
<1>14. Authorized(c, fx, e)
  <2>1. "root_cause" \notin Reporting
    BY DEF Reporting, Repairing, Rechecking, Regressing, Certified
  <2> QED BY <2>1, <1>1, <1>3, <1>6 DEF Fine, Authorized
<1>15. RanLater(c, e)
  BY <1>1, <1>3 DEF Fine, RanLater
<1>16. Packets(e)
  <2>1. "quality" \notin Verifying /\ "remediation" \notin Rechecking /\ "verification" \notin Rechecking
    BY DEF Verifying, Explaining, Reporting, Repairing, Rechecking, Regressing, Certified
  <2> QED BY <2>1, <1>1, <1>3, <1>5, <1>7, <1>11 DEF Fine, Packets
<1>17. Reviewed(c, e)
  <2>1. /\ "quality" \notin Verifying /\ "quality" \notin Explaining
        /\ "quality" \notin Reporting /\ "root_cause" \notin Reporting
    BY DEF Verifying, Explaining, Reporting, Repairing, Rechecking, Regressing, Certified
  <2> QED BY <2>1, <1>1, <1>3, <1>5, <1>6 DEF Fine, Reviewed
<1>18. Rechecks(e)
  <2>1. /\ "verification" \notin Rechecking /\ "verification" \notin Regressing
        /\ "remediation" \notin Rechecking /\ "quality" \notin Rechecking
    BY DEF Rechecking, Regressing, Certified
  <2> QED BY <2>1, <1>1, <1>3, <1>5, <1>7, <1>11 DEF Fine, Rechecks
<1>19. Regressed(e)
  <2>1. "remediation" \notin Regressing
    BY DEF Rechecking, Regressing, Certified
  <2> QED BY <2>1, <1>1, <1>3, <1>7 DEF Fine, Regressed
<1>20. Certificates(e)
  <2>1. /\ "verification" \notin Certified /\ "quality" \notin Certified
        /\ "recertification" \notin Certified /\ "remediation_verification" \notin Certified
    BY DEF Certified
  <2> QED BY <2>1, <1>1, <1>3, <1>5, <1>8, <1>9, <1>10, <1>11 DEF Fine, Certificates
<1> QED BY <1>12, <1>13, <1>14, <1>15, <1>16, <1>17, <1>18, <1>19, <1>20 DEF Fine, e

\* A run file in which what is there is as it was, or is pending or failed at a
\* stage that does not rely on it, and what is new was asked for in time.
Sent(c, fx, d, ts) ==
    /\ ts \subseteq Tasks
    /\ \A t \in ts :
          /\ t[1] = "verify" => Stage(d) \notin Verifying
          /\ t[1] = "recheck" => Stage(d) \notin Rechecking
          /\ t[1] \in {"regression", "recertify"} => Stage(d) \in Rechecking
          /\ t[1] = "repair" /\ c.review => Stage(d) \in Reporting /\ d.has.report.commit \in fx

\* The tasks are pairs.
LEMMA TaskPairs ==
    /\ \A h \in Hyps : <<"verify", h>> \in Tasks /\ <<"repair", h>> \in Tasks /\ <<"recheck", h>> \in Tasks
    /\ \A k \in Singles : Task(k) \in Tasks /\ Task(k)[1] = k
    /\ \A t \in Tasks : t[1] \in Singles => t = Task(t[1])
    /\ \A k, h : <<k, h>>[1] = k
BY DEF Tasks, Singles, Task

\* Adding tasks to the run file.
LEMMA EnsuredFine ==
    ASSUME NEW c, NEW fx, NEW d, NEW ts, head \in Nat, Fine(c, head, fx, d), d.run = run,
           Sent(c, fx, d, ts)
    PROVE  Fine(c, head, fx, Holding(Ensured(run, ts), d.ctl, d.has))
<1> DEFINE r == Ensured(run, ts)
           e == Holding(r, d.ctl, d.has)
<1>1. e.run = r /\ e.ctl = d.ctl /\ e.has = d.has /\ Stage(e) = Stage(d)
  BY DEF Holding, Stage
<1>2. e = Holding(e.run, e.ctl, e.has)
  BY <1>1
<1>3. Defects(e) = Defects(d) /\ Open(e) = Open(d)
  BY <1>1 DEF Defects, Open
<1>4. run \in Runs(head)
  BY DEF Fine, DiskTypes
<1>5. \A t \in Tasks : ~(t \in ts /\ run[t].st = "none") => r[t] = run[t]
  BY DEF Ensured
<1>6. \A t \in Tasks : t \in ts /\ run[t].st = "none" =>
          r[t].st = "pending" /\ r[t] \in [st : States, spec : 0 .. head, at : 0 .. head, out : Outs]
  <2> SUFFICES ASSUME NEW t \in Tasks, t \in ts, run[t].st = "none"
               PROVE  r[t].st = "pending" /\ r[t] \in [st : States, spec : 0 .. head, at : 0 .. head, out : Outs]
    OBVIOUS
  <2>1. r[t] = [st |-> "pending", spec |-> Prompt(t), at |-> 0, out |-> "none"]
    BY DEF Ensured, NoTask
  <2>2. Prompt(t) \in 0 .. head /\ 0 \in 0 .. head
    BY DEF Prompt
  <2> QED BY <2>1, <2>2 DEF States, Outs
<1>7. r \in Runs(head)
  <2>1. r = [t \in Tasks |-> r[t]]
    BY DEF Ensured
  <2>2. \A t \in Tasks : r[t] \in [st : States, spec : 0 .. head, at : 0 .. head, out : Outs]
    BY <1>4, <1>5, <1>6 DEF Runs
  <2> HIDE DEF r
  <2> QED BY <2>1, <2>2 DEF Runs
<1> HIDE DEF r, e
<1>8. \A t \in Tasks : Ended(e, t) => Ended(d, t) /\ r[t] = run[t]
  BY <1>1, <1>5, <1>6 DEF Ended
<1>9. \A t \in Tasks : Ended(d, t) => Ended(e, t) /\ r[t] = run[t]
  BY <1>1, <1>5 DEF Ended
<1>10. \A t \in Tasks : There(e, t) => There(d, t) \/ t \in ts
  BY <1>1, <1>5 DEF There
<1>11. \A t \in Tasks : t \notin ts => r[t] = run[t]
  BY <1>5
<1>12. DiskTypes(head, e)
  <2>1. Task("review") \in Tasks
    BY TaskPairs DEF Singles
  <2> QED BY <2>1, <1>1, <1>2, <1>7, <1>8 DEF Fine, DiskTypes
<1>13. Enrolled(e)
  BY <1>1, <1>3 DEF Fine, Enrolled
<1>14. Authorized(c, fx, e)
  <2> SUFFICES ASSUME c.review, NEW h \in Hyps, There(e, <<"repair", h>>)
               PROVE  Stage(e) \in Reporting /\ e.has.report.commit \in fx
    BY DEF Authorized
  <2>1. <<"repair", h>> \in Tasks /\ <<"repair", h>>[1] = "repair"
    BY TaskPairs
  <2>2. CASE There(d, <<"repair", h>>)
    BY <2>2, <1>1 DEF Fine, Authorized
  <2>3. CASE <<"repair", h>> \in ts
    BY <2>1, <2>3, <1>1 DEF Sent
  <2> QED BY <2>1, <2>2, <2>3, <1>10
<1>15. RanLater(c, e)
  BY <1>1, <1>8 DEF Fine, RanLater
<1>16. Packets(e)
  <2>1. Stage(d) \in Verifying => \A h \in d.has.hyps.found : r[<<"verify", h>>] = run[<<"verify", h>>]
    <3>1. \A h \in d.has.hyps.found : <<"verify", h>> \in Tasks /\ <<"verify", h>>[1] = "verify"
      BY TaskPairs DEF Fine, DiskTypes, Written
    <3> QED BY <3>1, <1>11 DEF Sent
  <2>2. Stage(d) \in Rechecking => \A h \in Defects(d) : r[<<"recheck", h>>] = run[<<"recheck", h>>]
    <3>1. \A h \in Defects(d) : <<"recheck", h>> \in Tasks /\ <<"recheck", h>>[1] = "recheck"
      BY TaskPairs DEF Defects
    <3> QED BY <3>1, <1>11 DEF Sent
  <2> QED BY <2>1, <2>2, <1>1, <1>3 DEF Fine, Packets
<1>17. Reviewed(c, e)
  <2>1. \A h \in d.has.hyps.found : <<"verify", h>> \in Tasks
    BY TaskPairs DEF Fine, DiskTypes, Written
  <2>2. Stage(d) \in Reporting => Stage(d) \in Explaining
    BY DEF Explaining
  <2> QED BY <2>1, <2>2, <1>1, <1>3, <1>9 DEF Fine, Reviewed
<1>18. Rechecks(e)
  <2>1. \A h \in Defects(d) : <<"recheck", h>> \in Tasks
    BY TaskPairs DEF Defects
  <2> QED BY <2>1, <1>1, <1>3, <1>9 DEF Fine, Rechecks
<1>19. Regressed(e)
  <2> SUFFICES ASSUME NEW t \in {Task("regression"), Task("recertify")}
               PROVE  /\ There(e, t) => Stage(e) \in Rechecking
                      /\ Ended(e, t) => Stage(e) \in Regressing /\ e.has.source <= e.run[t].at
    BY DEF Regressed
  <2>1. t \in Tasks /\ t[1] \in {"regression", "recertify"}
    BY TaskPairs DEF Singles
  <2>2. There(e, t) => Stage(e) \in Rechecking
    <3>1. There(d, t) => Stage(e) \in Rechecking
      BY <1>1 DEF Fine, Regressed
    <3>2. t \in ts => Stage(e) \in Rechecking
      BY <2>1, <1>1 DEF Sent
    <3> QED BY <3>1, <3>2, <2>1, <1>10
  <2>3. Ended(e, t) => Stage(e) \in Regressing /\ e.has.source <= e.run[t].at
    BY <2>1, <1>1, <1>8 DEF Fine, Regressed
  <2> QED BY <2>2, <2>3
<1>20. Certificates(e)
  <2>1. Stage(d) \in Certified => \A h \in Defects(d) : r[<<"recheck", h>>] = run[<<"recheck", h>>]
    <3>1. \A h \in Defects(d) : <<"recheck", h>> \in Tasks /\ <<"recheck", h>>[1] = "recheck"
      BY TaskPairs DEF Defects
    <3>2. Stage(d) \in Certified => Stage(d) \in Rechecking
      BY DEF Rechecking, Regressing
    <3> QED BY <3>1, <3>2, <1>11 DEF Sent
  <2> QED BY <2>1, <1>1, <1>3 DEF Fine, Certificates
<1> QED BY <1>12, <1>13, <1>14, <1>15, <1>16, <1>17, <1>18, <1>19, <1>20 DEF Fine, e, r

-----------------------------------------------------------------------------
(* From stage to stage.                                                    *)

\* k is a checkpoint that goes on from that of d, at the stage given.
Onward(hd, d, k, stage) ==
    /\ k \in Ctls(hd) /\ k.stage = stage /\ k.source = d.ctl.source
    /\ d.ctl.tasks \subseteq k.tasks

\* What a later stage asks for is all there is to show of a step to it.
LEMMA Onwards ==
    ASSUME NEW c, NEW hd \in Nat, NEW fx, NEW d, NEW k, NEW e, NEW next, Fine(c, hd, fx, d),
           Onward(hd, d, k, next), e = Holding(d.run, k, d.has),
           Stage(d) \in Reporting => next \in Reporting,
           Stage(d) \in Rechecking => next \in Rechecking,
           Stage(d) \in Regressing => next \in Regressing,
           Enrolled(e), Packets(e), Reviewed(c, e), Rechecks(e), Certificates(e)
    PROVE  Fine(c, hd, fx, e)
<1>1. e.run = d.run /\ e.ctl = k /\ e.has = d.has /\ Stage(e) = next
  BY DEF Holding, Stage, Onward
<1>2. e = Holding(e.run, e.ctl, e.has)
  BY <1>1
<1>3. \A t : There(e, t) = There(d, t) /\ Ended(e, t) = Ended(d, t)
  BY <1>1 DEF There, Ended
<1>4. DiskTypes(hd, e)
  BY <1>1, <1>2, <1>3 DEF Fine, DiskTypes, Onward
<1>5. Authorized(c, fx, e)
  BY <1>1, <1>3 DEF Fine, Authorized
<1>6. RanLater(c, e)
  BY <1>1, <1>3 DEF Fine, RanLater, Onward
<1>7. Regressed(e)
  BY <1>1, <1>3 DEF Fine, Regressed
<1> QED BY <1>4, <1>5, <1>6, <1>7 DEF Fine

\* The beginning: the commit a review is of is noted before any task is there.
LEMMA ToImplementation ==
    ASSUME NEW c, NEW hd \in Nat, NEW fx, NEW d, NEW k \in Ctls(hd), NEW e, Fine(c, hd, fx, d),
           Stage(d) = "none", k.stage = "implementation", e = Holding(d.run, k, d.has),
           \A t \in Tasks : ~There(d, t)
    PROVE  Fine(c, hd, fx, e)
<1>1. e.run = d.run /\ e.ctl = k /\ e.has = d.has /\ Stage(e) = k.stage
  BY DEF Holding, Stage
<1>2. e = Holding(e.run, e.ctl, e.has)
  BY <1>1
<1>3. \A t \in Tasks : ~There(e, t) /\ ~Ended(e, t)
  BY <1>1 DEF There, Ended
<1>4. \A t \in {Task("review"), Task("regression"), Task("recertify")} : t \in Tasks
  BY TaskPairs DEF Singles
<1>5. \A h \in Hyps : <<"repair", h>> \in Tasks
  BY TaskPairs
<1>6. "implementation" \notin Verifying /\ "implementation" \notin Explaining
      /\ "implementation" \notin Reporting /\ "implementation" \notin Rechecking
      /\ "implementation" \notin Regressing /\ "implementation" \notin Certified
  BY DEF Verifying, Explaining, Reporting, Repairing, Rechecking, Regressing, Certified
<1>7. DiskTypes(hd, e)
  BY <1>1, <1>2, <1>3, <1>4 DEF Fine, DiskTypes
<1>8. Enrolled(e) /\ Packets(e) /\ Reviewed(c, e) /\ Rechecks(e) /\ Certificates(e)
  BY <1>1, <1>6 DEF Enrolled, Packets, Reviewed, Rechecks, Certificates
<1>9. Authorized(c, fx, e) /\ RanLater(c, e) /\ Regressed(e)
  BY <1>3, <1>4, <1>5 DEF Authorized, RanLater, Regressed
<1> QED BY <1>7, <1>8, <1>9 DEF Fine

\* The checks and the review are asked for.
LEMMA ToQuality ==
    ASSUME NEW c, NEW hd \in Nat, NEW fx, NEW d, NEW k, NEW e, Fine(c, hd, fx, d),
           Stage(d) = "implementation", Onward(hd, d, k, "quality"), e = Holding(d.run, k, d.has),
           {Task("check"), Task("review")} \subseteq k.tasks
    PROVE  Fine(c, hd, fx, e)
<1>1. Stage(e) = "quality" /\ e.ctl = k /\ k.stage = "quality"
  BY DEF Onward, Holding, Stage, Defects, Open, Ended
<1>2. /\ "quality" \notin Verifying /\ "quality" \notin Explaining
      /\ "quality" \notin Reporting /\ "quality" \notin Rechecking
      /\ "quality" \notin Regressing /\ "quality" \notin Certified
      /\ "implementation" \notin Reporting /\ "implementation" \notin Rechecking /\ "implementation" \notin Regressing
  BY DEF Verifying, Explaining, Reporting, Repairing, Rechecking, Regressing, Certified
<1>3. Enrolled(e)
  BY <1>1 DEF Enrolled
<1>4. Packets(e) /\ Reviewed(c, e) /\ Rechecks(e) /\ Certificates(e)
  BY <1>1, <1>2 DEF Packets, Reviewed, Rechecks, Certificates
<1>9. /\ Stage(d) \in Reporting => "quality" \in Reporting
      /\ Stage(d) \in Rechecking => "quality" \in Rechecking
      /\ Stage(d) \in Regressing => "quality" \in Regressing
  BY <1>2
<1>10. Onward(hd, d, k, "quality")
  OBVIOUS
<1> QED BY <1>1, <1>2, <1>3, <1>4, <1>9, <1>10, Onwards

\* The verifications are asked for, on the packet that is kept.
LEMMA ToVerification ==
    ASSUME NEW c, NEW hd \in Nat, NEW fx, NEW d, NEW k, NEW e, Fine(c, hd, fx, d),
           Stage(d) = "quality", Onward(hd, d, k, "verification"), e = Holding(d.run, k, d.has),
           About("verify", d.has.hyps.found) \subseteq k.tasks,
           \A h \in d.has.hyps.found : d.run[<<"verify", h>>].spec = d.has.hyps.at,
           c.review => d.has.base.commit = d.ctl.source /\ d.has.base.at = {d.has.base.commit}
    PROVE  Fine(c, hd, fx, e)
<1>1. Stage(e) = "verification" /\ e.ctl = k /\ e.has = d.has /\ e.run = d.run /\ k.source = d.ctl.source /\ k.stage = "verification"
  BY DEF Onward, Holding, Stage, Defects, Open, Ended
<1>2. /\ "verification" \notin Explaining
      /\ "verification" \notin Reporting /\ "verification" \notin Rechecking
      /\ "verification" \notin Regressing /\ "verification" \notin Certified
      /\ "quality" \notin Reporting /\ "quality" \notin Rechecking /\ "quality" \notin Regressing
  BY DEF Explaining, Reporting, Repairing, Rechecking, Regressing, Certified
<1>3. Enrolled(e)
  BY <1>1 DEF Enrolled
<1>4. Rechecks(e) /\ Certificates(e)
  BY <1>1, <1>2 DEF Rechecks, Certificates
<1>5. Packets(e)
  BY <1>1, <1>2 DEF Packets
<1>6. Reviewed(c, e)
  BY <1>1, <1>2 DEF Reviewed
<1>9. /\ Stage(d) \in Reporting => "verification" \in Reporting
      /\ Stage(d) \in Rechecking => "verification" \in Rechecking
      /\ Stage(d) \in Regressing => "verification" \in Regressing
  BY <1>2
<1>10. Onward(hd, d, k, "verification")
  OBVIOUS
<1> QED BY <1>1, <1>2, <1>3, <1>4, <1>5, <1>6, <1>9, <1>10, Onwards

\* The verifications ended.
LEMMA ToRootCause ==
    ASSUME NEW c, NEW hd \in Nat, NEW fx, NEW d, NEW k, NEW e, Fine(c, hd, fx, d),
           Stage(d) = "verification", Onward(hd, d, k, "root_cause"), e = Holding(d.run, k, d.has),
           \A h \in d.has.hyps.found : Ended(d, <<"verify", h>>)
    PROVE  Fine(c, hd, fx, e)
<1>1. /\ Stage(e) = "root_cause" /\ e.ctl = k /\ e.has = d.has /\ e.run = d.run /\ k.source = d.ctl.source
      /\ k.stage = "root_cause" /\ \A t : Ended(e, t) = Ended(d, t)
  BY DEF Onward, Holding, Stage, Defects, Open, Ended
<1>2. /\ "verification" \in Verifying
      /\ "root_cause" \notin Reporting /\ "root_cause" \notin Rechecking
      /\ "root_cause" \notin Regressing /\ "root_cause" \notin Certified
      /\ "verification" \notin Reporting /\ "verification" \notin Rechecking /\ "verification" \notin Regressing
  BY DEF Verifying, Explaining, Reporting, Repairing, Rechecking, Regressing, Certified
<1>3. Enrolled(e)
  BY <1>1 DEF Enrolled
<1>4. Rechecks(e) /\ Certificates(e)
  BY <1>1, <1>2 DEF Rechecks, Certificates
<1>5. Packets(e)
  BY <1>1, <1>2 DEF Packets, Fine
<1>6. Reviewed(c, e)
  BY <1>1, <1>2 DEF Reviewed, Fine
<1>9. /\ Stage(d) \in Reporting => "root_cause" \in Reporting
      /\ Stage(d) \in Rechecking => "root_cause" \in Rechecking
      /\ Stage(d) \in Regressing => "root_cause" \in Regressing
  BY <1>2
<1>10. Onward(hd, d, k, "root_cause")
  OBVIOUS
<1> QED BY <1>1, <1>2, <1>3, <1>4, <1>5, <1>6, <1>9, <1>10, Onwards

\* The report is written.
LEMMA ToReport ==
    ASSUME NEW c, NEW hd \in Nat, NEW fx, NEW d, NEW k, NEW e, Fine(c, hd, fx, d),
           NEW next \in {"report", "remediation"},
           Stage(d) = "root_cause", Onward(hd, d, k, next), e = Holding(d.run, k, d.has),
           c.review => /\ d.has.report.commit = d.has.base.commit
                       /\ \A h \in d.has.hyps.found : d.run[<<"verify", h>>].at = d.has.base.commit
    PROVE  Fine(c, hd, fx, e)
<1>1. /\ Stage(e) = next /\ e.ctl = k /\ e.has = d.has /\ e.run = d.run /\ k.source = d.ctl.source
      /\ k.stage = next /\ \A t : Ended(e, t) = Ended(d, t)
  BY DEF Onward, Holding, Stage, Defects, Open, Ended
<1>2. /\ "root_cause" \in Verifying /\ "root_cause" \in Explaining
      /\ next \notin Rechecking
      /\ next \notin Regressing /\ next \notin Certified
      /\ "root_cause" \notin Reporting /\ "root_cause" \notin Rechecking /\ "root_cause" \notin Regressing
  BY DEF Verifying, Explaining, Reporting, Repairing, Rechecking, Regressing, Certified
<1>3. Enrolled(e)
  BY <1>1 DEF Enrolled
<1>4. Rechecks(e) /\ Certificates(e)
  BY <1>1, <1>2 DEF Rechecks, Certificates
<1>5. Packets(e)
  BY <1>1, <1>2 DEF Packets, Fine
<1>6. Reviewed(c, e)
  BY <1>1, <1>2 DEF Reviewed, Fine
<1>9. /\ Stage(d) \in Reporting => next \in Reporting
      /\ Stage(d) \in Rechecking => next \in Rechecking
      /\ Stage(d) \in Regressing => next \in Regressing
  BY <1>2
<1>10. Onward(hd, d, k, next)
  OBVIOUS
<1> QED BY <1>1, <1>2, <1>3, <1>4, <1>5, <1>6, <1>9, <1>10, Onwards

\* The operator decides on a report.
LEMMA ToDecided ==
    ASSUME NEW c, NEW hd \in Nat, NEW fx, NEW d, NEW k, NEW e, Fine(c, hd, fx, d),
           NEW next \in {"reported", "remediation"},
           Stage(d) \in {"report", "reported"}, Onward(hd, d, k, next), e = Holding(d.run, k, d.has)
    PROVE  Fine(c, hd, fx, e)
<1>1. /\ Stage(e) = next /\ e.ctl = k /\ e.has = d.has /\ e.run = d.run /\ k.source = d.ctl.source
      /\ k.stage = next /\ \A t : Ended(e, t) = Ended(d, t)
  BY DEF Onward, Holding, Stage, Defects, Open, Ended
<1>2. /\ Stage(d) \in Verifying /\ Stage(d) \in Explaining /\ Stage(d) \in Reporting
      /\ next \in Reporting
      /\ next \notin Rechecking
      /\ next \notin Regressing /\ next \notin Certified
      /\ Stage(d) \notin Rechecking /\ Stage(d) \notin Regressing
  BY DEF Verifying, Explaining, Reporting, Repairing, Rechecking, Regressing, Certified
<1>3. Enrolled(e)
  BY <1>1 DEF Enrolled
<1>4. Rechecks(e) /\ Certificates(e)
  BY <1>1, <1>2 DEF Rechecks, Certificates
<1>5. Packets(e)
  BY <1>1, <1>2 DEF Packets, Fine
<1>6. Reviewed(c, e)
  BY <1>1, <1>2 DEF Reviewed, Fine
<1>9. /\ Stage(d) \in Reporting => next \in Reporting
      /\ Stage(d) \in Rechecking => next \in Rechecking
      /\ Stage(d) \in Regressing => next \in Regressing
  BY <1>2
<1>10. Onward(hd, d, k, next)
  OBVIOUS
<1> QED BY <1>1, <1>2, <1>3, <1>4, <1>5, <1>6, <1>9, <1>10, Onwards

\* The sources to recheck are pinned.
LEMMA ToRecheck ==
    ASSUME NEW c, NEW hd \in Nat, NEW fx, NEW d, NEW k, NEW e, Fine(c, hd, fx, d),
           Stage(d) = "remediation", Onward(hd, d, k, "remediation_verification"),
           e = Holding(d.run, k, d.has),
           About("recheck", Defects(d)) \subseteq k.tasks,
           \A h \in Defects(d) : d.run[<<"recheck", h>>].spec = d.has.source,
           Defects(d) # {} => d.has.source # d.has.base.commit
    PROVE  Fine(c, hd, fx, e)
<1> DEFINE next == "remediation_verification"
<1>1. /\ Stage(e) = next /\ e.ctl = k /\ e.has = d.has /\ e.run = d.run /\ k.source = d.ctl.source
      /\ k.stage = next /\ \A t : Ended(e, t) = Ended(d, t)
      /\ Defects(e) = Defects(d)
  BY DEF Onward, Holding, Stage, Defects, Open, Ended
<1>2. /\ Stage(d) \in Verifying /\ Stage(d) \in Explaining /\ Stage(d) \in Reporting
      /\ next \in Reporting
      /\ next \notin Regressing /\ next \notin Certified
      /\ Stage(d) \notin Rechecking /\ Stage(d) \notin Regressing
  BY DEF Verifying, Explaining, Reporting, Repairing, Rechecking, Regressing, Certified
<1>3. Enrolled(e)
  BY <1>1 DEF Enrolled
<1>4. Rechecks(e) /\ Certificates(e)
  BY <1>1, <1>2 DEF Rechecks, Certificates
<1>5. Packets(e)
  BY <1>1, <1>2 DEF Packets, Fine
<1>6. Reviewed(c, e)
  BY <1>1, <1>2 DEF Reviewed, Fine
<1>9. /\ Stage(d) \in Reporting => next \in Reporting
      /\ Stage(d) \in Rechecking => next \in Rechecking
      /\ Stage(d) \in Regressing => next \in Regressing
  BY <1>2
<1>10. Onward(hd, d, k, next)
  OBVIOUS
<1> QED BY <1>1, <1>2, <1>3, <1>4, <1>5, <1>6, <1>9, <1>10, Onwards

\* The rechecks ended, and the regression suite is asked for.
LEMMA ToRecertification ==
    ASSUME NEW c, NEW hd \in Nat, NEW fx, NEW d, NEW k, NEW e, Fine(c, hd, fx, d),
           Stage(d) = "remediation_verification", Onward(hd, d, k, "recertification"),
           e = Holding(d.run, k, d.has),
           {Task("regression"), Task("recertify")} \subseteq k.tasks,
           \A h \in Defects(d) : Ended(d, <<"recheck", h>>)
    PROVE  Fine(c, hd, fx, e)
<1> DEFINE next == "recertification"
<1>1. /\ Stage(e) = next /\ e.ctl = k /\ e.has = d.has /\ e.run = d.run /\ k.source = d.ctl.source
      /\ k.stage = next /\ \A t : Ended(e, t) = Ended(d, t)
      /\ Defects(e) = Defects(d)
  BY DEF Onward, Holding, Stage, Defects, Open, Ended
<1>2. /\ Stage(d) \in Verifying /\ Stage(d) \in Explaining /\ Stage(d) \in Reporting
      /\ Stage(d) \in Rechecking
      /\ next \in Reporting /\ next \in Rechecking /\ next \in Regressing
      /\ next \notin Certified
  BY DEF Verifying, Explaining, Reporting, Repairing, Rechecking, Regressing, Certified
<1>3. Enrolled(e)
  BY <1>1 DEF Enrolled
<1>4. Certificates(e)
  BY <1>1, <1>2 DEF Certificates
<1>5. Packets(e)
  BY <1>1, <1>2 DEF Packets, Fine
<1>6. Reviewed(c, e)
  BY <1>1, <1>2 DEF Reviewed, Fine
<1>7. Rechecks(e)
  BY <1>1, <1>2 DEF Rechecks, Fine
<1>9. /\ Stage(d) \in Reporting => next \in Reporting
      /\ Stage(d) \in Rechecking => next \in Rechecking
      /\ Stage(d) \in Regressing => next \in Regressing
  BY <1>2
<1>10. Onward(hd, d, k, next)
  OBVIOUS
<1> QED BY <1>1, <1>2, <1>3, <1>4, <1>5, <1>6, <1>7, <1>9, <1>10, Onwards

\* The sources are certified.
LEMMA ToConvergence ==
    ASSUME NEW c, NEW hd \in Nat, NEW fx, NEW d, NEW k, NEW e, Fine(c, hd, fx, d),
           Stage(d) = "recertification", Onward(hd, d, k, "convergence"),
           e = Holding(d.run, k, d.has),
           d.has.cert.at = {d.has.cert.commit}, Open(d) = {},
           Defects(d) # {} => d.has.cert.commit # d.has.base.commit,
           \A h \in Defects(d) : /\ Conclusive(d.has.rechecks[h])
                                 /\ d.run[<<"recheck", h>>].at = d.has.cert.commit
    PROVE  Fine(c, hd, fx, e)
<1> DEFINE next == "convergence"
<1>1. /\ Stage(e) = next /\ e.ctl = k /\ e.has = d.has /\ e.run = d.run /\ k.source = d.ctl.source
      /\ k.stage = next /\ \A t : Ended(e, t) = Ended(d, t)
      /\ Defects(e) = Defects(d) /\ Open(e) = Open(d)
  BY DEF Onward, Holding, Stage, Defects, Open, Ended
<1>2. /\ Stage(d) \in Verifying /\ Stage(d) \in Explaining /\ Stage(d) \in Reporting
      /\ Stage(d) \in Rechecking /\ Stage(d) \in Regressing
      /\ next \in Reporting /\ next \in Rechecking /\ next \in Regressing
      /\ next # "complete"
  BY DEF Verifying, Explaining, Reporting, Repairing, Rechecking, Regressing, Certified
<1>3. Enrolled(e)
  BY <1>1 DEF Enrolled
<1>4. Certificates(e)
  BY <1>1, <1>2 DEF Certificates
<1>5. Packets(e)
  BY <1>1, <1>2 DEF Packets, Fine
<1>6. Reviewed(c, e)
  BY <1>1, <1>2 DEF Reviewed, Fine
<1>7. Rechecks(e)
  BY <1>1, <1>2 DEF Rechecks, Fine
<1>9. /\ Stage(d) \in Reporting => next \in Reporting
      /\ Stage(d) \in Rechecking => next \in Rechecking
      /\ Stage(d) \in Regressing => next \in Regressing
  BY <1>2
<1>10. Onward(hd, d, k, next)
  OBVIOUS
<1> QED BY <1>1, <1>2, <1>3, <1>4, <1>5, <1>6, <1>7, <1>9, <1>10, Onwards

\* The factory decides to stop.
LEMMA ToComplete ==
    ASSUME NEW c, NEW hd \in Nat, NEW fx, NEW d, NEW k, NEW e, Fine(c, hd, fx, d),
           Stage(d) = "convergence", Onward(hd, d, k, "complete"),
           e = Holding(d.run, k, d.has), d.has.decision = "stop"
    PROVE  Fine(c, hd, fx, e)
<1> DEFINE next == "complete"
<1>1. /\ Stage(e) = next /\ e.ctl = k /\ e.has = d.has /\ e.run = d.run /\ k.source = d.ctl.source
      /\ k.stage = next /\ \A t : Ended(e, t) = Ended(d, t)
      /\ Defects(e) = Defects(d) /\ Open(e) = Open(d)
  BY DEF Onward, Holding, Stage, Defects, Open, Ended
<1>2. /\ Stage(d) \in Verifying /\ Stage(d) \in Explaining /\ Stage(d) \in Reporting
      /\ Stage(d) \in Rechecking /\ Stage(d) \in Regressing /\ Stage(d) \in Certified
      /\ next \in Reporting /\ next \in Rechecking /\ next \in Regressing
  BY DEF Verifying, Explaining, Reporting, Repairing, Rechecking, Regressing, Certified
<1>3. Enrolled(e)
  BY <1>1 DEF Enrolled
<1>4. Certificates(e)
  BY <1>1, <1>2 DEF Certificates, Fine
<1>5. Packets(e)
  BY <1>1, <1>2 DEF Packets, Fine
<1>6. Reviewed(c, e)
  BY <1>1, <1>2 DEF Reviewed, Fine
<1>7. Rechecks(e)
  BY <1>1, <1>2 DEF Rechecks, Fine
<1>9. /\ Stage(d) \in Reporting => next \in Reporting
      /\ Stage(d) \in Rechecking => next \in Rechecking
      /\ Stage(d) \in Regressing => next \in Regressing
  BY <1>2
<1>10. Onward(hd, d, k, next)
  OBVIOUS
<1> QED BY <1>1, <1>2, <1>3, <1>4, <1>5, <1>6, <1>7, <1>9, <1>10, Onwards

-----------------------------------------------------------------------------
(* The invariant: what is to be written leads to a disk that agrees with    *)
(* the process, through disks that are in order.                           *)

Mems ==
    [stage : StageNames \cup {"none"}, status : Statuses, error : Errors, tasks : SUBSET Tasks,
     source : Nat, pc : {"off", "turn", "run", "stage"}, turns : Nat]
Shaped ==
    /\ art = [n \in Names |-> art[n]]
    /\ \A n \in Names :
          art[n] = [body |-> art[n].body, ref |-> art[n].ref, saved |-> art[n].saved]

OK(d) == Fine(conf, head, past.fixes, d)
Reach(ws, d, e) == Leads(conf, head, past.fixes, ws, d, e)

\* The process m works from the checkpoint of e.
Agrees(m, e) ==
    m.pc # "off" => m.stage = e.ctl.stage /\ m.tasks = e.ctl.tasks /\ m.source = e.ctl.source

FactoryInv ==
    /\ head \in Nat /\ mem \in Mems /\ Shaped
    /\ past \in [fixes : SUBSET Nat, faults : Nat]
    /\ mem.pc = "stage" => todo = <<>> /\ \A t \in Scope(mem) : Done(t)
    /\ \E e : Reach(todo, Disk, e) /\ Agrees(mem, e)

\* A process with nothing to write agrees with the disk.
LEMMA Rests ==
    ASSUME FactoryInv, todo = <<>>
    PROVE  OK(Disk) /\ Agrees(mem, Disk)
<1>1. PICK e : Reach(todo, Disk, e) /\ Agrees(mem, e)
  BY DEF FactoryInv
<1>2. e = Disk
  BY <1>1, StaysThere DEF Reach
<1>3. OK(Disk)
  BY <1>1, Ends DEF Reach, OK
<1> QED BY <1>1, <1>2, <1>3

\* A checkpoint is of a process.
LEMMA KeptIs ==
    ASSUME NEW hd, NEW s \in Mems, s.source \in 0 .. hd
    PROVE  /\ Kept(s) \in Ctls(hd)
           /\ Kept(s).stage = s.stage /\ Kept(s).tasks = s.tasks /\ Kept(s).source = s.source
<1>1. DOMAIN NoCtl = {"stage", "status", "error", "tasks", "source"}
  BY DEF NoCtl
<1>2. Kept(s) = [stage |-> s.stage, status |-> s.status, error |-> s.error, tasks |-> s.tasks,
                 source |-> s.source]
  BY <1>1 DEF Kept
<1> QED BY <1>2 DEF Mems, Ctls

\* The source of a process in step with a disk is a commit there is.
LEMMA SourceIs ==
    ASSUME NEW c, NEW hd, NEW fx, NEW d, Fine(c, hd, fx, d)
    PROVE  d.ctl.source \in 0 .. hd /\ d.ctl \in Ctls(hd) /\ d.run \in Runs(hd)
BY DEF Fine, DiskTypes, Ctls

\* The processes that Advances and Throws leave.
Moved(s, next) ==
    [s EXCEPT !.stage = next, !.pc = "turn", !.status = IF next = "complete" THEN "completed" ELSE @]
Thrown(s, why) == [s EXCEPT !.status = "waiting", !.error = why]

\* What stays of a process that goes on.
LEMMA MovedIs ==
    ASSUME NEW s \in Mems, NEW next \in StageNames
    PROVE  /\ Moved(s, next) \in Mems /\ Moved(s, next).stage = next /\ Moved(s, next).pc = "turn"
           /\ Moved(s, next).tasks = s.tasks /\ Moved(s, next).source = s.source
BY DEF Moved, Mems, Statuses

\* What stays of a process that throws.
LEMMA ThrownIs ==
    ASSUME NEW s \in Mems, NEW why \in Errors
    PROVE  /\ Thrown(s, why) \in Mems /\ Thrown(s, why).stage = s.stage
           /\ Thrown(s, why).tasks = s.tasks /\ Thrown(s, why).source = s.source
BY DEF Thrown, Mems, Statuses

\* What stays of a process that is given tasks.
LEMMA AddsIs ==
    ASSUME NEW s \in Mems, NEW ts \in SUBSET Tasks
    PROVE  /\ Adds(s, ts) \in Mems /\ Adds(s, ts).stage = s.stage
           /\ Adds(s, ts).tasks = s.tasks \cup ts /\ Adds(s, ts).source = s.source
BY DEF Adds, Mems

\* A process that is not there.
LEMMA OffIs == Off \in Mems /\ Off.pc = "off"
BY DEF Off, Mems, StageNames, Statuses, Errors

\* What Holding holds.
LEMMA Held3 ==
    ASSUME NEW r, NEW k, NEW b
    PROVE  /\ Holding(r, k, b).run = r /\ Holding(r, k, b).ctl = k /\ Holding(r, k, b).has = b
           /\ Stage(Holding(r, k, b)) = k.stage
BY DEF Holding, Stage

\* Nothing but the process and what it writes changes.
Decided(ws) == todo' = ws /\ UNCHANGED <<conf, head, dirty, run, ctl, art, past>>

\* A step that decides on ws keeps the invariant when ws leads to where the
\* process is.
LEMMA Decides ==
    ASSUME FactoryInv, NEW ws, NEW e, Decided(ws), mem' \in Mems, mem'.pc # "stage",
           Reach(ws, Disk, e), Agrees(mem', e)
    PROVE  FactoryInv'
<1>1. head' \in Nat /\ Shaped' /\ past' \in [fixes : SUBSET Nat, faults : Nat]
  BY DEF FactoryInv, Decided, Shaped
<1>2. Disk' = Disk
  BY DEF Disk, Text, Decided
<1>3. Leads(conf', head', past'.fixes, todo', Disk', e)
  BY <1>2 DEF Reach, Decided
<1>4. Reach(todo, Disk, e)'
  BY <1>3 DEF Reach
<1> QED BY <1>1, <1>4 DEF FactoryInv

\* A handler that goes on to the next stage.
LEMMA AdvancesInv ==
    ASSUME FactoryInv, At("stage"), NEW ws, NEW r, NEW s \in Mems, NEW next \in StageNames, NEW b,
           Advances(ws, r, s, next), Unmoved,
           s.source = mem.source, mem.tasks \subseteq s.tasks,
           Reach(ws, Disk, Holding(run, ctl, b)), OK(Holding(r, ctl, b)),
           \A k : Onward(head, Holding(r, ctl, b), k, next) /\ k.tasks = s.tasks
                    => OK(Holding(r, k, b))
    PROVE  FactoryInv'
<1> DEFINE t == Moved(s, next)
           d1 == Holding(run, ctl, b)
           d2 == Holding(r, ctl, b)
           d3 == Holding(r, Kept(t), b)
<1>1. todo = <<>> /\ mem.pc = "stage"
  BY DEF At, Writing
<1>2. OK(Disk) /\ Agrees(mem, Disk)
  BY <1>1, Rests
<1>3. mem.tasks = ctl.tasks /\ mem.source = ctl.source /\ ctl.source \in 0 .. head
  BY <1>1, <1>2, SourceIs DEF Agrees, Disk, Holding, OK
<1>4. t \in Mems /\ t.stage = next /\ t.pc = "turn" /\ t.tasks = s.tasks /\ t.source = ctl.source
  BY <1>3, MovedIs
<1>5. mem' = t /\ todo' = ws \o SaveRun(r) \o Checkpoint(t)
  BY DEF Advances, Moved
<1> HIDE DEF t
<1>6. /\ Kept(t) \in Ctls(head) /\ Kept(t).stage = next /\ Kept(t).tasks = s.tasks
      /\ Kept(t).source = ctl.source
  BY <1>3, <1>4, KeptIs
<1>7. Onward(head, d2, Kept(t), next)
  BY <1>3, <1>6, Held3 DEF Onward
<1>8. OK(d3)
  BY <1>6, <1>7
<1>9. OK(d1)
  BY Ends DEF Reach, OK
<1>10. d1.run = run /\ d2 = Holding(r, d1.ctl, d1.has) /\ d3 = Holding(d2.run, Kept(t), d2.has)
  BY Held3
<1> HIDE DEF d1, d2, d3
<1>11. Reach(SaveRun(r), d1, d2)
  BY <1>9, <1>10, RunLeads DEF Reach, OK, d2
<1>12. Reach(Checkpoint(t), d2, d3)
  BY <1>8, <1>10, CheckpointLeads DEF Reach, OK, d2
<1>13. Reach(ws \o SaveRun(r), Disk, d2)
  BY <1>11, Then DEF Reach, d1
<1>14. Reach(ws \o SaveRun(r) \o Checkpoint(t), Disk, d3)
  BY <1>12, <1>13, Then DEF Reach
<1>15. Agrees(t, d3)
  BY <1>4, <1>6, Held3 DEF Agrees, d3
<1>16. Decided(ws \o SaveRun(r) \o Checkpoint(t))
  BY <1>5 DEF Decided, Unmoved
<1> QED BY <1>4, <1>5, <1>14, <1>15, <1>16, Decides

\* A handler that throws, with what it has already done to the tasks.
LEMMA ThrowsInv ==
    ASSUME FactoryInv, At("stage"), NEW ws, NEW r, NEW s \in Mems, NEW why \in Errors, NEW b,
           ThrowsWith(ws, r, s, why), Unmoved,
           s.source = mem.source, s.stage = mem.stage, mem.tasks \subseteq s.tasks,
           Reach(ws, Disk, Holding(run, ctl, b)), OK(Holding(r, ctl, b))
    PROVE  FactoryInv'
<1> DEFINE t == Thrown(s, why)
           d1 == Holding(run, ctl, b)
           d2 == Holding(run, Kept(t), b)
           d3 == Holding(r, Kept(t), b)
<1>1. todo = <<>> /\ mem.pc = "stage"
  BY DEF At, Writing
<1>2. OK(Disk) /\ Agrees(mem, Disk)
  BY <1>1, Rests
<1>3. mem.stage = ctl.stage /\ mem.tasks = ctl.tasks /\ mem.source = ctl.source /\ ctl.source \in 0 .. head
  BY <1>1, <1>2, SourceIs DEF Agrees, Disk, Holding, OK
<1>4. t \in Mems /\ t.stage = ctl.stage /\ ctl.tasks \subseteq t.tasks /\ t.source = ctl.source
  BY <1>3, ThrownIs
<1>5. mem' = Off /\ todo' = ws \o Checkpoint(t) \o SaveRun(r)
  BY DEF ThrowsWith, Thrown
<1> HIDE DEF t
<1>6. /\ Kept(t) \in Ctls(head) /\ Kept(t).stage = ctl.stage /\ ctl.tasks \subseteq Kept(t).tasks
      /\ Kept(t).source = ctl.source
  BY <1>3, <1>4, KeptIs
<1>7. OK(d1)
  BY Ends DEF Reach, OK
<1>8. head \in Nat
  BY DEF FactoryInv
<1>9. OK(d2)
  <2>1. d1.run = run /\ d1.ctl = ctl /\ d1.has = b
    BY Held3
  <2> HIDE DEF d1
  <2> QED BY <2>1, <1>6, <1>7, <1>8, CtlFine DEF OK
<1>10. OK(d3)
  <2> DEFINE d == Holding(r, ctl, b)
  <2>1. d.run = r /\ d.ctl = ctl /\ d.has = b
    BY Held3
  <2>2. OK(d)
    OBVIOUS
  <2> HIDE DEF d
  <2> QED BY <2>1, <2>2, <1>6, <1>8, CtlFine DEF OK
<1>11. d2.run = run /\ d2 = Holding(d1.run, Kept(t), d1.has) /\ d3 = Holding(r, d2.ctl, d2.has)
  BY Held3
<1> HIDE DEF d2, d3
<1>12. Reach(Checkpoint(t), d1, d2)
  BY <1>7, <1>9, <1>11, CheckpointLeads DEF Reach, OK, d2
<1>13. Reach(SaveRun(r), d2, d3)
  BY <1>9, <1>10, <1>11, RunLeads DEF Reach, OK, d3
<1>14. Reach(ws \o Checkpoint(t), Disk, d2)
  BY <1>12, Then DEF Reach
<1>15. Reach(ws \o Checkpoint(t) \o SaveRun(r), Disk, d3)
  BY <1>13, <1>14, Then DEF Reach
<1>16. Agrees(Off, d3)
  BY OffIs DEF Agrees
<1>17. Decided(ws \o Checkpoint(t) \o SaveRun(r))
  BY <1>5 DEF Decided, Unmoved
<1> QED BY <1>5, <1>15, <1>16, <1>17, OffIs, Decides

-----------------------------------------------------------------------------
(* The handlers of the stages.                                             *)

\* The tasks of a stage.
LEMMA ScopeIs ==
    ASSUME NEW s, NEW t
    PROVE  /\ t \in Scope(s) =>
                /\ t \in s.tasks
                /\ t[1] \in {"check", "review"} => s.stage = "quality"
                /\ t[1] = "verify" => s.stage = "verification"
                /\ t[1] = "rootCause" => s.stage = "root_cause"
                /\ t[1] = "repair" => s.stage = "remediation"
                /\ t[1] = "recheck" => s.stage = "remediation_verification"
                /\ t[1] \in {"regression", "recertify"} => s.stage = "recertification"
           /\ t \in s.tasks =>
                /\ s.stage = "quality" /\ t[1] \in {"check", "review"} => t \in Scope(s)
                /\ s.stage = "verification" /\ t[1] = "verify" => t \in Scope(s)
                /\ s.stage = "remediation_verification" /\ t[1] = "recheck" => t \in Scope(s)
                /\ s.stage = "recertification" /\ t[1] \in {"regression", "recertify"} => t \in Scope(s)
           /\ s.stage \in {"none", "report", "reported", "convergence", "complete"} => t \notin Scope(s)
BY DEF Scope

\* What a handler of a stage finds.
LEMMA Handled ==
    ASSUME FactoryInv, NEW stage, Handling(stage)
    PROVE  /\ todo = <<>> /\ OK(Disk) /\ head \in Nat /\ mem \in Mems /\ At("stage")
           /\ ctl.stage = stage /\ mem.stage = stage /\ mem.tasks = ctl.tasks
           /\ mem.source = ctl.source /\ ctl.source \in 0 .. head
           /\ Disk.run = run /\ Disk.ctl = ctl /\ Disk.has = Text /\ Stage(Disk) = stage
           /\ run \in Runs(head) /\ Written(head, Text) /\ Text = [n \in Names |-> Text[n]]
           /\ \A t \in Scope(mem) : Done(t)
<1>1. todo = <<>> /\ mem.pc = "stage" /\ mem.stage = stage /\ At("stage")
  BY DEF Handling, At, Writing
<1>2. OK(Disk) /\ Agrees(mem, Disk)
  BY <1>1, Rests
<1>3. Disk.run = run /\ Disk.ctl = ctl /\ Disk.has = Text /\ Stage(Disk) = ctl.stage
  BY Held3 DEF Disk
<1>4. mem.stage = ctl.stage /\ mem.tasks = ctl.tasks /\ mem.source = ctl.source
  BY <1>1, <1>2, <1>3 DEF Agrees
<1>5. ctl.source \in 0 .. head /\ run \in Runs(head)
  BY <1>2, <1>3, SourceIs DEF OK
<1>6. Written(head, Text) /\ Text = [n \in Names |-> Text[n]]
  BY <1>2, <1>3 DEF OK, Fine, DiskTypes
<1> QED BY <1>1, <1>2, <1>3, <1>4, <1>5, <1>6 DEF FactoryInv

\* The files are what the handlers read.
LEMMA HeldIs == \A n \in Names : Held(n) = Text[n]
BY DEF Held, Text

\* What was put is there.
LEMMA PutIs ==
    ASSUME NEW b, NEW n \in Names, NEW v
    PROVE  /\ Put(b, n, v)[n] = v /\ \A m \in Names \ {n} : Put(b, n, v)[m] = b[m]
           /\ Put(b, n, v) = [m \in Names |-> Put(b, n, v)[m]]
BY DEF Put

\* Extending the graph saves one.
LEMMA Extends == ASSUME NEW level PROVE \E g : Extended(level) = Save("graph", g)
BY DEF Extended

\* A text that the stage may write makes a disk in order.
LEMMA TextFine ==
    ASSUME OK(Disk), head \in Nat, NEW b, b = [m \in Names |-> b[m]],
           Written(head, b), May(ctl.stage, Text, b)
    PROVE  OK(Holding(run, ctl, b))
<1>1. Disk.run = run /\ Disk.ctl = ctl /\ Disk.has = Text /\ Stage(Disk) = ctl.stage
  BY Held3 DEF Disk
<1> QED BY <1>1, WriteFine DEF OK

\* The first artifact a handler writes, and the next one.
LEMMA SaveFirst ==
    ASSUME OK(Disk), head \in Nat, NEW b, NEW n \in Names, NEW v, b = Put(Text, n, v),
           Written(head, b), May(ctl.stage, Text, b)
    PROVE  Reach(Save(n, v), Disk, Holding(run, ctl, b))
<1>1. OK(Holding(run, ctl, b))
  BY PutIs, TextFine
<1>2. Holding(run, ctl, b) = Holding(Disk.run, Disk.ctl, Put(Disk.has, n, v))
  BY Held3 DEF Disk
<1> QED BY <1>1, <1>2, SaveLeads DEF OK, Reach

\* The next artifact it writes.
LEMMA SaveNext ==
    ASSUME OK(Disk), head \in Nat, NEW b, NEW b2, NEW ws, NEW n \in Names, NEW v, b2 = Put(b, n, v),
           Reach(ws, Disk, Holding(run, ctl, b)), Written(head, b2), May(ctl.stage, Text, b2)
    PROVE  Reach(ws \o Save(n, v), Disk, Holding(run, ctl, b2))
<1>0. b2 = [m \in Names |-> b2[m]]
  BY PutIs
<1>1. OK(Holding(run, ctl, b2))
  BY <1>0, TextFine
<1>2. OK(Holding(run, ctl, b))
  BY Ends DEF Reach, OK
<1> DEFINE d == Holding(run, ctl, b)
<1>3. Holding(run, ctl, b2) = Holding(d.run, d.ctl, Put(d.has, n, v))
  BY Held3
<1>4. Reach(Save(n, v), d, Holding(run, ctl, b2))
  BY <1>1, <1>2, <1>3, SaveLeads DEF OK, Reach
<1> HIDE DEF d
<1> QED BY <1>4, Then DEF Reach, d

\* Throwing at once, or after writing artifacts.
LEMMA ThrowsAt ==
    ASSUME FactoryInv, At("stage"), NEW ws, NEW why \in Errors, NEW b, Throws(ws, mem, why), Unmoved,
           Reach(ws, Disk, Holding(run, ctl, b))
    PROVE  FactoryInv'
<1>1. OK(Holding(run, ctl, b))
  BY Ends DEF Reach, OK
<1>2. mem \in Mems /\ ThrowsWith(ws, run, mem, why)
  BY DEF FactoryInv, Throws
<1> QED BY <1>1, <1>2, ThrowsInv

\* Throwing before anything is written.
LEMMA ThrowsNow ==
    ASSUME FactoryInv, NEW stage, Handling(stage), NEW why \in Errors, Throws(<<>>, mem, why), Unmoved
    PROVE  FactoryInv'
<1>1. Reach(<<>>, Disk, Holding(run, ctl, Text))
  BY Handled, Stays DEF OK, Reach, Disk
<1> QED BY <1>1, Handled, ThrowsAt

\* A handler that finds a task of another commit.
LEMMA RefusesInv ==
    ASSUME FactoryInv, NEW stage, Handling(stage), NEW ws, NEW ts, NEW b, Refuses(ws, ts), Unmoved,
           Reach(ws, Disk, Holding(run, ctl, b)), Sent(conf, past.fixes, Holding(run, ctl, b), ts)
    PROVE  FactoryInv'
<1>1. PICK early \in SUBSET (ts \ Foreign(run, ts)) :
          ThrowsWith(ws, Ensured(run, early), Adds(mem, early), "foreign")
  BY DEF Refuses
<1> DEFINE d == Holding(run, ctl, b)
<1>2. Sent(conf, past.fixes, d, early)
  BY <1>1 DEF Sent
<1>3. OK(d)
  BY Ends DEF Reach, OK
<1>4. d.run = run /\ d.ctl = ctl /\ d.has = b
  BY Held3
<1>5. Holding(Ensured(run, early), ctl, b) = Holding(Ensured(run, early), d.ctl, d.has)
  BY <1>4
<1> HIDE DEF d
<1>6. OK(Holding(Ensured(run, early), ctl, b))
  BY <1>2, <1>3, <1>4, <1>5, Handled, EnsuredFine DEF OK
<1>7. early \in SUBSET Tasks
  BY <1>2 DEF Sent
<1>8. /\ Adds(mem, early) \in Mems /\ Adds(mem, early).stage = mem.stage
      /\ mem.tasks \subseteq Adds(mem, early).tasks /\ Adds(mem, early).source = mem.source
  BY <1>7, Handled, AddsIs
<1>9. "foreign" \in Errors
  BY DEF Errors
<1> QED BY <1>1, <1>6, <1>8, <1>9, Handled, ThrowsInv

\* From a run file r, artifacts b and the tasks ts the stage next may follow.
Ready(r, b, ts, next) ==
    \A k : Onward(head, Holding(r, ctl, b), k, next) /\ k.tasks = ctl.tasks \cup ts
             /\ OK(Holding(r, ctl, b)) => OK(Holding(r, k, b))

\* A handler that adds tasks and goes on.
LEMMA AdvancesWith ==
    ASSUME FactoryInv, NEW stage, Handling(stage), NEW ws, NEW ts, NEW b, NEW next \in StageNames,
           Advances(ws, Ensured(run, ts), Adds(mem, ts), next), Unmoved,
           Reach(ws, Disk, Holding(run, ctl, b)), Sent(conf, past.fixes, Holding(run, ctl, b), ts),
           Ready(Ensured(run, ts), b, ts, next)
    PROVE  FactoryInv'
<1> DEFINE d == Holding(run, ctl, b)
           r == Ensured(run, ts)
<1>1. OK(d)
  BY Ends DEF Reach, OK
<1>2. d.run = run /\ d.ctl = ctl /\ d.has = b
  BY Held3
<1>3. OK(Holding(r, ctl, b))
  <2>1. Holding(r, ctl, b) = Holding(Ensured(run, ts), d.ctl, d.has)
    BY <1>2
  <2>2. Sent(conf, past.fixes, d, ts)
    OBVIOUS
  <2> HIDE DEF d
  <2> QED BY <1>1, <1>2, <2>1, <2>2, Handled, EnsuredFine DEF OK
<1>4. ts \in SUBSET Tasks
  BY DEF Sent
<1>5. /\ Adds(mem, ts) \in Mems /\ Adds(mem, ts).tasks = ctl.tasks \cup ts
      /\ mem.tasks \subseteq Adds(mem, ts).tasks /\ Adds(mem, ts).source = mem.source
  BY <1>4, Handled, AddsIs
<1>6. At("stage")
  BY Handled
<1> HIDE DEF d, r
<1>7. \A k : Onward(head, Holding(r, ctl, b), k, next) /\ k.tasks = Adds(mem, ts).tasks
                => OK(Holding(r, k, b))
  BY <1>3, <1>5 DEF r, Ready
<1> QED BY <1>3, <1>5, <1>6, <1>7, AdvancesInv DEF r

\* The sets of tasks that handlers ask for.
LEMMA AboutIs ==
    ASSUME NEW k, NEW hs
    PROVE  /\ \A t \in About(k, hs) : t[1] = k
           /\ \A h \in hs : <<k, h>> \in About(k, hs)
           /\ k \in {"verify", "repair", "recheck"} /\ hs \subseteq Hyps => About(k, hs) \subseteq Tasks
BY DEF About, Tasks

\* Checks and the review are asked for, of an implementation.
LEMMA PrepareQualityInv ==
    ASSUME FactoryInv, PrepareQuality PROVE FactoryInv'
<1>0. Handling("implementation") /\ Unmoved
  BY DEF PrepareQuality
<1> DEFINE ts == {Task("check"), Task("review")}
<1>1. CASE ~Loadable("graph")
  <2>1. Throws(<<>>, mem, "damaged") /\ "damaged" \in Errors
    BY <1>1 DEF PrepareQuality, Errors
  <2> QED BY <2>1, <1>0, ThrowsNow
<1>2. CASE Loadable("graph")
  <2>1. PICK g, g2 : Extended(3) = Save("graph", g) /\ Extended(4) = Save("graph", g2)
    BY Extends
  <2> DEFINE b == Put(Text, "graph", g)
             b2 == Put(b, "graph", g2)
             ws == Save("graph", g) \o Save("graph", g2)
  <2>2. Advances(ws, Ensured(run, ts), Adds(mem, ts), "quality")
    BY <1>2, <2>1 DEF PrepareQuality
  <2>3. "graph" \in Names
    BY NamesAre
  <2>4. Changes(Text, b, {"graph"}) /\ Changes(Text, b2, {"graph"})
    BY <2>3, PutIs DEF Changes
  <2>5. Written(head, b) /\ Written(head, b2)
    BY <2>4, <1>0, Handled, NamesAre DEF Written, Changes
  <2>6. May(ctl.stage, Text, b) /\ May(ctl.stage, Text, b2)
    BY <2>4 DEF May
  <2>7. Reach(Save("graph", g), Disk, Holding(run, ctl, b))
    BY <1>0, <2>3, <2>5, <2>6, Handled, SaveFirst
  <2> HIDE DEF b
  <2>8. Reach(ws, Disk, Holding(run, ctl, b2))
    BY <1>0, <2>3, <2>5, <2>6, <2>7, Handled, SaveNext
  <2> HIDE DEF b2
  <2>9. Sent(conf, past.fixes, Holding(run, ctl, b2), ts)
    BY TaskPairs DEF Sent, Singles
  <2>10. ASSUME NEW k, Onward(head, Holding(Ensured(run, ts), ctl, b2), k, "quality"),
                k.tasks = ctl.tasks \cup ts, OK(Holding(Ensured(run, ts), ctl, b2))
         PROVE  OK(Holding(Ensured(run, ts), k, b2))
    <3> DEFINE d == Holding(Ensured(run, ts), ctl, b2)
               e == Holding(Ensured(run, ts), k, b2)
    <3>0. ctl.stage = "implementation"
      BY <1>0, Handled
    <3>1. e = Holding(d.run, k, d.has) /\ Stage(d) = "implementation"
      BY <3>0 DEF Holding, Stage
    <3>2. Fine(conf, head, past.fixes, d) /\ Onward(head, d, k, "quality") /\ ts \subseteq k.tasks
      BY <2>10 DEF OK
    <3> HIDE DEF d, e
    <3>3. OK(e)
      BY <1>0, <3>1, <3>2, Handled, ToQuality DEF OK
    <3> QED BY <3>3 DEF e
  <2>11. "quality" \in StageNames
    BY DEF StageNames, Judging
  <2>12. Ready(Ensured(run, ts), b2, ts, "quality")
    BY <2>10 DEF Ready
  <2> HIDE DEF ts, ws
  <2> QED BY <1>0, <2>2, <2>8, <2>9, <2>11, <2>12, AdvancesWith
<1> QED BY <1>1, <1>2

\* A review that is not garbled is one of those there are.
LEMMA ReviewIs ==
    ASSUME FactoryInv, Handling("quality")
    PROVE  /\ \A k \in {"check", "review"} :
                Done(Task(k)) /\ run[Task(k)].at \in 0 .. head
                /\ (conf.review => ctl.source <= run[Task(k)].at)
           /\ ~Garbled({Task("review")}) => Hypotheses \in
                [found : SUBSET Hyps, missing : SUBSET Hyps, at : 0 .. head, judged : BOOLEAN]
<1>1. \A k \in {"check", "review"} : Task(k) \in Tasks /\ Task(k)[1] = k
  BY TaskPairs DEF Singles
<1>2. \A k \in {"check", "review"} : Task(k) \in ctl.tasks
  BY Handled DEF OK, Fine, Enrolled
<1>3. \A k \in {"check", "review"} : Done(Task(k))
  BY <1>1, <1>2, Handled, ScopeIs
<1>4. \A k \in {"check", "review"} : Ended(Disk, Task(k)) /\ Disk.run = run
  BY <1>3, Handled DEF Done, Ended
<1>5. \A k \in {"check", "review"} : conf.review => ctl.source <= run[Task(k)].at
  BY <1>1, <1>4, Handled DEF OK, Fine, RanLater
<1>6. \A k \in {"check", "review"} : run[Task(k)].at \in 0 .. head
  BY <1>1, Handled DEF Runs
<1>7. run[Task("review")].out \in DOMAIN Reviews \cup {"garbled"}
  BY <1>4, Handled DEF OK, Fine, DiskTypes
<1>8. ASSUME ~Garbled({Task("review")})
      PROVE  Hypotheses \in [found : SUBSET Hyps, missing : SUBSET Hyps, at : 0 .. head, judged : BOOLEAN]
  <2>1. run[Task("review")].out \in DOMAIN Reviews
    BY <1>7, <1>8 DEF Garbled
  <2>2. Reviews[run[Task("review")].out] \in [found : SUBSET Hyps, missing : SUBSET Hyps, whole : BOOLEAN]
    BY <2>1, FactoryAssumption
  <2>3. head \in 0 .. head
    BY Handled
  <2> QED BY <2>2, <2>3 DEF Hypotheses
<1> QED BY <1>3, <1>5, <1>6, <1>8

\* With no task of another commit every task asked for is of this one.
LEMMA EnsuredSpec ==
    ASSUME NEW ts, Foreign(run, ts) = {}, NEW t \in Tasks, t \in ts
    PROVE  Ensured(run, ts)[t].spec = Prompt(t)
<1>1. CASE run[t].st = "none"
  <2>1. Ensured(run, ts)[t] = [st |-> "pending", spec |-> Prompt(t), at |-> 0, out |-> "none"]
    BY <1>1 DEF Ensured, NoTask
  <2> QED BY <2>1
<1>2. CASE run[t].st # "none"
  <2>1. run[t].spec = Prompt(t)
    BY <1>2 DEF Foreign
  <2> QED BY <1>2, <2>1 DEF Ensured
<1> QED BY <1>1, <1>2

\* Evidence is kept, and the verifications are asked for.
LEMMA ProcessQualityInv ==
    ASSUME FactoryInv, ProcessQuality PROVE FactoryInv'
<1> DEFINE written == Coverage \o Save("base", InitialBaseline) \o Save("hyps", Hypotheses) \o Extended(5)
           ts == About("verify", Hypotheses.found)
           why == IF dirty THEN "dirty" ELSE "moved"
           A1 == Throws(<<>>, mem, "garbled")
           A2 == Throws(Coverage, mem, "damaged")
           A3 == Throws(Coverage, mem, why)
           A4 == Throws(Coverage \o Save("base", InitialBaseline), mem, "refused")
           A5 == Refuses(written, ts)
           A6 == Advances(written \o Extended(6), Ensured(run, ts), Adds(mem, ts), "verification")
<1>1. Handling("quality") /\ Unmoved
  BY DEF ProcessQuality
<1>2. ctl.stage = "quality" /\ head \in Nat /\ OK(Disk) /\ Written(head, Text) /\ At("stage") /\ mem.source = ctl.source
  BY <1>1, Handled
<1>3. \/ A1
      \/ A2
      \/ A3
      \/ A4
      \/ ~Garbled({Task("review")}) /\ ~SourceMoved /\ Foreign(run, ts) # {} /\ A5
      \/ ~Garbled({Task("review")}) /\ ~SourceMoved /\ Foreign(run, ts) = {} /\ A6
  <2> HIDE DEF A1, A2, A3, A4, A5, A6
  <2>1. CASE Garbled({Task("review")})
    <3>1. A1
      BY <2>1 DEF ProcessQuality, A1
    <3> QED BY <3>1
  <2>2. CASE ~Garbled({Task("review")}) /\ ~Loadable("graph")
    <3>1. A2
      BY <2>2 DEF ProcessQuality, A2
    <3> QED BY <3>1
  <2>3. CASE ~Garbled({Task("review")}) /\ Loadable("graph") /\ (dirty \/ SourceMoved)
    <3>1. A3
      BY <2>3 DEF ProcessQuality, A3
    <3> QED BY <3>1
  <2>4. CASE ~Garbled({Task("review")}) /\ Loadable("graph") /\ ~(dirty \/ SourceMoved)
    <3>1. IF ~InitialBaseline.ok THEN A4 ELSE IF Foreign(run, ts) # {} THEN A5 ELSE A6
      BY <2>4 DEF ProcessQuality, A4, A5, A6
    <3> QED BY <3>1, <2>4
  <2> QED BY <2>1, <2>2, <2>3, <2>4
<1>4. "garbled" \in Errors /\ "damaged" \in Errors /\ why \in Errors /\ "refused" \in Errors
  BY DEF Errors
<1> HIDE DEF written, ts, why
<1>5. CASE A1
  BY <1>1, <1>4, <1>5, ThrowsNow
<1>6. PICK v : Coverage = Save("coverage", v)
  BY DEF Coverage
<1>7. PICK g, g2 : Extended(5) = Save("graph", g) /\ Extended(6) = Save("graph", g2)
  BY Extends
<1> DEFINE b1 == Put(Text, "coverage", v)
           b2 == Put(b1, "base", InitialBaseline)
           b3 == Put(b2, "hyps", Hypotheses)
           b4 == Put(b3, "graph", g)
           b5 == Put(b4, "graph", g2)
           ns == {"graph", "coverage", "base", "hyps"}
<1>8. {"coverage", "base", "hyps", "graph"} \subseteq Names
  BY NamesAre
<1>9. /\ \A m \in Names \ {"coverage"} : b1[m] = Text[m]
      /\ b2["base"] = InitialBaseline /\ \A m \in Names \ {"base"} : b2[m] = b1[m]
      /\ b3["hyps"] = Hypotheses /\ \A m \in Names \ {"hyps"} : b3[m] = b2[m]
      /\ \A m \in Names \ {"graph"} : b4[m] = b3[m]
      /\ \A m \in Names \ {"graph"} : b5[m] = b4[m]
  BY <1>8, PutIs
<1> HIDE DEF b1, b2, b3, b4, b5
<1>10. Changes(Text, b1, ns) /\ Changes(Text, b2, ns) /\ Changes(Text, b3, ns) /\ Changes(Text, b4, ns) /\ Changes(Text, b5, ns)
  BY <1>9 DEF Changes
<1>11. May(ctl.stage, Text, b1) /\ May(ctl.stage, Text, b2) /\ May(ctl.stage, Text, b3) /\ May(ctl.stage, Text, b4) /\ May(ctl.stage, Text, b5)
  BY <1>2, <1>10 DEF May
<1>12. InitialBaseline.commit = head /\ InitialBaseline.at = {run[Task(k)].at : k \in {"check", "review"}}
  BY DEF InitialBaseline
<1>13. Written(head, b1)
  BY <1>2, <1>9, NamesAre DEF Written
<1>14. Written(head, b2)
  BY <1>2, <1>9, <1>12, <1>13, NamesAre DEF Written
<1>15. ASSUME ~Garbled({Task("review")}) PROVE Written(head, b3) /\ Written(head, b4) /\ Written(head, b5)
  BY <1>1, <1>9, <1>14, <1>15, NamesAre, ReviewIs DEF Written
<1>16. Reach(Coverage, Disk, Holding(run, ctl, b1))
  BY <1>2, <1>6, <1>8, <1>11, <1>13, SaveFirst DEF b1
<1>17. Reach(Coverage \o Save("base", InitialBaseline), Disk, Holding(run, ctl, b2))
  BY <1>2, <1>8, <1>11, <1>14, <1>16, SaveNext DEF b2
<1>18. CASE A2
  BY <1>1, <1>2, <1>4, <1>16, <1>18, ThrowsAt
<1>19. CASE A3
  BY <1>1, <1>2, <1>4, <1>16, <1>19, ThrowsAt
<1>20. CASE A4
  BY <1>1, <1>2, <1>4, <1>17, <1>20, ThrowsAt
<1>21. ASSUME ~Garbled({Task("review")})
       PROVE  Reach(written, Disk, Holding(run, ctl, b4)) /\ Reach(written \o Extended(6), Disk, Holding(run, ctl, b5))
  <2>1. Reach(Coverage \o Save("base", InitialBaseline) \o Save("hyps", Hypotheses), Disk, Holding(run, ctl, b3))
    BY <1>2, <1>8, <1>11, <1>15, <1>17, <1>21, SaveNext DEF b3
  <2>2. Reach(written, Disk, Holding(run, ctl, b4))
    BY <1>2, <1>7, <1>8, <1>11, <1>15, <2>1, <1>21, SaveNext DEF b4, written
  <2>3. Reach(written \o Extended(6), Disk, Holding(run, ctl, b5))
    BY <1>2, <1>7, <1>8, <1>11, <1>15, <2>2, <1>21, SaveNext DEF b5
  <2> QED BY <2>2, <2>3
<1>22. ASSUME ~Garbled({Task("review")}), NEW b PROVE Sent(conf, past.fixes, Holding(run, ctl, b), ts)
  <2>1. Hypotheses.found \subseteq Hyps
    BY <1>1, <1>22, ReviewIs
  <2>2. \A t \in ts : t \in Tasks /\ t[1] = "verify"
    BY <2>1, AboutIs DEF ts
  <2>3. Stage(Holding(run, ctl, b)) = "quality" /\ "quality" \notin Verifying
    BY <1>2, Held3 DEF Verifying, Explaining, Reporting, Repairing, Rechecking, Regressing, Certified
  <2> QED BY <2>2, <2>3 DEF Sent
<1>23. CASE ~Garbled({Task("review")}) /\ ~SourceMoved /\ Foreign(run, ts) # {} /\ A5
  BY <1>1, <1>21, <1>22, <1>23, RefusesInv
<1>24. CASE ~Garbled({Task("review")}) /\ ~SourceMoved /\ Foreign(run, ts) = {} /\ A6
  <2> DEFINE r == Ensured(run, ts)
  <2>1. Hypotheses.found \subseteq Hyps /\ Hypotheses.at = head
    BY <1>1, <1>24, ReviewIs DEF Hypotheses
  <2>2. \A h \in Hypotheses.found : r[<<"verify", h>>].spec = head
    <3> TAKE h \in Hypotheses.found
    <3> DEFINE t == <<"verify", h>>
    <3>1. t \in Tasks /\ t \in ts /\ t[1] = "verify"
      BY <2>1, AboutIs, TaskPairs DEF ts
    <3> HIDE DEF t
    <3>2. r[t].spec = head
      BY <3>1, <1>24, EnsuredSpec DEF Prompt
    <3> QED BY <3>2 DEF t
  <2>3. conf.review => ctl.source = head /\ InitialBaseline.at = {head}
    <3> SUFFICES ASSUME conf.review PROVE ctl.source = head /\ InitialBaseline.at = {head}
      OBVIOUS
    <3>1. ctl.source = head
      BY <1>2, <1>24 DEF SourceMoved
    <3>2. \A k \in {"check", "review"} : run[Task(k)].at = head
      <4> TAKE k \in {"check", "review"}
      <4>1. run[Task(k)].at \in 0 .. head /\ head <= run[Task(k)].at
        BY <1>1, <3>1, ReviewIs
      <4> QED BY <4>1, <1>2
    <3> QED BY <3>1, <3>2, <1>12
  <2>4. b5["hyps"] = Hypotheses /\ b5["base"] = InitialBaseline
    BY <1>9, NamesAre
  <2>5. ASSUME NEW k, Onward(head, Holding(r, ctl, b5), k, "verification"),
               k.tasks = ctl.tasks \cup ts, OK(Holding(r, ctl, b5))
        PROVE  OK(Holding(r, k, b5))
    <3> DEFINE d == Holding(r, ctl, b5)
               e == Holding(r, k, b5)
    <3>1. e = Holding(d.run, k, d.has) /\ Stage(d) = "quality" /\ d.run = r /\ d.ctl = ctl /\ d.has = b5
      BY <1>2 DEF Holding, Stage
    <3>2. Fine(conf, head, past.fixes, d) /\ Onward(head, d, k, "verification") /\ ts \subseteq k.tasks
      BY <2>5 DEF OK
    <3> HIDE DEF d, e, r
    <3>3. /\ About("verify", d.has.hyps.found) \subseteq k.tasks
          /\ \A h \in d.has.hyps.found : d.run[<<"verify", h>>].spec = d.has.hyps.at
      BY <3>1, <3>2, <2>1, <2>2, <2>4 DEF ts
    <3>4. conf.review => d.has.base.commit = d.ctl.source /\ d.has.base.at = {d.has.base.commit}
      BY <3>1, <2>3, <2>4, <1>12
    <3>5. OK(e)
      BY <1>2, <3>1, <3>2, <3>3, <3>4, ToVerification DEF OK
    <3> QED BY <3>5 DEF e
  <2>6. "verification" \in StageNames
    BY DEF StageNames, Judging, Verifying
  <2>7. Reach(written \o Extended(6), Disk, Holding(run, ctl, b5)) /\ Sent(conf, past.fixes, Holding(run, ctl, b5), ts)
    BY <1>21, <1>22, <1>24
  <2>8. Ready(r, b5, ts, "verification")
    BY <2>5 DEF Ready
  <2> QED BY <1>1, <1>24, <2>6, <2>7, <2>8, AdvancesWith
<1> QED BY <1>3, <1>5, <1>18, <1>19, <1>20, <1>23, <1>24

\* A task that is done is left alone.
LEMMA EnsuredKeeps ==
    ASSUME NEW ts, NEW t \in Tasks, Done(t)
    PROVE  Ensured(run, ts)[t] = run[t]
BY DEF Ensured, Done

\* The defects, the disputes and the disk.
LEMMA DefectsAre ==
    ASSUME NEW r, NEW k, NEW b, b["results"] = Text["results"]
    PROVE  /\ Defects(Holding(r, k, b)) = Verified /\ Open(Holding(r, k, b)) = Disputed
           /\ Verified \subseteq Hyps
BY HeldIs, NamesAre, Held3 DEF Defects, Open, Verified, Disputed

\* The verifications of a packet are done when they are judged.
LEMMA JudgedDone ==
    ASSUME FactoryInv, Handling("verification")
    PROVE  \A h \in Text.hyps.found : <<"verify", h>> \in Tasks /\ Done(<<"verify", h>>)
<1>1. Text.hyps.found \subseteq Hyps
  BY Handled DEF Written
<1>2. About("verify", Text.hyps.found) \subseteq ctl.tasks
  <2>1. Enrolled(Disk) /\ Stage(Disk) = "verification" /\ Disk.has = Text /\ Disk.ctl = ctl
    BY Handled DEF OK, Fine
  <2> QED BY <2>1 DEF Enrolled
<1>3. \A h \in Text.hyps.found : <<"verify", h>> \in ctl.tasks /\ <<"verify", h>> \in Tasks
  BY <1>1, <1>2, AboutIs, TaskPairs
<1>4. ASSUME NEW h \in Text.hyps.found PROVE <<"verify", h>> \in Scope(mem)
  <2> DEFINE t == <<"verify", h>>
  <2>1. t \in mem.tasks /\ mem.stage = "verification" /\ t[1] = "verify"
    BY <1>3, Handled
  <2> HIDE DEF t
  <2>2. t \in Scope(mem)
    BY <2>1, ScopeIs
  <2> QED BY <2>2 DEF t
<1> QED BY <1>3, <1>4, Handled

\* The answers are judged.
LEMMA ProcessVerificationInv ==
    ASSUME FactoryInv, ProcessVerification PROVE FactoryInv'
<1> DEFINE results == [h \in Hyps |-> IF h \in Held("hyps").found THEN Judged(h) ELSE NoResult]
           ts == IF \E h \in Hyps : results[h].verdict = "verified" THEN {Task("rootCause")} ELSE {}
           packet == [Held("hyps") EXCEPT !.judged = TRUE]
           written == Save("hyps", packet) \o Save("results", results)
           A1 == Throws(<<>>, mem, "damaged")
           A2 == Throws(<<>>, mem, "garbled")
           A3 == Throws(written, mem, "damaged")
           A4 == Advances(written \o Extended(7), Ensured(run, ts), Adds(mem, ts), "root_cause")
<1>1. Handling("verification") /\ Unmoved
  BY DEF ProcessVerification
<1>2. ctl.stage = "verification" /\ head \in Nat /\ OK(Disk) /\ Written(head, Text) /\ At("stage")
  BY <1>1, Handled
<1>3. A1 \/ A2 \/ A3 \/ A4
  BY DEF ProcessVerification
<1>4. "garbled" \in Errors /\ "damaged" \in Errors
  BY DEF Errors
<1>5. ts \in {{Task("rootCause")}, {}}
  OBVIOUS
<1>6. PICK g : Extended(7) = Save("graph", g)
  BY Extends
<1> HIDE DEF results, ts
<1> DEFINE b1 == Put(Text, "hyps", packet)
           b2 == Put(b1, "results", results)
           b3 == Put(b2, "graph", g)
           ns == {"graph", "hyps", "results"}
<1>7. {"hyps", "results", "graph"} \subseteq Names
  BY NamesAre
<1>8. packet = [Text.hyps EXCEPT !.judged = TRUE]
  BY <1>7, HeldIs
<1>9. /\ packet \in [found : SUBSET Hyps, missing : SUBSET Hyps, at : 0 .. head, judged : BOOLEAN]
      /\ packet.found = Text.hyps.found /\ packet.at = Text.hyps.at
  BY <1>2, <1>8 DEF Written
<1> HIDE DEF packet
<1>10. /\ b1["hyps"] = packet /\ \A m \in Names \ {"hyps"} : b1[m] = Text[m]
       /\ \A m \in Names \ {"results"} : b2[m] = b1[m]
       /\ \A m \in Names \ {"graph"} : b3[m] = b2[m]
  <2>1. b1["hyps"] = packet /\ \A m \in Names \ {"hyps"} : b1[m] = Text[m]
    BY <1>7, PutIs
  <2> HIDE DEF b1
  <2>2. \A m \in Names \ {"results"} : b2[m] = b1[m]
    BY <1>7, PutIs
  <2> HIDE DEF b2
  <2>3. \A m \in Names \ {"graph"} : b3[m] = b2[m]
    BY <1>7, PutIs
  <2> QED BY <2>1, <2>2, <2>3
<1> HIDE DEF b1, b2, b3
<1>11. Changes(Text, b1, ns) /\ Changes(Text, b2, ns) /\ Changes(Text, b3, ns)
  BY <1>10 DEF Changes
<1>12. b1.hyps = packet /\ b2.hyps = packet /\ b3.hyps = packet
  BY <1>10, NamesAre
<1>13. May(ctl.stage, Text, b1) /\ May(ctl.stage, Text, b2) /\ May(ctl.stage, Text, b3)
  BY <1>2, <1>9, <1>11, <1>12 DEF May
<1>14. Written(head, b1) /\ Written(head, b2) /\ Written(head, b3)
  BY <1>2, <1>9, <1>10, <1>12, NamesAre DEF Written
<1>15. Reach(Save("hyps", packet), Disk, Holding(run, ctl, b1))
  BY <1>2, <1>7, <1>13, <1>14, SaveFirst DEF b1
<1>16. Reach(written, Disk, Holding(run, ctl, b2))
  BY <1>2, <1>7, <1>13, <1>14, <1>15, SaveNext DEF b2
<1> HIDE DEF written
<1>17. Reach(written \o Extended(7), Disk, Holding(run, ctl, b3))
  BY <1>2, <1>6, <1>7, <1>13, <1>14, <1>16, SaveNext DEF b3
<1>18. CASE A1
  BY <1>1, <1>4, <1>18, ThrowsNow
<1>19. CASE A2
  BY <1>1, <1>4, <1>19, ThrowsNow
<1>20. CASE A3
  BY <1>1, <1>2, <1>4, <1>16, <1>20, ThrowsAt
<1>21. CASE A4
  <2> DEFINE r == Ensured(run, ts)
  <2>1. Sent(conf, past.fixes, Holding(run, ctl, b3), ts)
    BY <1>5, TaskPairs DEF Sent, Singles
  <2>2. ASSUME NEW k, Onward(head, Holding(r, ctl, b3), k, "root_cause"), OK(Holding(r, ctl, b3))
        PROVE  OK(Holding(r, k, b3))
    <3> DEFINE d == Holding(r, ctl, b3)
               e == Holding(r, k, b3)
    <3>1. e = Holding(d.run, k, d.has) /\ Stage(d) = "verification" /\ d.run = r /\ d.ctl = ctl /\ d.has = b3
      BY <1>2 DEF Holding, Stage
    <3>2. Fine(conf, head, past.fixes, d) /\ Onward(head, d, k, "root_cause")
      BY <2>2 DEF OK
    <3> HIDE DEF d, e, r
    <3>3. \A h \in d.has.hyps.found : Ended(d, <<"verify", h>>)
      <4>1. d.has.hyps.found = Text.hyps.found
        BY <1>9, <1>12, <3>1
      <4>2. ASSUME NEW h \in Text.hyps.found PROVE r[<<"verify", h>>] = run[<<"verify", h>>] /\ Done(<<"verify", h>>)
        BY <1>1, JudgedDone, EnsuredKeeps DEF r
      <4> QED BY <3>1, <4>1, <4>2 DEF Ended, Done
    <3>4. OK(e)
      BY <1>2, <3>1, <3>2, <3>3, ToRootCause DEF OK
    <3> QED BY <3>4 DEF e
  <2>3. "root_cause" \in StageNames
    BY DEF StageNames, Judging, Verifying, Explaining
  <2>4. Ready(r, b3, ts, "root_cause")
    BY <2>2 DEF Ready
  <2> QED BY <1>1, <1>17, <1>21, <2>1, <2>3, <2>4, AdvancesWith
<1> QED BY <1>3, <1>18, <1>19, <1>20, <1>21

\* The defects are planned for and reported.
LEMMA ProcessRootCauseInv ==
    ASSUME FactoryInv, ProcessRootCause PROVE FactoryInv'
<1> DEFINE planned == Save("plan", Verified)
           report == [commit |-> head, defects |-> Verified]
           written == planned \o Save("report", report) \o Extended(8)
           why == IF dirty THEN "dirty" ELSE "moved"
           ts == RepairsNow
           next == IF conf.review /\ Verified # {} THEN "report" ELSE "remediation"
           A1 == Throws(<<>>, mem, "garbled")
           A2 == Throws(<<>>, mem, "damaged")
           A3 == Throws(<<>>, mem, "too many")
           A4 == Throws(planned, mem, why)
           A5 == ~SourceMoved /\ Advances(written \o Extended(9), Ensured(run, ts), Adds(mem, ts), next)
<1>1. Handling("root_cause") /\ Unmoved
  BY DEF ProcessRootCause
<1>2. ctl.stage = "root_cause" /\ head \in Nat /\ OK(Disk) /\ Written(head, Text) /\ At("stage")
      /\ mem.source = ctl.source /\ Disk.run = run /\ Disk.ctl = ctl /\ Disk.has = Text
      /\ Stage(Disk) = "root_cause" /\ run \in Runs(head)
  BY <1>1, Handled
<1>3. A1 \/ A2 \/ A3 \/ A4 \/ A5
  BY DEF ProcessRootCause
<1>4. {"garbled", "damaged", "too many"} \subseteq Errors /\ why \in Errors /\ next \in {"report", "remediation"}
  BY DEF Errors
<1>5. PICK g, g2 : Extended(8) = Save("graph", g) /\ Extended(9) = Save("graph", g2)
  BY Extends
<1> HIDE DEF ts, why, next
<1> DEFINE b1 == Put(Text, "plan", Verified)
           b2 == Put(b1, "report", report)
           b3 == Put(b2, "graph", g)
           b4 == Put(b3, "graph", g2)
           ns == {"graph", "plan", "report"}
<1>7. {"plan", "report", "graph"} \subseteq Names
  BY NamesAre
<1>8. report.commit = head /\ Verified \subseteq Hyps
  BY DEF Verified
<1> HIDE DEF report
<1>10. /\ b1["plan"] = Verified /\ \A m \in Names \ {"plan"} : b1[m] = Text[m]
       /\ b2["report"] = report /\ \A m \in Names \ {"report"} : b2[m] = b1[m]
       /\ \A m \in Names \ {"graph"} : b3[m] = b2[m]
       /\ \A m \in Names \ {"graph"} : b4[m] = b3[m]
  BY <1>7, PutIs
<1> HIDE DEF b1, b2, b3, b4
<1>11. Changes(Text, b1, ns) /\ Changes(Text, b2, ns) /\ Changes(Text, b3, ns) /\ Changes(Text, b4, ns)
  BY <1>10 DEF Changes
<1>12. b4.report = report /\ b4.base = Text.base /\ b4.hyps = Text.hyps
  BY <1>10, NamesAre
<1>13. May(ctl.stage, Text, b1) /\ May(ctl.stage, Text, b2) /\ May(ctl.stage, Text, b3) /\ May(ctl.stage, Text, b4)
  BY <1>2, <1>11 DEF May
<1>14. Written(head, b1) /\ Written(head, b2) /\ Written(head, b3) /\ Written(head, b4)
  BY <1>2, <1>8, <1>10, NamesAre DEF Written
<1>15. Reach(planned, Disk, Holding(run, ctl, b1))
  BY <1>2, <1>7, <1>13, <1>14, SaveFirst DEF b1
<1> HIDE DEF planned
<1>16. Reach(planned \o Save("report", report), Disk, Holding(run, ctl, b2))
  BY <1>2, <1>7, <1>13, <1>14, <1>15, SaveNext DEF b2
<1>17. Reach(written, Disk, Holding(run, ctl, b3))
  BY <1>2, <1>5, <1>7, <1>13, <1>14, <1>16, SaveNext DEF b3
<1> HIDE DEF written
<1>18. Reach(written \o Extended(9), Disk, Holding(run, ctl, b4))
  BY <1>2, <1>5, <1>7, <1>13, <1>14, <1>17, SaveNext DEF b4
<1>19. CASE A1
  BY <1>1, <1>4, <1>19, ThrowsNow
<1>20. CASE A2
  BY <1>1, <1>4, <1>20, ThrowsNow
<1>21. CASE A3
  BY <1>1, <1>4, <1>21, ThrowsNow
<1>22. CASE A4
  BY <1>1, <1>2, <1>4, <1>15, <1>22, ThrowsAt
<1>23. CASE A5
  <2> DEFINE r == Ensured(run, ts)
  <2>1. Sent(conf, past.fixes, Holding(run, ctl, b4), ts)
    <3>1. conf.review => ts = {}
      BY DEF ts, RepairsNow
    <3>2. ts \subseteq About("repair", Verified)
      BY DEF ts, RepairsNow, Repairs
    <3>3. \A t \in ts : t \in Tasks /\ t[1] = "repair"
      BY <1>8, <3>2, AboutIs
    <3> QED BY <3>1, <3>3 DEF Sent
  <2>2. ASSUME conf.review
        PROVE  /\ Text.base.commit = head
               /\ \A h \in Text.hyps.found : r[<<"verify", h>>].at = head
    <3>1. Reviewed(conf, Disk) /\ RanLater(conf, Disk)
      BY <1>2 DEF OK, Fine
    <3>2. "root_cause" \in Verifying /\ "root_cause" \in Explaining
      BY DEF Verifying, Explaining
    <3>3. ctl.source = head
      BY <1>2, <1>23, <2>2 DEF SourceMoved
    <3>4. Text.base.commit = head /\ \A h \in Text.hyps.found : Ended(Disk, <<"verify", h>>)
      BY <1>2, <2>2, <3>1, <3>2, <3>3 DEF Reviewed
    <3>5. ASSUME NEW h \in Text.hyps.found PROVE r[<<"verify", h>>].at = head
      <4>1. <<"verify", h>> \in Tasks
        BY <1>2, TaskPairs DEF Written
      <4>2. Done(<<"verify", h>>)
        BY <1>2, <3>4 DEF Ended, Done
      <4>3. head <= run[<<"verify", h>>].at
        BY <1>2, <2>2, <3>1, <3>3, <3>4, <4>1 DEF RanLater
      <4>4. run[<<"verify", h>>].at \in 0 .. head
        BY <1>2, <4>1 DEF Runs
      <4>5. r[<<"verify", h>>] = run[<<"verify", h>>]
        BY <4>1, <4>2, EnsuredKeeps
      <4> HIDE DEF r
      <4> QED BY <1>2, <4>3, <4>4, <4>5
    <3> QED BY <3>4, <3>5
  <2>3. ASSUME NEW k, Onward(head, Holding(r, ctl, b4), k, next), OK(Holding(r, ctl, b4))
        PROVE  OK(Holding(r, k, b4))
    <3> DEFINE d == Holding(r, ctl, b4)
               e == Holding(r, k, b4)
    <3>1. e = Holding(d.run, k, d.has) /\ Stage(d) = "root_cause" /\ d.run = r /\ d.ctl = ctl /\ d.has = b4
      BY <1>2 DEF Holding, Stage
    <3>2. Fine(conf, head, past.fixes, d) /\ Onward(head, d, k, next)
      BY <2>3 DEF OK
    <3> HIDE DEF d, e, r
    <3>3. conf.review => /\ d.has.report.commit = d.has.base.commit
                         /\ \A h \in d.has.hyps.found : d.run[<<"verify", h>>].at = d.has.base.commit
      BY <1>8, <1>12, <3>1, <2>2
    <3>4. OK(e)
      BY <1>2, <1>4, <3>1, <3>2, <3>3, ToReport DEF OK
    <3> QED BY <3>4 DEF e
  <2>4. next \in StageNames
    BY <1>4 DEF StageNames, Judging, Verifying, Explaining, Reporting, Repairing
  <2>5. Ready(r, b4, ts, next)
    BY <2>3 DEF Ready
  <2> QED BY <1>1, <1>18, <1>23, <2>1, <2>4, <2>5, AdvancesWith
<1> QED BY <1>3, <1>19, <1>20, <1>21, <1>22, <1>23

\* The report waits.
LEMMA ReportIdlesInv ==
    ASSUME FactoryInv, ReportIdles PROVE FactoryInv'
<1>1. Handling("report") /\ Unmoved /\ Advances(<<>>, run, mem, "report")
  BY DEF ReportIdles
<1>2. Reach(<<>>, Disk, Holding(run, ctl, Text)) /\ OK(Holding(run, ctl, Text))
  BY <1>1, Handled, Stays DEF OK, Reach, Disk
<1>3. ASSUME NEW k, Onward(head, Holding(run, ctl, Text), k, "report")
      PROVE  OK(Holding(run, k, Text))
  <2>1. /\ Disk.run = run /\ Disk.ctl = ctl /\ Disk.has = Text /\ ctl.stage = "report"
        /\ head \in Nat /\ OK(Disk)
    BY <1>1, Handled
  <2>2. k \in Ctls(head) /\ k.stage = ctl.stage /\ k.source = ctl.source /\ ctl.tasks \subseteq k.tasks
    BY <1>3, <2>1, Held3 DEF Onward
  <2> QED BY <2>1, <2>2, CtlFine DEF OK
<1>4. "report" \in StageNames
  BY DEF StageNames, Judging, Verifying, Explaining, Reporting
<1>5. mem \in Mems /\ At("stage")
  BY <1>1, Handled
<1> QED BY <1>1, <1>2, <1>3, <1>4, <1>5, AdvancesInv

\* A handler that goes on without new tasks.
LEMMA AdvancesOn ==
    ASSUME FactoryInv, NEW stage, Handling(stage), NEW ws, NEW b, NEW next \in StageNames,
           Advances(ws, run, mem, next), Unmoved,
           Reach(ws, Disk, Holding(run, ctl, b)), Ready(run, b, {}, next)
    PROVE  FactoryInv'
<1>1. OK(Holding(run, ctl, b))
  BY Ends DEF Reach, OK
<1>2. At("stage") /\ mem \in Mems /\ mem.tasks = ctl.tasks
  BY Handled
<1>3. ASSUME NEW k, Onward(head, Holding(run, ctl, b), k, next), k.tasks = mem.tasks
      PROVE  OK(Holding(run, k, b))
  <2>1. k.tasks = ctl.tasks \cup {}
    BY <1>2, <1>3
  <2> QED BY <1>1, <1>3, <2>1 DEF Ready
<1> QED BY <1>1, <1>2, <1>3, AdvancesInv

\* The sources to recheck are pinned.
LEMMA PrepareRecheckInv ==
    ASSUME FactoryInv, PrepareRecheck PROVE FactoryInv'
<1> DEFINE ts == About("recheck", Verified)
           written == Save("source", head)
           next == "remediation_verification"
           A1 == Throws(<<>>, mem, "dirty")
           A2 == Throws(<<>>, mem, "no change")
           A3 == Refuses(<<>>, ts)
           A4 == /\ Verified # {} => head # Held("base").commit
                 /\ Foreign(run, ts) = {}
                 /\ Advances(written, Ensured(run, ts), Adds(mem, ts), next)
<1>1. Handling("remediation") /\ Unmoved
  BY DEF PrepareRecheck
<1>2. ctl.stage = "remediation" /\ head \in Nat /\ OK(Disk) /\ Written(head, Text)
  BY <1>1, Handled
<1>3. A1 \/ A2 \/ A3 \/ A4
  BY DEF PrepareRecheck
<1>4. "dirty" \in Errors /\ "no change" \in Errors
  BY DEF Errors
<1> DEFINE b == Put(Text, "source", head)
<1>5. "source" \in Names /\ "base" \in Names /\ "results" \in Names
  BY NamesAre
<1>6. b["source"] = head /\ \A m \in Names \ {"source"} : b[m] = Text[m]
  BY <1>5, PutIs
<1> HIDE DEF ts
<1>7. Written(head, b)
  BY <1>2, <1>6, NamesAre DEF Written
<1>8. May(ctl.stage, Text, b)
  BY <1>2, <1>6 DEF May, Changes
<1>9. Reach(written, Disk, Holding(run, ctl, b))
  BY <1>2, <1>5, <1>7, <1>8, SaveFirst
<1>10. Reach(<<>>, Disk, Holding(run, ctl, Text))
  BY <1>1, Handled, Stays DEF OK, Reach, Disk
<1> HIDE DEF b
<1>11. ASSUME NEW a PROVE Sent(conf, past.fixes, Holding(run, ctl, a), ts)
  <2>1. \A t \in ts : t \in Tasks /\ t[1] = "recheck"
    BY AboutIs DEF Verified, ts
  <2>2. Stage(Holding(run, ctl, a)) = "remediation" /\ "remediation" \notin Rechecking
    BY <1>2, Held3 DEF Rechecking, Regressing, Certified
  <2> QED BY <2>1, <2>2 DEF Sent
<1>12. CASE A1
  BY <1>1, <1>4, <1>12, ThrowsNow
<1>13. CASE A2
  BY <1>1, <1>4, <1>13, ThrowsNow
<1>14. CASE A3
  BY <1>1, <1>10, <1>11, <1>14, RefusesInv
<1>15. CASE A4
  <2> DEFINE r == Ensured(run, ts)
  <2>1. b["results"] = Text["results"] /\ b["base"] = Text["base"] /\ Held("base") = Text["base"]
    BY <1>5, <1>6, HeldIs
  <2>2. \A h \in Verified : r[<<"recheck", h>>].spec = head
    <3> TAKE h \in Verified
    <3> DEFINE t == <<"recheck", h>>
    <3>1. t \in Tasks /\ t \in ts /\ t[1] = "recheck"
      BY AboutIs, TaskPairs DEF ts, Verified
    <3> HIDE DEF t
    <3>2. r[t].spec = head
      BY <3>1, <1>15, EnsuredSpec DEF Prompt
    <3> QED BY <3>2 DEF t
  <2>3. ASSUME NEW k, Onward(head, Holding(r, ctl, b), k, next),
               k.tasks = ctl.tasks \cup ts, OK(Holding(r, ctl, b))
        PROVE  OK(Holding(r, k, b))
    <3> DEFINE d == Holding(r, ctl, b)
               e == Holding(r, k, b)
    <3>1. e = Holding(d.run, k, d.has) /\ Stage(d) = "remediation" /\ d.run = r /\ d.ctl = ctl /\ d.has = b
      BY <1>2 DEF Holding, Stage
    <3>2. Fine(conf, head, past.fixes, d) /\ Onward(head, d, k, next) /\ ts \subseteq k.tasks
      BY <2>3 DEF OK
    <3>3. Defects(d) = Verified
      BY <2>1, DefectsAre
    <3> HIDE DEF d, e, r
    <3>4. /\ About("recheck", Defects(d)) \subseteq k.tasks
          /\ \A h \in Defects(d) : d.run[<<"recheck", h>>].spec = d.has.source
          /\ Defects(d) # {} => d.has.source # d.has.base.commit
      BY <3>1, <3>2, <3>3, <2>1, <2>2, <1>6, <1>15 DEF ts
    <3>5. OK(e)
      BY <1>2, <3>1, <3>2, <3>4, ToRecheck DEF OK
    <3> QED BY <3>5 DEF e
  <2>4. next \in StageNames
    BY DEF StageNames, Judging, Verifying, Explaining, Reporting, Repairing, Rechecking
  <2>5. Ready(r, b, ts, next)
    BY <2>3 DEF Ready
  <2> QED BY <1>1, <1>9, <1>11, <1>15, <2>4, <2>5, AdvancesWith
<1> QED BY <1>3, <1>12, <1>13, <1>14, <1>15

\* The rechecks are judged, and the regression suite is asked for.
LEMMA ProcessRecheckInv ==
    ASSUME FactoryInv, ProcessRecheck PROVE FactoryInv'
<1> DEFINE ts == {Task("regression"), Task("recertify")}
           checks == [h \in Hyps |-> IF h \in Verified THEN Rechecked(h) ELSE NoResult]
           written == Save("rechecks", checks)
           next == "recertification"
           A1 == Throws(<<>>, mem, "garbled")
           A2 == Throws(<<>>, mem, "unresolved")
           A3 == Throws(written, mem, "damaged")
           A4 == Advances(written \o Extended(10) \o Extended(11), Ensured(run, ts), Adds(mem, ts), next)
<1>1. Handling("remediation_verification") /\ Unmoved
  BY DEF ProcessRecheck
<1>2. ctl.stage = "remediation_verification" /\ head \in Nat /\ OK(Disk) /\ Written(head, Text)
      /\ At("stage") /\ mem.stage = "remediation_verification" /\ mem.tasks = ctl.tasks /\ Disk.ctl = ctl
      /\ Stage(Disk) = "remediation_verification"
  BY <1>1, Handled
<1>3. A1 \/ A2 \/ A3 \/ A4
  BY DEF ProcessRecheck
<1>4. {"garbled", "unresolved", "damaged"} \subseteq Errors
  BY DEF Errors
<1>5. PICK g, g2 : Extended(10) = Save("graph", g) /\ Extended(11) = Save("graph", g2)
  BY Extends
<1> HIDE DEF checks
<1> DEFINE b1 == Put(Text, "rechecks", checks)
           b2 == Put(b1, "graph", g)
           b3 == Put(b2, "graph", g2)
           ns == {"graph", "rechecks"}
<1>6. {"rechecks", "graph"} \subseteq Names
  BY NamesAre
<1>7. /\ \A m \in Names \ {"rechecks"} : b1[m] = Text[m]
      /\ \A m \in Names \ {"graph"} : b2[m] = b1[m]
      /\ \A m \in Names \ {"graph"} : b3[m] = b2[m]
  <2>1. \A m \in Names \ {"rechecks"} : b1[m] = Text[m]
    BY <1>6, PutIs
  <2> HIDE DEF b1
  <2>2. \A m \in Names \ {"graph"} : b2[m] = b1[m]
    BY <1>6, PutIs
  <2> HIDE DEF b2
  <2>3. \A m \in Names \ {"graph"} : b3[m] = b2[m]
    BY <1>6, PutIs
  <2> QED BY <2>1, <2>2, <2>3
<1> HIDE DEF b1, b2, b3
<1>8. Changes(Text, b1, ns) /\ Changes(Text, b2, ns) /\ Changes(Text, b3, ns)
  BY <1>7 DEF Changes
<1>9. May(ctl.stage, Text, b1) /\ May(ctl.stage, Text, b2) /\ May(ctl.stage, Text, b3)
  BY <1>2, <1>8 DEF May
<1>10. Written(head, b1) /\ Written(head, b2) /\ Written(head, b3)
  BY <1>2, <1>7, NamesAre DEF Written
<1>11. Reach(written, Disk, Holding(run, ctl, b1))
  BY <1>2, <1>6, <1>9, <1>10, SaveFirst DEF b1
<1> HIDE DEF written
<1>12. Reach(written \o Extended(10), Disk, Holding(run, ctl, b2))
  BY <1>2, <1>5, <1>6, <1>9, <1>10, <1>11, SaveNext DEF b2
<1>13. Reach(written \o Extended(10) \o Extended(11), Disk, Holding(run, ctl, b3))
  BY <1>2, <1>5, <1>6, <1>9, <1>10, <1>12, SaveNext DEF b3
<1>14. CASE A1
  BY <1>1, <1>4, <1>14, ThrowsNow
<1>15. CASE A2
  BY <1>1, <1>4, <1>15, ThrowsNow
<1>16. CASE A3
  BY <1>1, <1>2, <1>4, <1>11, <1>16, ThrowsAt
<1>17. CASE A4
  <2> DEFINE r == Ensured(run, ts)
  <2>1. Sent(conf, past.fixes, Holding(run, ctl, b3), ts)
    <3>1. Stage(Holding(run, ctl, b3)) = "remediation_verification" /\ "remediation_verification" \in Rechecking
      BY <1>2, Held3 DEF Rechecking
    <3>2. \A t \in ts : t \in Tasks /\ t[1] \in {"regression", "recertify"}
      BY TaskPairs DEF Singles
    <3> QED BY <3>1, <3>2 DEF Sent
  <2>2. b3["results"] = Text["results"] /\ Disk = Holding(run, ctl, Text)
    BY <1>7, NamesAre DEF Disk
  <2>3. ASSUME NEW h \in Verified PROVE r[<<"recheck", h>>] = run[<<"recheck", h>>] /\ Done(<<"recheck", h>>)
    <3> DEFINE t == <<"recheck", h>>
    <3>1. Defects(Disk) = Verified /\ Verified \subseteq Hyps
      BY <2>2, DefectsAre
    <3>2. About("recheck", Defects(Disk)) \subseteq ctl.tasks
      BY <1>2 DEF OK, Fine, Enrolled
    <3>3. t \in ctl.tasks /\ t[1] = "recheck" /\ t \in Tasks
      BY <3>1, <3>2, AboutIs, TaskPairs
    <3> HIDE DEF t
    <3>4. t \in Scope(mem)
      BY <1>2, <3>3, ScopeIs
    <3>5. Done(t)
      BY <1>1, <3>4, Handled
    <3> QED BY <3>3, <3>5, EnsuredKeeps DEF t
  <2>4. ASSUME NEW k, Onward(head, Holding(r, ctl, b3), k, next),
               k.tasks = ctl.tasks \cup ts, OK(Holding(r, ctl, b3))
        PROVE  OK(Holding(r, k, b3))
    <3> DEFINE d == Holding(r, ctl, b3)
               e == Holding(r, k, b3)
    <3>1. e = Holding(d.run, k, d.has) /\ Stage(d) = "remediation_verification" /\ d.run = r
      BY <1>2 DEF Holding, Stage
    <3>2. Fine(conf, head, past.fixes, d) /\ Onward(head, d, k, next) /\ ts \subseteq k.tasks
      BY <2>4 DEF OK
    <3>3. Defects(d) = Verified
      BY <2>2, DefectsAre
    <3> HIDE DEF d, e, r
    <3>4. \A h \in Defects(d) : Ended(d, <<"recheck", h>>)
      BY <3>1, <3>3, <2>3 DEF Ended, Done
    <3>5. OK(e)
      BY <1>2, <3>1, <3>2, <3>4, ToRecertification DEF OK
    <3> QED BY <3>5 DEF e
  <2>5. next \in StageNames
    BY DEF StageNames, Judging, Verifying, Explaining, Reporting, Repairing, Rechecking, Regressing
  <2>6. Ready(r, b3, ts, next)
    BY <2>4 DEF Ready
  <2> QED BY <1>1, <1>13, <1>17, <2>1, <2>5, <2>6, AdvancesWith
<1> QED BY <1>3, <1>14, <1>15, <1>16, <1>17

\* The sources are certified.
LEMMA ProcessRecertificationInv ==
    ASSUME FactoryInv, ProcessRecertification PROVE FactoryInv'
<1> DEFINE written == Save("cert", Certificate)
           next == "convergence"
           A1 == \E why \in {"disputed", "dirty", "stale", "unresolved", "damaged"} : Throws(<<>>, mem, why)
           A2 == Throws(written, mem, "refused")
           A3 == /\ Disputed = {} /\ Pinned /\ \A h \in Verified : Conclusive(Held("rechecks")[h])
                 /\ Advances(written, run, mem, next)
<1>1. Handling("recertification") /\ Unmoved
  BY DEF ProcessRecertification
<1>2. ctl.stage = "recertification" /\ head \in Nat /\ OK(Disk) /\ Written(head, Text)
      /\ At("stage") /\ mem.stage = "recertification" /\ mem.tasks = ctl.tasks /\ Disk.ctl = ctl
      /\ Disk.run = run /\ Disk.has = Text /\ Stage(Disk) = "recertification" /\ run \in Runs(head)
  BY <1>1, Handled
<1>3. A1 \/ A2 \/ A3
  BY DEF ProcessRecertification
<1>4. {"disputed", "dirty", "stale", "unresolved", "damaged", "refused"} \subseteq Errors
  BY DEF Errors
<1> DEFINE b == Put(Text, "cert", Certificate)
<1>5. {"cert", "source", "base", "results", "rechecks"} \subseteq Names
  BY NamesAre
<1>6. b["cert"] = Certificate /\ \A m \in Names \ {"cert"} : b[m] = Text[m]
  BY <1>5, PutIs
<1>7. Written(head, b)
  BY <1>2, <1>6, NamesAre DEF Written
<1>8. May(ctl.stage, Text, b)
  BY <1>2, <1>6 DEF May, Changes
<1>9. Reach(written, Disk, Holding(run, ctl, b))
  BY <1>2, <1>5, <1>7, <1>8, SaveFirst
<1> HIDE DEF b, written
<1>10. CASE A1
  BY <1>1, <1>4, <1>10, ThrowsNow
<1>11. CASE A2
  BY <1>1, <1>2, <1>4, <1>9, <1>11, ThrowsAt
<1>12. CASE A3
  <2>1. Text["source"] = head /\ Held("rechecks") = Text["rechecks"]
    BY <1>5, <1>12, HeldIs DEF Pinned
  <2>2. ASSUME NEW t \in {Task("regression"), Task("recertify")} PROVE run[t].at = head
    <3>1. t \in Tasks /\ t[1] \in {"regression", "recertify"}
      BY TaskPairs DEF Singles
    <3>2. t \in mem.tasks
      BY <1>2 DEF OK, Fine, Enrolled
    <3>3. Done(t)
      BY <1>1, <1>2, <3>1, <3>2, Handled, ScopeIs
    <3>4. head <= run[t].at
      BY <1>2, <2>1, <3>3 DEF OK, Fine, Regressed, Ended, Done
    <3>5. run[t].at \in 0 .. head
      BY <1>2, <3>1 DEF Runs
    <3> QED BY <1>2, <3>4, <3>5
  <2>3. Certificate.commit = head /\ Certificate.at = {head}
    BY <2>2 DEF Certificate
  <2>4. Defects(Disk) = Verified /\ Open(Disk) = Disputed /\ Verified \subseteq Hyps
    BY DefectsAre DEF Disk
  <2>5. "recertification" \in Rechecking /\ "recertification" \in Regressing
    BY DEF Rechecking, Regressing
  <2>6. ASSUME NEW h \in Verified PROVE run[<<"recheck", h>>].at = head
    <3> DEFINE t == <<"recheck", h>>
    <3>1. t \in Tasks
      BY <2>4, TaskPairs
    <3>2. run[t].spec = head
      BY <1>2, <2>1, <2>4, <2>5 DEF OK, Fine, Packets
    <3>3. Ended(Disk, t)
      BY <1>2, <2>4, <2>5 DEF OK, Fine, Rechecks
    <3>4. run[t].spec <= run[t].at
      BY <1>2, <3>1, <3>3 DEF OK, Fine, RanLater
    <3>5. run[t].at \in 0 .. head
      BY <1>2, <3>1 DEF Runs
    <3> HIDE DEF t
    <3>6. run[t].at = head
      BY <1>2, <3>2, <3>4, <3>5
    <3> QED BY <3>6 DEF t
  <2>7. Verified # {} => head # Text["base"].commit
    BY <1>2, <2>1, <2>4, <2>5 DEF OK, Fine, Rechecks
  <2>8. ASSUME NEW k, Onward(head, Holding(run, ctl, b), k, next), OK(Holding(run, ctl, b))
        PROVE  OK(Holding(run, k, b))
    <3> DEFINE d == Holding(run, ctl, b)
               e == Holding(run, k, b)
    <3>1. e = Holding(d.run, k, d.has) /\ Stage(d) = "recertification" /\ d.run = run /\ d.has = b
      BY <1>2 DEF Holding, Stage
    <3>2. Fine(conf, head, past.fixes, d) /\ Onward(head, d, k, next)
      BY <2>8 DEF OK
    <3>3. Defects(d) = Verified /\ Open(d) = {}
      BY <1>5, <1>6, <1>12, DefectsAre
    <3> HIDE DEF d, e
    <3>4. b["cert"] = Certificate /\ b["base"] = Text["base"] /\ b["rechecks"] = Text["rechecks"]
      BY <1>5, <1>6
    <3>5. d.has.cert.at = {d.has.cert.commit}
      BY <3>1, <3>4, <2>3
    <3>6. Defects(d) # {} => d.has.cert.commit # d.has.base.commit
      BY <3>1, <3>3, <3>4, <2>3, <2>7
    <3>7. \A h \in Defects(d) : /\ Conclusive(d.has.rechecks[h])
                                /\ d.run[<<"recheck", h>>].at = d.has.cert.commit
      BY <1>12, <3>1, <3>3, <3>4, <2>1, <2>3, <2>6
    <3>8. OK(e)
      BY <1>2, <3>1, <3>2, <3>3, <3>5, <3>6, <3>7, ToConvergence DEF OK
    <3> QED BY <3>8 DEF e
  <2>9. next \in StageNames
    BY DEF StageNames, Judging, Verifying, Explaining, Reporting, Repairing, Rechecking, Regressing, Certified
  <2>10. Ready(run, b, {}, next)
    BY <2>8 DEF Ready
  <2> QED BY <1>1, <1>9, <1>12, <2>9, <2>10, AdvancesOn
<1> QED BY <1>3, <1>10, <1>11, <1>12

\* The factory goes on or stops.
LEMMA ProcessConvergenceInv ==
    ASSUME FactoryInv, ProcessConvergence PROVE FactoryInv'
<1> DEFINE next == "complete"
           A1 == \E why \in {"coverage", "dirty"} : Throws(<<>>, mem, why)
           A2 == Throws(Save("decision", "continue"), mem, "continue")
           A3 == Advances(Save("decision", "stop"), run, mem, next)
<1>1. Handling("convergence") /\ Unmoved
  BY DEF ProcessConvergence
<1>2. ctl.stage = "convergence" /\ head \in Nat /\ OK(Disk) /\ Written(head, Text) /\ At("stage")
  BY <1>1, Handled
<1>3. A1 \/ A2 \/ A3
  BY DEF ProcessConvergence
<1>4. {"coverage", "dirty", "continue"} \subseteq Errors
  BY DEF Errors
<1>5. "decision" \in Names
  BY NamesAre
<1>6. ASSUME NEW v PROVE Reach(Save("decision", v), Disk, Holding(run, ctl, Put(Text, "decision", v)))
  <2> DEFINE b == Put(Text, "decision", v)
  <2>1. \A m \in Names \ {"decision"} : b[m] = Text[m]
    BY <1>5, PutIs
  <2> HIDE DEF b
  <2>2. Written(head, b)
    BY <1>2, <2>1, NamesAre DEF Written
  <2>3. May(ctl.stage, Text, b)
    BY <1>2, <2>1 DEF May, Changes
  <2> QED BY <1>2, <1>5, <2>2, <2>3, SaveFirst DEF b
<1>7. CASE A1
  BY <1>1, <1>4, <1>7, ThrowsNow
<1>8. CASE A2
  BY <1>1, <1>2, <1>4, <1>6, <1>8, ThrowsAt
<1>9. CASE A3
  <2> DEFINE b == Put(Text, "decision", "stop")
  <2>1. b["decision"] = "stop"
    BY <1>5, PutIs
  <2> HIDE DEF b
  <2>2. ASSUME NEW k, Onward(head, Holding(run, ctl, b), k, next), OK(Holding(run, ctl, b))
        PROVE  OK(Holding(run, k, b))
    <3> DEFINE d == Holding(run, ctl, b)
               e == Holding(run, k, b)
    <3>1. e = Holding(d.run, k, d.has) /\ Stage(d) = "convergence" /\ d.has = b
      BY <1>2 DEF Holding, Stage
    <3>2. Fine(conf, head, past.fixes, d) /\ Onward(head, d, k, next)
      BY <2>2 DEF OK
    <3> HIDE DEF d, e
    <3>3. OK(e)
      BY <1>2, <2>1, <3>1, <3>2, ToComplete DEF OK
    <3> QED BY <3>3 DEF e
  <2>3. next \in StageNames
    BY DEF StageNames, Judging, Verifying, Explaining, Reporting, Repairing, Rechecking, Regressing, Certified
  <2>4. Ready(run, b, {}, next)
    BY <2>2 DEF Ready
  <2>5. Reach(Save("decision", "stop"), Disk, Holding(run, ctl, b))
    BY <1>6 DEF b
  <2> QED BY <1>1, <1>9, <2>3, <2>4, <2>5, AdvancesOn
<1> QED BY <1>3, <1>7, <1>8, <1>9

-----------------------------------------------------------------------------
(* The run of the tasks, and retries.                                      *)

\* The tasks U of d are others in the run file r: ended now, at hd, or failed
\* or to be done again, at a stage that does not rely on them.
Moves(hd, d, r, U) ==
    /\ r \in Runs(hd) /\ U \subseteq Tasks /\ hd \in Nat
    /\ \A u \in Tasks \ U : r[u] = d.run[u]
    /\ \A u \in U :
          /\ r[u].spec = d.run[u].spec /\ There(d, u) /\ r[u].st # "none"
          /\ u[1] = "verify" => Stage(d) \notin Explaining
          /\ u[1] = "recheck" => Stage(d) \notin Regressing
          /\ r[u].st = "completed" =>
                /\ r[u].at = hd
                /\ u[1] \in {"regression", "recertify"} => Stage(d) \in Regressing
                /\ u = Task("review") => r[u].out \in DOMAIN Reviews \cup {"garbled"}

\* Such a run file keeps the disk in order.
LEMMA MovesFine ==
    ASSUME NEW c, NEW hd, NEW fx, NEW d, NEW r, NEW U, Fine(c, hd, fx, d), Moves(hd, d, r, U)
    PROVE  Fine(c, hd, fx, Holding(r, d.ctl, d.has))
<1> DEFINE e == Holding(r, d.ctl, d.has)
<1>1. e.run = r /\ e.ctl = d.ctl /\ e.has = d.has /\ Stage(e) = Stage(d)
  BY DEF Holding, Stage
<1>2. e = Holding(e.run, e.ctl, e.has)
  BY <1>1
<1> HIDE DEF e
<1>3. Defects(e) = Defects(d) /\ Open(e) = Open(d)
  BY <1>1 DEF Defects, Open
<1>4. \A u \in Tasks : There(e, u) => There(d, u)
  BY <1>1 DEF Moves, There
<1>5. \A u \in Tasks : r[u].spec = d.run[u].spec
  BY DEF Moves
<1>6. \A u \in Tasks : Ended(e, u) => (u \in U /\ r[u].st = "completed" /\ r[u].at = hd) \/ (Ended(d, u) /\ r[u] = d.run[u])
  BY <1>1 DEF Moves, Ended
<1>7. \A u \in Tasks \ U : r[u] = d.run[u] /\ Ended(e, u) = Ended(d, u)
  BY <1>1 DEF Moves, Ended
<1>8. hd \in Nat /\ d.ctl.source \in 0 .. hd /\ d.run \in Runs(hd) /\ r \in Runs(hd) /\ d.has.source \in 0 .. hd
  BY SourceIs DEF Moves, Fine, DiskTypes, Written
<1>9. DiskTypes(hd, e)
  <2>1. Task("review") \in Tasks
    BY TaskPairs DEF Singles
  <2>2. Ended(e, Task("review")) => r[Task("review")].out \in DOMAIN Reviews \cup {"garbled"}
    BY <2>1, <1>6 DEF Moves, Fine, DiskTypes
  <2> QED BY <2>2, <1>1, <1>2, <1>8 DEF Fine, DiskTypes
<1>10. Enrolled(e)
  BY <1>1, <1>3 DEF Fine, Enrolled
<1>11. Authorized(c, fx, e)
  BY <1>1, <1>4, TaskPairs DEF Fine, Authorized
<1>12. RanLater(c, e)
  <2> SUFFICES ASSUME NEW u \in Tasks, Ended(e, u)
               PROVE  e.run[u].spec <= e.run[u].at /\ (c.review => e.ctl.source <= e.run[u].at)
    BY DEF RanLater
  <2>1. CASE r[u].at = hd
    <3>1. r[u].spec \in 0 .. hd
      BY <1>8 DEF Runs
    <3> QED BY <3>1, <2>1, <1>1, <1>8
  <2>2. CASE Ended(d, u) /\ r[u] = d.run[u]
    BY <2>2, <1>1 DEF Fine, RanLater
  <2> QED BY <2>1, <2>2, <1>6
<1>13. Packets(e)
  <2>1. \A h \in d.has.hyps.found : <<"verify", h>> \in Tasks
    BY TaskPairs DEF Fine, DiskTypes, Written
  <2>2. \A h \in Defects(d) : <<"recheck", h>> \in Tasks
    BY TaskPairs DEF Defects
  <2> QED BY <2>1, <2>2, <1>1, <1>3, <1>5 DEF Fine, Packets
<1>14. Reviewed(c, e)
  <2>1. Stage(d) \in Explaining => \A h \in d.has.hyps.found : <<"verify", h>> \in Tasks \ U
    BY TaskPairs DEF Fine, DiskTypes, Written, Moves
  <2>2. Stage(d) \in Reporting => Stage(d) \in Explaining
    BY DEF Explaining
  <2> QED BY <2>1, <2>2, <1>1, <1>7 DEF Fine, Reviewed
<1>15. Stage(d) \in Regressing => \A h \in Defects(d) : <<"recheck", h>> \in Tasks \ U
  BY TaskPairs DEF Defects, Moves
<1>16. Rechecks(e)
  BY <1>1, <1>3, <1>7, <1>15 DEF Fine, Rechecks
<1>17. Regressed(e)
  <2> SUFFICES ASSUME NEW t \in {Task("regression"), Task("recertify")}
               PROVE  /\ There(e, t) => Stage(e) \in Rechecking
                      /\ Ended(e, t) => Stage(e) \in Regressing /\ e.has.source <= e.run[t].at
    BY DEF Regressed
  <2>1. t \in Tasks /\ t[1] \in {"regression", "recertify"}
    BY TaskPairs DEF Singles
  <2>2. There(e, t) => Stage(e) \in Rechecking
    BY <1>1, <1>4, <2>1 DEF Fine, Regressed
  <2>3. ASSUME Ended(e, t) PROVE Stage(e) \in Regressing /\ e.has.source <= e.run[t].at
    <3>1. CASE t \in U /\ r[t].st = "completed" /\ r[t].at = hd
      BY <2>1, <3>1, <1>1, <1>8 DEF Moves
    <3>2. CASE Ended(d, t) /\ r[t] = d.run[t]
      BY <3>2, <1>1 DEF Fine, Regressed
    <3> QED BY <2>1, <2>3, <3>1, <3>2, <1>6
  <2> QED BY <2>2, <2>3
<1>18. Certificates(e)
  <2>1. Stage(d) \in Certified => Stage(d) \in Regressing
    BY DEF Regressing
  <2> QED BY <2>1, <1>1, <1>3, <1>7, <1>15 DEF Fine, Certificates
<1> QED BY <1>9, <1>10, <1>11, <1>12, <1>13, <1>14, <1>16, <1>17, <1>18 DEF Fine, e

\* A step that leaves nothing to write.
LEMMA Resting ==
    ASSUME head' \in Nat, mem' \in Mems, Shaped', past' \in [fixes : SUBSET Nat, faults : Nat],
           todo' = <<>>, mem'.pc = "stage" => (\A t \in Scope(mem) : Done(t))',
           Fine(conf', head', past'.fixes, Disk'), Agrees(mem', Disk')
    PROVE  FactoryInv'
<1>1. Leads(conf', head', past'.fixes, todo', Disk', Disk')
  BY Stays
<1>2. Reach(todo, Disk, Disk)'
  BY <1>1 DEF Reach
<1> QED BY <1>2 DEF FactoryInv

\* The engine and a retry change the run file and no more.
LEMMA MovesInv ==
    ASSUME FactoryInv, todo = <<>>, mem.pc # "stage", head' \in Nat, head <= head',
           NEW U, Moves(head', Disk, run', U),
           UNCHANGED <<conf, ctl, art, mem, todo>>,
           past' \in [fixes : SUBSET Nat, faults : Nat], past'.fixes = past.fixes
    PROVE  FactoryInv'
<1>1. OK(Disk) /\ Agrees(mem, Disk)
  BY Rests
<1>2. Fine(conf, head', past.fixes, Disk)
  BY <1>1, FineLater DEF OK, FactoryInv
<1>3. Fine(conf, head', past.fixes, Holding(run', Disk.ctl, Disk.has))
  BY <1>2, MovesFine
<1>4. Disk.ctl = ctl /\ Disk.has = Text /\ Disk' = Holding(run', ctl, Text)
  BY Held3 DEF Disk, Text
<1>5. Disk'.ctl = ctl
  BY <1>4, Held3
<1>6. Agrees(mem', Disk')
  BY <1>1, <1>4, <1>5 DEF Agrees
<1>7. mem' \in Mems /\ Shaped'
  BY DEF FactoryInv, Shaped
<1> QED BY <1>3, <1>4, <1>6, <1>7, Resting

\* An entry of the run file with another state, commit and output.
LEMMA EntryIs ==
    ASSUME NEW hd, NEW e, e \in [st : States, spec : 0 .. hd, at : 0 .. hd, out : Outs],
           NEW a, NEW n, NEW o
    PROVE  [[[e EXCEPT !.st = a] EXCEPT !.at = n] EXCEPT !.out = o]
             = [st |-> a, spec |-> e.spec, at |-> n, out |-> o]
<1> DEFINE e1 == [st |-> a, spec |-> e.spec, at |-> e.at, out |-> e.out]
           e2 == [st |-> a, spec |-> e.spec, at |-> n, out |-> e.out]
<1>1. [e EXCEPT !.st = a] = e1
  OBVIOUS
<1>2. [e1 EXCEPT !.at = n] = e2
  OBVIOUS
<1>3. [e2 EXCEPT !.out = o] = [st |-> a, spec |-> e.spec, at |-> n, out |-> o]
  OBVIOUS
<1> HIDE DEF e1, e2
<1> QED BY <1>1, <1>2, <1>3

\* Commits are made upwards.
LEMMA EditsUp ==
    ASSUME head \in Nat, NEW t, Edits(t) PROVE head' \in Nat /\ head <= head'
BY DEF Edits

\* What a task says.
LEMMA OutputsAre ==
    ASSUME NEW k, NEW o \in Outputs(k)
    PROVE  o \in Outs /\ (k = "review" => o \in DOMAIN Reviews \cup {"garbled"})
BY DEF Outputs, Outs

\* A task of the stage, where its end matters.
LEMMA InTime ==
    ASSUME FactoryInv, todo = <<>>, NEW t, t \in Scope(mem), mem.pc = "run"
    PROVE  /\ t[1] = "verify" => Stage(Disk) \notin Explaining
           /\ t[1] = "recheck" => Stage(Disk) \notin Regressing
           /\ t[1] \in {"regression", "recertify"} => Stage(Disk) \in Regressing
<1>1. Stage(Disk) = mem.stage
  BY Rests DEF Agrees, Stage
<1> QED BY <1>1, ScopeIs DEF Explaining, Reporting, Repairing, Rechecking, Regressing, Certified

\* A task of the stage completes.
LEMMA TaskCompletesInv ==
    ASSUME FactoryInv, NEW t \in Tasks, TaskCompletes(t) PROVE FactoryInv'
<1>1. /\ mem.pc = "run" /\ todo = <<>> /\ t \in Scope(mem) /\ run[t].st = "pending"
      /\ UNCHANGED <<conf, ctl, art, mem, todo, past>>
  BY DEF TaskCompletes, At, Writing, Runnable
<1>2. head \in Nat /\ head' \in Nat /\ head <= head'
  BY EditsUp DEF FactoryInv, TaskCompletes
<1>3. OK(Disk) /\ Disk.run = run /\ run \in Runs(head)
  BY <1>1, Rests, Held3, SourceIs DEF OK, Disk
<1>4. PICK o \in Outputs(t[1]) :
          run' = [run EXCEPT ![t].st = "completed", ![t].at = head', ![t].out = o]
  BY DEF TaskCompletes
<1>5. run[t] \in [st : States, spec : 0 .. head', at : 0 .. head', out : Outs]
  BY <1>2, <1>3 DEF Runs
<1> DEFINE x == [st |-> "completed", spec |-> run[t].spec, at |-> head', out |-> o]
<1>6. run' = [run EXCEPT ![t] = x]
  <2> DEFINE y == [[[run[t] EXCEPT !.st = "completed"] EXCEPT !.at = head'] EXCEPT !.out = o]
             r1 == [run EXCEPT ![t].st = "completed"]
             r2 == [r1 EXCEPT ![t].at = head']
             r3 == [r2 EXCEPT ![t].out = o]
  <2>1. y = x
    BY <1>5, EntryIs
  <2>2. run' = r3
    BY <1>4
  <2>3. run = [u \in Tasks |-> run[u]]
    BY <1>3 DEF Runs
  <2>4. r1 = [u \in Tasks |-> IF u = t THEN [run[t] EXCEPT !.st = "completed"] ELSE run[u]]
    BY <2>3
  <2>5. r1[t] = [run[t] EXCEPT !.st = "completed"]
    BY <2>4
  <2>6. r2 = [u \in Tasks |-> IF u = t THEN [r1[t] EXCEPT !.at = head'] ELSE run[u]]
    BY <2>4
  <2>7. r2[t] = [r1[t] EXCEPT !.at = head']
    BY <2>6
  <2>8. r3 = [u \in Tasks |-> IF u = t THEN [r2[t] EXCEPT !.out = o] ELSE run[u]]
    BY <2>6
  <2>9. [r2[t] EXCEPT !.out = o] = y
    BY <2>5, <2>7
  <2> HIDE DEF r1, r2, r3, y, x
  <2>10. r3 = [u \in Tasks |-> IF u = t THEN x ELSE run[u]]
    BY <2>1, <2>8, <2>9
  <2> QED BY <2>2, <2>3, <2>10
<1>7. x \in [st : States, spec : 0 .. head', at : 0 .. head', out : Outs]
  BY <1>2, <1>5, OutputsAre DEF States
<1>8. t = Task("review") => x.out \in DOMAIN Reviews \cup {"garbled"}
  BY OutputsAre, TaskPairs DEF Singles
<1>9. x.st = "completed" /\ x.at = head' /\ x.spec = run[t].spec
  OBVIOUS
<1> HIDE DEF x
<1>10. run' \in Runs(head')
  <2>1. 0 .. head \subseteq 0 .. head'
    BY <1>2
  <2> QED BY <1>3, <1>6, <1>7, <2>1 DEF Runs
<1>11. run'[t] = x /\ \A u \in Tasks \ {t} : run'[u] = run[u]
  BY <1>3, <1>6 DEF Runs
<1>12. Moves(head', Disk, run', {t})
  BY <1>1, <1>2, <1>3, <1>8, <1>9, <1>10, <1>11, InTime DEF Moves, There
<1>13. past' \in [fixes : SUBSET Nat, faults : Nat] /\ past'.fixes = past.fixes
  BY <1>1 DEF FactoryInv
<1> QED BY <1>1, <1>2, <1>12, <1>13, MovesInv

\* A task of the stage fails.
LEMMA TaskFailsInv ==
    ASSUME FactoryInv, NEW t \in Tasks, TaskFails(t) PROVE FactoryInv'
<1>1. /\ mem.pc = "run" /\ todo = <<>> /\ t \in Scope(mem) /\ run[t].st = "pending"
      /\ UNCHANGED <<conf, head, ctl, art, mem, todo, past>>
      /\ run' = [run EXCEPT ![t].st = "failed"]
  BY DEF TaskFails, At, Writing, Runnable
<1>2. head \in Nat /\ head' = head /\ head' \in Nat /\ head <= head'
  BY <1>1 DEF FactoryInv
<1>3. OK(Disk) /\ Disk.run = run /\ run \in Runs(head)
  BY <1>1, Rests, Held3, SourceIs DEF OK, Disk
<1>4. run[t] \in [st : States, spec : 0 .. head, at : 0 .. head, out : Outs]
  BY <1>3 DEF Runs
<1> DEFINE x == [run[t] EXCEPT !.st = "failed"]
<1>5. run' = [run EXCEPT ![t] = x]
  BY <1>1
<1>6. x \in [st : States, spec : 0 .. head, at : 0 .. head, out : Outs] /\ x.st = "failed" /\ x.spec = run[t].spec
  BY <1>4 DEF States
<1> HIDE DEF x
<1>7. run' \in Runs(head')
  BY <1>2, <1>3, <1>5, <1>6 DEF Runs
<1>8. run'[t] = x /\ \A u \in Tasks \ {t} : run'[u] = run[u]
  BY <1>3, <1>5 DEF Runs
<1>9. Moves(head', Disk, run', {t})
  BY <1>1, <1>2, <1>3, <1>6, <1>7, <1>8, InTime DEF Moves, There
<1>10. past' \in [fixes : SUBSET Nat, faults : Nat] /\ past'.fixes = past.fixes
  BY <1>1 DEF FactoryInv
<1> QED BY <1>1, <1>2, <1>9, <1>10, MovesInv

\* What is done again with a task of the stage.
LEMMA CascadeIs ==
    ASSUME NEW t, t \in Scope(ctl), NEW u, u \in Cascade(t)
    PROVE  /\ u[1] = "verify" => ctl.stage \in {"quality", "verification"}
           /\ u[1] = "recheck" => ctl.stage \in {"remediation", "remediation_verification"}
<1>1. DepKinds("verify") = {"review"} /\ DepKinds("recheck") = {"repair"}
  BY DEF DepKinds
<1>2. u = t \/ t[1] \in DepKinds(u[1])
  BY DEF Cascade
<1> QED BY <1>1, <1>2, ScopeIs

\* A task is done again, with those that depend on it.
LEMMA RetryInv ==
    ASSUME FactoryInv, NEW t \in Tasks, Retry(t) PROVE FactoryInv'
<1> DEFINE U == Cascade(t)
<1>1. /\ mem.pc = "off" /\ todo = <<>> /\ t \in Scope(ctl) /\ run[t].st \in {"failed", "completed"}
      /\ UNCHANGED <<conf, head, ctl, art, mem, todo>> /\ past' = [past EXCEPT !.faults = @ + 1]
  BY DEF Retry, At, Writing
<1>0. run' = [d \in Tasks |-> IF d \in U THEN [run[d] EXCEPT !.st = "pending", !.out = "none"]
                              ELSE run[d]]
  BY DEF Retry
<1>2. head \in Nat /\ head' = head /\ head' \in Nat /\ head <= head'
  BY <1>1 DEF FactoryInv
<1>3. OK(Disk) /\ Disk.run = run /\ Disk.ctl = ctl /\ run \in Runs(head)
  BY <1>1, Rests, Held3, SourceIs DEF OK, Disk
<1>4. U \subseteq Tasks /\ \A u \in U : run[u].st # "none"
  BY <1>1 DEF Cascade
<1>5. ASSUME NEW u \in U
      PROVE  /\ run'[u] \in [st : States, spec : 0 .. head, at : 0 .. head, out : Outs]
             /\ run'[u].st = "pending" /\ run'[u].spec = run[u].spec
  <2>1. run[u] \in [st : States, spec : 0 .. head, at : 0 .. head, out : Outs] /\ u \in Tasks
    BY <1>3, <1>4 DEF Runs
  <2>2. run'[u] = [run[u] EXCEPT !.st = "pending", !.out = "none"]
    BY <2>1, <1>0
  <2> QED BY <2>1, <2>2 DEF States, Outs
<1>6. \A u \in Tasks \ U : run'[u] = run[u]
  BY <1>0
<1>7. run' \in Runs(head')
  <2>1. run' = [d \in Tasks |-> run'[d]]
    BY <1>0
  <2>2. \A u \in Tasks : run'[u] \in [st : States, spec : 0 .. head, at : 0 .. head, out : Outs]
    BY <1>3, <1>5, <1>6 DEF Runs
  <2> QED BY <1>2, <2>1, <2>2 DEF Runs
<1>8. \A u \in U : /\ u[1] = "verify" => Stage(Disk) \notin Explaining
                   /\ u[1] = "recheck" => Stage(Disk) \notin Regressing
  BY <1>1, <1>3, CascadeIs DEF Stage, Explaining, Reporting, Repairing, Rechecking, Regressing, Certified
<1> HIDE DEF U
<1>9. Moves(head', Disk, run', U)
  BY <1>2, <1>3, <1>4, <1>5, <1>6, <1>7, <1>8 DEF Moves, There
<1>10. past' \in [fixes : SUBSET Nat, faults : Nat] /\ past'.fixes = past.fixes
  BY <1>1 DEF FactoryInv
<1> QED BY <1>1, <1>2, <1>9, <1>10, MovesInv

-----------------------------------------------------------------------------
(* The loop of the controller, its calls, the disk and the operator.       *)

\* What leads somewhere still does when fixes were added.
LEMMA LeadsLater ==
    ASSUME NEW c, NEW hd \in Nat, NEW fx, NEW fx2, NEW ws, NEW d, NEW e,
           Leads(c, hd, fx, ws, d, e), fx \subseteq fx2
    PROVE  Leads(c, hd, fx2, ws, d, e)
<1>1. PICK p : Way(p, ws, d, e) /\ \A i \in 0 .. Len(ws) : Fine(c, hd, fx, p[i])
  BY DEF Leads
<1>2. \A i \in 0 .. Len(ws) : Fine(c, hd, fx2, p[i])
  BY <1>1, FineLater
<1> QED BY <1>1, <1>2 DEF Leads

\* The state of a process that rests.
LEMMA RestsAt ==
    ASSUME FactoryInv, todo = <<>>
    PROVE  /\ OK(Disk) /\ head \in Nat /\ mem \in Mems
           /\ mem.pc # "off" => mem.stage = ctl.stage /\ mem.tasks = ctl.tasks /\ mem.source = ctl.source
           /\ ctl \in Ctls(head) /\ ctl.source \in 0 .. head
           /\ Disk.run = run /\ Disk.ctl = ctl /\ Disk.has = Text /\ Stage(Disk) = ctl.stage
           /\ Written(head, Text) /\ Text = [n \in Names |-> Text[n]]
<1>1. OK(Disk) /\ Agrees(mem, Disk)
  BY Rests
<1>2. Disk.run = run /\ Disk.ctl = ctl /\ Disk.has = Text /\ Stage(Disk) = ctl.stage
  BY Held3 DEF Disk
<1>3. Written(head, Text) /\ Text = [n \in Names |-> Text[n]]
  BY <1>1, <1>2 DEF OK, Fine, DiskTypes
<1>4. ctl \in Ctls(head) /\ ctl.source \in 0 .. head
  BY <1>1, <1>2, SourceIs DEF OK
<1> QED BY <1>1, <1>2, <1>3, <1>4 DEF FactoryInv, Agrees

\* The checkpoint alone is written, at the stage it is at.
LEMMA SavesInv ==
    ASSUME FactoryInv, todo = <<>>, NEW s, Decided(Checkpoint(s)), mem' \in Mems, mem'.pc # "stage",
           Kept(s) \in Ctls(head), Kept(s).stage = ctl.stage, Kept(s).tasks = ctl.tasks,
           Kept(s).source = ctl.source,
           mem'.pc # "off" => mem'.stage = ctl.stage /\ mem'.tasks = ctl.tasks /\ mem'.source = ctl.source
    PROVE  FactoryInv'
<1> DEFINE e == Holding(run, Kept(s), Text)
<1>1. e = Holding(Disk.run, Kept(s), Disk.has)
  BY RestsAt
<1>2. e.ctl = Kept(s)
  BY Held3
<1> HIDE DEF e
<1>3. OK(e)
  BY <1>1, RestsAt, CtlFine DEF OK
<1>4. Reach(Checkpoint(s), Disk, e)
  BY <1>1, <1>3, RestsAt, CheckpointLeads DEF Reach, OK
<1>5. Agrees(mem', e)
  BY <1>2 DEF Agrees
<1> QED BY <1>4, <1>5, Decides

\* Nothing is written and the process agrees with the disk.
LEMMA StaysInv ==
    ASSUME FactoryInv, todo = <<>>, Decided(<<>>), mem' \in Mems, mem'.pc # "stage",
           mem'.pc # "off" => mem'.stage = ctl.stage /\ mem'.tasks = ctl.tasks /\ mem'.source = ctl.source
    PROVE  FactoryInv'
<1>1. Reach(<<>>, Disk, Disk)
  BY RestsAt, Stays DEF Reach, OK
<1>2. Agrees(mem', Disk)
  BY RestsAt DEF Agrees
<1> QED BY <1>1, <1>2, Decides

\* Tasks are added to the run file, and then the checkpoint is written.
LEMMA EnsuresLeads ==
    ASSUME NEW c, NEW fx, NEW ws, NEW ts, NEW s, NEW o, NEW d, NEW e, head \in Nat, d.run = run,
           Leads(c, head, fx, ws, o, d), Sent(c, fx, d, ts),
           e = Holding(Ensured(run, ts), Kept(s), d.has),
           Fine(c, head, fx, Holding(Ensured(run, ts), d.ctl, d.has)) => Fine(c, head, fx, e)
    PROVE  Leads(c, head, fx, ws \o SaveRun(Ensured(run, ts)) \o Checkpoint(s), o, e)
<1> DEFINE r == Ensured(run, ts)
           f == Holding(r, d.ctl, d.has)
<1>1. Fine(c, head, fx, d)
  BY Ends
<1>2. Fine(c, head, fx, f)
  BY <1>1, EnsuredFine
<1>3. Leads(c, head, fx, SaveRun(r), d, f)
  BY <1>1, <1>2, RunLeads
<1>4. e = Holding(f.run, Kept(s), f.has) /\ Fine(c, head, fx, e)
  BY <1>2, Held3
<1> HIDE DEF f, r
<1>5. Leads(c, head, fx, Checkpoint(s), f, e)
  BY <1>2, <1>4, CheckpointLeads
<1>6. Leads(c, head, fx, ws \o SaveRun(r), o, f)
  BY <1>3, Then
<1> QED BY <1>5, <1>6, Then DEF r

\* The graph may be extended at any stage.
LEMMA GraphLeads ==
    ASSUME FactoryInv, todo = <<>>, NEW level
    PROVE  \E b : /\ Reach(Extended(level), Disk, Holding(run, ctl, b))
                  /\ b["report"] = Text["report"]
<1>1. PICK g : Extended(level) = Save("graph", g)
  BY Extends
<1> DEFINE b == Put(Text, "graph", g)
<1>2. "graph" \in Names
  BY NamesAre
<1>3. b = [m \in Names |-> b[m]] /\ \A m \in Names \ {"graph"} : b[m] = Text[m]
  BY <1>2, PutIs
<1>4. b = Put(Text, "graph", g)
  OBVIOUS
<1> HIDE DEF b
<1>5. Written(head, b)
  BY <1>3, RestsAt, NamesAre DEF Written
<1>6. May(ctl.stage, Text, b)
  BY <1>3 DEF May, Changes
<1>7. Reach(Save("graph", g), Disk, Holding(run, ctl, b))
  BY <1>2, <1>4, <1>5, <1>6, RestsAt, SaveFirst
<1>8. b["report"] = Text["report"]
  BY <1>3, NamesAre
<1> QED BY <1>1, <1>7, <1>8

\* The task of a factory that implements.
LEMMA ImplementationIs ==
    ASSUME NEW c, NEW fx, NEW d PROVE Sent(c, fx, d, Implementation)
BY TaskPairs DEF Implementation, Sent, Singles

\* The checkpoint of a process in step with the disk.
LEMMA StepKept ==
    ASSUME FactoryInv, todo = <<>>, NEW s \in Mems, s.stage = ctl.stage, s.tasks = ctl.tasks,
           s.source = ctl.source
    PROVE  /\ Kept(s) \in Ctls(head) /\ Kept(s).stage = ctl.stage /\ Kept(s).tasks = ctl.tasks
           /\ Kept(s).source = ctl.source
BY RestsAt, KeptIs

\* The process at the head of the loop.
LEMMA TurnIs ==
    ASSUME NEW m \in Mems, NEW s,
           s = [m EXCEPT !.turns = @ + 1, !.status = "running", !.pc = "run"]
    PROVE  s \in Mems /\ s.pc = "run" /\ s.stage = m.stage /\ s.tasks = m.tasks /\ s.source = m.source
<1> DEFINE m1 == [m EXCEPT !.turns = @ + 1]
           m2 == [m1 EXCEPT !.status = "running"]
           m3 == [m2 EXCEPT !.pc = "run"]
<1>1. s = m3
  OBVIOUS
<1>2. m1 \in Mems /\ m1.stage = m.stage /\ m1.tasks = m.tasks /\ m1.source = m.source
  BY DEF Mems
<1> HIDE DEF m1
<1>3. m2 \in Mems /\ m2.stage = m.stage /\ m2.tasks = m.tasks /\ m2.source = m.source
  BY <1>2 DEF Mems, Statuses
<1> HIDE DEF m2
<1>4. m3 \in Mems /\ m3.pc = "run" /\ m3.stage = m.stage /\ m3.tasks = m.tasks /\ m3.source = m.source
  BY <1>3 DEF Mems
<1> QED BY <1>1, <1>4

\* The head of the loop.
LEMMA TurnInv ==
    ASSUME FactoryInv, Turn PROVE FactoryInv'
<1> DEFINE s == [mem EXCEPT !.turns = @ + 1, !.status = "running", !.pc = "run"]
           r == Ensured(run, Implementation)
           A1 == mem' = s /\ todo' = Checkpoint(s)
           A2 == mem' = s /\ todo' = Extended(2) \o SaveRun(r) \o Checkpoint(s)
           A3 == mem' = Off /\ todo' = <<>>
<1>1. /\ todo = <<>> /\ mem.pc = "turn" /\ UNCHANGED <<conf, head, dirty, run, ctl, art, past>>
      /\ A1 \/ A2 \/ A3
  BY DEF Turn, At, Writing
<1>2. mem \in Mems /\ mem.stage = ctl.stage /\ mem.tasks = ctl.tasks /\ mem.source = ctl.source
  BY <1>1, RestsAt
<1>3. /\ s \in Mems /\ s.pc = "run" /\ s.stage = ctl.stage /\ s.tasks = ctl.tasks
      /\ s.source = ctl.source
  BY <1>2, TurnIs
<1> HIDE DEF s
<1>4. /\ Kept(s) \in Ctls(head) /\ Kept(s).stage = ctl.stage /\ Kept(s).tasks = ctl.tasks
      /\ Kept(s).source = ctl.source
  BY <1>1, <1>3, StepKept
<1>5. CASE A1
  <2>1. Decided(Checkpoint(s))
    BY <1>1, <1>5 DEF Decided
  <2> QED BY <2>1, <1>1, <1>3, <1>4, <1>5, SavesInv
<1>6. CASE A2
  <2>1. PICK b : Reach(Extended(2), Disk, Holding(run, ctl, b))
    BY <1>1, GraphLeads
  <2> DEFINE d == Holding(run, ctl, b)
             e == Holding(r, Kept(s), b)
  <2>2. d.run = run /\ d.ctl = ctl /\ d.has = b /\ e.ctl = Kept(s)
    BY Held3
  <2>3. Leads(conf, head, past.fixes, Extended(2), Disk, d) /\ e = Holding(r, Kept(s), d.has)
    BY <2>1, <2>2 DEF Reach
  <2>4. Sent(conf, past.fixes, d, Implementation)
    BY ImplementationIs
  <2>5. ASSUME OK(Holding(r, d.ctl, d.has)) PROVE OK(e)
    <3> DEFINE f == Holding(r, d.ctl, d.has)
    <3>1. f.run = r /\ f.ctl = ctl /\ f.has = d.has
      BY <2>2, Held3
    <3>2. OK(f)
      BY <2>5
    <3> HIDE DEF f, r, d
    <3>3. e = Holding(f.run, Kept(s), f.has)
      BY <2>3, <3>1
    <3> HIDE DEF e
    <3> QED BY <1>1, <1>4, <3>1, <3>2, <3>3, RestsAt, CtlFine DEF OK
  <2> HIDE DEF d, e
  <2>6. Leads(conf, head, past.fixes, Extended(2) \o SaveRun(r) \o Checkpoint(s), Disk, e)
    BY <1>1, <2>2, <2>3, <2>4, <2>5, RestsAt, EnsuresLeads DEF OK
  <2> HIDE DEF r
  <2>7. Agrees(s, e)
    BY <1>3, <1>4, <2>2 DEF Agrees
  <2>8. Decided(Extended(2) \o SaveRun(r) \o Checkpoint(s))
    BY <1>1, <1>6 DEF Decided
  <2> QED BY <1>3, <1>6, <2>6, <2>7, <2>8, Decides DEF Reach
<1>7. CASE A3
  <2>1. Decided(<<>>)
    BY <1>1, <1>7 DEF Decided
  <2> QED BY <2>1, <1>1, <1>7, OffIs, StaysInv
<1> QED BY <1>1, <1>5, <1>6, <1>7

\* The end of the loop.
LEMMA LoopEndsInv ==
    ASSUME FactoryInv, LoopEnds PROVE FactoryInv'
<1> DEFINE s == [mem EXCEPT !.status = IF mem.stage = "complete" THEN "completed" ELSE "waiting",
                            !.error = IF mem.stage = "complete" THEN @ ELSE "stage limit"]
<1>1. /\ todo = <<>> /\ mem.pc = "turn" /\ UNCHANGED <<conf, head, dirty, run, ctl, art, past>>
      /\ mem' = Off /\ todo' = Checkpoint(s)
  BY DEF LoopEnds, At, Writing
<1>2. mem \in Mems /\ mem.stage = ctl.stage /\ mem.tasks = ctl.tasks /\ mem.source = ctl.source
  BY <1>1, RestsAt
<1>3. s \in Mems /\ s.stage = ctl.stage /\ s.tasks = ctl.tasks /\ s.source = ctl.source
  BY <1>2 DEF Mems, Statuses, Errors
<1> HIDE DEF s
<1>4. Decided(Checkpoint(s))
  BY <1>1 DEF Decided
<1> QED BY <1>1, <1>3, <1>4, StepKept, OffIs, SavesInv

\* The run of a stage's tasks ends.
LEMMA RunEndsInv ==
    ASSUME FactoryInv, RunEnds PROVE FactoryInv'
<1> DEFINE s == [mem EXCEPT !.status = "waiting", !.pc = "off"]
           n == [mem EXCEPT !.pc = "stage"]
           A1 == (\A t \in Scope(mem) : Done(t)) /\ mem' = n /\ todo' = <<>>
           A2 == mem' = Off /\ todo' = Checkpoint(s)
<1>1. /\ todo = <<>> /\ mem.pc = "run" /\ UNCHANGED <<conf, head, dirty, run, ctl, art, past>>
      /\ A1 \/ A2
  BY DEF RunEnds, At, Writing
<1>2. mem \in Mems /\ mem.stage = ctl.stage /\ mem.tasks = ctl.tasks /\ mem.source = ctl.source
  BY <1>1, RestsAt
<1>3. CASE A1
  <2>1. n \in Mems /\ n.stage = mem.stage /\ n.tasks = mem.tasks /\ n.source = mem.source
    BY <1>2 DEF Mems
  <2> HIDE DEF n
  <2>2. Scope(n) = Scope(mem)
    BY <2>1 DEF Scope
  <2>3. (\A t \in Scope(mem) : Done(t))'
    BY <1>1, <1>3, <2>2 DEF Done, Scope
  <2>4. Disk' = Disk /\ Shaped' /\ head' \in Nat /\ past' \in [fixes : SUBSET Nat, faults : Nat]
    BY <1>1 DEF Disk, Text, Shaped, FactoryInv
  <2>5. Fine(conf', head', past'.fixes, Disk')
    BY <1>1, <2>4, RestsAt DEF OK
  <2>6. Agrees(mem', Disk')
    BY <1>1, <1>2, <1>3, <2>1, <2>4, RestsAt DEF Agrees
  <2> QED BY <1>3, <2>1, <2>3, <2>4, <2>5, <2>6, Resting
<1>4. CASE A2
  <2>1. s \in Mems /\ s.stage = ctl.stage /\ s.tasks = ctl.tasks /\ s.source = ctl.source
    BY <1>2 DEF Mems, Statuses
  <2> HIDE DEF s
  <2>2. Decided(Checkpoint(s))
    BY <1>1, <1>4 DEF Decided
  <2> QED BY <1>1, <1>4, <2>1, <2>2, StepKept, OffIs, SavesInv
<1> QED BY <1>1, <1>3, <1>4

\* The process that resumes from a checkpoint.
LEMMA ResumedIs ==
    ASSUME NEW hd \in Nat, NEW k \in Ctls(hd), NEW s,
           s = [x \in DOMAIN Off |-> IF x \in DOMAIN k THEN k[x] ELSE Off[x]]
    PROVE  /\ s = [stage |-> k.stage, status |-> k.status, error |-> k.error, tasks |-> k.tasks,
                   source |-> k.source, pc |-> "off", turns |-> 0]
           /\ s \in Mems
<1>1. DOMAIN Off = {"stage", "status", "error", "tasks", "source", "pc", "turns"}
  BY DEF Off
<1>2. DOMAIN k = {"stage", "status", "error", "tasks", "source"}
  BY DEF Ctls
<1>3. Off.pc = "off" /\ Off.turns = 0
  BY DEF Off
<1>4. s = [stage |-> k.stage, status |-> k.status, error |-> k.error, tasks |-> k.tasks,
           source |-> k.source, pc |-> "off", turns |-> 0]
  BY <1>1, <1>2, <1>3
<1>5. /\ k.stage \in StageNames \cup {"none"} /\ k.status \in Statuses /\ k.error \in Errors
      /\ k.tasks \in SUBSET Tasks /\ k.source \in Nat
  BY DEF Ctls
<1> QED BY <1>4, <1>5 DEF Mems

\* The controller is resumed.
LEMMA ResumeInv ==
    ASSUME FactoryInv, Resume PROVE FactoryInv'
<1> DEFINE s == [x \in DOMAIN Off |-> IF x \in DOMAIN ctl THEN ctl[x] ELSE Off[x]]
           told == [s EXCEPT !.status = "waiting", !.error = "report ready"]
           back == [s EXCEPT !.pc = "turn", !.error = "none"]
           A1 == mem' = Off /\ todo' = Checkpoint(told)
           A2 == mem' = back /\ todo' = <<>>
<1>1. /\ todo = <<>> /\ UNCHANGED <<conf, head, dirty, run, ctl, art, past>>
      /\ A1 \/ A2
  BY DEF Resume, At, Writing
<1>2. /\ s \in Mems /\ s.stage = ctl.stage /\ s.tasks = ctl.tasks /\ s.source = ctl.source
  BY <1>1, RestsAt, ResumedIs
<1> HIDE DEF s
<1>3. /\ told \in Mems /\ told.stage = ctl.stage /\ told.tasks = ctl.tasks
      /\ told.source = ctl.source
  BY <1>2 DEF Mems, Statuses, Errors
<1>4. /\ back \in Mems /\ back.stage = ctl.stage /\ back.tasks = ctl.tasks
      /\ back.source = ctl.source /\ back.pc = "turn"
  BY <1>2 DEF Mems, Errors
<1> HIDE DEF told, back
<1>5. CASE A1
  <2>1. Decided(Checkpoint(told))
    BY <1>1, <1>5 DEF Decided
  <2> QED BY <2>1, <1>1, <1>3, <1>5, StepKept, OffIs, SavesInv
<1>6. CASE A2
  <2>1. Decided(<<>>)
    BY <1>1, <1>6 DEF Decided
  <2> QED BY <2>1, <1>1, <1>4, <1>6, StaysInv
<1> QED BY <1>1, <1>5, <1>6

\* A report is closed.
LEMMA CloseInv ==
    ASSUME FactoryInv, Close PROVE FactoryInv'
<1> DEFINE k == [ctl EXCEPT !.stage = "reported", !.status = "completed", !.error = "none"]
           e == Holding(run, Kept(k), Text)
<1>1. /\ todo = <<>> /\ mem.pc = "off" /\ ctl.stage = "report" /\ todo' = Checkpoint(k)
      /\ UNCHANGED <<conf, head, dirty, run, ctl, art, mem, past>>
  BY DEF Close, At, Writing
<1>2. k \in Ctls(head) /\ k.stage = "reported" /\ k.tasks = ctl.tasks /\ k.source = ctl.source
  <2>1. "reported" \in StageNames
    BY DEF StageNames, Judging, Verifying, Explaining, Reporting
  <2> QED BY <1>1, <2>1, RestsAt DEF Ctls, Statuses, Errors
<1> HIDE DEF k
<1>3. Kept(k) = k
  BY <1>2 DEF Kept, NoCtl, Ctls
<1>4. e = Holding(Disk.run, k, Disk.has)
  BY <1>1, <1>3, RestsAt
<1>5. Onward(head, Disk, k, "reported")
  BY <1>1, <1>2, RestsAt DEF Onward
<1> HIDE DEF e
<1>6. OK(e)
  BY <1>1, <1>4, <1>5, RestsAt, ToDecided DEF OK
<1>7. Reach(Checkpoint(k), Disk, e)
  BY <1>1, <1>3, <1>4, <1>6, RestsAt, CheckpointLeads DEF Reach, OK
<1>8. Agrees(mem', e) /\ mem' \in Mems /\ mem'.pc # "stage"
  BY <1>1, RestsAt DEF Agrees
<1>9. Decided(Checkpoint(k))
  BY <1>1 DEF Decided
<1> QED BY <1>7, <1>8, <1>9, Decides

\* A step that leaves something to write.
LEMMA Leaves ==
    ASSUME NEW e, head' \in Nat, mem' \in Mems, mem'.pc # "stage", Shaped',
           past' \in [fixes : SUBSET Nat, faults : Nat],
           Leads(conf', head', past'.fixes, todo', Disk', e), Agrees(mem', e)
    PROVE  FactoryInv'
<1>1. Reach(todo, Disk, e)'
  BY DEF Reach
<1> QED BY <1>1 DEF FactoryInv

\* The fix of a review is asked for.
LEMMA FixInv ==
    ASSUME FactoryInv, Fix PROVE FactoryInv'
<1> DEFINE ts == Repairs(Held("plan"))
           s == [x \in DOMAIN Off |-> CASE x = "pc" -> "turn" [] x = "turns" -> 0
                                        [] x = "stage" -> "remediation" [] x = "status" -> "ready"
                                        [] x = "error" -> "none" [] x = "tasks" -> ctl.tasks \cup ts
                                        [] x = "source" -> ctl.source]
           fx == past.fixes \cup {head}
           ws == Extended(9) \o SaveRun(Ensured(run, ts)) \o Checkpoint(s)
<1>1. /\ todo = <<>> /\ mem.pc = "off" /\ ctl.stage \in {"report", "reported"}
      /\ mem' = s /\ todo' = ws /\ past' = [past EXCEPT !.fixes = fx]
      /\ head = Held("report").commit
      /\ UNCHANGED <<conf, head, dirty, run, ctl, art>>
  BY DEF Fix, At, Writing, Fixable
<1>2. ts \subseteq Tasks /\ \A t \in ts : t[1] = "repair"
  <2>1. Text["plan"] \subseteq Hyps
    BY <1>1, RestsAt DEF Written
  <2>2. Held("plan") = Text["plan"]
    BY HeldIs, NamesAre
  <2> QED BY <2>1, <2>2, AboutIs DEF Repairs
<1> HIDE DEF ts
<1>3. /\ s \in Mems /\ s.stage = "remediation" /\ s.tasks = ctl.tasks \cup ts
      /\ s.source = ctl.source /\ s.pc = "turn"
  <2>1. DOMAIN Off = {"stage", "status", "error", "tasks", "source", "pc", "turns"}
    BY DEF Off
  <2>2. s = [stage |-> "remediation", status |-> "ready", error |-> "none",
             tasks |-> ctl.tasks \cup ts, source |-> ctl.source, pc |-> "turn", turns |-> 0]
    BY <2>1
  <2> HIDE DEF s
  <2>3. "remediation" \in StageNames
    BY DEF StageNames, Judging, Verifying, Explaining, Reporting, Repairing
  <2>4. ctl.source \in Nat /\ ctl.tasks \cup ts \in SUBSET Tasks
    BY <1>1, <1>2, RestsAt DEF Ctls
  <2> QED BY <2>2, <2>3, <2>4 DEF Mems, Statuses, Errors
<1> HIDE DEF s
<1>4. /\ Kept(s) \in Ctls(head) /\ Kept(s).stage = "remediation" /\ Kept(s).tasks = ctl.tasks \cup ts
      /\ Kept(s).source = ctl.source
  BY <1>1, <1>3, RestsAt, KeptIs
<1>5. PICK b : Reach(Extended(9), Disk, Holding(run, ctl, b)) /\ b["report"] = Text["report"]
  BY <1>1, GraphLeads
<1> DEFINE d == Holding(run, ctl, b)
           e == Holding(Ensured(run, ts), Kept(s), b)
<1>6. d.run = run /\ d.ctl = ctl /\ d.has = b /\ Stage(d) = ctl.stage /\ e.ctl = Kept(s)
  BY Held3
<1>7. e = Holding(Ensured(run, ts), Kept(s), d.has)
  BY <1>6
<1>8. Reach(Extended(9), Disk, d)
  BY <1>5
<1> HIDE DEF d, e
<1>9. Leads(conf, head, fx, Extended(9), Disk, d)
  <2>1. past.fixes \subseteq fx /\ head \in Nat
    BY DEF FactoryInv
  <2> HIDE DEF fx
  <2> QED BY <1>8, <2>1, LeadsLater DEF Reach
<1>10. Sent(conf, fx, d, ts)
  <2>1. d.has.report.commit \in fx
    <3>1. Held("report") = Text["report"]
      BY HeldIs, NamesAre
    <3> QED BY <3>1, <1>1, <1>5, <1>6
  <2>2. Stage(d) \in Reporting
    BY <1>1, <1>6 DEF Reporting
  <2> HIDE DEF fx
  <2> QED BY <1>2, <2>1, <2>2 DEF Sent
<1> HIDE DEF fx
<1>11. ASSUME Fine(conf, head, fx, Holding(Ensured(run, ts), d.ctl, d.has))
       PROVE  Fine(conf, head, fx, e)
  <2> DEFINE r == Ensured(run, ts)
             f == Holding(r, d.ctl, d.has)
  <2>1. f.run = r /\ f.ctl = ctl /\ f.has = d.has /\ Stage(f) = ctl.stage
    BY <1>6, Held3
  <2>2. Fine(conf, head, fx, f)
    BY <1>11
  <2>3. e = Holding(f.run, Kept(s), f.has)
    BY <1>7, <2>1
  <2> HIDE DEF f, r
  <2>4. Onward(head, f, Kept(s), "remediation")
    BY <1>4, <2>1 DEF Onward
  <2> QED BY <1>1, <2>1, <2>2, <2>3, <2>4, RestsAt, ToDecided
<1>12. Leads(conf, head, fx, ws, Disk, e)
  BY <1>1, <1>6, <1>7, <1>9, <1>10, <1>11, RestsAt, EnsuresLeads
<1> HIDE DEF ws
<1>13. Agrees(s, e)
  BY <1>3, <1>4, <1>6 DEF Agrees
<1>14. past' \in [fixes : SUBSET Nat, faults : Nat] /\ past'.fixes = fx
  BY <1>1 DEF FactoryInv, fx
<1>15. Disk' = Disk /\ Shaped'
  BY <1>1 DEF Disk, Text, Shaped, FactoryInv
<1>16. Leads(conf', head', past'.fixes, todo', Disk', e) /\ Agrees(mem', e)
  BY <1>1, <1>12, <1>13, <1>14, <1>15
<1>17. head' \in Nat /\ mem' \in Mems /\ mem'.pc # "stage"
  BY <1>1, <1>3 DEF FactoryInv
<1> QED BY <1>14, <1>15, <1>16, <1>17, Leaves

\* The process that starts, written out.
LEMMA StartsAs ==
    ASSUME NEW n, NEW ts
    PROVE  [Off EXCEPT !.stage = "implementation", !.pc = "turn", !.tasks = ts, !.source = n]
             = [stage |-> "implementation", status |-> "ready", error |-> "none", tasks |-> ts,
                source |-> n, pc |-> "turn", turns |-> 0]
<1> DEFINE p == [stage |-> "implementation", status |-> "ready", error |-> "none", tasks |-> ts,
                 source |-> n, pc |-> "turn", turns |-> 0]
           q == [Off EXCEPT !.stage = "implementation", !.pc = "turn", !.tasks = ts, !.source = n]
<1>1. ASSUME NEW s, s = q PROVE s = p
  BY <1>1 DEF Off
<1> HIDE DEF p, q
<1>2. q = p
  BY <1>1
<1> QED BY <1>2 DEF p, q

\* The process that starts.
LEMMA StartedIs ==
    ASSUME NEW n \in Nat, NEW ts \in SUBSET Tasks, NEW s,
           s = [stage |-> "implementation", status |-> "ready", error |-> "none", tasks |-> ts,
                source |-> n, pc |-> "turn", turns |-> 0]
    PROVE  /\ s \in Mems /\ s.stage = "implementation" /\ s.tasks = ts /\ s.source = n
           /\ s.pc = "turn"
<1> DEFINE p == [stage |-> "implementation", status |-> "ready", error |-> "none", tasks |-> ts,
                 source |-> n, pc |-> "turn", turns |-> 0]
<1>1. s = p
  OBVIOUS
<1>2. n \in Nat
  OBVIOUS
<1>3. p \in Mems
  <2>1. "implementation" \in StageNames /\ "ready" \in Statuses /\ "none" \in Errors
    BY DEF StageNames, Statuses, Errors
  <2> QED BY <1>2, <2>1 DEF Mems
<1>4. /\ p.stage = "implementation" /\ p.tasks = ts /\ p.source = n /\ p.pc = "turn"
  OBVIOUS
<1> HIDE DEF p
<1> QED BY <1>1, <1>3, <1>4

\* The factory starts.
LEMMA StartInv ==
    ASSUME FactoryInv, Start PROVE FactoryInv'
<1> DEFINE n == IF conf.review THEN head ELSE 0
           s == [Off EXCEPT !.stage = "implementation", !.pc = "turn", !.tasks = Implementation,
                            !.source = n]
           r == Ensured(run, Implementation)
           ws == Save("graph", 1) \o Save("graph", 2)
           b1 == Put(Text, "graph", 1)
           b2 == Put(b1, "graph", 2)
           d == Holding(run, ctl, b2)
           f == Holding(run, Kept(s), b2)
           e == Holding(r, Kept(s), b2)
<1>1. /\ todo = <<>> /\ ctl = NoCtl /\ \A t \in Tasks : run[t].st = "none"
      /\ mem' = s /\ todo' = ws \o Checkpoint(s) \o SaveRun(r)
      /\ UNCHANGED <<conf, head, dirty, run, ctl, art, past>>
  BY DEF Start, At, Writing
<1>2. OK(Disk) /\ head \in Nat /\ Written(head, Text) /\ ctl.stage = "none"
  BY <1>1, RestsAt DEF NoCtl
<1>3. /\ s \in Mems /\ s.stage = "implementation" /\ s.tasks = Implementation /\ s.source = n
      /\ s.pc = "turn" /\ n \in 0 .. head
  <2>1. n \in 0 .. head
    BY <1>2
  <2>2. Implementation \in SUBSET Tasks
    BY TaskPairs DEF Implementation, Singles
  <2>3. s = [stage |-> "implementation", status |-> "ready", error |-> "none",
             tasks |-> Implementation, source |-> n, pc |-> "turn", turns |-> 0]
    <3> HIDE DEF n
    <3> QED BY StartsAs
  <2>5. n \in Nat
    BY <2>1, <1>2
  <2> HIDE DEF n, s
  <2>4. /\ s \in Mems /\ s.stage = "implementation" /\ s.tasks = Implementation /\ s.source = n
        /\ s.pc = "turn"
    BY <2>2, <2>3, <2>5, StartedIs
  <2> QED BY <2>1, <2>4
<1> HIDE DEF n, s
<1>4. /\ Kept(s) \in Ctls(head) /\ Kept(s).stage = "implementation" /\ Kept(s).tasks = Implementation
      /\ Kept(s).source = n
  BY <1>3, KeptIs
<1>5. "graph" \in Names
  BY NamesAre
<1>7. b1 = Put(Text, "graph", 1) /\ b2 = Put(b1, "graph", 2)
  OBVIOUS
<1> HIDE DEF b1, b2
<1>6. /\ b1 = [m \in Names |-> b1[m]] /\ \A m \in Names \ {"graph"} : b1[m] = Text[m]
      /\ b2 = [m \in Names |-> b2[m]] /\ \A m \in Names \ {"graph"} : b2[m] = Text[m]
  <2>1. b1 = [m \in Names |-> b1[m]] /\ \A m \in Names \ {"graph"} : b1[m] = Text[m]
    BY <1>5, <1>7, PutIs
  <2>2. b2 = [m \in Names |-> b2[m]] /\ \A m \in Names \ {"graph"} : b2[m] = b1[m]
    BY <1>5, <1>7, PutIs
  <2> QED BY <2>1, <2>2
<1>8. Written(head, b1) /\ Written(head, b2)
  BY <1>2, <1>6, NamesAre DEF Written
<1>9. May(ctl.stage, Text, b1) /\ May(ctl.stage, Text, b2)
  BY <1>6 DEF May, Changes
<1>10. Reach(Save("graph", 1), Disk, Holding(run, ctl, b1))
  BY <1>2, <1>5, <1>7, <1>8, <1>9, SaveFirst
<1>11. Reach(ws, Disk, d)
  BY <1>2, <1>5, <1>7, <1>8, <1>9, <1>10, SaveNext
<1>12. OK(d)
  BY <1>11, Ends DEF Reach, OK
<1>13. d.run = run /\ d.ctl = ctl /\ d.has = b2 /\ Stage(d) = "none" /\ \A t \in Tasks : ~There(d, t)
  BY <1>1, <1>2, Held3 DEF There
<1>14. f = Holding(d.run, Kept(s), d.has)
  BY <1>13
<1>15. f.run = run /\ f.ctl = Kept(s) /\ f.has = b2 /\ e.ctl = Kept(s)
  BY Held3
<1>16. e = Holding(r, f.ctl, f.has)
  BY <1>15
<1> HIDE DEF ws, d, e
<1>17. OK(f)
  <2> HIDE DEF f
  <2> QED BY <1>2, <1>4, <1>12, <1>13, <1>14, ToImplementation DEF OK
<1>18. OK(e)
  <2>1. Sent(conf, past.fixes, f, Implementation)
    BY ImplementationIs
  <2> HIDE DEF f
  <2> QED BY <1>2, <1>15, <1>16, <1>17, <2>1, EnsuredFine DEF OK
<1> HIDE DEF f, r
<1>19. Reach(Checkpoint(s), d, f)
  BY <1>12, <1>14, <1>17, CheckpointLeads DEF Reach, OK
<1>20. Reach(SaveRun(r), f, e)
  BY <1>15, <1>16, <1>17, <1>18, RunLeads DEF Reach, OK
<1>21. Reach(ws \o Checkpoint(s), Disk, f)
  BY <1>11, <1>19, Then DEF Reach
<1>22. Reach(ws \o Checkpoint(s) \o SaveRun(r), Disk, e)
  BY <1>20, <1>21, Then DEF Reach
<1>23. Agrees(s, e)
  BY <1>3, <1>4, <1>15 DEF Agrees
<1>24. Decided(ws \o Checkpoint(s) \o SaveRun(r))
  BY <1>1 DEF Decided
<1> QED BY <1>1, <1>3, <1>22, <1>23, <1>24, Decides

\* One file reaches the disk.
LEMMA WriteInv ==
    ASSUME FactoryInv, Write PROVE FactoryInv'
<1> DEFINE w == Head(todo)
           W1 == w.k = "run" /\ run' = w.v /\ UNCHANGED <<ctl, art>>
           W2 == w.k = "ctl" /\ ctl' = w.v /\ UNCHANGED <<run, art>>
           W3 == w.k = "body" /\ art' = [art EXCEPT ![w.n].body = w.v] /\ UNCHANGED <<run, ctl>>
           W4 == /\ w.k = "ref" /\ art' = [art EXCEPT ![w.n].ref = w.v, ![w.n].saved = TRUE]
                 /\ UNCHANGED <<run, ctl>>
<1>1. /\ todo # <<>> /\ todo' = Tail(todo) /\ UNCHANGED <<conf, head, dirty, mem, past>>
      /\ W1 \/ W2 \/ W3 \/ W4
  BY DEF Write, Writing
<1>2. PICK e : Reach(todo, Disk, e) /\ Agrees(mem, e)
  BY DEF FactoryInv
<1>3. PICK f : Puts(w, Disk, f) /\ Leads(conf, head, past.fixes, Tail(todo), f, e)
  BY <1>1, <1>2, Goes DEF Reach
<1>4. Shaped
  BY DEF FactoryInv
<1> HIDE DEF w
<1>5. Disk.run = run /\ Disk.ctl = ctl /\ Disk.has = Text
  BY Held3 DEF Disk
<1>6. ASSUME W1 PROVE Disk' = f /\ Shaped'
  <2>1. f = Holding(run', ctl, Text)
    BY <1>3, <1>5, <1>6 DEF Puts
  <2>2. Disk' = f /\ Shaped'
    BY <2>1, <1>4, <1>6 DEF Disk, Text, Shaped
  <2> QED BY <2>2
<1>7. ASSUME W2 PROVE Disk' = f /\ Shaped'
  <2>1. f = Holding(run, ctl', Text)
    BY <1>3, <1>5, <1>7 DEF Puts
  <2>2. Disk' = f /\ Shaped'
    BY <2>1, <1>4, <1>7 DEF Disk, Text, Shaped
  <2> QED BY <2>2
<1>8. ASSUME W3 PROVE Disk' = f /\ Shaped'
  <2>1. w.n \in Names /\ f = Holding(run, ctl, Put(Text, w.n, w.v))
    BY <1>3, <1>5, <1>8 DEF Puts
  <2> DEFINE n == w.n
             a == [art[n] EXCEPT !.body = w.v]
  <2>2. art' = [m \in Names |-> IF m = n THEN a ELSE art[m]]
    BY <1>4, <1>8, <2>1 DEF Shaped
  <2>3. a = [body |-> w.v, ref |-> art[n].ref, saved |-> art[n].saved]
    BY <1>4, <2>1 DEF Shaped
  <2>4. n \in Names
    BY <2>1
  <2> HIDE DEF n, a
  <2>5. Text' = [m \in Names |-> IF m = n THEN w.v ELSE Text[m]]
    BY <2>2, <2>3, <2>4 DEF Text
  <2>6. Text' = Put(Text, n, w.v)
    BY <2>5 DEF Put
  <2>7. Shaped'
    BY <1>4, <2>2, <2>3 DEF Shaped
  <2>8. Disk' = f
    BY <1>8, <2>1, <2>6 DEF Disk, n
  <2> QED BY <2>7, <2>8
<1>9. ASSUME W4 PROVE Disk' = f /\ Shaped'
  <2>1. w.n \in Names /\ f = Disk
    BY <1>3, <1>9 DEF Puts
  <2> DEFINE n == w.n
             a1 == [art[n] EXCEPT !.ref = w.v]
             a == [a1 EXCEPT !.saved = TRUE]
             art1 == [art EXCEPT ![n].ref = w.v]
             art2 == [art1 EXCEPT ![n].saved = TRUE]
  <2>0. art' = art2
    BY <1>9
  <2>2. art1 = [m \in Names |-> IF m = n THEN a1 ELSE art[m]]
    BY <1>4, <2>1 DEF Shaped
  <2>3. art1[n] = a1
    BY <2>2, <2>1
  <2>4. art2 = [m \in Names |-> IF m = n THEN [art1[n] EXCEPT !.saved = TRUE] ELSE art1[m]]
    BY <2>2
  <2>5. [art1[n] EXCEPT !.saved = TRUE] = a
    BY <2>3
  <2>6. art[n] = [body |-> art[n].body, ref |-> art[n].ref, saved |-> art[n].saved]
    BY <1>4, <2>1 DEF Shaped
  <2>7. n \in Names
    BY <2>1
  <2>8. \E x : a = [body |-> art[n].body, ref |-> w.v, saved |-> x]
    <3> DEFINE u == TRUE
               q == [body |-> art[n].body, ref |-> art[n].ref, saved |-> art[n].saved]
               q1 == [body |-> art[n].body, ref |-> w.v, saved |-> art[n].saved]
               q2 == [body |-> art[n].body, ref |-> w.v, saved |-> u]
    <3>0. a = [a1 EXCEPT !.saved = u]
      OBVIOUS
    <3> HIDE DEF u, n
    <3>1. art[n] = q
      BY <2>6
    <3>2. [q EXCEPT !.ref = w.v] = q1
      OBVIOUS
    <3>3. [q1 EXCEPT !.saved = u] = q2
      OBVIOUS
    <3>4. a = q2
      <4> HIDE DEF q, q1, q2, a
      <4> QED BY <3>0, <3>1, <3>2, <3>3
    <3> HIDE DEF a
    <3> QED BY <3>4
  <2> HIDE DEF n, a1, art1, art2
  <2> HIDE DEF a
  <2>9. art' = [m \in Names |-> IF m = n THEN a ELSE art[m]]
    BY <2>0, <2>2, <2>4, <2>5
  <2>10. Text' = Text
    BY <2>7, <2>8, <2>9 DEF Text
  <2>11. Shaped'
    BY <1>4, <2>8, <2>9 DEF Shaped
  <2>12. Disk' = f
    BY <1>9, <2>1, <2>10 DEF Disk
  <2> QED BY <2>11, <2>12
<1>10. Disk' = f /\ Shaped'
  BY <1>1, <1>6, <1>7, <1>8, <1>9
<1>11. mem' \in Mems /\ mem'.pc # "stage" /\ head' \in Nat /\ past' \in [fixes : SUBSET Nat, faults : Nat]
  BY <1>1 DEF FactoryInv
<1>12. Leads(conf', head', past'.fixes, todo', Disk', e) /\ Agrees(mem', e)
  BY <1>1, <1>2, <1>3, <1>10
<1> QED BY <1>10, <1>11, <1>12, Leaves

\* The process dies.
LEMMA CrashInv ==
    ASSUME FactoryInv, Crash PROVE FactoryInv'
<1>1. PICK e : Reach(todo, Disk, e)
  BY DEF FactoryInv
<1>2. OK(Disk)
  BY <1>1, Ends DEF Reach, OK
<1>3. /\ Disk' = Disk /\ Shaped' /\ todo' = <<>> /\ mem' = Off /\ head' = head /\ conf' = conf
      /\ head' \in Nat
  BY DEF Crash, Disk, Text, Shaped, FactoryInv
<1>4. past' \in [fixes : SUBSET Nat, faults : Nat] /\ past'.fixes = past.fixes
  BY DEF Crash, FactoryInv
<1>5. Fine(conf', head', past'.fixes, Disk')
  BY <1>2, <1>3, <1>4 DEF OK
<1>6. Agrees(mem', Disk') /\ mem' \in Mems /\ mem'.pc # "stage"
  BY <1>3, OffIs DEF Agrees
<1> QED BY <1>3, <1>4, <1>5, <1>6, Resting

\* Somebody commits.
LEMMA CommitInv ==
    ASSUME FactoryInv, Commit PROVE FactoryInv'
<1>1. /\ todo = <<>> /\ mem.pc \in {"off", "run"} /\ head' = head + 1
      /\ UNCHANGED <<conf, run, ctl, art, mem, todo, past>>
  BY DEF Commit, At, Writing
<1>2. OK(Disk) /\ Agrees(mem, Disk) /\ head \in Nat
  BY <1>1, Rests DEF FactoryInv
<1>3. Fine(conf, head', past.fixes, Disk) /\ head' \in Nat
  BY <1>1, <1>2, FineLater DEF OK
<1>4. Disk' = Disk /\ Shaped'
  BY <1>1 DEF Disk, Text, Shaped, FactoryInv
<1>5. past' \in [fixes : SUBSET Nat, faults : Nat] /\ mem' \in Mems /\ mem'.pc # "stage" /\ todo' = <<>>
  BY <1>1 DEF FactoryInv
<1>6. Fine(conf', head', past'.fixes, Disk') /\ Agrees(mem', Disk')
  BY <1>1, <1>2, <1>3, <1>4
<1> QED BY <1>3, <1>4, <1>5, <1>6, Resting

-----------------------------------------------------------------------------
(* The theorems.                                                           *)

\* At the beginning nothing is written and nothing is there.
LEMMA FactoryBegins == Init => FactoryInv
<1> SUFFICES ASSUME Init PROVE FactoryInv
  OBVIOUS
<1>1. /\ head = 1 /\ run = [t \in Tasks |-> NoTask] /\ ctl = NoCtl /\ mem = Off /\ todo = <<>>
      /\ past = [fixes |-> {}, faults |-> 0]
      /\ art = [n \in Names |-> [body |-> Blank[n], ref |-> Blank[n], saved |-> FALSE]]
  BY DEF Init, Names
<1>2. Shaped
  <2> DEFINE u == FALSE
             b == [n \in Names |-> Blank[n]]
             a == [n \in Names |-> [body |-> b[n], ref |-> b[n], saved |-> u]]
  <2>1. art = a
    BY <1>1
  <2> HIDE DEF u, b
  <2> QED BY <2>1 DEF Shaped
<1>3. Text = [n \in Names |-> Blank[n]]
  BY <1>1 DEF Text
<1>4. /\ Text["hyps"] = Blank.hyps /\ Text["plan"] = Blank.plan /\ Text["source"] = Blank.source
      /\ Text["base"] = Blank.base
  BY <1>3, NamesAre
<1>5. Written(head, Text)
  <2>1. /\ Blank.hyps = [found |-> {}, missing |-> {}, at |-> 0, judged |-> FALSE]
        /\ Blank.plan = {} /\ Blank.source = 0 /\ Blank.base.commit = 0
    BY DEF Blank
  <2>2. Blank.hyps \in [found : SUBSET Hyps, missing : SUBSET Hyps, at : 0 .. head, judged : BOOLEAN]
    BY <2>1, <1>1
  <2>3. 0 \in 0 .. head
    BY <1>1
  <2>4. Text["plan"] \subseteq Hyps /\ Text["source"] \in 0 .. head
    BY <2>1, <2>3, <1>4
  <2>5. Text["base"].commit \in 0 .. head
    BY <2>1, <2>3, <1>4
  <2>6. Text["hyps"] \in [found : SUBSET Hyps, missing : SUBSET Hyps, at : 0 .. head, judged : BOOLEAN]
    BY <2>2, <1>4
  <2> QED BY <2>4, <2>5, <2>6 DEF Written
<1>6. Disk = Holding(run, ctl, Text) /\ Disk.run = run /\ Disk.ctl = ctl /\ Disk.has = Text /\ Stage(Disk) = "none"
  BY <1>1, Held3 DEF Disk, NoCtl
<1>7. \A t \in Tasks : run[t] = NoTask /\ ~There(Disk, t) /\ ~Ended(Disk, t)
  BY <1>1, <1>6 DEF There, Ended, NoTask
<1>8. DiskTypes(head, Disk)
  <2>1. run \in Runs(head)
    BY <1>1 DEF Runs, NoTask, States, Outs
  <2>2. ctl \in Ctls(head)
    BY <1>1 DEF Ctls, NoCtl, Statuses, Errors
  <2>3. Task("review") \in Tasks
    BY TaskPairs DEF Singles
  <2>4. Text = [n \in Names |-> Text[n]]
    BY <1>3
  <2>5. Disk = Holding(Disk.run, Disk.ctl, Disk.has)
    BY <1>6
  <2>6. ~Ended(Disk, Task("review"))
    BY <2>3, <1>7
  <2> QED BY <2>1, <2>2, <2>4, <2>5, <2>6, <1>5, <1>6 DEF DiskTypes
<1>9. /\ "none" \notin Verifying /\ "none" \notin Explaining /\ "none" \notin Reporting
      /\ "none" \notin Rechecking /\ "none" \notin Regressing /\ "none" \notin Certified
  BY DEF Verifying, Explaining, Reporting, Repairing, Rechecking, Regressing, Certified
<1>10. Enrolled(Disk) /\ Packets(Disk) /\ Reviewed(conf, Disk) /\ Rechecks(Disk) /\ Certificates(Disk)
  BY <1>6, <1>9 DEF Enrolled, Packets, Reviewed, Rechecks, Certificates
<1>11. Authorized(conf, past.fixes, Disk) /\ RanLater(conf, Disk) /\ Regressed(Disk)
  BY <1>7, TaskPairs DEF Authorized, RanLater, Regressed, Singles
<1>12. Fine(conf, head, past.fixes, Disk)
  BY <1>8, <1>10, <1>11 DEF Fine
<1>13. Reach(todo, Disk, Disk)
  BY <1>1, <1>12, Stays DEF Reach
<1>14. Agrees(mem, Disk) /\ mem \in Mems /\ mem.pc # "stage"
  BY <1>1, OffIs DEF Agrees
<1> QED BY <1>1, <1>2, <1>13, <1>14 DEF FactoryInv

\* A step that changes nothing.
LEMMA StuttersInv ==
    ASSUME FactoryInv, UNCHANGED vars PROVE FactoryInv'
<1>1. /\ UNCHANGED <<conf, head, dirty, run, ctl, art, past>> /\ mem' = mem /\ todo' = todo
  BY DEF vars
<1>2. PICK e : Reach(todo, Disk, e) /\ Agrees(mem, e)
  BY DEF FactoryInv
<1>3. CASE mem.pc # "stage"
  <2>1. Decided(todo) /\ mem' \in Mems
    BY <1>1 DEF Decided, FactoryInv
  <2> QED BY <2>1, <1>1, <1>2, <1>3, Decides
<1>4. CASE mem.pc = "stage"
  <2>1. todo = <<>> /\ \A t \in Scope(mem) : Done(t)
    BY <1>4 DEF FactoryInv
  <2>2. OK(Disk) /\ Agrees(mem, Disk)
    BY <2>1, Rests
  <2>3. Disk' = Disk /\ Shaped' /\ (\A t \in Scope(mem) : Done(t))'
    BY <1>1, <2>1 DEF Disk, Text, Shaped, Scope, Done, FactoryInv
  <2>4. head' \in Nat /\ mem' \in Mems /\ past' \in [fixes : SUBSET Nat, faults : Nat]
    BY <1>1 DEF FactoryInv
  <2>5. Fine(conf', head', past'.fixes, Disk') /\ Agrees(mem', Disk')
    BY <1>1, <2>2, <2>3 DEF OK
  <2> QED BY <1>1, <2>1, <2>3, <2>4, <2>5, Resting
<1> QED BY <1>3, <1>4

\* Every step keeps the invariant.
LEMMA FactoryStep == FactoryInv /\ [Next]_vars => FactoryInv'
<1> SUFFICES ASSUME FactoryInv, [Next]_vars PROVE FactoryInv'
  OBVIOUS
<1>1. CASE Turn \/ LoopEnds \/ RunEnds
  BY <1>1, TurnInv, LoopEndsInv, RunEndsInv
<1>2. CASE Tasked
  BY <1>2, TaskCompletesInv, TaskFailsInv DEF Tasked
<1>3. CASE Handlers
  BY <1>3, PrepareQualityInv, ProcessQualityInv, ProcessVerificationInv, ProcessRootCauseInv,
     ReportIdlesInv, PrepareRecheckInv, ProcessRecheckInv, ProcessRecertificationInv,
     ProcessConvergenceInv DEF Handlers
<1>4. CASE Write \/ Start \/ Resume \/ Crash \/ Commit \/ Fix \/ Close
  BY <1>4, WriteInv, StartInv, ResumeInv, CrashInv, CommitInv, FixInv, CloseInv
<1>5. CASE \E t \in Tasks : Retry(t)
  BY <1>5, RetryInv
<1>6. CASE UNCHANGED vars
  BY <1>6, StuttersInv
<1> QED BY <1>1, <1>2, <1>3, <1>4, <1>5, <1>6 DEF Next, Controller

\* Every file the process still has to write leads, through disks that are all
\* in order, to one that agrees with the process: wherever it dies, whoever
\* commits, retries or fixes meanwhile.
THEOREM DiskInOrder == Spec => []FactoryInv
<1>1. Init => FactoryInv
  BY FactoryBegins
<1>2. FactoryInv /\ [Next]_vars => FactoryInv'
  BY FactoryStep
<1> QED BY <1>1, <1>2, PTL DEF Spec

\* The ranks of the stages.
LEMMA RanksAre ==
    ASSUME NEW i \in 1 .. 11 PROVE Rank(Stages[i]) = i
<1>1. DOMAIN Stages = 1 .. 11
  BY DEF Stages
<1>2. \A j \in 1 .. 11 : Stages[j] = Stages[i] => j = i
  BY DEF Stages
<1>3. Stages[i] # "none"
  BY DEF Stages
<1>4. Rank(Stages[i]) = CHOOSE j \in 1 .. 11 : Stages[j] = Stages[i]
  BY <1>1, <1>3 DEF Rank
<1> QED BY <1>2, <1>4

\* What comes after a stage.
LEMMA PastIs ==
    ASSUME NEW s, s.stage \in StageNames \cup {"none"}
    PROVE  /\ Past(s, "quality") => s.stage \in Verifying
           /\ Past(s, "root_cause") => s.stage \in Reporting
           /\ Past(s, "remediation") => s.stage \in Rechecking
<1>1. /\ Stages[1] = "implementation" /\ Stages[2] = "quality" /\ Stages[3] = "verification"
      /\ Stages[4] = "root_cause" /\ Stages[5] = "report" /\ Stages[6] = "reported"
      /\ Stages[7] = "remediation" /\ Stages[8] = "remediation_verification"
      /\ Stages[9] = "recertification" /\ Stages[10] = "convergence" /\ Stages[11] = "complete"
  BY DEF Stages
<1>2. \A i \in 1 .. 11 : Rank(Stages[i]) = i
  BY RanksAre
<1>3. /\ Rank("implementation") = 1 /\ Rank("quality") = 2 /\ Rank("verification") = 3
      /\ Rank("root_cause") = 4 /\ Rank("report") = 5 /\ Rank("reported") = 6
      /\ Rank("remediation") = 7 /\ Rank("none") = 0
  <2>1. Rank("none") = 0
    BY DEF Rank
  <2> QED BY <1>1, <1>2, <2>1
<1>4. s.stage \in Verifying \/ s.stage \in {"none", "implementation", "quality"}
  BY DEF StageNames, Judging
<1>5. s.stage \in Reporting \/ s.stage \in {"none", "implementation", "quality", "verification", "root_cause"}
  BY <1>4 DEF Verifying, Explaining
<1>6. \/ s.stage \in Rechecking
      \/ s.stage \in {"none", "implementation", "quality", "verification", "root_cause", "report",
                      "reported", "remediation"}
  BY <1>5 DEF Reporting, Repairing
<1> QED BY <1>3, <1>4, <1>5, <1>6 DEF Past

\* What the properties read is the disk, and it is in order.
LEMMA ReadsDisk ==
    ASSUME FactoryInv
    PROVE  /\ Fine(conf, head, past.fixes, Disk)
           /\ Disk.run = run /\ Disk.ctl = ctl /\ Stage(Disk) = ctl.stage
           /\ \A n \in Names : Disk.has[n] = Held(n)
           /\ Defects(Disk) = Verified /\ Open(Disk) = Disputed
           /\ ctl.stage \in StageNames \cup {"none"}
<1>1. PICK e : Reach(todo, Disk, e)
  BY DEF FactoryInv
<1>2. Fine(conf, head, past.fixes, Disk)
  BY <1>1, Ends DEF Reach
<1>3. Disk.run = run /\ Disk.ctl = ctl /\ Stage(Disk) = ctl.stage /\ Disk.has = Text
  BY Held3 DEF Disk
<1>4. Defects(Disk) = Verified /\ Open(Disk) = Disputed
  BY DefectsAre DEF Disk
<1>5. ctl.stage \in StageNames \cup {"none"}
  BY <1>2, <1>3 DEF Fine, DiskTypes, Ctls
<1> QED BY <1>2, <1>3, <1>4, <1>5, HeldIs

\* A review repairs nothing by itself: fixFactoryReview was called on the very
\* commit of the report, however often the controller died in between.
THEOREM ReviewsRepairOnRequest == Spec => []RepairsAuthorized
<1>1. FactoryInv => RepairsAuthorized
  <2> SUFFICES ASSUME FactoryInv, conf.review, NEW h \in Hyps, run[<<"repair", h>>].st # "none"
               PROVE  Held("report").commit \in past.fixes
    BY DEF RepairsAuthorized
  <2>1. There(Disk, <<"repair", h>>)
    BY ReadsDisk DEF There
  <2>2. Disk.has["report"] = Held("report")
    BY ReadsDisk, NamesAre
  <2> QED BY <2>1, <2>2, ReadsDisk DEF Fine, Authorized
<1> QED BY <1>1, DiskInOrder, PTL

\* A verifier and a recheck are judged by the packet and the sources their
\* prompts named, although processQualityStage and
\* prepareRemediationVerificationStage may be cut short and done again.
THEOREM JudgedByTheirPackets == Spec => []JudgedByItsPacket
<1>1. FactoryInv => JudgedByItsPacket
  <2> SUFFICES ASSUME FactoryInv PROVE JudgedByItsPacket
    OBVIOUS
  <2>1. Disk.has["hyps"] = Held("hyps") /\ Disk.has["source"] = Held("source")
    BY ReadsDisk, NamesAre
  <2>2. Packets(Disk) /\ Disk.run = run /\ Stage(Disk) = ctl.stage /\ Defects(Disk) = Verified
    BY ReadsDisk DEF Fine
  <2>3. /\ Past(ctl, "quality") => ctl.stage \in Verifying
        /\ Past(ctl, "remediation") => ctl.stage \in Rechecking
    BY ReadsDisk, PastIs
  <2> QED BY <2>1, <2>2, <2>3 DEF JudgedByItsPacket, Packets
<1> QED BY <1>1, DiskInOrder, PTL

\* What a review reports was found on the commit it names, although somebody
\* may commit at any time between its calls and while its tasks run.
THEOREM ReviewsReportTheirCommit == Spec => []ReviewedAsStarted
<1>1. FactoryInv => ReviewedAsStarted
  <2> SUFFICES ASSUME FactoryInv, conf.review, Past(ctl, "root_cause")
               PROVE  /\ Held("base").at = {Held("base").commit}
                      /\ Held("report").commit = Held("base").commit
                      /\ \A h \in Held("hyps").found : run[<<"verify", h>>].at = Held("base").commit
    BY DEF ReviewedAsStarted
  <2>1. /\ Disk.has["hyps"] = Held("hyps") /\ Disk.has["report"] = Held("report")
        /\ Disk.has["base"] = Held("base")
    BY ReadsDisk, NamesAre
  <2>2. Reviewed(conf, Disk) /\ Disk.run = run /\ Stage(Disk) = ctl.stage
    BY ReadsDisk DEF Fine
  <2>3. ctl.stage \in Reporting /\ ctl.stage \in Verifying
    BY ReadsDisk, PastIs DEF Verifying, Explaining
  <2> QED BY <2>1, <2>2, <2>3 DEF Reviewed
<1> QED BY <1>1, DiskInOrder, PTL

\* A run that is complete was certified on one commit, on which every defect
\* was rechecked conclusively, and nothing was left in dispute.
THEOREM CompleteIsCertified == Spec => []CertifiedFresh
<1>1. FactoryInv => CertifiedFresh
  <2> SUFFICES ASSUME FactoryInv, ctl.stage = "complete" PROVE CertifiedFresh
    BY DEF CertifiedFresh
  <2>1. /\ Disk.has["cert"] = Held("cert") /\ Disk.has["decision"] = Held("decision")
        /\ Disk.has["rechecks"] = Held("rechecks") /\ Disk.has["base"] = Held("base")
    BY ReadsDisk, NamesAre
  <2>2. /\ Certificates(Disk) /\ Disk.run = run /\ Stage(Disk) = "complete"
        /\ Defects(Disk) = Verified /\ Open(Disk) = Disputed
    BY ReadsDisk DEF Fine
  <2> QED BY <2>1, <2>2 DEF CertifiedFresh, Certificates, Certified
<1> QED BY <1>1, DiskInOrder, PTL

=============================================================================
