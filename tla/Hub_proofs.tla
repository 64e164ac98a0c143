---------------------------- MODULE Hub_proofs -----------------------------
(***************************************************************************)
(* Five facts about the server and the command line over one directory,    *)
(* for any number of runs, edits, faults and archives:                     *)
(*   - every variable has its type;                                        *)
(*   - whatever the habits are, a lock that no living process stands       *)
(*     behind is about to be dropped or waits for a restart;               *)
(*   - where the hub archives only while no command runs, no file of an    *)
(*     archive changes or goes;                                            *)
(*   - with no bad habit at all, one run at a time is driven, and by the   *)
(*     process whose lock is held;                                         *)
(*   - then no edit that was acknowledged is lost either, unless a death   *)
(*     cuts a save or a move.                                              *)
(* The argument is about the file operations still to come: a process is a *)
(* list of them, an invariant says what each element of the list may be    *)
(* and what stands before it, and a step takes the first one away.         *)
(***************************************************************************)
EXTENDS Hub, SequenceTheorems, TLAPS

-----------------------------------------------------------------------------
(* The values of the variables.                                            *)

Edits == 1 .. MaxEdits
Tasks == 0 .. MaxEdits
Defs == {NoDef} \cup [run : Runs, tasks : SUBSET Tasks, set : SUBSET Tasks]
Sts == [there : BOOLEAN, tasks : SUBSET Tasks, marks : SUBSET Tasks]
Copies == [def : Defs, st : Sts]
Slots == [def : Defs, defBak : Defs, st : Sts, stBak : Sts]
Archives == [dir : BOOLEAN, files : Slots]
Kinds == {"add", "set", "mark"}
Acks == (Runs \cup {NoRun}) \X Kinds \X Edits
Rts == [at : {"none", "slot", "archive"}, starting : BOOLEAN, live : BOOLEAN]
Reqs == {NoReq} \cup [kind : {"retry", "task"}, run : Runs, active : BOOLEAN, at : {"slot"}]
Hubs == [up : BOOLEAN, rts : [Runs -> Rts], driver : Runs \cup {NoRun}, mem : Copies, req : Reqs]
Commands == {"none", "edit", "new-run", "archive", "run"}
Clis == [cmd : Commands, mem : Copies]
Pasts == [edits : Tasks, kept : SUBSET Acks, faults : Nat, cut : BOOLEAN]

\* The file operations: what each writes, or the run it is about.
Plain == {"asideDef", "asideSt", "unlock", "dropLock", "rmDef", "rmDir"}
Moving == {"mkdir", "mvDef", "mvDir", "mvBak", "dropLock"}
OpSet ==
    [f : Plain, v : {NoRun}] \cup [f : Moving, v : Runs]
    \cup [f : {"putDef"}, v : Defs] \cup [f : {"putSt"}, v : Sts] \cup [f : {"ack"}, v : Acks]

HubTypes ==
    /\ slot \in Slots /\ arch \in [Runs -> Archives] /\ lock \in {"none", "hub", "cli"}
    /\ hub \in Hubs /\ cli \in Clis /\ past \in Pasts
    /\ todo \in [Procs -> Seq(OpSet)]

\* The first operation of a sequence, and the others.
LEMMA TailIs ==
    ASSUME NEW S, NEW s \in Seq(S), s # <<>>
    PROVE  /\ Len(s) \in Nat /\ Len(s) >= 1 /\ Head(s) = s[1] /\ s[1] \in S
           /\ Tail(s) \in Seq(S) /\ Len(Tail(s)) = Len(s) - 1
           /\ \A i \in 1 .. Len(Tail(s)) : Tail(s)[i] = s[i + 1] /\ i + 1 \in 1 .. Len(s)
<1>1. Len(s) \in Nat /\ Len(s) # 0
  BY EmptySeq, LenProperties
<1>2. 1 \in 1 .. Len(s)
  BY <1>1
<1>3. Head(s) = s[1] /\ Tail(s) \in Seq(S) /\ Len(Tail(s)) = Len(s) - 1
      /\ \A i \in 1 .. Len(Tail(s)) : Tail(s)[i] = s[i + 1]
  BY HeadTailProperties
<1>4. s[1] \in S
  BY <1>2, ElementOfSeq
<1> QED BY <1>1, <1>3, <1>4

\* Constants.
LEMMA Constants == First \in Runs /\ NoRun \notin Runs /\ MaxEdits \in Nat /\ MaxFaults \in Nat
BY HubAssumption

\* The values with nothing in them are values.
LEMMA Nothing ==
    /\ NoDef \in Defs /\ NoSt \in Sts /\ NoCopy \in Copies /\ Empty \in Slots
    /\ NoArchive \in Archives /\ NoRt \in Rts /\ NoReq \in Reqs /\ Off \in Hubs
    /\ \A r \in Runs : Fresh(r) \in Copies /\ Fresh(r).def # NoDef /\ Fresh(r).def.run = r
                       /\ Fresh(r).def.tasks = {} /\ Fresh(r).st.there
<1>1. NoDef \in Defs /\ NoSt \in Sts /\ NoRt \in Rts /\ NoReq \in Reqs
  BY DEF Defs, Sts, NoSt, Rts, NoRt, Reqs
<1>2. NoCopy \in Copies /\ Empty \in Slots
  BY <1>1 DEF NoCopy, Copies, Empty, Slots
<1>3. NoArchive \in Archives
  BY <1>2 DEF NoArchive, Archives
<1>4. Off \in Hubs
  BY <1>1, <1>2 DEF Off, Hubs
<1>5. ASSUME NEW r \in Runs
      PROVE  /\ Fresh(r) \in Copies /\ Fresh(r).def # NoDef /\ Fresh(r).def.run = r
             /\ Fresh(r).def.tasks = {} /\ Fresh(r).st.there
  <2> DEFINE d == [run |-> r, tasks |-> {}, set |-> {}]
             s == [there |-> TRUE, tasks |-> {}, marks |-> {}]
  <2>0. [NoDef EXCEPT !.run = r] = d
    BY DEF NoDef
  <2>x. [NoSt EXCEPT !.there = TRUE] = s
    <3> DEFINE n == [NoSt EXCEPT !.there = TRUE]
    <3>1. NoSt \in [there : {FALSE}, tasks : {{}}, marks : {{}}]
      BY DEF NoSt
    <3>2. n \in [there : {TRUE}, tasks : {{}}, marks : {{}}]
      BY <3>1
    <3>3. s \in [there : {TRUE}, tasks : {{}}, marks : {{}}]
      OBVIOUS
    <3> QED BY <3>2, <3>3
  <2>1. Fresh(r) = [def |-> d, st |-> s]
    BY <2>0, <2>x DEF Fresh
  <2>2. d \in Defs /\ s \in Sts /\ d # NoDef /\ d.run = r /\ d.tasks = {} /\ s.there
    BY Constants DEF Defs, Sts, NoDef
  <2> HIDE DEF d, s
  <2> QED BY <2>1, <2>2 DEF Copies
<1> QED BY <1>1, <1>2, <1>3, <1>4, <1>5

\* What is read of a slot is a copy; one that loads has a definition.
LEMMA ContentIs ==
    ASSUME NEW f \in Slots
    PROVE  /\ Content(f) \in Copies
           /\ Content(f).def = Read(f.def, f.defBak, NoDef)
           /\ Content(f).st = Read(f.st, f.stBak, NoSt)
           /\ Loads(f) => Content(f).def # NoDef /\ Content(f).def.run \in Runs
BY DEF Content, Read, Copies, Slots, Loads, Defs, Sts

\* An edit of a copy is a copy of the same run.
LEMMA EditedIs ==
    ASSUME NEW c \in Copies, NEW kind \in Kinds, past \in Pasts, CanEdit,
           kind = "mark" \/ c.def # NoDef
    PROVE  /\ Edited(c, kind) \in Copies /\ Edited(c, kind).def.run = c.def.run
           /\ c.def # NoDef => Edited(c, kind).def # NoDef
           /\ kind = "mark" => Edited(c, kind).def = c.def
<1> DEFINE e == past.edits + 1
<1>1. e \in Tasks /\ e \in Edits
  BY Constants DEF CanEdit, Pasts, Tasks, Edits
<1> HIDE DEF e
<1>2. CASE kind = "add"
  <2> DEFINE d == [c.def EXCEPT !.tasks = @ \cup {e}]
             s == [c.st EXCEPT !.tasks = @ \cup {e}]
  <2>1. Edited(c, kind) = [[c EXCEPT !.def = d] EXCEPT !.st = s]
    BY <1>2 DEF Edited, e, Copies
  <2>2. c.def \in [run : Runs, tasks : SUBSET Tasks, set : SUBSET Tasks] /\ c.st \in Sts
    BY <1>2 DEF Copies, Defs
  <2>3. d \in [run : Runs, tasks : SUBSET Tasks, set : SUBSET Tasks] /\ d.run = c.def.run
    BY <1>1, <2>2
  <2>4. s \in Sts
    BY <1>1, <2>2 DEF Sts
  <2> HIDE DEF d, s
  <2>5. d \in Defs /\ d # NoDef
    BY <2>3, Constants DEF Defs, NoDef
  <2> QED BY <1>2, <2>1, <2>3, <2>4, <2>5 DEF Copies
<1>3. CASE kind = "set"
  <2> DEFINE d == [c.def EXCEPT !.set = @ \cup {e}]
  <2>1. Edited(c, kind) = [c EXCEPT !.def = d]
    BY <1>3 DEF Edited, e, Copies
  <2>2. c.def \in [run : Runs, tasks : SUBSET Tasks, set : SUBSET Tasks] /\ c.st \in Sts
    BY <1>3 DEF Copies, Defs
  <2>3. d \in [run : Runs, tasks : SUBSET Tasks, set : SUBSET Tasks] /\ d.run = c.def.run
    BY <1>1, <2>2
  <2> HIDE DEF d
  <2>5. d \in Defs /\ d # NoDef
    BY <2>3, Constants DEF Defs, NoDef
  <2> QED BY <1>3, <2>1, <2>3, <2>5 DEF Copies
<1>4. CASE kind = "mark"
  <2> DEFINE s == [c.st EXCEPT !.marks = @ \cup {e}]
  <2>1. Edited(c, kind) = [c EXCEPT !.st = s]
    BY <1>4 DEF Edited, e, Copies
  <2>2. c.st \in Sts
    BY DEF Copies
  <2>4. s \in Sts
    BY <1>1, <2>2 DEF Sts
  <2> HIDE DEF s
  <2> QED BY <2>1, <2>4 DEF Copies
<1> QED BY <1>2, <1>3, <1>4 DEF Kinds

\* Two pairs in a row.
LEMMA TwoPairs ==
    ASSUME NEW S, NEW a \in S, NEW b \in S, NEW c \in S, NEW d \in S
    PROVE  <<a, b>> \o <<c, d>> = <<a, b, c, d>>
<1> DEFINE s == <<a, b>>
           t == <<c, d>>
           u == <<a, b, c, d>>
<1>1. s \in Seq(S) /\ t \in Seq(S) /\ u \in Seq(S) /\ Len(s) = 2 /\ Len(t) = 2 /\ Len(u) = 4
  OBVIOUS
<1>2. /\ s \o t \in Seq(S) /\ Len(s \o t) = 4
      /\ \A i \in 1 .. 4 : (s \o t)[i] = IF i <= 2 THEN s[i] ELSE t[i - 2]
  BY <1>1, ConcatProperties
<1>3. \A i \in 1 .. 4 : (s \o t)[i] = u[i]
  BY <1>2
<1> QED BY <1>1, <1>2, <1>3, SeqEqual

\* Nothing before a sequence, and two sequences in a row.
LEMMA ConcatIs ==
    ASSUME NEW S, NEW s \in Seq(S), NEW t \in Seq(S)
    PROVE  /\ s \o t \in Seq(S) /\ Len(s) \in Nat /\ Len(t) \in Nat
           /\ Len(s \o t) = Len(s) + Len(t) /\ Len(s \o t) \in Nat
           /\ \A i \in 1 .. Len(s) : (s \o t)[i] = s[i] /\ i \in 1 .. Len(s \o t)
           /\ \A i \in 1 .. Len(t) : (s \o t)[i + Len(s)] = t[i] /\ i + Len(s) \in 1 .. Len(s \o t)
           /\ \A i \in 1 .. Len(s \o t) :
                 \/ i \in 1 .. Len(s) /\ (s \o t)[i] = s[i]
                 \/ i - Len(s) \in 1 .. Len(t) /\ (s \o t)[i] = t[i - Len(s)]
           /\ (s = <<>> => s \o t = t) /\ (t = <<>> => s \o t = s)
<1>1. /\ s \o t \in Seq(S) /\ Len(s) \in Nat /\ Len(t) \in Nat /\ Len(s \o t) = Len(s) + Len(t)
      /\ \A i \in 1 .. Len(s) + Len(t) : (s \o t)[i] = IF i <= Len(s) THEN s[i] ELSE t[i - Len(s)]
  BY ConcatProperties, LenProperties
<1>2. (s = <<>> => s \o t = t) /\ (t = <<>> => s \o t = s)
  BY ConcatEmptySeq
<1> QED BY <1>1, <1>2

\* What a save has to do: nothing, the state, or the definition and the state.
SaveState(new) == <<Op("asideSt", NoRun), Op("putSt", new.st)>>
SaveBoth(new) ==
    <<Op("asideDef", NoRun), Op("putDef", new.def), Op("asideSt", NoRun), Op("putSt", new.st)>>

\* The operations of a save.
LEMMA SaveIs ==
    ASSUME NEW old \in Copies, NEW new \in Copies
    PROVE  /\ Save(old, new) \in Seq(OpSet)
           /\ \/ Save(old, new) = <<>> /\ new = old
              \/ Save(old, new) = SaveState(new) /\ new.def = old.def
              \/ Save(old, new) = SaveBoth(new) /\ new.def # old.def
           /\ SaveState(new) \in Seq(OpSet) /\ SaveBoth(new) \in Seq(OpSet)
<1>1. /\ Op("asideSt", NoRun) \in OpSet /\ Op("asideDef", NoRun) \in OpSet
      /\ Op("putDef", new.def) \in OpSet /\ Op("putSt", new.st) \in OpSet
  BY DEF Op, OpSet, Plain, Copies
<1>2. SaveState(new) \in Seq(OpSet) /\ SaveBoth(new) \in Seq(OpSet) /\ <<>> \in Seq(OpSet)
  BY <1>1 DEF SaveState, SaveBoth
<1>3. WriteDef(new.def) \o WriteSt(new.st) = SaveBoth(new)
  BY <1>1, TwoPairs DEF WriteDef, WriteSt, SaveBoth
<1>4. WriteSt(new.st) = SaveState(new)
  BY DEF WriteSt, SaveState
<1>5. <<>> \o SaveState(new) = SaveState(new)
  BY <1>2, ConcatEmptySeq
<1>6. CASE new = old
  BY <1>2, <1>6 DEF Save
<1>7. CASE new # old /\ new.def = old.def
  <2>1. Save(old, new) = SaveState(new)
    BY <1>4, <1>5, <1>7 DEF Save
  <2> QED BY <1>2, <1>7, <2>1
<1>8. CASE new # old /\ new.def # old.def
  <2>1. Save(old, new) = SaveBoth(new)
    BY <1>3, <1>8 DEF Save
  <2> QED BY <1>2, <1>8, <2>1
<1> QED BY <1>6, <1>7, <1>8

-----------------------------------------------------------------------------
(* What the operations a process decides on look like.                     *)

Saves == {"asideDef", "putDef", "asideSt", "putSt"}

\* Every time the definition is put aside it is written afterwards, for run r.
Written(s, r) ==
    \A i \in 1 .. Len(s) :
        /\ s[i].f = "putDef" => s[i].v.run = r
        /\ s[i].f = "asideDef" => \E k \in 1 .. Len(s) : k > i /\ s[k].f = "putDef"

\* The state is written by the last operation only.
StateLast(s) == \A i \in 1 .. Len(s) : s[i].f = "putSt" => i = Len(s)

\* Where the lock file is removed, the state of the slot is gone or moved away
\* before, and only the save of a new run follows.
Gone == slot.st = NoSt /\ slot.stBak = NoSt
Drops(s) ==
    \A i \in 1 .. Len(s) : s[i].f = "dropLock" =>
        /\ Gone \/ \E j \in 1 .. Len(s) : j < i /\ s[j].f \in {"mvDir", "rmDir"}
        /\ \A j \in 1 .. Len(s) : j > i => s[j].f \in Saves /\ (s[j].f = "putSt" => j = Len(s))
        /\ \A j \in 1 .. Len(s) : j < i => s[j].f # "putSt"

\* A file is moved to an archive made for it, once.
Moves(s) ==
    \A i \in 1 .. Len(s) : s[i].f \in {"mvDef", "mvDir"} =>
        /\ s[i].v \in Runs /\ ~arch[s[i].v].dir
        /\ \E j \in 1 .. Len(s) : j < i /\ s[j].f = "mkdir" /\ s[j].v = s[i].v
        /\ \A j \in 1 .. Len(s) : s[j].f = s[i].f => j = i

\* Operations in a row.
LEMMA OpsConcat ==
    ASSUME NEW s \in Seq(OpSet), NEW t \in Seq(OpSet)
    PROVE  /\ s \o t \in Seq(OpSet) /\ Len(s \o t) = Len(s) + Len(t)
           /\ \A i \in 1 .. Len(s) : (s \o t)[i] = s[i]
           /\ \A i \in 1 .. Len(t) : (s \o t)[i + Len(s)] = t[i]
           /\ (s = <<>> => s \o t = t)
BY ConcatIs

\* No operation.
LEMMA NoOps ==
    /\ <<>> \in Seq(OpSet) /\ Len(<<>>) = 0
    /\ \A t \in Seq(OpSet) : (<<>> \o t = t /\ (Len(t) # 0 => t # <<>>) /\ Len(t) \in Nat)
<1>1. <<>> \in Seq(OpSet) /\ Len(<<>>) = 0
  OBVIOUS
<1>2. ASSUME NEW t \in Seq(OpSet) PROVE <<>> \o t = t /\ (Len(t) # 0 => t # <<>>) /\ Len(t) \in Nat
  BY <1>1, ConcatEmptySeq, LenProperties
<1> QED BY <1>1, <1>2

\* A function on the first five numbers is a sequence of length five.
LEMMA FiveOps ==
    ASSUME NEW m \in [1 .. 5 -> OpSet]
    PROVE  m \in Seq(OpSet) /\ Len(m) = 5
<1>1. m \in Seq(OpSet)
  <2>1. 5 \in Nat
    OBVIOUS
  <2> QED BY <2>1, SeqDef
<1>2. Len(m) \in Nat /\ DOMAIN m = 1 .. Len(m)
  BY <1>1, LenProperties
<1>3. DOMAIN m = 1 .. 5
  OBVIOUS
<1>4. 5 \in 1 .. Len(m) /\ ~(6 \in 1 .. Len(m))
  BY <1>2, <1>3
<1> QED BY <1>1, <1>2, <1>4

\* The operations of an acknowledged edit.
LEMMA SavingIs ==
    ASSUME NEW c \in Copies, NEW kind \in Kinds, past \in Pasts, CanEdit,
           kind = "mark" \/ c.def # NoDef
    PROVE  /\ Saving(c, kind) \in Seq(OpSet) /\ Saving(c, kind) # <<>>
           /\ \A i \in 1 .. Len(Saving(c, kind)) : Saving(c, kind)[i].f \in Saves \cup {"ack"}
           /\ Written(Saving(c, kind), c.def.run)
           /\ kind = "mark" =>
                 \A i \in 1 .. Len(Saving(c, kind)) : Saving(c, kind)[i].f \notin {"asideDef", "putDef"}
<1> DEFINE e == Edited(c, kind)
           a == <<Op("ack", <<c.def.run, kind, past.edits + 1>>)>>
           s == Save(c, e)
<1>1. /\ e \in Copies /\ e.def.run = c.def.run /\ (kind = "mark" => e.def = c.def)
  BY EditedIs
<1>2. a \in Seq(OpSet) /\ Len(a) = 1 /\ a[1].f = "ack" /\ a # <<>>
  <2>1. past.edits + 1 \in Edits
    BY Constants DEF CanEdit, Pasts, Tasks, Edits
  <2>2. c.def.run \in Runs \cup {NoRun}
    BY DEF Copies, Defs, NoDef
  <2>3. Op("ack", <<c.def.run, kind, past.edits + 1>>) \in OpSet
    BY <2>1, <2>2 DEF Op, OpSet, Acks
  <2> QED BY <2>3 DEF Op
<1>3. Saving(c, kind) = s \o a
  BY DEF Saving
<1> HIDE DEF e, a
<1>4. /\ s \in Seq(OpSet)
      /\ (s = <<>> /\ e = c) \/ (s = SaveState(e) /\ e.def = c.def) \/ (s = SaveBoth(e) /\ e.def # c.def)
      /\ SaveState(e) \in Seq(OpSet) /\ SaveBoth(e) \in Seq(OpSet)
  BY <1>1, SaveIs
<1> HIDE DEF s
<1>5. CASE s = <<>>
  <2>1. Saving(c, kind) = a
    BY <1>2, <1>3, <1>5, OpsConcat
  <2>2. \A i \in 1 .. 1 : a[i].f = "ack"
    BY <1>2
  <2> QED BY <1>2, <2>1, <2>2 DEF Written
<1>6. CASE s = SaveState(e)
  <2> DEFINE t == SaveState(e) \o a
  <2>1. /\ Len(SaveState(e)) = 2 /\ SaveState(e)[1].f = "asideSt" /\ SaveState(e)[2].f = "putSt"
    BY DEF SaveState, Op
  <2>x. /\ t \in Seq(OpSet) /\ Len(t) = Len(SaveState(e)) + Len(a)
        /\ \A i \in 1 .. Len(SaveState(e)) : t[i] = SaveState(e)[i]
        /\ \A i \in 1 .. Len(a) : t[i + Len(SaveState(e))] = a[i]
    BY <1>2, <1>4, OpsConcat
  <2> HIDE DEF t
  <2>2. /\ t \in Seq(OpSet) /\ Len(t) = 3
        /\ t[1] = SaveState(e)[1] /\ t[2] = SaveState(e)[2] /\ t[3] = a[1]
    <3>1. 1 \in 1 .. 2 /\ 2 \in 1 .. 2 /\ 1 \in 1 .. 1
      OBVIOUS
    <3>2. t[1 + 2] = a[1]
      BY <1>2, <2>1, <2>x, <3>1
    <3> QED BY <1>2, <2>1, <2>x, <3>1, <3>2
  <2>3. t[1].f = "asideSt" /\ t[2].f = "putSt" /\ t[3].f = "ack"
    BY <1>2, <2>1, <2>2
  <2>4. t # <<>>
    <3>1. t \in Seq(OpSet) /\ Len(t) # 0
      BY <2>2
    <3> QED BY <3>1, NoOps, Zenon
  <2>5. \A i \in 1 .. 3 : t[i].f \in {"asideSt", "putSt", "ack"}
    BY <2>3
  <2>6. Saving(c, kind) = t
    BY <1>3, <1>6 DEF t
  <2> QED BY <2>2, <2>4, <2>5, <2>6 DEF Written, Saves
<1>7. CASE s = SaveBoth(e) /\ e.def # c.def
  <2> DEFINE t == SaveBoth(e) \o a
  <2>1. /\ Len(SaveBoth(e)) = 4 /\ SaveBoth(e)[1].f = "asideDef" /\ SaveBoth(e)[2].f = "putDef"
        /\ SaveBoth(e)[3].f = "asideSt" /\ SaveBoth(e)[4].f = "putSt" /\ SaveBoth(e)[2].v = e.def
    BY DEF SaveBoth, Op
  <2>x. /\ t \in Seq(OpSet) /\ Len(t) = Len(SaveBoth(e)) + Len(a)
        /\ \A i \in 1 .. Len(SaveBoth(e)) : t[i] = SaveBoth(e)[i]
        /\ \A i \in 1 .. Len(a) : t[i + Len(SaveBoth(e))] = a[i]
    BY <1>2, <1>4, OpsConcat
  <2> HIDE DEF t
  <2>2. /\ t \in Seq(OpSet) /\ Len(t) = 5
        /\ t[1] = SaveBoth(e)[1] /\ t[2] = SaveBoth(e)[2] /\ t[3] = SaveBoth(e)[3]
        /\ t[4] = SaveBoth(e)[4] /\ t[5] = a[1]
    <3>1. 1 \in 1 .. 4 /\ 2 \in 1 .. 4 /\ 3 \in 1 .. 4 /\ 4 \in 1 .. 4 /\ 1 \in 1 .. 1
      OBVIOUS
    <3>2. t[1 + 4] = a[1]
      BY <1>2, <2>1, <2>x, <3>1
    <3> QED BY <1>2, <2>1, <2>x, <3>1, <3>2
  <2>3. /\ t[1].f = "asideDef" /\ t[2].f = "putDef" /\ t[3].f = "asideSt" /\ t[4].f = "putSt"
        /\ t[5].f = "ack" /\ t[2].v = e.def
    BY <1>2, <2>1, <2>2
  <2>4. t # <<>>
    <3>1. t \in Seq(OpSet) /\ Len(t) # 0
      BY <2>2
    <3> QED BY <3>1, NoOps, Zenon
  <2>5. \A i \in 1 .. 5 : /\ t[i].f \in Saves \cup {"ack"}
                          /\ t[i].f = "putDef" => i = 2
                          /\ t[i].f = "asideDef" => i = 1
    BY <2>3 DEF Saves
  <2>6. Saving(c, kind) = t
    BY <1>3, <1>7 DEF t
  <2>7. Written(t, c.def.run)
    BY <1>1, <2>2, <2>3, <2>5 DEF Written
  <2> QED BY <1>1, <1>7, <2>2, <2>4, <2>5, <2>6, <2>7
<1> QED BY <1>4, <1>5, <1>6, <1>7

\* Operations that only save cannot drop the lock or move a file.
LEMMA SavesOnly ==
    ASSUME NEW s, \A i \in 1 .. Len(s) : s[i].f \in Saves \cup {"ack", "unlock"}
    PROVE  Drops(s) /\ Moves(s)
BY DEF Drops, Moves, Saves

\* The operations of a move to the archive.
LEMMA MoveIs ==
    ASSUME NEW r \in Runs, arch \in [Runs -> Archives]
    PROVE  /\ Move(r) \in Seq(OpSet) /\ Len(Move(r)) \in {0, 5}
           /\ \A i \in 1 .. Len(Move(r)) : Move(r)[i].f \in Moving /\ Move(r)[i].v = r
           /\ Len(Move(r)) = 0 => Move(r) = <<>>
           /\ Len(Move(r)) = 5 =>
                 /\ ~arch[r].dir
                 /\ Move(r)[1].f = "mkdir" /\ Move(r)[2].f = "mvDef" /\ Move(r)[3].f = "mvDir"
                 /\ Move(r)[4].f = "mvBak" /\ Move(r)[5].f = "dropLock"
<1>1. CASE AlreadyArchived(r)
  <2>1. Move(r) = <<>>
    BY <1>1 DEF Move
  <2> QED BY <2>1
<1>2. CASE ~AlreadyArchived(r)
  <2> DEFINE m == [i \in 1..5 |-> Op(<<"mkdir", "mvDef", "mvDir", "mvBak", "dropLock">>[i], r)]
  <2>1. Move(r) = m
    BY <1>2 DEF Move
  <2>2. /\ m[1] = Op("mkdir", r) /\ m[2] = Op("mvDef", r) /\ m[3] = Op("mvDir", r)
        /\ m[4] = Op("mvBak", r) /\ m[5] = Op("dropLock", r)
    OBVIOUS
  <2>3. /\ m[1].f = "mkdir" /\ m[2].f = "mvDef" /\ m[3].f = "mvDir"
        /\ m[4].f = "mvBak" /\ m[5].f = "dropLock"
        /\ \A i \in 1 .. 5 : m[i].v = r
    BY <2>2 DEF Op
  <2>4. \A i \in 1 .. 5 : m[i].f \in Moving /\ m[i] \in OpSet
    <3> TAKE i \in 1 .. 5
    <3>1. i = 1 \/ i = 2 \/ i = 3 \/ i = 4 \/ i = 5
      OBVIOUS
    <3>2. m[i].f \in Moving
      BY <3>1, <2>3 DEF Moving
    <3>3. m[i] \in [f : Moving, v : Runs]
      BY <3>1, <2>2 DEF Op, Moving
    <3> QED BY <3>2, <3>3 DEF OpSet
  <2>5. m \in Seq(OpSet) /\ Len(m) = 5
    <3>1. m \in [1 .. 5 -> OpSet]
      BY <2>4
    <3> HIDE DEF m
    <3> QED BY <3>1, FiveOps
  <2> HIDE DEF m
  <2> QED BY <1>2, <2>1, <2>3, <2>4, <2>5 DEF AlreadyArchived
<1> QED BY <1>1, <1>2

\* What precedes the save of a new run: nothing, the move of the old one, or
\* the removal of an empty one.
LEMMA ClearIs ==
    /\ Clear \in Seq(OpSet) /\ Len(Clear) = 3
    /\ Clear[1].f = "rmDef" /\ Clear[2].f = "rmDir" /\ Clear[3].f = "dropLock"
BY DEF Clear, Op, OpSet, Plain

\* The operations of a new run.
LEMMA StartNewIs ==
    ASSUME NEW r \in Runs, slot \in Slots, arch \in [Runs -> Archives]
    PROVE  /\ StartNew(r) \in Seq(OpSet)
           /\ \A i \in 1 .. Len(StartNew(r)) : StartNew(r)[i].f \notin {"unlock", "ack", "putArch"}
           /\ Drops(StartNew(r)) /\ Moves(StartNew(r))
<1> DEFINE b == Save(NoCopy, Fresh(r))
           a == IF ~(There(slot) /\ Loads(slot)) THEN <<>>
                ELSE IF Content(slot).def.tasks # {} THEN Move(Content(slot).def.run) ELSE Clear
<1>1. StartNew(r) = a \o b
  BY DEF StartNew
<1>2. /\ b \in Seq(OpSet) /\ Len(b) = 4
      /\ b[1].f = "asideDef" /\ b[2].f = "putDef" /\ b[3].f = "asideSt" /\ b[4].f = "putSt"
  <2>1. NoCopy \in Copies /\ Fresh(r) \in Copies /\ Fresh(r).def # NoCopy.def
    BY Nothing DEF NoCopy
  <2>2. b = SaveBoth(Fresh(r)) /\ b \in Seq(OpSet)
    BY <2>1, SaveIs
  <2> QED BY <2>2 DEF SaveBoth, Op
<1> HIDE DEF b
<1>3. CASE a = <<>>
  <2>1. StartNew(r) = b
    <3> HIDE DEF a
    <3> QED BY <1>1, <1>2, <1>3, NoOps
  <2>2. \A i \in 1 .. 4 : b[i].f \in Saves
    <3> TAKE i \in 1 .. 4
    <3> QED BY <1>2 DEF Saves
  <2>3. Drops(b) /\ Moves(b)
    BY <1>2, <2>2, SavesOnly
  <2> QED BY <1>2, <2>1, <2>2, <2>3 DEF Saves
<1>4. CASE a = Clear
  <2> DEFINE t == Clear \o b
  <2>x. /\ t \in Seq(OpSet) /\ Len(t) = Len(Clear) + Len(b)
        /\ \A i \in 1 .. Len(Clear) : t[i] = Clear[i]
        /\ \A i \in 1 .. Len(b) : t[i + Len(Clear)] = b[i]
    BY <1>2, ClearIs, OpsConcat
  <2> HIDE DEF t
  <2>1. /\ t \in Seq(OpSet) /\ Len(t) = 7
        /\ t[1] = Clear[1] /\ t[2] = Clear[2] /\ t[3] = Clear[3]
        /\ \A i \in 1 .. 4 : t[i + 3] = b[i]
    BY <1>2, <2>x, ClearIs
  <2>2. /\ t[1].f = "rmDef" /\ t[2].f = "rmDir" /\ t[3].f = "dropLock" /\ t[4].f = "asideDef"
        /\ t[5].f = "putDef" /\ t[6].f = "asideSt" /\ t[7].f = "putSt"
    <3>1. t[4] = b[1] /\ t[5] = b[2] /\ t[6] = b[3] /\ t[7] = b[4]
      BY <2>1
    <3> QED BY <1>2, <2>1, <3>1, ClearIs
  <2>3. \A i \in 1 .. 7 : /\ t[i].f = "dropLock" <=> i = 3
                          /\ i > 3 => t[i].f \in Saves
                          /\ t[i].f = "putSt" <=> i = 7
                          /\ t[i].f \notin {"mvDef", "mvDir", "unlock", "ack", "putArch"}
    <3> TAKE i \in 1 .. 7
    <3>1. i = 1 \/ i = 2 \/ i = 3 \/ i = 4 \/ i = 5 \/ i = 6 \/ i = 7
      OBVIOUS
    <3> QED BY <3>1, <2>2 DEF Saves
  <2>4. Drops(t)
    <3>1. 2 \in 1 .. 7 /\ t[2].f = "rmDir"
      BY <2>2
    <3> QED BY <2>1, <2>3, <3>1 DEF Drops
  <2>5. Moves(t)
    BY <2>1, <2>3 DEF Moves
  <2>6. StartNew(r) = t
    BY <1>1, <1>4 DEF t
  <2> QED BY <2>1, <2>3, <2>4, <2>5, <2>6
<1>5. CASE There(slot) /\ Loads(slot) /\ a = Move(Content(slot).def.run)
  <2> DEFINE o == Content(slot).def.run
             m == Move(o)
             t == m \o b
  <2>1. o \in Runs
    BY <1>5, ContentIs
  <2> HIDE DEF o
  <2>2. /\ m \in Seq(OpSet) /\ Len(m) \in {0, 5}
        /\ \A i \in 1 .. Len(m) : m[i].f \in Moving /\ m[i].v = o
        /\ Len(m) = 0 => m = <<>>
        /\ Len(m) = 5 => /\ ~arch[o].dir
                         /\ m[1].f = "mkdir" /\ m[2].f = "mvDef" /\ m[3].f = "mvDir"
                         /\ m[4].f = "mvBak" /\ m[5].f = "dropLock"
    BY <2>1, MoveIs
  <2> HIDE DEF m
  <2>3. CASE m = <<>>
    BY <1>3, <1>5, <2>3 DEF m, o
  <2>4. CASE Len(m) = 5
    <3>x. /\ t \in Seq(OpSet) /\ Len(t) = Len(m) + Len(b)
          /\ \A i \in 1 .. Len(m) : t[i] = m[i]
          /\ \A i \in 1 .. Len(b) : t[i + Len(m)] = b[i]
      BY <1>2, <2>2, OpsConcat
    <3> HIDE DEF t
    <3>1. /\ t \in Seq(OpSet) /\ Len(t) = 9
          /\ \A i \in 1 .. 5 : t[i] = m[i]
          /\ \A i \in 1 .. 4 : t[i + 5] = b[i]
      BY <1>2, <2>4, <3>x
    <3>2. /\ t[1] = m[1] /\ t[2] = m[2] /\ t[3] = m[3] /\ t[4] = m[4] /\ t[5] = m[5]
          /\ t[6] = b[1] /\ t[7] = b[2] /\ t[8] = b[3] /\ t[9] = b[4]
      BY <3>1
    <3>3. /\ t[1].f = "mkdir" /\ t[2].f = "mvDef" /\ t[3].f = "mvDir" /\ t[4].f = "mvBak"
          /\ t[5].f = "dropLock" /\ t[6].f = "asideDef" /\ t[7].f = "putDef"
          /\ t[8].f = "asideSt" /\ t[9].f = "putSt"
      BY <1>2, <2>2, <2>4, <3>2
    <3>4. t[1].v = o /\ t[2].v = o /\ t[3].v = o
      BY <2>2, <2>4, <3>2
    <3>5. \A i \in 1 .. 9 : /\ t[i].f = "dropLock" <=> i = 5
                            /\ i > 5 => t[i].f \in Saves
                            /\ t[i].f = "putSt" <=> i = 9
                            /\ t[i].f = "mvDef" <=> i = 2
                            /\ t[i].f = "mvDir" <=> i = 3
                            /\ t[i].f \notin {"unlock", "ack", "putArch"}
      <4> TAKE i \in 1 .. 9
      <4>1. i = 1 \/ i = 2 \/ i = 3 \/ i = 4 \/ i = 5 \/ i = 6 \/ i = 7 \/ i = 8 \/ i = 9
        OBVIOUS
      <4> QED BY <4>1, <3>3 DEF Saves
    <3>6. Drops(t)
      BY <3>1, <3>3, <3>5 DEF Drops
    <3>7. Moves(t)
      <4> SUFFICES ASSUME NEW i \in 1 .. 9, t[i].f \in {"mvDef", "mvDir"}
                   PROVE  /\ t[i].v \in Runs /\ ~arch[t[i].v].dir
                          /\ \E j \in 1 .. 9 : j < i /\ t[j].f = "mkdir" /\ t[j].v = t[i].v
                          /\ \A j \in 1 .. 9 : t[j].f = t[i].f => j = i
        BY <3>1 DEF Moves
      <4>1. i = 2 \/ i = 3
        BY <3>5
      <4>2. t[i].v = o /\ ~arch[o].dir
        BY <4>1, <3>4, <2>2, <2>4
      <4>3. \A j \in 1 .. 9 : t[j].f = t[i].f => j = i
        BY <3>5
      <4> QED BY <2>1, <3>3, <3>4, <4>1, <4>2, <4>3
    <3>8. StartNew(r) = t
      BY <1>1, <1>5 DEF t, m, o
    <3> QED BY <3>1, <3>5, <3>6, <3>7, <3>8
  <2> QED BY <2>2, <2>3, <2>4
<1> QED BY <1>3, <1>4, <1>5

\* An archive route's operations.
LEMMA ArchivingIs ==
    ASSUME NEW r \in Runs, arch \in [Runs -> Archives]
    PROVE  /\ \A i \in 1 .. Len(Move(r)) : Move(r)[i].f \notin Saves \cup {"unlock", "ack", "putArch"}
           /\ Drops(Move(r)) /\ Moves(Move(r))
<1> DEFINE m == Move(r)
<1>1. /\ m \in Seq(OpSet) /\ Len(m) \in {0, 5}
      /\ \A i \in 1 .. Len(m) : m[i].f \in Moving /\ m[i].v = r
      /\ Len(m) = 5 => /\ ~arch[r].dir
                       /\ m[1].f = "mkdir" /\ m[2].f = "mvDef" /\ m[3].f = "mvDir"
                       /\ m[4].f = "mvBak" /\ m[5].f = "dropLock"
  BY MoveIs
<1> HIDE DEF m
<1>2. \A i \in 1 .. Len(m) : m[i].f \notin Saves \cup {"unlock", "ack", "putArch"}
  BY <1>1 DEF Moving, Saves
<1>3. \A i \in 1 .. Len(m) : /\ m[i].f = "dropLock" <=> i = 5
                             /\ m[i].f = "mvDef" <=> i = 2
                             /\ m[i].f = "mvDir" <=> i = 3
                             /\ m[i].f # "putSt"
  <2> TAKE i \in 1 .. Len(m)
  <2>1. i = 1 \/ i = 2 \/ i = 3 \/ i = 4 \/ i = 5
    BY <1>1
  <2> QED BY <1>1, <2>1
<1>4. Drops(m)
  <2> SUFFICES ASSUME NEW i \in 1 .. Len(m), m[i].f = "dropLock"
               PROVE  /\ \E j \in 1 .. Len(m) : j < i /\ m[j].f \in {"mvDir", "rmDir"}
                      /\ \A j \in 1 .. Len(m) : j > i => m[j].f \in Saves /\ (m[j].f = "putSt" => j = Len(m))
                      /\ \A j \in 1 .. Len(m) : j < i => m[j].f # "putSt"
    BY DEF Drops
  <2>1. i = 5 /\ Len(m) = 5 /\ m[3].f = "mvDir"
    BY <1>1, <1>3
  <2> QED BY <1>3, <2>1
<1>5. Moves(m)
  <2> SUFFICES ASSUME NEW i \in 1 .. Len(m), m[i].f \in {"mvDef", "mvDir"}
               PROVE  /\ m[i].v \in Runs /\ ~arch[m[i].v].dir
                      /\ \E j \in 1 .. Len(m) : j < i /\ m[j].f = "mkdir" /\ m[j].v = m[i].v
                      /\ \A j \in 1 .. Len(m) : m[j].f = m[i].f => j = i
    BY DEF Moves
  <2>1. Len(m) = 5 /\ m[1].f = "mkdir" /\ m[1].v = r /\ m[i].v = r /\ (i = 2 \/ i = 3)
    BY <1>1, <1>3
  <2>2. \A j \in 1 .. Len(m) : m[j].f = m[i].f => j = i
    BY <1>3
  <2>3. 1 \in 1 .. Len(m) /\ 1 < i
    BY <2>1
  <2> QED BY <1>1, <2>1, <2>2, <2>3
<1> QED BY <1>2, <1>4, <1>5 DEF m

-----------------------------------------------------------------------------
(* The types.                                                              *)

\* What an operation carries.
LEMMA OpIs ==
    ASSUME NEW o \in OpSet
    PROVE  /\ o.f = "putDef" => o.v \in Defs
           /\ o.f = "putSt" => o.v \in Sts
           /\ o.f \in {"mkdir", "mvDef", "mvDir", "mvBak"} => o.v \in Runs
           /\ o.f = "ack" => o.v \in Acks
           /\ o.f \in Plain \cup Moving \cup {"putDef", "putSt", "ack"}
           /\ o.f # "putArch"
BY DEF OpSet, Plain, Moving

\* The operations left after one is done.
LEMMA RestIs ==
    ASSUME HubTypes, NEW p \in Procs, Write(p)
    PROVE  /\ todo[p] \in Seq(OpSet) /\ todo[p] # <<>> /\ Head(todo[p]) = todo[p][1]
           /\ todo[p][1] \in OpSet /\ 1 \in 1 .. Len(todo[p])
           /\ todo'[p] = Tail(todo[p]) /\ Tail(todo[p]) \in Seq(OpSet)
           /\ Len(todo[p]) \in Nat /\ Len(todo'[p]) = Len(todo[p]) - 1
           /\ \A i \in 1 .. Len(todo'[p]) : todo'[p][i] = todo[p][i + 1] /\ i + 1 \in 1 .. Len(todo[p])
           /\ \A q \in Procs : q # p => todo'[q] = todo[q]
           /\ todo' \in [Procs -> Seq(OpSet)]
<1>1. todo[p] \in Seq(OpSet) /\ todo[p] # <<>> /\ todo' = [todo EXCEPT ![p] = Tail(todo[p])]
  BY DEF HubTypes, Write
<1>2. /\ Len(todo[p]) \in Nat /\ Len(todo[p]) >= 1 /\ Head(todo[p]) = todo[p][1] /\ todo[p][1] \in OpSet
      /\ Tail(todo[p]) \in Seq(OpSet) /\ Len(Tail(todo[p])) = Len(todo[p]) - 1
      /\ \A i \in 1 .. Len(Tail(todo[p])) : Tail(todo[p])[i] = todo[p][i + 1] /\ i + 1 \in 1 .. Len(todo[p])
  BY <1>1, TailIs
<1>3. todo'[p] = Tail(todo[p]) /\ (\A q \in Procs : q # p => todo'[q] = todo[q])
  BY <1>1 DEF HubTypes
<1>4. todo' \in [Procs -> Seq(OpSet)]
  BY <1>1, <1>2 DEF HubTypes
<1> QED BY <1>1, <1>2, <1>3, <1>4

\* What one operation does to the slot.
LEMMA WriteSlot ==
    ASSUME HubTypes, NEW p \in Procs, Write(p)
    PROVE  LET o == todo[p][1]
           IN  /\ o.f = "asideDef" => IF There(slot)
                      THEN slot' = [slot EXCEPT !.defBak = slot.def, !.def = NoDef]
                      ELSE slot' = slot
               /\ o.f = "putDef" => slot' = [slot EXCEPT !.def = o.v]
               /\ o.f = "asideSt" => IF slot.st.there
                      THEN slot' = [slot EXCEPT !.stBak = slot.st, !.st = NoSt]
                      ELSE slot' = slot
               /\ o.f = "putSt" => slot' = [slot EXCEPT !.st = o.v]
               /\ o.f \in {"mvDef", "rmDef"} => slot' = [slot EXCEPT !.def = NoDef]
               /\ o.f \in {"mvDir", "rmDir"} => slot' = [slot EXCEPT !.st = NoSt, !.stBak = NoSt]
               /\ o.f = "mvBak" => slot' = [slot EXCEPT !.defBak = NoDef]
               /\ o.f \in {"ack", "unlock", "dropLock", "mkdir"} => slot' = slot
<1> DEFINE o == todo[p][1]
<1>1. Head(todo[p]) = o /\ o \in OpSet
  BY RestIs
<1> DEFINE asideD == [slot EXCEPT !.defBak = slot.def, !.def = NoDef]
           putD == [slot EXCEPT !.def = o.v]
           asideS == [slot EXCEPT !.stBak = slot.st, !.st = NoSt]
           putS == [slot EXCEPT !.st = o.v]
           noD == [slot EXCEPT !.def = NoDef]
           noS == [slot EXCEPT !.st = NoSt, !.stBak = NoSt]
           noB == [slot EXCEPT !.defBak = NoDef]
           there == There(slot)
           stThere == slot.st.there
           f == o.f
<1>2. slot' = CASE f = "asideDef" /\ there -> asideD
                [] f = "putDef" -> putD
                [] f = "asideSt" /\ stThere -> asideS
                [] f = "putSt" -> putS
                [] f \in {"mvDef", "rmDef"} -> noD
                [] f \in {"mvDir", "rmDir"} -> noS
                [] f = "mvBak" -> noB
                [] OTHER -> slot
  BY <1>1 DEF Write
<1>0. stThere \in BOOLEAN /\ there \in BOOLEAN
  BY DEF HubTypes, Slots, Sts, There
<1> HIDE DEF f, asideD, putD, asideS, putS, noD, noS, noB, there, stThere
<1>3. f = "asideDef" => IF there THEN slot' = asideD ELSE slot' = slot
  BY <1>0, <1>2
<1>4. f = "putDef" => slot' = putD
  BY <1>2
<1>5. f = "asideSt" => IF stThere THEN slot' = asideS ELSE slot' = slot
  BY <1>0, <1>2
<1>6. f = "putSt" => slot' = putS
  BY <1>2
<1>7. f \in {"mvDef", "rmDef"} => slot' = noD
  BY <1>2
<1>8. f \in {"mvDir", "rmDir"} => slot' = noS
  BY <1>2
<1>9. f = "mvBak" => slot' = noB
  BY <1>2
<1>10. f \in {"ack", "unlock", "dropLock", "mkdir"} => slot' = slot
  BY <1>2
<1> QED BY <1>3, <1>4, <1>5, <1>6, <1>7, <1>8, <1>9, <1>10
        DEF o, f, asideD, putD, asideS, putS, noD, noS, noB, there, stThere

\* What one operation does to the archive.
LEMMA WriteArch ==
    ASSUME HubTypes, NEW p \in Procs, Write(p)
    PROVE  LET o == todo[p][1]
           IN  /\ o.f = "mkdir" => arch' = [arch EXCEPT ![o.v].dir = TRUE]
               /\ o.f = "mvDef" => arch' = [arch EXCEPT ![o.v].files.def = slot.def]
               /\ o.f = "mvDir" => arch' = [arch EXCEPT ![o.v].files.st = slot.st,
                                                        ![o.v].files.stBak = slot.stBak]
               /\ o.f = "mvBak" => arch' = [arch EXCEPT ![o.v].files.defBak = slot.defBak]
               /\ o.f \notin {"mkdir", "mvDef", "mvDir", "mvBak"} => arch' = arch
<1> DEFINE o == todo[p][1]
<1>1. Head(todo[p]) = o /\ o.f # "putArch"
  BY RestIs, OpIs
<1> DEFINE made == [arch EXCEPT ![o.v].dir = TRUE]
           def == [arch EXCEPT ![o.v].files.def = slot.def]
           st == [arch EXCEPT ![o.v].files.st = slot.st, ![o.v].files.stBak = slot.stBak]
           bak == [arch EXCEPT ![o.v].files.defBak = slot.defBak]
           put == [arch EXCEPT ![o.v.def.run].files.st = o.v.st]
           f == o.f
<1>2. arch' = CASE f = "mkdir" -> made
                [] f = "mvDef" -> def
                [] f = "mvDir" -> st
                [] f = "mvBak" -> bak
                [] f = "putArch" -> put
                [] OTHER -> arch
  BY <1>1 DEF Write
<1>0. f # "putArch"
  BY <1>1
<1> HIDE DEF f, made, def, st, bak, put
<1>3. f = "mkdir" => arch' = made
  BY <1>2
<1>4. f = "mvDef" => arch' = def
  BY <1>2
<1>5. f = "mvDir" => arch' = st
  BY <1>2
<1>6. f = "mvBak" => arch' = bak
  BY <1>2
<1>7. f \notin {"mkdir", "mvDef", "mvDir", "mvBak"} => arch' = arch
  BY <1>0, <1>2
<1> QED BY <1>3, <1>4, <1>5, <1>6, <1>7 DEF o, f, made, def, st, bak

\* What one operation does to the lock and to what is remembered.
LEMMA WriteOther ==
    ASSUME HubTypes, NEW p \in Procs, Write(p)
    PROVE  LET o == todo[p][1]
           IN  /\ lock' = IF o.f = "dropLock" \/ (o.f = "unlock" /\ lock = p) THEN "none" ELSE lock
               /\ past' = IF o.f = "ack" THEN [past EXCEPT !.kept = past.kept \cup {o.v}] ELSE past
               /\ hub' = hub /\ cli' = cli
BY RestIs DEF Write

\* Where a run is found, and its runtime.
LEMMA RtIs ==
    ASSUME HubTypes, NEW r \in Runs
    PROVE  /\ Found(r) \in {"none", "slot", "archive"} /\ Rt(r) \in Rts /\ hub.rts[r] \in Rts
           /\ Rt(r).live => hub.rts[r].live /\ Rt(r) = hub.rts[r]
           /\ Rt(r).at = "slot" => There(slot)
           /\ hub.rts[r].at = "slot" /\ There(slot) => Rt(r) = hub.rts[r]
<1>1. hub.rts[r] \in Rts
  BY DEF HubTypes, Hubs
<1>2. Found(r) \in {"none", "slot", "archive"}
  BY DEF Found
<1>3. Found(r) = "slot" => There(slot)
  BY DEF Found
<1>4. [NoRt EXCEPT !.at = Found(r)] \in [at : {Found(r)}, starting : {FALSE}, live : {FALSE}]
  <2>1. NoRt \in [at : {"none"}, starting : {FALSE}, live : {FALSE}]
    BY DEF NoRt
  <2> QED BY <2>1
<1>5. Rt(r) = IF hub.rts[r].at # "none"
                 /\ There(IF hub.rts[r].at = "slot" THEN slot ELSE arch[r].files)
              THEN hub.rts[r] ELSE [NoRt EXCEPT !.at = Found(r)]
  BY DEF Rt
<1> DEFINE file == IF hub.rts[r].at = "slot" THEN slot ELSE arch[r].files
<1>6. CASE hub.rts[r].at # "none" /\ There(file)
  <2>1. Rt(r) = hub.rts[r]
    BY <1>5, <1>6
  <2>2. hub.rts[r].at = "slot" => There(slot)
    BY <1>6
  <2> QED BY <1>1, <1>2, <2>1, <2>2
<1>7. CASE ~(hub.rts[r].at # "none" /\ There(file))
  <2>1. Rt(r) \in [at : {Found(r)}, starting : {FALSE}, live : {FALSE}]
    BY <1>4, <1>5, <1>7
  <2>2. ~(hub.rts[r].at = "slot" /\ There(slot))
    BY <1>7
  <2>3. Rt(r) \in Rts /\ ~Rt(r).live /\ Rt(r).at = Found(r)
    BY <1>2, <2>1 DEF Rts
  <2> QED BY <1>1, <1>2, <1>3, <2>2, <2>3
<1> QED BY <1>6, <1>7

\* A request that is served is about the run at the slot or in the archive.
LEMMA OnSlot ==
    ASSUME HubTypes, NEW r \in Runs, Serves(r), ~Archived(r)
    PROVE  Rt(r).at = "slot" /\ There(slot)
BY RtIs DEF Serves, Archived, Rts

-----------------------------------------------------------------------------
(* What the composite steps do.                                            *)

\* Giving the lock back is the last of the operations.
Unlocks(s) == Len(s) # 0 /\ s[Len(s)].f = "unlock"

\* A row of file operations of an edit, with the lock given back or not.
Editing(s) == \A i \in 1 .. Len(s) : s[i].f \in Saves \cup {"ack", "unlock"}

\* Giving the lock back after some operations.
LEMMA ThenUnlock ==
    ASSUME NEW s \in Seq(OpSet), Editing(s)
    PROVE  /\ s \o Unlock \in Seq(OpSet) /\ Editing(s \o Unlock) /\ Unlocks(s \o Unlock)
           /\ s \o Unlock # <<>>
<1>1. Unlock \in Seq(OpSet) /\ Len(Unlock) = 1 /\ Unlock[1].f = "unlock"
  BY DEF Unlock, Op, OpSet, Plain
<1>2. /\ s \o Unlock \in Seq(OpSet) /\ Len(s \o Unlock) = Len(s) + 1 /\ Len(s) \in Nat
      /\ \A i \in 1 .. Len(s) : (s \o Unlock)[i] = s[i]
      /\ (s \o Unlock)[1 + Len(s)] = Unlock[1]
  <2>1. 1 \in 1 .. Len(Unlock)
    BY <1>1
  <2> QED BY <1>1, <2>1, OpsConcat, NoOps
<1> DEFINE t == s \o Unlock
<1> HIDE DEF t
<1>3. t \in Seq(OpSet) /\ Len(t) = Len(s) + 1 /\ Len(s) \in Nat /\ t[Len(t)].f = "unlock"
      /\ \A i \in 1 .. Len(s) : t[i] = s[i]
  BY <1>1, <1>2 DEF t
<1>4. \A i \in 1 .. Len(t) : i \in 1 .. Len(s) \/ i = Len(t)
  BY <1>3
<1>5. Editing(t)
  BY <1>3, <1>4 DEF Editing
<1>6. Unlocks(t) /\ t # <<>>
  BY <1>3, NoOps DEF Unlocks
<1> QED BY <1>3, <1>5, <1>6 DEF t

\* An edit under the lock: the slot is loaded and its edit left to do, or the
\* slot does not load and the lock is given back.
LEMMA MutatesIs ==
    ASSUME HubTypes, NEW r \in Runs, NEW kind \in {"mark", "set"}, Mutates(r, "slot", kind)
    PROVE  /\ lock # "cli" /\ slot' = slot /\ arch' = arch /\ cli' = cli
           /\ \/ /\ Loads(slot) /\ CanEdit /\ lock' = "hub" /\ Counted
                 /\ \E s \in Seq(OpSet) :
                       todo' = [todo EXCEPT !["hub"] = s] /\ Editing(s) /\ Unlocks(s) /\ s # <<>>
              \/ ~Loads(slot) /\ lock' = "none" /\ todo' = todo /\ past' = past
<1> DEFINE c == Content(slot)
           s == Saving(c, kind)
<1>1. CASE ~Loads(slot)
  BY <1>1 DEF Mutates
<1>2. CASE Loads(slot)
  <2>1. CanEdit /\ lock' = "hub" /\ Counted /\ todo' = [todo EXCEPT !["hub"] = s \o Unlock]
        /\ lock # "cli" /\ slot' = slot /\ arch' = arch /\ cli' = cli
    BY <1>2 DEF Mutates
  <2>2. c \in Copies /\ c.def # NoDef /\ past \in Pasts /\ kind \in Kinds
    BY <1>2, ContentIs DEF HubTypes, Kinds
  <2>3. s \in Seq(OpSet) /\ Editing(s)
    BY <2>1, <2>2, SavingIs DEF Editing
  <2> HIDE DEF s
  <2>4. s \o Unlock \in Seq(OpSet) /\ Editing(s \o Unlock) /\ Unlocks(s \o Unlock) /\ s \o Unlock # <<>>
    BY <2>3, ThenUnlock
  <2> QED BY <1>2, <2>1, <2>4
<1> QED BY <1>1, <1>2

\* A runner is started, or nothing is run and the lock given back, or the slot
\* does not load.
LEMMA StartIs ==
    ASSUME HubTypes, NEW r \in Runs, Start(r)
    PROVE  /\ lock # "cli" /\ slot' = slot /\ arch' = arch /\ cli' = cli
           /\ Ready /\ Undivided /\ Serves(r) /\ ~Archived(r) /\ ~InProgress(r)
           /\ \/ /\ Loads(slot) /\ lock' = "hub" /\ hub.driver = NoRun
                 /\ \E s \in Seq(OpSet), c \in Copies :
                       /\ todo' = [todo EXCEPT !["hub"] = s]
                       /\ \A i \in 1 .. Len(s) : s[i].f \in Saves \cup {"ack"}
                       /\ Written(s, Content(slot).def.run)
                       /\ hub' = [hub EXCEPT !.driver = r, !.mem = c,
                                     !.rts[r] = [Rt(r) EXCEPT !.live = TRUE, !.starting = TRUE]]
                 /\ past' = past \/ (CanEdit /\ Counted)
              \/ /\ Loads(slot) /\ lock' = "hub"
                 /\ \E s \in Seq(OpSet) :
                       /\ todo' = [todo EXCEPT !["hub"] = s]
                       /\ Editing(s) /\ Unlocks(s) /\ s # <<>>
                 /\ hub' = [hub EXCEPT !.rts[r] = Rt(r)]
                 /\ past' = past \/ (CanEdit /\ Counted)
              \/ /\ ~Loads(slot) /\ lock' = "none" /\ todo' = todo /\ past' = past
                 /\ hub' = [hub EXCEPT !.rts[r] = Rt(r)]
<1>1. /\ lock # "cli" /\ slot' = slot /\ arch' = arch /\ cli' = cli
      /\ Ready /\ Undivided /\ Serves(r) /\ ~Archived(r) /\ ~InProgress(r)
  BY DEF Start, Serves
<1>2. CASE ~Loads(slot)
  BY <1>1, <1>2 DEF Start
<1>3. CASE Loads(slot)
  <2> DEFINE c == Content(slot)
             e == Edited(c, "set")
             save == Saving(c, "set")
             drives == [Rt(r) EXCEPT !.live = TRUE, !.starting = TRUE]
  <2>1. PICK ops \in {<<>>, save}, something \in BOOLEAN :
            /\ lock' = "hub"
            /\ IF ops = <<>> THEN UNCHANGED past ELSE CanEdit /\ Counted
            /\ todo' = [todo EXCEPT !["hub"] = ops \o (IF something /\ hub.driver = NoRun THEN <<>> ELSE Unlock)]
            /\ hub' = IF something /\ hub.driver = NoRun
                      THEN [hub EXCEPT !.driver = r, !.mem = IF ops = <<>> THEN c ELSE e, !.rts[r] = drives]
                      ELSE [hub EXCEPT !.rts[r] = Rt(r)]
    BY <1>3 DEF Start, NothingToRun
  <2>2. c \in Copies /\ c.def # NoDef /\ past \in Pasts /\ "set" \in Kinds
    BY <1>3, ContentIs DEF HubTypes, Kinds
  <2>3. CanEdit => /\ save \in Seq(OpSet) /\ e \in Copies
                   /\ \A i \in 1 .. Len(save) : save[i].f \in Saves \cup {"ack"}
                   /\ Written(save, c.def.run)
    BY <2>2, SavingIs, EditedIs
  <2> HIDE DEF save, e
  <2>4. /\ <<>> \in Seq(OpSet) /\ Written(<<>>, c.def.run)
        /\ \A i \in 1 .. Len(<<>>) : <<>>[i].f \in Saves \cup {"ack"}
    BY NoOps DEF Written
  <2>5. /\ ops \in Seq(OpSet) /\ Written(ops, c.def.run)
        /\ \A i \in 1 .. Len(ops) : ops[i].f \in Saves \cup {"ack"}
        /\ (IF ops = <<>> THEN c ELSE e) \in Copies
    <3>1. CASE ops = <<>>
      BY <2>2, <2>4, <3>1
    <3>2. CASE ops # <<>>
      <4>1. ops = save /\ CanEdit
        BY <2>1, <3>2
      <4> QED BY <2>3, <3>2, <4>1
    <3> QED BY <3>1, <3>2
  <2>6. past' = past \/ (CanEdit /\ Counted)
    BY <2>1
  <2>7. CASE something /\ hub.driver = NoRun
    <3>1. ops \o <<>> = ops
      BY <2>5, ConcatEmptySeq
    <3>2. todo' = [todo EXCEPT !["hub"] = ops]
      BY <2>1, <2>7, <3>1
    <3>3. hub' = [hub EXCEPT !.driver = r, !.mem = IF ops = <<>> THEN c ELSE e, !.rts[r] = drives]
      BY <2>1, <2>7
    <3> DEFINE m == IF ops = <<>> THEN c ELSE e
    <3>4. m \in Copies
      BY <2>5
    <3>5. hub' = [hub EXCEPT !.driver = r, !.mem = m, !.rts[r] = drives]
      BY <3>3
    <3> HIDE DEF m, c
    <3> QED BY <1>1, <1>3, <2>1, <2>5, <2>6, <2>7, <3>2, <3>4, <3>5 DEF c
  <2>8. CASE ~(something /\ hub.driver = NoRun)
    <3>1. Editing(ops)
      BY <2>5 DEF Editing
    <3>2. /\ ops \o Unlock \in Seq(OpSet) /\ Editing(ops \o Unlock) /\ Unlocks(ops \o Unlock)
          /\ ops \o Unlock # <<>>
      BY <2>5, <3>1, ThenUnlock
    <3>3. todo' = [todo EXCEPT !["hub"] = ops \o Unlock] /\ hub' = [hub EXCEPT !.rts[r] = Rt(r)]
      BY <2>1, <2>8
    <3> QED BY <1>1, <1>3, <2>1, <2>6, <3>2, <3>3
  <2> QED BY <2>7, <2>8
<1> QED BY <1>2, <1>3

-----------------------------------------------------------------------------
(* Type correctness.                                                       *)

\* The hub's memory with one part changed.
LEMMA HubWith ==
    ASSUME hub \in Hubs
    PROVE  /\ \A r \in Runs, x \in Rts : [hub EXCEPT !.rts[r] = x] \in Hubs
           /\ \A q \in Reqs : [hub EXCEPT !.req = q] \in Hubs
           /\ \A r \in Runs, x \in Rts, q \in Reqs : [hub EXCEPT !.rts[r] = x, !.req = q] \in Hubs
           /\ \A m \in Copies : [hub EXCEPT !.mem = m] \in Hubs
           /\ \A q \in Reqs, m \in Copies : [hub EXCEPT !.req = q, !.mem = m] \in Hubs
           /\ \A r \in Runs, x \in Rts, m \in Copies : [hub EXCEPT !.driver = r, !.mem = m, !.rts[r] = x] \in Hubs
           /\ \A r \in Runs, x \in Rts, m \in Copies : [hub EXCEPT !.driver = NoRun, !.rts[r] = x, !.mem = m] \in Hubs
           /\ \A f \in [Runs -> Rts] : [hub EXCEPT !.rts = f] \in Hubs
<1>1. \A r \in Runs, x \in Rts : [hub.rts EXCEPT ![r] = x] \in [Runs -> Rts]
  BY DEF Hubs
<1>2. \A f \in [Runs -> Rts] : [hub EXCEPT !.rts = f] \in Hubs
  BY DEF Hubs
<1>3. \A r \in Runs, x \in Rts : [hub EXCEPT !.rts[r] = x] \in Hubs
  BY DEF Hubs
<1>4. /\ \A q \in Reqs : [hub EXCEPT !.req = q] \in Hubs
      /\ \A m \in Copies : [hub EXCEPT !.mem = m] \in Hubs
      /\ \A q \in Reqs, m \in Copies : [hub EXCEPT !.req = q, !.mem = m] \in Hubs
  BY DEF Hubs
<1>5. \A r \in Runs, x \in Rts, q \in Reqs : [hub EXCEPT !.rts[r] = x, !.req = q] \in Hubs
  BY DEF Hubs
<1>6. \A r \in Runs, x \in Rts, m \in Copies : [hub EXCEPT !.driver = r, !.mem = m, !.rts[r] = x] \in Hubs
  BY DEF Hubs
<1>7. \A r \in Runs, x \in Rts, m \in Copies : [hub EXCEPT !.driver = NoRun, !.rts[r] = x, !.mem = m] \in Hubs
  BY DEF Hubs
<1> QED BY <1>2, <1>3, <1>4, <1>5, <1>6, <1>7

\* One operation keeps the types.
LEMMA WriteTypes ==
    ASSUME HubTypes, NEW p \in Procs, Write(p)
    PROVE  HubTypes'
<1> DEFINE o == todo[p][1]
<1>1. /\ o \in OpSet /\ todo' \in [Procs -> Seq(OpSet)]
  BY RestIs
<1>2. /\ o.f = "putDef" => o.v \in Defs
      /\ o.f = "putSt" => o.v \in Sts
      /\ o.f \in {"mkdir", "mvDef", "mvDir", "mvBak"} => o.v \in Runs
      /\ o.f = "ack" => o.v \in Acks
      /\ o.f \in Plain \cup Moving \cup {"putDef", "putSt", "ack"}
  BY <1>1, OpIs
<1>3. slot' \in Slots
  <2>1. slot \in Slots /\ NoDef \in Defs /\ NoSt \in Sts
    BY Nothing DEF HubTypes
  <2>2. CASE o.f = "asideDef"
    BY <2>1, <2>2, WriteSlot DEF Slots
  <2>3. CASE o.f = "putDef"
    BY <1>2, <2>1, <2>3, WriteSlot DEF Slots
  <2>4. CASE o.f = "asideSt"
    BY <2>1, <2>4, WriteSlot DEF Slots
  <2>5. CASE o.f = "putSt"
    BY <1>2, <2>1, <2>5, WriteSlot DEF Slots
  <2>6. CASE o.f \in {"mvDef", "rmDef"}
    BY <2>1, <2>6, WriteSlot DEF Slots
  <2>7. CASE o.f \in {"mvDir", "rmDir"}
    BY <2>1, <2>7, WriteSlot DEF Slots
  <2>8. CASE o.f = "mvBak"
    BY <2>1, <2>8, WriteSlot DEF Slots
  <2>9. CASE o.f \in {"ack", "unlock", "dropLock", "mkdir"}
    BY <2>1, <2>9, WriteSlot
  <2> QED BY <1>2, <2>2, <2>3, <2>4, <2>5, <2>6, <2>7, <2>8, <2>9 DEF Plain, Moving
<1>4. arch' \in [Runs -> Archives]
  <2>1. slot \in Slots /\ arch \in [Runs -> Archives]
    BY DEF HubTypes
  <2>2. CASE o.f = "mkdir"
    <3>1. [arch[o.v] EXCEPT !.dir = TRUE] \in Archives
      BY <1>2, <2>1, <2>2 DEF Archives
    <3>2. arch' = [arch EXCEPT ![o.v] = [arch[o.v] EXCEPT !.dir = TRUE]]
      BY <2>2, WriteArch
    <3> QED BY <1>2, <2>1, <2>2, <3>1, <3>2
  <2>3. CASE o.f = "mvDef"
    <3> DEFINE g == [arch[o.v].files EXCEPT !.def = slot.def]
               a == [arch[o.v] EXCEPT !.files = g]
    <3>1. g \in Slots
      BY <1>2, <2>1, <2>3 DEF Archives, Slots
    <3>2. arch' = [arch EXCEPT ![o.v] = a]
      BY <2>3, WriteArch
    <3> HIDE DEF g
    <3>3. a \in Archives
      BY <1>2, <2>1, <2>3, <3>1 DEF Archives
    <3> HIDE DEF a
    <3> QED BY <1>2, <2>1, <2>3, <3>2, <3>3
  <2>4. CASE o.f = "mvDir"
    <3> DEFINE a == [arch EXCEPT ![o.v].files.st = slot.st]
    <3>1. a \in [Runs -> Archives] /\ o.v \in Runs /\ slot.stBak \in Sts
      BY <1>2, <2>1, <2>4 DEF Archives, Slots
    <3>2. arch' = [a EXCEPT ![o.v].files.stBak = slot.stBak]
      BY <2>4, WriteArch
    <3> HIDE DEF a
    <3> QED BY <3>1, <3>2 DEF Archives, Slots
  <2>5. CASE o.f = "mvBak"
    <3> DEFINE g == [arch[o.v].files EXCEPT !.defBak = slot.defBak]
               a == [arch[o.v] EXCEPT !.files = g]
    <3>1. g \in Slots
      BY <1>2, <2>1, <2>5 DEF Archives, Slots
    <3>2. arch' = [arch EXCEPT ![o.v] = a]
      BY <2>5, WriteArch
    <3> HIDE DEF g
    <3>3. a \in Archives
      BY <1>2, <2>1, <2>5, <3>1 DEF Archives
    <3> HIDE DEF a
    <3> QED BY <1>2, <2>1, <2>5, <3>2, <3>3
  <2>6. CASE o.f \notin {"mkdir", "mvDef", "mvDir", "mvBak"}
    BY <2>1, <2>6, WriteArch
  <2> QED BY <2>2, <2>3, <2>4, <2>5, <2>6
<1>5. past' \in Pasts
  <2>1. past \in Pasts /\ past' = IF o.f = "ack" THEN [past EXCEPT !.kept = past.kept \cup {o.v}] ELSE past
    BY WriteOther DEF HubTypes
  <2> QED BY <1>2, <2>1 DEF Pasts
<1>6. lock' \in {"none", "hub", "cli"} /\ hub' \in Hubs /\ cli' \in Clis
  BY WriteOther DEF HubTypes
<1> QED BY <1>1, <1>3, <1>4, <1>5, <1>6 DEF HubTypes

\* A counted edit is a past.
LEMMA CountedTypes ==
    ASSUME past \in Pasts, CanEdit, Counted
    PROVE  past' \in Pasts
BY Constants DEF Pasts, CanEdit, Counted, Tasks

\* So is a death.
LEMMA DiesTypes ==
    ASSUME past \in Pasts, NEW p \in Procs, Dies(p)
    PROVE  past' \in Pasts
<1> DEFINE cut == past.cut \/ \E i \in DOMAIN todo[p] : todo[p][i].f \notin {"unlock", "ack"}
<1>1. past' = [past EXCEPT !.faults = past.faults + 1, !.cut = cut] /\ cut \in BOOLEAN
  BY DEF Dies, Pasts
<1> DEFINE more == past.faults + 1
<1>2. more \in Nat
  BY DEF Pasts
<1>3. past' = [past EXCEPT !.faults = more, !.cut = cut]
  BY <1>1
<1> HIDE DEF cut, more
<1> QED BY <1>1, <1>2, <1>3 DEF Pasts

\* A row of operations for one process keeps the types of todo.
LEMMA TodoTypes ==
    ASSUME HubTypes
    PROVE  \A p \in Procs, s \in Seq(OpSet) : [todo EXCEPT ![p] = s] \in [Procs -> Seq(OpSet)]
BY DEF HubTypes

\* A command that begins keeps the types.
LEMMA BeginsTypes ==
    ASSUME HubTypes, NEW cmd \in Commands, NEW c \in Copies, NEW ops \in Seq(OpSet),
           Begins(cmd, c, ops), past' \in Pasts
    PROVE  HubTypes'
<1>1. todo' \in [Procs -> Seq(OpSet)]
  BY TodoTypes DEF Begins, Procs
<1> QED BY <1>1 DEF Begins, HubTypes, Clis

\* The next step of a command line keeps the types.
LEMMA CliTypes ==
    ASSUME HubTypes,
           \/ \E k \in Kinds : CliEdit(k)
           \/ \E r \in Runs : CliNewRun(r)
           \/ CliArchive \/ CliRun \/ CliRunSaves \/ CliExits \/ CliDies
    PROVE  HubTypes'
<1>1. past \in Pasts /\ slot \in Slots /\ NoCopy \in Copies /\ arch \in [Runs -> Archives]
  BY Nothing DEF HubTypes
<1>2. Content(slot) \in Copies
  BY <1>1, ContentIs
<1>3. ASSUME NEW k \in Kinds, CliEdit(k) PROVE HubTypes'
  <2>1. Saving(Content(slot), k) \in Seq(OpSet)
    BY <1>1, <1>2, <1>3, ContentIs, SavingIs DEF CliEdit
  <2>2. past' \in Pasts
    BY <1>1, <1>3, CountedTypes DEF CliEdit
  <2> QED BY <1>1, <1>3, <2>1, <2>2, BeginsTypes DEF CliEdit, Commands
<1>4. ASSUME NEW r \in Runs, CliNewRun(r) PROVE HubTypes'
  BY <1>1, <1>4, StartNewIs, BeginsTypes DEF CliNewRun, Commands
<1>5. ASSUME CliArchive PROVE HubTypes'
  <2>1. Move(Content(slot).def.run) \in Seq(OpSet)
    BY <1>1, <1>5, ContentIs, MoveIs DEF CliArchive
  <2> QED BY <1>1, <1>5, <2>1, BeginsTypes DEF CliArchive, Commands
<1>6. ASSUME CliRun PROVE HubTypes'
  BY <1>1, <1>2, <1>6, NoOps, BeginsTypes DEF CliRun, Commands
<1>7. ASSUME CliRunSaves PROVE HubTypes'
  <2>1. cli.mem \in Copies /\ cli \in Clis
    BY DEF HubTypes, Clis
  <2>2. Saving(cli.mem, "mark") \in Seq(OpSet) /\ Edited(cli.mem, "mark") \in Copies
    BY <1>1, <1>7, <2>1, SavingIs, EditedIs DEF CliRunSaves, Kinds
  <2>3. past' \in Pasts
    BY <1>1, <1>7, CountedTypes DEF CliRunSaves
  <2>4. todo' \in [Procs -> Seq(OpSet)]
    BY <1>7, <2>2, TodoTypes DEF CliRunSaves, Procs
  <2>5. cli' \in Clis
    BY <1>7, <2>1, <2>2 DEF CliRunSaves, Clis
  <2> QED BY <1>7, <2>3, <2>4, <2>5 DEF CliRunSaves, HubTypes
<1>8. ASSUME CliExits PROVE HubTypes'
  BY <1>1, <1>8 DEF CliExits, HubTypes, Clis, Commands
<1>9. ASSUME CliDies PROVE HubTypes'
  <2>1. todo' \in [Procs -> Seq(OpSet)]
    BY <1>9, NoOps, TodoTypes DEF CliDies, Dies, Procs
  <2>2. past' \in Pasts
    BY <1>1, <1>9, DiesTypes DEF CliDies, Procs
  <2> QED BY <1>1, <1>9, <2>1, <2>2 DEF CliDies, Dies, HubTypes, Clis, Commands
<1> QED BY <1>3, <1>4, <1>5, <1>6, <1>7, <1>8, <1>9

\* A step of the hub changes neither slot nor archive nor command.
HubStep ==
    \/ Boot \/ Shutdown \/ HubDies \/ AnswerOnDisk \/ AnswerRefused \/ AnswerInMemory
    \/ RunnerSaves \/ RunnerEnds
    \/ \E r \in Runs : Look(r) \/ Settings(r) \/ Start(r) \/ Started(r) \/ Archive(r) \/ NewRun(r)
    \/ \E r \in Runs, k \in {"retry", "task"} : Ask(r, k)

\* A request is about the slot.
LEMMA RequestAtSlot ==
    ASSUME HubTypes, hub.req # NoReq
    PROVE  hub.req.at = "slot" /\ hub.req.run \in Runs /\ hub.req.active \in BOOLEAN
           /\ hub.req.kind \in {"retry", "task"}
BY DEF HubTypes, Hubs, Reqs

\* The next step of the hub keeps the types.
LEMMA HubStepTypes ==
    ASSUME HubTypes, HubStep
    PROVE  HubTypes'
<1>1. /\ past \in Pasts /\ slot \in Slots /\ NoCopy \in Copies /\ arch \in [Runs -> Archives]
      /\ hub \in Hubs /\ NoReq \in Reqs /\ NoRt \in Rts /\ Off \in Hubs
      /\ todo \in [Procs -> Seq(OpSet)] /\ hub.mem \in Copies /\ hub.rts \in [Runs -> Rts]
      /\ cli \in Clis /\ lock \in {"none", "hub", "cli"}
  BY Nothing DEF HubTypes, Hubs
<1>2. ASSUME Boot PROVE HubTypes'
  <2>1. hub' \in Hubs
    BY <1>1, <1>2 DEF Boot, Hubs
  <2> QED BY <1>1, <1>2, <2>1 DEF Boot, HubTypes
<1>3. ASSUME Shutdown PROVE HubTypes'
  BY <1>1, <1>3 DEF Shutdown, HubTypes
<1>4. ASSUME HubDies PROVE HubTypes'
  <2>1. todo' \in [Procs -> Seq(OpSet)]
    BY <1>4, NoOps, TodoTypes DEF HubDies, Dies, Procs
  <2>2. past' \in Pasts
    BY <1>1, <1>4, DiesTypes DEF HubDies, Procs
  <2> QED BY <1>1, <1>4, <2>1, <2>2 DEF HubDies, Dies, HubTypes
<1>5. ASSUME NEW r \in Runs, NEW kind \in {"mark", "set"}, Mutates(r, "slot", kind), hub' \in Hubs
      PROVE  HubTypes'
  <2>1. /\ slot' = slot /\ arch' = arch /\ cli' = cli
        /\ \/ /\ CanEdit /\ lock' = "hub" /\ Counted
              /\ \E s \in Seq(OpSet) : todo' = [todo EXCEPT !["hub"] = s]
           \/ lock' = "none" /\ todo' = todo /\ past' = past
    BY <1>5, MutatesIs
  <2>2. past' \in Pasts
    BY <1>1, <2>1, CountedTypes
  <2>3. todo' \in [Procs -> Seq(OpSet)] /\ lock' \in {"none", "hub", "cli"}
    BY <1>1, <2>1, TodoTypes DEF Procs
  <2> QED BY <1>1, <1>5, <2>1, <2>2, <2>3 DEF HubTypes
<1>6. ASSUME AnswerOnDisk PROVE HubTypes'
  <2>1. hub.req.at = "slot" /\ hub.req.run \in Runs
    BY <1>6, RequestAtSlot DEF AnswerOnDisk
  <2>2. Mutates(hub.req.run, "slot", "mark")
    BY <1>6, <2>1 DEF AnswerOnDisk
  <2>3. hub' \in Hubs
    BY <1>1, <1>6, HubWith DEF AnswerOnDisk
  <2> QED BY <1>5, <2>1, <2>2, <2>3
<1>7. ASSUME AnswerRefused PROVE HubTypes'
  <2>1. hub' \in Hubs
    BY <1>1, <1>7, HubWith DEF AnswerRefused
  <2> QED BY <1>1, <1>7, <2>1 DEF AnswerRefused, HubTypes
<1>8. ASSUME CanEdit, Counted, todo' = [todo EXCEPT !["hub"] = Saving(hub.mem, "mark")],
             UNCHANGED <<slot, arch, lock, cli>>, hub' \in Hubs
      PROVE  HubTypes'
  <2>1. Saving(hub.mem, "mark") \in Seq(OpSet)
    BY <1>1, <1>8, SavingIs DEF Kinds
  <2>2. todo' \in [Procs -> Seq(OpSet)]
    BY <1>8, <2>1, TodoTypes DEF Procs
  <2>3. past' \in Pasts
    BY <1>1, <1>8, CountedTypes
  <2> QED BY <1>1, <1>8, <2>2, <2>3 DEF HubTypes
<1>9. CanEdit => Edited(hub.mem, "mark") \in Copies
  BY <1>1, EditedIs DEF Kinds
<1>10. ASSUME AnswerInMemory PROVE HubTypes'
  <2> DEFINE m == Edited(hub.mem, "mark")
  <2>1. m \in Copies /\ hub' = [hub EXCEPT !.req = NoReq, !.mem = m]
    BY <1>9, <1>10 DEF AnswerInMemory
  <2> HIDE DEF m
  <2>2. hub' \in Hubs
    BY <1>1, <2>1, HubWith
  <2> QED BY <1>8, <1>10, <2>2 DEF AnswerInMemory
<1>11. ASSUME RunnerSaves PROVE HubTypes'
  <2> DEFINE m == Edited(hub.mem, "mark")
  <2>1. m \in Copies /\ hub' = [hub EXCEPT !.mem = m]
    BY <1>9, <1>11 DEF RunnerSaves
  <2> HIDE DEF m
  <2>2. hub' \in Hubs
    BY <1>1, <2>1, HubWith
  <2> QED BY <1>8, <1>11, <2>2 DEF RunnerSaves
<1>12. ASSUME RunnerEnds PROVE HubTypes'
  <2> DEFINE d == hub.driver
             x == [hub.rts[d] EXCEPT !.live = FALSE]
             m == IF hub.req.active THEN hub.mem ELSE NoCopy
  <2>1. d \in Runs
    BY <1>1, <1>12 DEF RunnerEnds, Hubs
  <2>2. x \in Rts /\ m \in Copies
    BY <1>1, <2>1 DEF Rts
  <2>3. hub' = [hub EXCEPT !.driver = NoRun, !.rts[d] = x, !.mem = m]
    BY <1>12 DEF RunnerEnds
  <2> HIDE DEF d, x, m
  <2>4. hub' \in Hubs
    BY <1>1, <2>1, <2>2, <2>3, HubWith
  <2>5. Unlock \in Seq(OpSet)
    BY DEF Unlock, Op, OpSet, Plain
  <2>6. todo' \in [Procs -> Seq(OpSet)]
    BY <1>12, <2>5, TodoTypes DEF RunnerEnds, Procs
  <2> QED BY <1>1, <1>12, <2>4, <2>6 DEF RunnerEnds, HubTypes
<1>13. ASSUME NEW r \in Runs, Look(r) PROVE HubTypes'
  <2>1. hub' \in Hubs
    BY <1>1, <1>13, RtIs, HubWith DEF Look
  <2> QED BY <1>1, <1>13, <2>1 DEF Look, HubTypes
<1>14. ASSUME NEW r \in Runs, Settings(r) PROVE HubTypes'
  <2>1. Rt(r).at = "slot"
    BY <1>14, OnSlot DEF Settings
  <2>2. Mutates(r, "slot", "set")
    BY <1>14, <2>1 DEF Settings
  <2>3. hub' \in Hubs
    BY <1>1, <1>14, RtIs, HubWith DEF Settings
  <2> QED BY <1>5, <2>2, <2>3
<1>15. ASSUME NEW r \in Runs, Start(r) PROVE HubTypes'
  <2>1. /\ slot' = slot /\ arch' = arch /\ cli' = cli /\ lock' \in {"none", "hub", "cli"}
        /\ past' = past \/ (CanEdit /\ Counted)
        /\ todo' = todo \/ \E s \in Seq(OpSet) : todo' = [todo EXCEPT !["hub"] = s]
        /\ \/ hub' = [hub EXCEPT !.rts[r] = Rt(r)]
           \/ \E c \in Copies : hub' = [hub EXCEPT !.driver = r, !.mem = c,
                                     !.rts[r] = [Rt(r) EXCEPT !.live = TRUE, !.starting = TRUE]]
    BY <1>15, StartIs
  <2>2. past' \in Pasts
    BY <1>1, <2>1, CountedTypes
  <2>3. todo' \in [Procs -> Seq(OpSet)]
    BY <1>1, <2>1, TodoTypes DEF Procs
  <2>4. Rt(r) \in Rts
    BY RtIs
  <2> DEFINE x == [Rt(r) EXCEPT !.live = TRUE, !.starting = TRUE]
  <2>5. x \in Rts
    BY <2>4 DEF Rts
  <2>6. hub' = [hub EXCEPT !.rts[r] = Rt(r)] \/ \E c \in Copies : hub' = [hub EXCEPT !.driver = r, !.mem = c, !.rts[r] = x]
    BY <2>1
  <2> HIDE DEF x
  <2>7. hub' \in Hubs
    <3>1. CASE hub' = [hub EXCEPT !.rts[r] = Rt(r)]
      BY <1>1, <2>4, <3>1, HubWith
    <3>2. ASSUME NEW c \in Copies, hub' = [hub EXCEPT !.driver = r, !.mem = c, !.rts[r] = x]
          PROVE  hub' \in Hubs
      BY <1>1, <2>5, <3>2, HubWith
    <3> QED BY <2>6, <3>1, <3>2
  <2> QED BY <1>1, <2>1, <2>2, <2>3, <2>7 DEF HubTypes
<1>16. ASSUME NEW r \in Runs, Started(r) PROVE HubTypes'
  <2>1. [hub.rts[r] EXCEPT !.starting = FALSE] \in Rts
    BY <1>1 DEF Rts
  <2>2. hub' \in Hubs
    BY <1>1, <1>16, <2>1, HubWith DEF Started
  <2> QED BY <1>1, <1>16, <2>2 DEF Started, HubTypes
<1>17. ASSUME NEW r \in Runs, Archive(r) PROVE HubTypes'
  <2>1. hub' \in Hubs
    BY <1>1, <1>17, HubWith DEF Archive
  <2> DEFINE s == IF Archived(r) THEN <<>> ELSE Move(Content(slot).def.run)
  <2>2. s \in Seq(OpSet)
    BY <1>1, <1>17, ContentIs, MoveIs, NoOps DEF Archive
  <2>3. todo' = [todo EXCEPT !["hub"] = s]
    BY <1>17 DEF Archive
  <2> HIDE DEF s
  <2>4. todo' \in [Procs -> Seq(OpSet)]
    BY <2>2, <2>3, TodoTypes DEF Procs
  <2> QED BY <1>1, <1>17, <2>1, <2>4 DEF Archive, HubTypes
<1>18. ASSUME NEW r \in Runs, NewRun(r) PROVE HubTypes'
  <2> DEFINE f == [o \in Runs |-> IF o = r THEN [NoRt EXCEPT !.at = "slot"]
                                  ELSE IF hub.rts[o].at = "slot" THEN NoRt ELSE hub.rts[o]]
  <2>1. [NoRt EXCEPT !.at = "slot"] \in Rts
    BY <1>1 DEF Rts
  <2>2. f \in [Runs -> Rts]
    BY <1>1, <2>1
  <2>3. hub' = [hub EXCEPT !.rts = f]
    BY <1>18 DEF NewRun
  <2> HIDE DEF f
  <2>4. hub' \in Hubs
    BY <1>1, <2>2, <2>3, HubWith
  <2>5. todo' \in [Procs -> Seq(OpSet)]
    BY <1>1, <1>18, StartNewIs, TodoTypes DEF NewRun, Procs
  <2> QED BY <1>1, <1>18, <2>4, <2>5 DEF NewRun, HubTypes
<1>19. ASSUME NEW r \in Runs, NEW k \in {"retry", "task"}, Ask(r, k) PROVE HubTypes'
  <2> DEFINE q == [kind |-> k, run |-> r, at |-> Rt(r).at, active |-> k = "task" /\ Running(r)]
  <2>1. Rt(r).at = "slot" /\ Rt(r) \in Rts
    BY <1>19, OnSlot, RtIs DEF Ask
  <2>2. q \in Reqs
    BY <2>1 DEF Reqs, Running, Rts
  <2>3. hub' = [hub EXCEPT !.rts[r] = Rt(r), !.req = q]
    BY <1>19 DEF Ask
  <2> HIDE DEF q
  <2>4. hub' \in Hubs
    BY <1>1, <2>1, <2>2, <2>3, HubWith
  <2> QED BY <1>1, <1>19, <2>4 DEF Ask, HubTypes
<1> QED
  BY <1>2, <1>3, <1>4, <1>6, <1>7, <1>10, <1>11, <1>12, <1>13, <1>14, <1>15, <1>16, <1>17, <1>18, <1>19
  DEF HubStep

\* Every step is a file operation, a step of the command line or of the hub.
LEMMA NextIs ==
    ASSUME Next
    PROVE  \/ \E p \in Procs : Write(p)
           \/ \E k \in Kinds : CliEdit(k)
           \/ \E r \in Runs : CliNewRun(r)
           \/ CliArchive \/ CliRun \/ CliRunSaves \/ CliExits \/ CliDies
           \/ HubStep
BY DEF Next, HubStep, Kinds

\* The initial state has the types.
LEMMA InitTypes == Init => HubTypes
<1> SUFFICES ASSUME Init PROVE HubTypes
  OBVIOUS
<1>1. /\ NoDef \in Defs /\ NoSt \in Sts /\ NoCopy \in Copies /\ Empty \in Slots
      /\ NoArchive \in Archives /\ Off \in Hubs /\ First \in Runs /\ MaxEdits \in Nat
  BY Nothing, Constants
<1> DEFINE c == [Fresh(First) EXCEPT !.def.tasks = {0}, !.st.tasks = {0}]
<1>2. Fresh(First).def \in [run : Runs, tasks : SUBSET Tasks, set : SUBSET Tasks]
      /\ Fresh(First) \in Copies
  BY <1>1, Nothing DEF Copies, Defs
<1>3. {0} \in SUBSET Tasks
  BY <1>1 DEF Tasks
<1>4. c.def = [Fresh(First).def EXCEPT !.tasks = {0}] /\ c.st = [Fresh(First).st EXCEPT !.tasks = {0}]
  BY <1>2 DEF Copies
<1>5. c.def \in Defs /\ c.st \in Sts
  BY <1>2, <1>3, <1>4 DEF Copies, Defs, Sts
<1>6. slot = [Empty EXCEPT !.def = c.def, !.st = c.st]
  BY DEF Init
<1> HIDE DEF c
<1>7. slot \in Slots
  BY <1>1, <1>5, <1>6 DEF Slots
<1>8. arch \in [Runs -> Archives] /\ todo \in [Procs -> Seq(OpSet)]
  BY <1>1, NoOps DEF Init
<1>9. past \in Pasts
  BY <1>1 DEF Init, Pasts, Tasks
<1>10. cli \in Clis /\ hub \in Hubs /\ lock = "none"
  BY <1>1 DEF Init, Clis, Commands
<1> QED BY <1>7, <1>8, <1>9, <1>10 DEF HubTypes

\* Every step keeps the types.
LEMMA TypesStep == HubTypes /\ [Next]_vars => HubTypes'
<1> SUFFICES ASSUME HubTypes, [Next]_vars PROVE HubTypes'
  OBVIOUS
<1>1. CASE Next
  BY <1>1, NextIs, WriteTypes, CliTypes, HubStepTypes
<1>2. CASE UNCHANGED vars
  BY <1>2 DEF vars, HubTypes
<1> QED BY <1>1, <1>2

\* Type correctness: slot, archive, memories, commands and the operations still
\* to do are of their types in every reachable state; in particular a request
\* is only ever answered at the slot and no operation writes into an archive
\* but the moves.
THEOREM HubTyped == Spec => []HubTypes
BY InitTypes, TypesStep, PTL DEF Spec

-----------------------------------------------------------------------------
(* The lock is held by somebody who works.                                 *)

\* The hub's lock is a runner's, or giving it back is still to do; the command
\* line's is a command's.
GivesBack(s) == \E i \in 1 .. Len(s) : s[i].f = "unlock"
LockInv ==
    /\ lock = "hub" => hub.driver # NoRun \/ GivesBack(todo["hub"])
    /\ lock = "cli" => cli.cmd # "none"
    /\ hub.driver # NoRun => hub.up

\* The last of the operations gives the lock back.
LEMMA UnlocksGives == ASSUME NEW s \in Seq(OpSet), Unlocks(s) PROVE GivesBack(s)
BY NoOps DEF Unlocks, GivesBack

\* A hub with nothing to do has no lock to give back.
LEMMA ReadyGives == ASSUME Ready PROVE ~GivesBack(todo["hub"])
BY NoOps DEF Ready, GivesBack

\* Another part of the hub's memory: driver and whether it is up stay.
LEMMA HubParts ==
    ASSUME hub \in Hubs
    PROVE  /\ \A r \in Runs, x \in Rts : /\ [hub EXCEPT !.rts[r] = x].driver = hub.driver
                                         /\ [hub EXCEPT !.rts[r] = x].up = hub.up
           /\ \A r \in Runs, x \in Rts, m \in Copies :
                 /\ [hub EXCEPT !.driver = r, !.mem = m, !.rts[r] = x].driver = r
                 /\ [hub EXCEPT !.driver = r, !.mem = m, !.rts[r] = x].up = hub.up
           /\ Off.driver = NoRun
BY DEF Hubs, Off

\* A file operation keeps the lock invariant.
LEMMA LockWrite ==
    ASSUME HubTypes, LockInv, NEW p \in Procs, Write(p)
    PROVE  LockInv'
<1> DEFINE o == todo[p][1]
<1>1. /\ lock' = IF o.f = "dropLock" \/ (o.f = "unlock" /\ lock = p) THEN "none" ELSE lock
      /\ hub' = hub /\ cli' = cli
  BY WriteOther
<1>2. /\ todo' \in [Procs -> Seq(OpSet)] /\ Len(todo[p]) \in Nat /\ Len(todo'[p]) = Len(todo[p]) - 1
      /\ \A i \in 1 .. Len(todo'[p]) : todo'[p][i] = todo[p][i + 1]
      /\ \A q \in Procs : q # p => todo'[q] = todo[q]
  BY RestIs
<1>3. ASSUME lock' = "hub", hub'.driver = NoRun PROVE GivesBack(todo["hub"])'
  <2>1. lock = "hub" /\ hub.driver = NoRun
    BY <1>1, <1>3
  <2>2. PICK i \in 1 .. Len(todo["hub"]) : todo["hub"][i].f = "unlock"
    BY <2>1 DEF LockInv, GivesBack
  <2>3. CASE p # "hub"
    BY <1>2, <2>2, <2>3 DEF GivesBack, Procs
  <2>4. CASE p = "hub"
    <3>1. i # 1
      BY <1>1, <1>3, <2>1, <2>2, <2>4
    <3>4. i - 1 \in 1 .. Len(todo'["hub"]) /\ (i - 1) + 1 = i
      BY <1>2, <2>4, <3>1
    <3>2. i - 1 \in 1 .. Len(todo'["hub"]) /\ todo'["hub"][i - 1] = todo["hub"][(i - 1) + 1]
          /\ (i - 1) + 1 = i
      BY <1>2, <2>4, <3>4
    <3>3. todo'["hub"][i - 1].f = "unlock"
      BY <2>2, <3>2
    <3> QED BY <3>2, <3>3 DEF GivesBack
  <2> QED BY <2>3, <2>4
<1> QED BY <1>1, <1>3 DEF LockInv

\* A step of the command line keeps it.
LEMMA LockCli ==
    ASSUME HubTypes, LockInv,
           \/ \E k \in Kinds : CliEdit(k)
           \/ \E r \in Runs : CliNewRun(r)
           \/ CliArchive \/ CliRun \/ CliRunSaves \/ CliExits \/ CliDies
    PROVE  LockInv'
<1>1. hub' = hub
  BY DEF CliEdit, CliNewRun, CliArchive, CliRun, CliRunSaves, CliExits, CliDies, Begins
<1>2. todo'["hub"] = todo["hub"]
  BY DEF HubTypes, CliEdit, CliNewRun, CliArchive, CliRun, CliRunSaves, CliExits, CliDies, Begins, Dies, Procs
<1>3. lock' # "none" => lock' = lock \/ (lock' = "cli" /\ cli'.cmd # "none")
  BY DEF CliEdit, CliNewRun, CliArchive, CliRun, CliRunSaves, CliExits, CliDies, Begins, Dies
<1>4. lock' = "cli" => cli'.cmd # "none"
  <2>1. CASE \E k \in Kinds : CliEdit(k)
    BY <2>1 DEF CliEdit, Begins
  <2>2. CASE \E r \in Runs : CliNewRun(r)
    BY <2>2 DEF CliNewRun, Begins
  <2>3. CASE CliArchive
    BY <2>3 DEF CliArchive, Begins
  <2>4. CASE CliRun
    BY <2>4 DEF CliRun, Begins
  <2>5. CASE CliRunSaves
    BY <2>5 DEF CliRunSaves, HubTypes, Clis
  <2>6. CASE CliExits
    BY <2>6 DEF CliExits
  <2>7. CASE CliDies
    BY <2>7 DEF CliDies, Dies
  <2> QED BY <2>1, <2>2, <2>3, <2>4, <2>5, <2>6, <2>7
<1>5. lock' = "hub" => lock = "hub"
  BY <1>3
<1> QED BY <1>1, <1>2, <1>4, <1>5 DEF LockInv, GivesBack

\* A step of the hub keeps it.
LEMMA LockHub ==
    ASSUME HubTypes, LockInv, HubStep
    PROVE  LockInv'
<1>1. hub \in Hubs /\ Off.driver = NoRun /\ todo \in [Procs -> Seq(OpSet)]
  BY HubParts DEF HubTypes
<1>2. CASE Boot
  BY <1>1, <1>2 DEF Boot, LockInv, GivesBack, Off
<1>3. CASE Shutdown
  <2>1. lock # "hub"
    BY <1>3, ReadyGives DEF Shutdown, LockInv
  <2> QED BY <1>1, <1>3, <2>1 DEF Shutdown, LockInv
<1>4. CASE HubDies
  BY <1>1, <1>4 DEF HubDies, Dies, LockInv
<1>5. ASSUME NEW r \in Runs, NEW kind \in {"mark", "set"}, Mutates(r, "slot", kind),
             hub'.driver = hub.driver, hub'.up = hub.up
      PROVE  LockInv'
  <2>1. CASE ~Loads(slot)
    BY <1>5, <2>1, MutatesIs DEF LockInv
  <2>2. CASE Loads(slot)
    <3>1. PICK s \in Seq(OpSet) : todo' = [todo EXCEPT !["hub"] = s] /\ Unlocks(s)
      BY <1>5, <2>2, MutatesIs
    <3>2. lock' = "hub"
      BY <1>5, <2>2, MutatesIs
    <3>3. todo'["hub"] = s
      BY <1>1, <3>1 DEF Procs
    <3> QED BY <1>5, <3>1, <3>2, <3>3, UnlocksGives DEF LockInv
  <2> QED BY <2>1, <2>2
<1>6. CASE AnswerOnDisk
  <2>1. hub.req.run \in Runs /\ Mutates(hub.req.run, "slot", "mark")
    BY <1>6, RequestAtSlot DEF AnswerOnDisk
  <2>2. hub'.driver = hub.driver /\ hub'.up = hub.up
    BY <1>1, <1>6 DEF AnswerOnDisk, Hubs
  <2> QED BY <1>5, <2>1, <2>2
<1>7. CASE AnswerRefused
  <2>1. hub'.driver = hub.driver /\ hub'.up = hub.up
    BY <1>1, <1>7 DEF AnswerRefused, Hubs
  <2> QED BY <1>7, <2>1 DEF AnswerRefused, LockInv, GivesBack
<1>8. ASSUME Ready, hub'.driver = hub.driver, hub'.up = hub.up, lock' = lock, cli' = cli
      PROVE  LockInv'
  BY <1>8, ReadyGives DEF LockInv
<1>9. CASE AnswerInMemory
  <2>1. hub'.driver = hub.driver /\ hub'.up = hub.up
    BY <1>1, <1>9 DEF AnswerInMemory, Hubs
  <2> QED BY <1>8, <1>9, <2>1 DEF AnswerInMemory
<1>10. CASE RunnerSaves
  <2>1. hub'.driver = hub.driver /\ hub'.up = hub.up
    BY <1>1, <1>10 DEF RunnerSaves, Hubs
  <2> QED BY <1>8, <1>10, <2>1 DEF RunnerSaves
<1>11. CASE RunnerEnds
  <2>1. todo'["hub"] = Unlock
    BY <1>1, <1>11 DEF RunnerEnds, Procs
  <2>2. GivesBack(Unlock)
    BY DEF GivesBack, Unlock, Op
  <2>3. hub'.driver = NoRun
    BY <1>1, <1>11 DEF RunnerEnds, Hubs
  <2> QED BY <1>11, <2>1, <2>2, <2>3 DEF RunnerEnds, LockInv
<1>12. ASSUME NEW r \in Runs, Look(r) PROVE LockInv'
  <2>1. hub'.driver = hub.driver /\ hub'.up = hub.up
    BY <1>1, <1>12, RtIs, HubParts DEF Look
  <2> QED BY <1>12, <2>1 DEF Look, LockInv, GivesBack
<1>13. ASSUME NEW r \in Runs, Settings(r) PROVE LockInv'
  <2>1. Mutates(r, "slot", "set")
    BY <1>13, OnSlot DEF Settings
  <2>2. hub'.driver = hub.driver /\ hub'.up = hub.up
    BY <1>1, <1>13, RtIs, HubParts DEF Settings
  <2> QED BY <1>5, <2>1, <2>2
<1>14. ASSUME NEW r \in Runs, Start(r) PROVE LockInv'
  <2>1. Rt(r) \in Rts /\ Ready /\ cli' = cli /\ lock # "cli"
    BY <1>14, RtIs, StartIs
  <2> DEFINE x == [Rt(r) EXCEPT !.live = TRUE, !.starting = TRUE]
  <2>2. x \in Rts
    BY <2>1 DEF Rts
  <2> HIDE DEF x
  <2>3. CASE \E c \in Copies : hub' = [hub EXCEPT !.driver = r, !.mem = c, !.rts[r] = x]
    <3>1. hub'.driver = r /\ hub'.up = hub.up
      BY <1>1, <2>2, <2>3, HubParts
    <3>2. lock' \in {"none", "hub"} /\ hub.up /\ r # NoRun
      BY <1>14, <2>1, StartIs, Constants DEF Ready
    <3> QED BY <3>1, <3>2 DEF LockInv
  <2>4. CASE hub' = [hub EXCEPT !.rts[r] = Rt(r)] /\ lock' = "none"
    <3>1. hub'.driver = hub.driver /\ hub'.up = hub.up
      BY <1>1, <2>1, <2>4, HubParts
    <3> QED BY <2>4, <3>1 DEF LockInv
  <2>5. CASE /\ hub' = [hub EXCEPT !.rts[r] = Rt(r)] /\ lock' = "hub"
             /\ \E s \in Seq(OpSet) : todo' = [todo EXCEPT !["hub"] = s] /\ Unlocks(s)
    <3>1. hub'.driver = hub.driver /\ hub'.up = hub.up
      BY <1>1, <2>1, <2>5, HubParts
    <3>2. PICK s \in Seq(OpSet) : todo' = [todo EXCEPT !["hub"] = s] /\ Unlocks(s)
      BY <2>5
    <3>3. todo'["hub"] = s
      BY <1>1, <3>2 DEF Procs
    <3> QED BY <2>5, <3>1, <3>2, <3>3, UnlocksGives DEF LockInv
  <2> QED BY <1>14, <2>3, <2>4, <2>5, StartIs DEF x
<1>15. ASSUME NEW r \in Runs, Started(r) PROVE LockInv'
  <2>1. hub'.driver = hub.driver /\ hub'.up = hub.up
    BY <1>1, <1>15 DEF Started, Hubs
  <2> QED BY <1>8, <1>15, <2>1 DEF Started
<1>16. ASSUME NEW r \in Runs, Archive(r) PROVE LockInv'
  <2>1. hub'.driver = hub.driver /\ hub'.up = hub.up
    BY <1>1, <1>16 DEF Archive, Hubs
  <2> QED BY <1>8, <1>16, <2>1 DEF Archive, Serves
<1>17. ASSUME NEW r \in Runs, NewRun(r) PROVE LockInv'
  <2>1. hub'.driver = hub.driver /\ hub'.up = hub.up
    BY <1>1, <1>17 DEF NewRun, Hubs
  <2> QED BY <1>8, <1>17, <2>1 DEF NewRun
<1>18. ASSUME NEW r \in Runs, NEW k \in {"retry", "task"}, Ask(r, k) PROVE LockInv'
  <2>1. hub'.driver = hub.driver /\ hub'.up = hub.up
    BY <1>1, <1>18 DEF Ask, Hubs
  <2> QED BY <1>8, <1>18, <2>1 DEF Ask, Serves
<1> QED
  BY <1>2, <1>3, <1>4, <1>6, <1>7, <1>9, <1>10, <1>11, <1>12, <1>13, <1>14, <1>15, <1>16, <1>17, <1>18
  DEF HubStep

\* Every step keeps the lock invariant.
LEMMA LockStep == HubTypes /\ LockInv /\ [Next]_vars => LockInv'
<1> SUFFICES ASSUME HubTypes, LockInv, [Next]_vars PROVE LockInv'
  OBVIOUS
<1>1. CASE Next
  BY <1>1, NextIs, LockWrite, LockCli, LockHub
<1>2. CASE UNCHANGED vars
  BY <1>2 DEF vars, LockInv, GivesBack
<1> QED BY <1>1, <1>2

\* Nothing is locked at the start.
LEMMA LockInit == Init => LockInv
BY DEF Init, LockInv, Off

\* The lock file is never left behind: while it names the hub, the hub drives a
\* run or has work to do that ends in giving it back, and while it names the
\* command line a command runs, whoever dies, whatever the two do to each other.
THEOREM LockIsFreed == Spec => []LockFreed
<1>1. HubTypes /\ LockInv => LockFreed
  <2>1. GivesBack(todo["hub"]) => todo["hub"] # <<>>
    BY NoOps DEF GivesBack
  <2> QED BY <2>1 DEF LockInv, LockFreed
<1> QED BY <1>1, LockInit, LockStep, HubTyped, PTL DEF Spec

-----------------------------------------------------------------------------
(* Archived runs are history.                                              *)

Shifts == {"mvDef", "mvDir"}
MoveFree(s) == \A i \in 1 .. Len(s) : s[i].f \notin Shifts

\* What a step does to the operations that move: one file operation is done,
\* none is added, or a move is decided on while there is nothing else to do.
Decides ==
    /\ arch' = arch
    /\ \E p \in Procs : Moves(todo'[p]) /\ \A q \in Procs : q # p => todo'[q] = <<>>
Leaves == arch' = arch /\ \A p \in Procs : todo'[p] = todo[p] \/ MoveFree(todo'[p])

\* The operations of an edit move nothing.
LEMMA EditingFree ==
    /\ \A s : Editing(s) => MoveFree(s)
    /\ \A s : (\A i \in 1 .. Len(s) : s[i].f \in Saves \cup {"ack"}) => MoveFree(s)
    /\ MoveFree(<<>>) /\ MoveFree(Unlock)
<1>1. \A s : Editing(s) => MoveFree(s)
  BY DEF Editing, MoveFree, Shifts, Saves
<1>2. \A s : (\A i \in 1 .. Len(s) : s[i].f \in Saves \cup {"ack"}) => MoveFree(s)
  BY DEF MoveFree, Shifts, Saves
<1>3. MoveFree(<<>>)
  BY DEF MoveFree
<1>4. MoveFree(Unlock)
  BY DEF MoveFree, Shifts, Unlock, Op
<1> QED BY <1>1, <1>2, <1>3, <1>4

\* What the command line does to the moves.
LEMMA CliMoves ==
    ASSUME HubTypes, "unlocked" \notin Habits,
           \/ \E k \in Kinds : CliEdit(k)
           \/ \E r \in Runs : CliNewRun(r)
           \/ CliArchive \/ CliRun \/ CliRunSaves \/ CliExits \/ CliDies
    PROVE  Decides \/ Leaves
<1>1. /\ past \in Pasts /\ slot \in Slots /\ NoCopy \in Copies /\ arch \in [Runs -> Archives]
      /\ todo \in [Procs -> Seq(OpSet)] /\ cli \in Clis
  BY Nothing DEF HubTypes
<1>2. ASSUME NEW s, todo' = [todo EXCEPT !["cli"] = s] PROVE todo'["cli"] = s /\ todo'["hub"] = todo["hub"]
  BY <1>1, <1>2 DEF Procs
<1>3. ASSUME NEW s, todo' = [todo EXCEPT !["cli"] = s], MoveFree(s), arch' = arch PROVE Leaves
  BY <1>2, <1>3 DEF Leaves, Procs
<1>4. ASSUME NEW s, todo' = [todo EXCEPT !["cli"] = s], Moves(s), MayBegin, arch' = arch PROVE Decides
  <2>1. todo["hub"] = <<>>
    BY <1>4 DEF MayBegin
  <2> QED BY <1>2, <1>4, <2>1 DEF Decides, Procs
<1>5. ASSUME NEW k \in Kinds, CliEdit(k) PROVE Leaves
  <2>1. Content(slot) \in Copies /\ Content(slot).def # NoDef /\ CanEdit
    BY <1>1, <1>5, ContentIs DEF CliEdit
  <2>2. MoveFree(Saving(Content(slot), k))
    BY <1>1, <2>1, SavingIs, EditingFree
  <2> QED BY <1>3, <1>5, <2>2 DEF CliEdit, Begins
<1>6. ASSUME NEW r \in Runs, CliNewRun(r) PROVE Decides
  BY <1>1, <1>4, <1>6, StartNewIs DEF CliNewRun, Begins
<1>7. ASSUME CliArchive PROVE Decides
  BY <1>1, <1>4, <1>7, ContentIs, ArchivingIs DEF CliArchive, Begins
<1>8. ASSUME CliRun PROVE Leaves
  BY <1>3, <1>8, EditingFree DEF CliRun, Begins
<1>9. ASSUME CliRunSaves PROVE Leaves
  <2>1. MoveFree(Saving(cli.mem, "mark"))
    BY <1>1, <1>9, SavingIs, EditingFree DEF CliRunSaves, Clis, Kinds
  <2> QED BY <1>3, <1>9, <2>1 DEF CliRunSaves
<1>10. ASSUME CliExits PROVE Leaves
  BY <1>10 DEF CliExits, Leaves
<1>11. ASSUME CliDies PROVE Leaves
  BY <1>3, <1>11, EditingFree DEF CliDies, Dies
<1> QED BY <1>5, <1>6, <1>7, <1>8, <1>9, <1>10, <1>11

\* What the hub does to the moves.
LEMMA HubMoves ==
    ASSUME HubTypes, "unlocked" \notin Habits, HubStep
    PROVE  Decides \/ Leaves
<1>1. /\ past \in Pasts /\ slot \in Slots /\ arch \in [Runs -> Archives]
      /\ todo \in [Procs -> Seq(OpSet)] /\ hub.mem \in Copies
  BY DEF HubTypes, Hubs
<1>2. ASSUME NEW s, todo' = [todo EXCEPT !["hub"] = s] PROVE todo'["hub"] = s /\ todo'["cli"] = todo["cli"]
  BY <1>1, <1>2 DEF Procs
<1>3. ASSUME NEW s, todo' = [todo EXCEPT !["hub"] = s], MoveFree(s), arch' = arch PROVE Leaves
  BY <1>2, <1>3 DEF Leaves, Procs
<1>4. ASSUME NEW s, todo' = [todo EXCEPT !["hub"] = s], Moves(s), Undisturbed, arch' = arch PROVE Decides
  <2>1. todo["cli"] = <<>>
    BY <1>4 DEF Undisturbed, Idle
  <2> QED BY <1>2, <1>4, <2>1 DEF Decides, Procs
<1>5. ASSUME todo' = todo, arch' = arch PROVE Leaves
  BY <1>5 DEF Leaves
<1>6. CASE Boot \/ Shutdown \/ AnswerRefused \/ (\E r \in Runs : Look(r) \/ Started(r))
           \/ (\E r \in Runs, k \in {"retry", "task"} : Ask(r, k))
  BY <1>5, <1>6 DEF Boot, Shutdown, AnswerRefused, Look, Started, Ask
<1>7. CASE HubDies
  BY <1>3, <1>7, EditingFree DEF HubDies, Dies
<1>8. ASSUME NEW r \in Runs, NEW kind \in {"mark", "set"}, Mutates(r, "slot", kind) PROVE Leaves
  <2>1. arch' = arch
    BY <1>8, MutatesIs
  <2>2. todo' = todo \/ \E s \in Seq(OpSet) : todo' = [todo EXCEPT !["hub"] = s] /\ Editing(s)
    BY <1>8, MutatesIs
  <2> QED BY <1>3, <1>5, <2>1, <2>2, EditingFree
<1>9. CASE AnswerOnDisk
  BY <1>8, <1>9, RequestAtSlot DEF AnswerOnDisk
<1>10. CASE AnswerInMemory \/ RunnerSaves
  <2>1. CanEdit /\ arch' = arch /\ todo' = [todo EXCEPT !["hub"] = Saving(hub.mem, "mark")]
    BY <1>10 DEF AnswerInMemory, RunnerSaves
  <2>2. MoveFree(Saving(hub.mem, "mark"))
    BY <1>1, <2>1, SavingIs, EditingFree DEF Kinds
  <2> QED BY <1>3, <2>1, <2>2
<1>11. CASE RunnerEnds
  BY <1>3, <1>11, EditingFree DEF RunnerEnds
<1>12. ASSUME NEW r \in Runs, Settings(r) PROVE Leaves
  BY <1>8, <1>12, OnSlot DEF Settings
<1>13. ASSUME NEW r \in Runs, Start(r) PROVE Leaves
  <2>1. arch' = arch
    BY <1>13, StartIs
  <2>2. todo' = todo
        \/ \E s \in Seq(OpSet) : /\ todo' = [todo EXCEPT !["hub"] = s]
                                 /\ Editing(s) \/ (\A i \in 1 .. Len(s) : s[i].f \in Saves \cup {"ack"})
    BY <1>13, StartIs
  <2> QED BY <1>3, <1>5, <2>1, <2>2, EditingFree
<1>14. ASSUME NEW r \in Runs, Archive(r) PROVE Decides \/ Leaves
  <2>1. CASE Archived(r)
    BY <1>3, <1>14, <2>1, EditingFree DEF Archive
  <2>2. CASE ~Archived(r)
    <3>1. Content(slot).def.run \in Runs
      BY <1>1, <1>14, <2>2, ContentIs DEF Archive
    <3>2. Moves(Move(Content(slot).def.run))
      BY <1>1, <3>1, ArchivingIs
    <3> QED BY <1>4, <1>14, <2>2, <3>2 DEF Archive
  <2> QED BY <2>1, <2>2
<1>15. ASSUME NEW r \in Runs, NewRun(r) PROVE Decides
  BY <1>1, <1>4, <1>15, StartNewIs DEF NewRun
<1> QED BY <1>6, <1>7, <1>9, <1>10, <1>11, <1>12, <1>13, <1>14, <1>15 DEF HubStep

\* An archive that is not made holds nothing; a file still to be moved to an
\* archive is not there, the archive is made or made first, and no other
\* operation moves such a file.
HistInv ==
    /\ \A r \in Runs : ~arch[r].dir => arch[r].files.def = NoDef /\ ~arch[r].files.st.there
    /\ \A p \in Procs : \A i \in 1 .. Len(todo[p]) : todo[p][i].f \in Shifts =>
          /\ todo[p][i].v \in Runs
          /\ todo[p][i].f = "mvDef" => arch[todo[p][i].v].files.def = NoDef
          /\ todo[p][i].f = "mvDir" => ~arch[todo[p][i].v].files.st.there
          /\ \/ arch[todo[p][i].v].dir
             \/ \E j \in 1 .. Len(todo[p]) : j < i /\ todo[p][j].f = "mkdir" /\ todo[p][j].v = todo[p][i].v
    /\ \A p, q \in Procs : \A i \in 1 .. Len(todo[p]), j \in 1 .. Len(todo[q]) :
          todo[p][i].f \in Shifts /\ todo[q][j].f = todo[p][i].f => p = q /\ i = j

\* What is kept of an archive.
Keeps ==
    \A r \in Runs :
        /\ arch[r].files.def # NoDef => arch'[r].files.def = arch[r].files.def
        /\ arch[r].files.st.there => arch'[r].files.st = arch[r].files.st

\* Nothing is decided on at the start.
LEMMA HistInit == Init => HistInv
<1> SUFFICES ASSUME Init PROVE HistInv
  OBVIOUS
<1>1. \A r \in Runs : arch[r].files.def = NoDef /\ ~arch[r].files.st.there
  BY DEF Init, NoArchive, Empty, NoSt
<1>2. \A p \in Procs : todo[p] = <<>> /\ Len(todo[p]) = 0
  BY NoOps DEF Init
<1>3. \A p \in Procs : ~\E i \in 1 .. Len(todo[p]) : TRUE
  BY <1>2
<1> QED BY <1>1, <1>3 DEF HistInv

\* Steps that add no move, or add one when there is nothing else to do.
LEMMA HistDecided ==
    ASSUME HubTypes, HistInv, Decides \/ Leaves
    PROVE  HistInv' /\ Keeps
<1>1. Keeps
  BY DEF Keeps, Decides, Leaves
<1>2. CASE Leaves
  <2>1. arch' = arch
    BY <1>2 DEF Leaves
  <2>2. \A p \in Procs : \A i \in 1 .. Len(todo'[p]) : todo'[p][i].f \in Shifts => todo'[p] = todo[p]
    BY <1>2 DEF Leaves, MoveFree
  <2>3. (\A r \in Runs : ~arch[r].dir => arch[r].files.def = NoDef /\ ~arch[r].files.st.there)'
    BY <2>1 DEF HistInv
  <2>4. ASSUME NEW p \in Procs, NEW i \in 1 .. Len(todo'[p]), todo'[p][i].f \in Shifts
        PROVE  /\ todo'[p][i].v \in Runs
               /\ todo'[p][i].f = "mvDef" => arch'[todo'[p][i].v].files.def = NoDef
               /\ todo'[p][i].f = "mvDir" => ~arch'[todo'[p][i].v].files.st.there
               /\ \/ arch'[todo'[p][i].v].dir
                  \/ \E j \in 1 .. Len(todo'[p]) : j < i /\ todo'[p][j].f = "mkdir" /\ todo'[p][j].v = todo'[p][i].v
    <3>1. todo'[p] = todo[p]
      BY <2>2, <2>4
    <3> QED BY <2>1, <2>4, <3>1 DEF HistInv
  <2>5. ASSUME NEW p \in Procs, NEW q \in Procs, NEW i \in 1 .. Len(todo'[p]), NEW j \in 1 .. Len(todo'[q]),
               todo'[p][i].f \in Shifts, todo'[q][j].f = todo'[p][i].f
        PROVE  p = q /\ i = j
    <3>1. todo'[p] = todo[p] /\ todo'[q] = todo[q]
      BY <2>2, <2>5
    <3> QED BY <2>5, <3>1 DEF HistInv
  <2> QED BY <1>1, <2>3, <2>4, <2>5 DEF HistInv
<1>3. CASE Decides
  <2>1. PICK p \in Procs : Moves(todo'[p]) /\ \A q \in Procs : q # p => todo'[q] = <<>>
    BY <1>3 DEF Decides
  <2>2. arch' = arch
    BY <1>3 DEF Decides
  <2>3. \A q \in Procs : \A i \in 1 .. Len(todo'[q]) : q = p
    BY <2>1, NoOps
  <2>4. (\A r \in Runs : ~arch[r].dir => arch[r].files.def = NoDef /\ ~arch[r].files.st.there)'
    BY <2>2 DEF HistInv
  <2>5. ASSUME NEW q \in Procs, NEW i \in 1 .. Len(todo'[q]), todo'[q][i].f \in Shifts
        PROVE  /\ todo'[q][i].v \in Runs
               /\ todo'[q][i].f = "mvDef" => arch'[todo'[q][i].v].files.def = NoDef
               /\ todo'[q][i].f = "mvDir" => ~arch'[todo'[q][i].v].files.st.there
               /\ \E j \in 1 .. Len(todo'[q]) : j < i /\ todo'[q][j].f = "mkdir" /\ todo'[q][j].v = todo'[q][i].v
    <3>1. q = p
      BY <2>3
    <3> DEFINE s == todo'[p]
    <3>2. /\ s[i].v \in Runs /\ ~arch[s[i].v].dir /\ i \in 1 .. Len(s)
          /\ \E j \in 1 .. Len(s) : j < i /\ s[j].f = "mkdir" /\ s[j].v = s[i].v
      BY <2>1, <2>5, <3>1 DEF Moves, Shifts
    <3> HIDE DEF s
    <3>3. arch[s[i].v].files.def = NoDef /\ ~arch[s[i].v].files.st.there
      BY <3>2 DEF HistInv
    <3> QED BY <2>2, <3>1, <3>2, <3>3 DEF s
  <2>6. ASSUME NEW q \in Procs, NEW t \in Procs, NEW i \in 1 .. Len(todo'[q]), NEW j \in 1 .. Len(todo'[t]),
               todo'[q][i].f \in Shifts, todo'[t][j].f = todo'[q][i].f
        PROVE  q = t /\ i = j
    <3>1. q = p /\ t = p
      BY <2>3
    <3> QED BY <2>1, <2>6, <3>1 DEF Moves, Shifts
  <2> QED BY <1>1, <2>4, <2>5, <2>6 DEF HistInv
<1> QED BY <1>2, <1>3

\* An archive after one file operation.
LEMMA ArchAfter ==
    ASSUME HubTypes, NEW p \in Procs, Write(p), NEW r \in Runs
    PROVE  LET o == todo[p][1]
           IN  /\ arch[r].dir => arch'[r].dir
               /\ o.f = "mkdir" /\ o.v = r => arch'[r].dir
               /\ ~(o.f = "mvDef" /\ o.v = r) => arch'[r].files.def = arch[r].files.def
               /\ ~(o.f = "mvDir" /\ o.v = r) => arch'[r].files.st = arch[r].files.st
               /\ o.f # "mkdir" \/ o.v # r => arch'[r].dir = arch[r].dir
<1> DEFINE o == todo[p][1]
<1>1. arch \in [Runs -> Archives] /\ arch[r].files \in Slots /\ arch[r] \in Archives
  BY DEF HubTypes, Archives
<1>2. o \in OpSet /\ (o.f \in {"mkdir", "mvDef", "mvDir", "mvBak"} => o.v \in Runs)
  BY RestIs, OpIs
<1>3. CASE o.f \notin {"mkdir", "mvDef", "mvDir", "mvBak"}
  BY <1>3, WriteArch
<1>4. CASE o.f = "mkdir"
  <2> DEFINE a == [arch[o.v] EXCEPT !.dir = TRUE]
  <2>1. arch' = [arch EXCEPT ![o.v] = a]
    BY <1>4, WriteArch
  <2>2. o.v \in Runs /\ arch[o.v] \in Archives
    BY <1>1, <1>2, <1>4
  <2>3. a.dir /\ a.files = arch[o.v].files
    BY <2>2 DEF Archives
  <2> HIDE DEF a
  <2>4. arch'[r] = IF r = o.v THEN a ELSE arch[r]
    BY <1>1, <2>1, <2>2
  <2> QED BY <1>4, <2>3, <2>4
<1>5. CASE o.f = "mvDef"
  <2>1. arch' = [arch EXCEPT ![o.v].files.def = slot.def]
    BY <1>5, WriteArch
  <2> QED BY <1>1, <1>2, <1>5, <2>1 DEF Archives, Slots
<1>6. CASE o.f = "mvBak"
  <2>1. arch' = [arch EXCEPT ![o.v].files.defBak = slot.defBak]
    BY <1>6, WriteArch
  <2> QED BY <1>1, <1>2, <1>6, <2>1 DEF Archives, Slots
<1>7. CASE o.f = "mvDir"
  <2> DEFINE a == [arch EXCEPT ![o.v].files.st = slot.st]
  <2>1. arch' = [a EXCEPT ![o.v].files.stBak = slot.stBak]
    BY <1>7, WriteArch
  <2>2. /\ a \in [Runs -> Archives] /\ a[r].dir = arch[r].dir /\ a[r].files.def = arch[r].files.def
        /\ r # o.v => a[r] = arch[r]
    BY <1>1, <1>2, <1>7 DEF Archives, Slots, HubTypes
  <2> HIDE DEF a
  <2>3. arch'[r].dir = a[r].dir /\ arch'[r].files.def = a[r].files.def /\ (r # o.v => arch'[r] = a[r])
    BY <1>2, <1>7, <2>1, <2>2 DEF Archives, Slots
  <2> QED BY <1>7, <2>2, <2>3
<1> QED BY <1>3, <1>4, <1>5, <1>6, <1>7

\* One file operation keeps the history.
LEMMA HistWrite ==
    ASSUME HubTypes, HistInv, NEW p \in Procs, Write(p)
    PROVE  HistInv' /\ Keeps
<1> DEFINE o == todo[p][1]
<1>1. /\ 1 \in 1 .. Len(todo[p]) /\ Len(todo[p]) \in Nat /\ Len(todo'[p]) = Len(todo[p]) - 1
      /\ \A i \in 1 .. Len(todo'[p]) : todo'[p][i] = todo[p][i + 1] /\ i + 1 \in 1 .. Len(todo[p])
      /\ \A q \in Procs : q # p => todo'[q] = todo[q]
  BY RestIs
<1>2. \A r \in Runs :
          /\ arch[r].dir => arch'[r].dir
          /\ o.f = "mkdir" /\ o.v = r => arch'[r].dir
          /\ ~(o.f = "mvDef" /\ o.v = r) => arch'[r].files.def = arch[r].files.def
          /\ ~(o.f = "mvDir" /\ o.v = r) => arch'[r].files.st = arch[r].files.st
          /\ o.f # "mkdir" \/ o.v # r => arch'[r].dir = arch[r].dir
  BY ArchAfter
<1>3. o.f \in Shifts =>
          /\ o.v \in Runs /\ arch[o.v].dir
          /\ o.f = "mvDef" => arch[o.v].files.def = NoDef
          /\ o.f = "mvDir" => ~arch[o.v].files.st.there
  <2>1. ~\E j \in 1 .. Len(todo[p]) : j < 1
    BY <1>1
  <2>2. o.f \in Shifts =>
          /\ o.v \in Runs
          /\ o.f = "mvDef" => arch[o.v].files.def = NoDef
          /\ o.f = "mvDir" => ~arch[o.v].files.st.there
          /\ \/ arch[o.v].dir
             \/ \E j \in 1 .. Len(todo[p]) : j < 1 /\ todo[p][j].f = "mkdir" /\ todo[p][j].v = o.v
    <3> HIDE DEF Shifts
    <3> QED BY <1>1 DEF HistInv
  <2> QED BY <2>1, <2>2
<1>4. Keeps
  BY <1>2, <1>3 DEF Keeps, Shifts
<1>5. ASSUME NEW r \in Runs, ~arch'[r].dir PROVE arch'[r].files.def = NoDef /\ ~arch'[r].files.st.there
  <2>1. ~arch[r].dir
    BY <1>2, <1>5
  <2>2. ~(o.f \in Shifts /\ o.v = r)
    BY <1>3, <2>1
  <2>3. arch[r].files.def = NoDef /\ ~arch[r].files.st.there
    BY <2>1 DEF HistInv
  <2> QED BY <1>2, <2>2, <2>3 DEF Shifts
<1>6. ASSUME NEW q \in Procs, NEW i \in 1 .. Len(todo'[q])
      PROVE  \E k \in 1 .. Len(todo[q]) :
                /\ todo'[q][i] = todo[q][k] /\ (q = p => k = i + 1) /\ (q # p => k = i)
  <2>1. CASE q = p
    BY <1>1, <2>1
  <2>2. CASE q # p
    BY <1>1, <2>2
  <2> QED BY <2>1, <2>2
<1>7. ASSUME NEW q \in Procs, NEW t \in Procs, NEW i \in 1 .. Len(todo'[q]), NEW j \in 1 .. Len(todo'[t]),
             todo'[q][i].f \in Shifts, todo'[t][j].f = todo'[q][i].f
      PROVE  q = t /\ i = j
  <2>1. PICK k \in 1 .. Len(todo[q]) :
            todo'[q][i] = todo[q][k] /\ (q = p => k = i + 1) /\ (q # p => k = i)
    BY <1>6
  <2>2. PICK m \in 1 .. Len(todo[t]) :
            todo'[t][j] = todo[t][m] /\ (t = p => m = j + 1) /\ (t # p => m = j)
    BY <1>6
  <2>3. q = t /\ k = m
    BY <1>7, <2>1, <2>2 DEF HistInv
  <2> QED BY <2>1, <2>2, <2>3
<1>8. ASSUME NEW q \in Procs, NEW i \in 1 .. Len(todo'[q]), todo'[q][i].f \in Shifts
      PROVE  /\ todo'[q][i].v \in Runs
             /\ todo'[q][i].f = "mvDef" => arch'[todo'[q][i].v].files.def = NoDef
             /\ todo'[q][i].f = "mvDir" => ~arch'[todo'[q][i].v].files.st.there
             /\ \/ arch'[todo'[q][i].v].dir
                \/ \E j \in 1 .. Len(todo'[q]) : j < i /\ todo'[q][j].f = "mkdir" /\ todo'[q][j].v = todo'[q][i].v
  <2>1. PICK k \in 1 .. Len(todo[q]) :
            todo'[q][i] = todo[q][k] /\ (q = p => k = i + 1) /\ (q # p => k = i)
    BY <1>6
  <2> DEFINE w == todo[q][k]
             r == w.v
  <2>2. /\ r \in Runs
        /\ w.f = "mvDef" => arch[r].files.def = NoDef
        /\ w.f = "mvDir" => ~arch[r].files.st.there
        /\ \/ arch[r].dir
           \/ \E j \in 1 .. Len(todo[q]) : j < k /\ todo[q][j].f = "mkdir" /\ todo[q][j].v = r
    BY <1>8, <2>1 DEF HistInv
  <2>3. ~(o.f = w.f)
    <3>1. ASSUME o.f = w.f PROVE FALSE
      <4>1. p = q /\ 1 = k
        BY <1>1, <1>8, <2>1, <3>1 DEF HistInv
      <4> QED BY <2>1, <4>1
    <3> QED BY <3>1
  <2>4. w.f = "mvDef" => arch'[r].files.def = NoDef
    BY <1>2, <2>2, <2>3
  <2>5. w.f = "mvDir" => ~arch'[r].files.st.there
    BY <1>2, <2>2, <2>3
  <2>6. arch'[r].dir \/ \E j \in 1 .. Len(todo'[q]) : j < i /\ todo'[q][j].f = "mkdir" /\ todo'[q][j].v = r
    <3>1. CASE arch[r].dir
      BY <1>2, <2>2, <3>1
    <3>2. ASSUME NEW j \in 1 .. Len(todo[q]), j < k, todo[q][j].f = "mkdir", todo[q][j].v = r
          PROVE  arch'[r].dir \/ \E l \in 1 .. Len(todo'[q]) : l < i /\ todo'[q][l].f = "mkdir" /\ todo'[q][l].v = r
      <4>1. CASE q # p
        BY <1>1, <2>1, <3>2, <4>1
      <4>2. CASE q = p /\ j = 1
        BY <1>2, <2>2, <3>2, <4>2
      <4>3. CASE q = p /\ j # 1
        <5>1. j - 1 \in 1 .. Len(todo'[q]) /\ (j - 1) + 1 = j /\ j - 1 < i
          BY <1>1, <2>1, <3>2, <4>3
        <5>2. todo'[q][j - 1] = todo[q][(j - 1) + 1]
          BY <1>1, <4>3, <5>1
        <5> QED BY <3>2, <5>1, <5>2
      <4> QED BY <4>1, <4>2, <4>3
    <3> QED BY <2>2, <3>1, <3>2
  <2> QED BY <2>1, <2>2, <2>4, <2>5, <2>6
<1> QED BY <1>4, <1>5, <1>7, <1>8 DEF HistInv

\* Every step keeps the history.
LEMMA HistStep ==
    "unlocked" \notin Habits /\ HubTypes /\ HistInv /\ [Next]_vars => HistInv' /\ Keeps
<1> SUFFICES ASSUME "unlocked" \notin Habits, HubTypes, HistInv, [Next]_vars PROVE HistInv' /\ Keeps
  OBVIOUS
<1>1. CASE Next
  <2>1. ASSUME NEW p \in Procs, Write(p) PROVE HistInv' /\ Keeps
    BY <2>1, HistWrite
  <2> QED BY <1>1, <2>1, NextIs, CliMoves, HubMoves, HistDecided
<1>2. CASE UNCHANGED vars
  <2>1. Leaves
    BY <1>2 DEF vars, Leaves
  <2> QED BY <2>1, HistDecided
<1> QED BY <1>1, <1>2

\* "Archived runs are read-only history": when the hub archives and makes runs
\* only while no command is running, no step changes or removes a file of an
\* archive that is there, whoever dies in the middle of archiving it.
THEOREM HistoryIsFixed == "unlocked" \notin Habits => (Spec => HistoryFixed)
<1> SUFFICES ASSUME "unlocked" \notin Habits PROVE Spec => HistoryFixed
  OBVIOUS
<1>1. HubTypes /\ HistInv /\ [Next]_vars => HistInv'
  BY HistStep
<1>2. HubTypes /\ HistInv /\ [Next]_vars
      => [\A r \in Runs :
          /\ arch[r].files.def # NoDef => arch'[r].files.def = arch[r].files.def
          /\ arch[r].files.st.there => arch'[r].files.st = arch[r].files.st]_vars
  BY HistStep DEF Keeps
<1> QED BY <1>1, <1>2, HistInit, HubTyped, PTL DEF Spec, HistoryFixed

-----------------------------------------------------------------------------
(* One runner owns one file.                                               *)

\* The command line: a run keeps the lock; nothing is done while the hub has
\* file operations to do; only the save of a new run is done without the lock,
\* and then no state is there to be loaded.
CliInv ==
    /\ cli.cmd = "run" => lock = "cli" /\ \A i \in 1 .. Len(todo["cli"]) : todo["cli"][i].f \in Saves \cup {"ack"}
    /\ todo["hub"] # <<>> => lock # "cli" /\ todo["cli"] = <<>>
    /\ \A i \in 1 .. Len(todo["cli"]) : todo["cli"][i].f # "unlock"
    /\ Drops(todo["cli"])
    /\ lock # "cli" /\ todo["cli"] # <<>> =>
          /\ Gone /\ StateLast(todo["cli"])
          /\ \A i \in 1 .. Len(todo["cli"]) : todo["cli"][i].f \in Saves

\* The hub's runner d holds the lock alone; the slot is d's, as is what is
\* still to be saved, and the runtime of d is live.
DefinitionSafe(s) == There(slot) \/ \E i \in 1 .. Len(s) : s[i].f = "putDef"
DriverInv ==
    hub.driver # NoRun =>
        /\ lock = "hub" /\ todo["cli"] = <<>>
        /\ hub.rts[hub.driver].at = "slot" /\ hub.rts[hub.driver].live
        /\ Content(slot).def.run = hub.driver /\ DefinitionSafe(todo["hub"])
        /\ Written(todo["hub"], hub.driver)
        /\ \A i \in 1 .. Len(todo["hub"]) : todo["hub"][i].f \in Saves \cup {"ack"}

\* A request was answered for memory exactly if there is a runner; only the
\* runner's runtime is live.
RequestInv ==
    /\ hub.req # NoReq => (hub.req.active <=> hub.driver # NoRun)
    /\ \A o \in Runs : hub.rts[o].live => hub.driver = o

\* With no state there is nothing to load.
LEMMA GoneIs == ASSUME Gone PROVE ~Loads(slot)
BY DEF Gone, Loads, Content, Read, NoSt

\* What is read after the definition is put aside or written.
LEMMA RunOfSlot ==
    ASSUME slot \in Slots
    PROVE  /\ There(slot) => Content(slot).def = slot.def
           /\ ~There(slot) => Content(slot).def = slot.defBak
BY DEF There, Content, Read

\* An operation that is not the first is still to do afterwards, one place earlier.
LEMMA Sooner ==
    ASSUME NEW s, NEW t, Len(s) \in Nat, Len(t) = Len(s) - 1,
           \A i \in 1 .. Len(t) : t[i] = s[i + 1],
           NEW k \in 1 .. Len(s), k # 1
    PROVE  k - 1 \in 1 .. Len(t) /\ t[k - 1] = s[k] /\ (\A i \in Int : k > i + 1 => k - 1 > i)
<1>1. k - 1 \in 1 .. Len(t) /\ (k - 1) + 1 = k /\ k \in Int
  OBVIOUS
<1>2. t[k - 1] = s[(k - 1) + 1]
  BY <1>1
<1> QED BY <1>1, <1>2

\* What is written of a definition stays written after one operation.
LEMMA WrittenLater ==
    ASSUME NEW s, NEW t, Len(s) \in Nat, Len(t) = Len(s) - 1,
           \A i \in 1 .. Len(t) : t[i] = s[i + 1] /\ i + 1 \in 1 .. Len(s),
           NEW r, Written(s, r)
    PROVE  Written(t, r)
<1>1. ASSUME NEW i \in 1 .. Len(t), t[i].f = "putDef" PROVE t[i].v.run = r
  <2>1. i + 1 \in 1 .. Len(s) /\ t[i] = s[i + 1]
    BY <1>1
  <2> QED BY <1>1, <2>1 DEF Written
<1>2. ASSUME NEW i \in 1 .. Len(t), t[i].f = "asideDef"
      PROVE  \E k \in 1 .. Len(t) : k > i /\ t[k].f = "putDef"
  <2>1. i + 1 \in 1 .. Len(s) /\ t[i] = s[i + 1] /\ i \in Int /\ i >= 1
    BY <1>2
  <2>2. PICK k \in 1 .. Len(s) : k > i + 1 /\ s[k].f = "putDef"
    BY <1>2, <2>1 DEF Written
  <2>3. k # 1
    BY <2>1, <2>2
  <2>4. k - 1 \in 1 .. Len(t) /\ t[k - 1] = s[k] /\ k - 1 > i
    BY <2>1, <2>2, <2>3, Sooner
  <2> QED BY <2>2, <2>4
<1> QED BY <1>1, <1>2 DEF Written

\* A file operation of the hub keeps the runner's invariant.
LEMMA DriverWriteHub ==
    ASSUME HubTypes, CliInv, DriverInv, Write("hub")
    PROVE  CliInv' /\ DriverInv'
<1> DEFINE o == todo["hub"][1]
           d == hub.driver
<1>1. /\ todo["hub"] # <<>> /\ 1 \in 1 .. Len(todo["hub"]) /\ o \in OpSet
      /\ Len(todo["hub"]) \in Nat /\ Len(todo'["hub"]) = Len(todo["hub"]) - 1
      /\ \A i \in 1 .. Len(todo'["hub"]) : todo'["hub"][i] = todo["hub"][i + 1] /\ i + 1 \in 1 .. Len(todo["hub"])
      /\ todo'["cli"] = todo["cli"]
  BY RestIs DEF Procs
<1>2. lock # "cli" /\ todo["cli"] = <<>>
  BY <1>1 DEF CliInv
<1>3. /\ lock' = IF o.f = "dropLock" \/ (o.f = "unlock" /\ lock = "hub") THEN "none" ELSE lock
      /\ hub' = hub /\ cli' = cli
  BY WriteOther DEF Procs
<1>4. todo'["cli"] = <<>> /\ Len(todo'["cli"]) = 0 /\ lock' # "cli" /\ cli'.cmd # "run"
  BY <1>1, <1>2, <1>3, NoOps DEF CliInv
<1>5. CliInv'
  <2>1. \A i \in 1 .. Len(todo'["cli"]) : FALSE
    BY <1>4
  <2> QED BY <1>4, <2>1 DEF CliInv, Drops
<1>6. ASSUME d # NoRun PROVE DriverInv'
  <2>1. /\ lock = "hub" /\ hub.rts[d].at = "slot" /\ hub.rts[d].live
        /\ Content(slot).def.run = d /\ DefinitionSafe(todo["hub"])
        /\ Written(todo["hub"], d)
        /\ \A i \in 1 .. Len(todo["hub"]) : todo["hub"][i].f \in Saves \cup {"ack"}
    BY <1>6 DEF DriverInv
  <2>2. o.f \in Saves \cup {"ack"} /\ lock' = "hub"
    BY <1>1, <1>3, <2>1 DEF Saves
  <2>3. Written(todo'["hub"], d)
    BY <1>1, <2>1, WrittenLater
  <2>4. \A i \in 1 .. Len(todo'["hub"]) : todo'["hub"][i].f \in Saves \cup {"ack"}
    BY <1>1, <2>1
  <2>5. slot \in Slots /\ slot' \in Slots
    BY WriteTypes DEF HubTypes, Procs
  <2>6. Content(slot)'.def.run = d
    <3>1. CASE o.f = "asideDef"
      <4>1. IF There(slot) THEN slot' = [slot EXCEPT !.defBak = slot.def, !.def = NoDef] ELSE slot' = slot
        BY <3>1, WriteSlot DEF Procs
      <4>2. CASE There(slot)
        <5>1. slot'.def = NoDef /\ slot'.defBak = slot.def
          BY <2>5, <4>1, <4>2 DEF Slots
        <5> QED BY <2>1, <4>2, <5>1 DEF Content, Read, There
      <4> QED BY <2>1, <4>1, <4>2
    <3>2. CASE o.f = "putDef"
      <4>1. slot'.def = o.v /\ o.v.run = d
        BY <1>1, <2>1, <2>5, <3>2, WriteSlot DEF Slots, Procs, Written
      <4>2. o.v # NoDef
        BY <1>6, <4>1 DEF NoDef
      <4> QED BY <4>1, <4>2 DEF Content, Read
    <3>3. CASE o.f \in {"asideSt", "putSt", "ack"}
      <4>1. slot'.def = slot.def /\ slot'.defBak = slot.defBak
        BY <2>5, <3>3, WriteSlot DEF Slots, Procs
      <4> QED BY <2>1, <4>1 DEF Content, Read
    <3> QED BY <2>2, <3>1, <3>2, <3>3 DEF Saves
  <2>7. DefinitionSafe(todo["hub"])'
    <3>1. CASE o.f = "asideDef"
      <4>1. PICK k \in 1 .. Len(todo["hub"]) : k > 1 /\ todo["hub"][k].f = "putDef"
        BY <1>1, <2>1, <3>1 DEF Written
      <4>2. k - 1 \in 1 .. Len(todo'["hub"]) /\ todo'["hub"][k - 1] = todo["hub"][k]
        BY <1>1, <4>1, Sooner
      <4> QED BY <4>1, <4>2 DEF DefinitionSafe
    <3>2. CASE o.f = "putDef"
      <4>1. slot'.def = o.v /\ o.v.run = d
        BY <1>1, <2>1, <2>5, <3>2, WriteSlot DEF Slots, Procs, Written
      <4>2. o.v # NoDef
        BY <1>6, <4>1 DEF NoDef
      <4> QED BY <4>1, <4>2 DEF DefinitionSafe, There
    <3>3. CASE o.f \in {"asideSt", "putSt", "ack"}
      <4>1. slot'.def = slot.def
        BY <2>5, <3>3, WriteSlot DEF Slots, Procs
      <4>2. CASE There(slot)
        BY <4>1, <4>2 DEF DefinitionSafe, There
      <4>3. CASE ~There(slot)
        <5>1. PICK k \in 1 .. Len(todo["hub"]) : todo["hub"][k].f = "putDef"
          BY <2>1, <4>3 DEF DefinitionSafe
        <5>2. k # 1
          BY <3>3, <5>1
        <5>3. k - 1 \in 1 .. Len(todo'["hub"]) /\ todo'["hub"][k - 1] = todo["hub"][k]
          BY <1>1, <5>1, <5>2, Sooner
        <5> QED BY <5>1, <5>3 DEF DefinitionSafe
      <4> QED BY <4>2, <4>3
    <3> QED BY <2>2, <3>1, <3>2, <3>3 DEF Saves
  <2> QED BY <1>3, <1>4, <2>1, <2>2, <2>3, <2>4, <2>6, <2>7 DEF DriverInv
<1>7. ASSUME d = NoRun PROVE DriverInv'
  BY <1>3, <1>7 DEF DriverInv
<1> QED BY <1>5, <1>6, <1>7

\* A file operation that does not write the state leaves it gone.
LEMMA StaysGone ==
    ASSUME HubTypes, NEW p \in Procs, Write(p), todo[p][1].f # "putSt",
           Gone \/ todo[p][1].f \in {"mvDir", "rmDir"}
    PROVE  Gone'
<1> DEFINE o == todo[p][1]
<1>1. slot \in Slots /\ o.f \in Plain \cup Moving \cup {"putDef", "putSt", "ack"}
  BY RestIs, OpIs DEF HubTypes
<1>2. CASE o.f \in {"mvDir", "rmDir"}
  BY <1>1, <1>2, WriteSlot DEF Gone, Slots
<1>3. CASE Gone /\ o.f = "asideDef"
  BY <1>1, <1>3, WriteSlot DEF Gone, Slots
<1>4. CASE Gone /\ o.f = "putDef"
  BY <1>1, <1>4, WriteSlot DEF Gone, Slots
<1>5. CASE Gone /\ o.f = "asideSt"
  <2>1. ~slot.st.there
    BY <1>5 DEF Gone, NoSt
  <2> QED BY <1>5, <2>1, WriteSlot DEF Gone
<1>6. CASE Gone /\ o.f \in {"mvDef", "rmDef"}
  BY <1>1, <1>6, WriteSlot DEF Gone, Slots
<1>7. CASE Gone /\ o.f = "mvBak"
  BY <1>1, <1>7, WriteSlot DEF Gone, Slots
<1>8. CASE Gone /\ o.f \in {"ack", "unlock", "dropLock", "mkdir"}
  BY <1>8, WriteSlot DEF Gone
<1> QED BY <1>1, <1>2, <1>3, <1>4, <1>5, <1>6, <1>7, <1>8 DEF Plain, Moving

\* A save that comes later is as far from the end when one operation is done.
LEMMA LastStays ==
    ASSUME NEW s, NEW t, Len(s) \in Nat, Len(t) = Len(s) - 1,
           \A i \in 1 .. Len(t) : t[i] = s[i + 1] /\ i + 1 \in 1 .. Len(s),
           NEW j \in 1 .. Len(t), s[j + 1].f \in Saves, s[j + 1].f = "putSt" => j + 1 = Len(s)
    PROVE  t[j].f \in Saves /\ (t[j].f = "putSt" => j = Len(t))
<1>1. t[j] = s[j + 1]
  OBVIOUS
<1>2. t[j].f \in Saves /\ (t[j].f = "putSt" => j + 1 = Len(s))
  BY <1>1, Zenon
<1>3. j + 1 = Len(s) => j = Len(t)
  OBVIOUS
<1> QED BY <1>2, <1>3, Zenon

\* A file operation of a command keeps the runner's invariant.
LEMMA DriverWriteCli ==
    ASSUME HubTypes, CliInv, DriverInv, Write("cli")
    PROVE  CliInv' /\ DriverInv'
<1> DEFINE s == todo["cli"]
           t == todo'["cli"]
           o == s[1]
<1>1. /\ s # <<>> /\ 1 \in 1 .. Len(s) /\ o \in OpSet /\ t \in Seq(OpSet)
      /\ Len(s) \in Nat /\ Len(t) = Len(s) - 1
      /\ \A i \in 1 .. Len(t) : t[i] = s[i + 1] /\ i + 1 \in 1 .. Len(s)
      /\ todo'["hub"] = todo["hub"]
  BY RestIs DEF Procs
<1>0. \A j \in 1 .. Len(t) : s[j + 1].f \in Saves /\ (s[j + 1].f = "putSt" => j + 1 = Len(s)) =>
          t[j].f \in Saves /\ (t[j].f = "putSt" => j = Len(t))
  BY <1>1, LastStays
<1>2. todo["hub"] = <<>> /\ hub.driver = NoRun
  BY <1>1 DEF CliInv, DriverInv
<1>3. /\ lock' = IF o.f = "dropLock" \/ (o.f = "unlock" /\ lock = "cli") THEN "none" ELSE lock
      /\ hub' = hub /\ cli' = cli
  BY WriteOther DEF Procs
<1>4. DriverInv'
  BY <1>2, <1>3 DEF DriverInv
<1>5. o.f # "unlock" /\ (\A i \in 1 .. Len(t) : t[i].f # "unlock") /\ todo'["hub"] = <<>>
  BY <1>1, <1>2 DEF CliInv
<1>6. cli'.cmd = "run" => lock' = "cli" /\ \A i \in 1 .. Len(t) : t[i].f \in Saves \cup {"ack"}
  <2>1. cli.cmd = "run" => lock = "cli" /\ \A i \in 1 .. Len(s) : s[i].f \in Saves \cup {"ack"}
    BY DEF CliInv
  <2>2. cli.cmd = "run" => o.f # "dropLock"
    BY <1>1, <2>1 DEF Saves
  <2> QED BY <1>1, <1>3, <1>5, <2>1, <2>2
<1>7. Drops(todo["cli"])'
  <2> SUFFICES ASSUME NEW i \in 1 .. Len(t), t[i].f = "dropLock"
               PROVE  /\ Gone' \/ \E j \in 1 .. Len(t) : j < i /\ t[j].f \in {"mvDir", "rmDir"}
                      /\ \A j \in 1 .. Len(t) : j > i => t[j].f \in Saves /\ (t[j].f = "putSt" => j = Len(t))
                      /\ \A j \in 1 .. Len(t) : j < i => t[j].f # "putSt"
    BY DEF Drops
  <2>1. i + 1 \in 1 .. Len(s) /\ s[i + 1].f = "dropLock"
    BY <1>1
  <2>2. /\ Gone \/ \E j \in 1 .. Len(s) : j < i + 1 /\ s[j].f \in {"mvDir", "rmDir"}
        /\ \A j \in 1 .. Len(s) : j > i + 1 => s[j].f \in Saves /\ (s[j].f = "putSt" => j = Len(s))
        /\ \A j \in 1 .. Len(s) : j < i + 1 => s[j].f # "putSt"
    BY <2>1 DEF CliInv, Drops
  <2>3. o.f # "putSt"
    BY <1>1, <2>1, <2>2
  <2>4. Gone' \/ \E j \in 1 .. Len(t) : j < i /\ t[j].f \in {"mvDir", "rmDir"}
    <3>1. CASE Gone \/ o.f \in {"mvDir", "rmDir"}
      BY <2>3, <3>1, StaysGone DEF Procs
    <3>2. ASSUME NEW j \in 1 .. Len(s), j < i + 1, s[j].f \in {"mvDir", "rmDir"}, j # 1
          PROVE  \E k \in 1 .. Len(t) : k < i /\ t[k].f \in {"mvDir", "rmDir"}
      <4>1. j - 1 \in 1 .. Len(t) /\ t[j - 1] = s[j] /\ j - 1 < i
        BY <1>1, <3>2, Sooner
      <4> QED BY <3>2, <4>1
    <3> QED BY <2>2, <3>1, <3>2
  <2>5. ASSUME NEW j \in 1 .. Len(t), j > i PROVE t[j].f \in Saves /\ (t[j].f = "putSt" => j = Len(t))
    <3>1. j + 1 \in 1 .. Len(s)
      BY <1>1
    <3>2. j + 1 > i + 1
      BY <2>5
    <3>3. s[j + 1].f \in Saves /\ (s[j + 1].f = "putSt" => j + 1 = Len(s))
      BY <2>2, <3>1, <3>2
    <3> QED BY <1>0, <3>3
  <2>6. ASSUME NEW j \in 1 .. Len(t), j < i PROVE t[j].f # "putSt"
    <3>1. t[j] = s[j + 1] /\ j + 1 \in 1 .. Len(s)
      BY <1>1
    <3>2. j + 1 < i + 1
      BY <2>6
    <3>3. s[j + 1].f # "putSt"
      BY <2>2, <3>1, <3>2
    <3> QED BY <3>1, <3>3, Zenon
  <2> QED BY <2>4, <2>5, <2>6
<1>8. ASSUME lock' # "cli", t # <<>>
      PROVE  Gone' /\ StateLast(t) /\ \A i \in 1 .. Len(t) : t[i].f \in Saves
  <2>1. Len(t) # 0
    <3>1. Len(t) = 0 => t = <<>>
      BY <1>1, EmptySeq
    <3> QED BY <1>8, <3>1
  <2>2. CASE lock = "cli"
    <3>1. o.f = "dropLock"
      BY <1>3, <1>5, <1>8, <2>2
    <3>2. /\ Gone \/ \E j \in 1 .. Len(s) : j < 1 /\ s[j].f \in {"mvDir", "rmDir"}
          /\ \A j \in 1 .. Len(s) : j > 1 => s[j].f \in Saves /\ (s[j].f = "putSt" => j = Len(s))
      BY <1>1, <3>1 DEF CliInv, Drops
    <3>3. Gone
      BY <3>2
    <3>4. Gone'
      BY <3>1, <3>3, StaysGone DEF Procs
    <3>5. ASSUME NEW i \in 1 .. Len(t) PROVE t[i].f \in Saves /\ (t[i].f = "putSt" => i = Len(t))
      <4>1. i + 1 \in 1 .. Len(s) /\ i + 1 > 1
        BY <1>1
      <4>2. s[i + 1].f \in Saves /\ (s[i + 1].f = "putSt" => i + 1 = Len(s))
        BY <3>2, <4>1
      <4> QED BY <1>0, <4>2
    <3> QED BY <3>4, <3>5 DEF StateLast
  <2>3. CASE lock # "cli"
    <3>1. Gone /\ (\A i \in 1 .. Len(s) : s[i].f \in Saves /\ (s[i].f = "putSt" => i = Len(s)))
      BY <1>1, <2>3 DEF CliInv, StateLast
    <3>2. o.f # "putSt"
      <4>1. 1 # Len(s)
        BY <1>1, <2>1
      <4> QED BY <1>1, <3>1, <4>1
    <3>3. Gone'
      BY <3>1, <3>2, StaysGone DEF Procs
    <3>4. ASSUME NEW i \in 1 .. Len(t) PROVE t[i].f \in Saves /\ (t[i].f = "putSt" => i = Len(t))
      <4>1. i + 1 \in 1 .. Len(s)
        BY <1>1
      <4>2. s[i + 1].f \in Saves /\ (s[i + 1].f = "putSt" => i + 1 = Len(s))
        BY <3>1, <4>1
      <4> QED BY <1>0, <4>2
    <3> QED BY <3>3, <3>4 DEF StateLast
  <2> QED BY <2>2, <2>3
<1>9. CliInv'
  <2> HIDE DEF o
  <2> QED BY <1>5, <1>6, <1>7, <1>8 DEF CliInv, StateLast
<1> QED BY <1>4, <1>9

Alone == CliInv /\ DriverInv /\ RequestInv

\* A command that begins finds no runner and nothing to do.
LEMMA AloneBegins ==
    ASSUME HubTypes, Alone, "unlocked" \notin Habits, NEW cmd, NEW c, NEW ops \in Seq(OpSet),
           Begins(cmd, c, ops), Drops(ops), \A i \in 1 .. Len(ops) : ops[i].f # "unlock",
           cmd = "run" => ops = <<>>
    PROVE  Alone'
<1>1. /\ lock = "none" /\ todo["hub"] = <<>> /\ lock' = "cli" /\ cli' = [cmd |-> cmd, mem |-> c]
      /\ todo' = [todo EXCEPT !["cli"] = ops] /\ slot' = slot /\ hub' = hub
  BY DEF Begins, MayBegin
<1>2. todo'["cli"] = ops /\ todo'["hub"] = <<>>
  BY <1>1 DEF HubTypes, Procs
<1>3. hub.driver = NoRun
  BY <1>1 DEF Alone, DriverInv
<1>4. Drops(todo["cli"])'
  BY <1>1, <1>2 DEF Drops, Gone
<1>5. CliInv'
  <2>1. cmd = "run" => \A i \in 1 .. Len(ops) : FALSE
    BY NoOps
  <2> QED BY <1>1, <1>2, <1>4, <2>1 DEF CliInv
<1>6. DriverInv' /\ RequestInv'
  BY <1>1, <1>3 DEF DriverInv, RequestInv, Alone
<1> QED BY <1>5, <1>6 DEF Alone

\* The command line keeps the runner alone.
LEMMA AloneCli ==
    ASSUME HubTypes, Alone, "unlocked" \notin Habits,
           \/ \E k \in Kinds : CliEdit(k)
           \/ \E r \in Runs : CliNewRun(r)
           \/ CliArchive \/ CliRun \/ CliRunSaves \/ CliExits \/ CliDies
    PROVE  Alone'
<1>1. /\ past \in Pasts /\ slot \in Slots /\ NoCopy \in Copies /\ arch \in [Runs -> Archives]
      /\ todo \in [Procs -> Seq(OpSet)] /\ cli \in Clis
  BY Nothing DEF HubTypes
<1>2. ASSUME NEW k \in Kinds, CliEdit(k) PROVE Alone'
  <2>1. Content(slot) \in Copies /\ Content(slot).def # NoDef /\ CanEdit
    BY <1>1, <1>2, ContentIs DEF CliEdit
  <2> DEFINE s == Saving(Content(slot), k)
  <2>2. s \in Seq(OpSet) /\ \A i \in 1 .. Len(s) : s[i].f \in Saves \cup {"ack"}
    BY <1>1, <2>1, SavingIs
  <2>3. Begins("edit", NoCopy, s)
    BY <1>2 DEF CliEdit
  <2> HIDE DEF s
  <2>4. Drops(s) /\ \A i \in 1 .. Len(s) : s[i].f # "unlock"
    BY <2>2, SavesOnly DEF Saves
  <2> QED BY <2>2, <2>3, <2>4, AloneBegins
<1>3. ASSUME NEW r \in Runs, CliNewRun(r) PROVE Alone'
  <2> DEFINE s == StartNew(r)
  <2>1. s \in Seq(OpSet) /\ Drops(s) /\ \A i \in 1 .. Len(s) : s[i].f # "unlock"
    BY <1>1, StartNewIs
  <2>2. Begins("new-run", NoCopy, s)
    BY <1>3 DEF CliNewRun
  <2> HIDE DEF s
  <2> QED BY <2>1, <2>2, AloneBegins
<1>4. ASSUME CliArchive PROVE Alone'
  <2> DEFINE r == Content(slot).def.run
             s == Move(r)
  <2>1. r \in Runs
    BY <1>1, <1>4, ContentIs DEF CliArchive
  <2>2. s \in Seq(OpSet) /\ Drops(s) /\ \A i \in 1 .. Len(s) : s[i].f # "unlock"
    BY <1>1, <2>1, MoveIs, ArchivingIs
  <2>3. Begins("archive", NoCopy, s)
    BY <1>4 DEF CliArchive
  <2> HIDE DEF s
  <2> QED BY <2>2, <2>3, AloneBegins
<1>5. ASSUME CliRun PROVE Alone'
  <2>1. <<>> \in Seq(OpSet) /\ Drops(<<>>) /\ \A i \in 1 .. Len(<<>>) : <<>>[i].f # "unlock"
    BY NoOps DEF Drops
  <2>2. Begins("run", Content(slot), <<>>)
    BY <1>5 DEF CliRun
  <2> QED BY <2>1, <2>2, AloneBegins
<1>6. ASSUME CliRunSaves PROVE Alone'
  <2>1. cli.mem \in Copies /\ CanEdit /\ cli.cmd = "run" /\ lock = "cli" /\ todo["hub"] = <<>>
    BY <1>1, <1>6 DEF CliRunSaves, Clis, Alone, CliInv
  <2> DEFINE s == Saving(cli.mem, "mark")
  <2>2. s \in Seq(OpSet) /\ \A i \in 1 .. Len(s) : s[i].f \in Saves \cup {"ack"}
    BY <1>1, <2>1, SavingIs DEF Kinds
  <2>3. todo' = [todo EXCEPT !["cli"] = s] /\ lock' = lock /\ slot' = slot /\ hub' = hub
    BY <1>6 DEF CliRunSaves
  <2> HIDE DEF s
  <2>4. todo'["cli"] = s /\ todo'["hub"] = <<>>
    BY <1>1, <2>1, <2>3 DEF Procs
  <2>5. Drops(s) /\ \A i \in 1 .. Len(s) : s[i].f # "unlock"
    BY <2>2, SavesOnly DEF Saves
  <2>6. Drops(todo["cli"])'
    BY <2>3, <2>4, <2>5 DEF Drops, Gone
  <2>7. CliInv'
    BY <2>1, <2>2, <2>3, <2>4, <2>5, <2>6 DEF CliInv
  <2>8. hub.driver = NoRun
    BY <2>1 DEF Alone, DriverInv
  <2> QED BY <2>3, <2>7, <2>8 DEF Alone, DriverInv, RequestInv
<1>7. ASSUME CliExits \/ CliDies PROVE Alone'
  <2>1. /\ cli'.cmd = "none" /\ lock' = (IF lock = "cli" THEN "none" ELSE lock)
        /\ slot' = slot /\ hub' = hub /\ todo'["cli"] = <<>> /\ todo'["hub"] = todo["hub"]
    BY <1>1, <1>7 DEF CliExits, CliDies, Dies, Procs
  <2>2. \A i \in 1 .. Len(todo'["cli"]) : FALSE
    BY <2>1, NoOps
  <2>3. CliInv'
    BY <2>1, <2>2 DEF CliInv, Drops, Alone
  <2>4. DriverInv'
    BY <2>1 DEF DriverInv, Alone, DefinitionSafe
  <2>5. RequestInv'
    BY <2>1 DEF RequestInv, Alone
  <2> QED BY <2>3, <2>4, <2>5 DEF Alone
<1> QED BY <1>2, <1>3, <1>4, <1>5, <1>6, <1>7

\* A request that is served while there is a runner is about the runner's run.
LEMMA ServesDriver ==
    ASSUME HubTypes, Alone, "alias" \notin Habits, NEW r \in Runs, Serves(r), ~Archived(r),
           hub.driver # NoRun
    PROVE  r = hub.driver /\ Running(r) /\ InProgress(r)
<1>1. Content(slot).def.run = r /\ There(slot)
  BY OnSlot DEF Serves, Archived
<1>2. r = hub.driver /\ hub.rts[r].at = "slot" /\ hub.rts[r].live
  BY <1>1 DEF Alone, DriverInv
<1>3. Rt(r) = hub.rts[r]
  BY <1>1, <1>2, RtIs
<1> QED BY <1>2, <1>3 DEF Running, InProgress

\* The runner's runtime is what is cached, when the hub has nothing to do.
LEMMA DriverRt ==
    ASSUME HubTypes, Alone, Ready, hub.driver # NoRun
    PROVE  There(slot) /\ Rt(hub.driver) = hub.rts[hub.driver] /\ hub.driver \in Runs
<1>1. ~\E i \in 1 .. Len(todo["hub"]) : TRUE
  BY NoOps DEF Ready
<1>2. There(slot)
  BY <1>1 DEF Alone, DriverInv, DefinitionSafe
<1>3. hub.driver \in Runs
  BY DEF HubTypes, Hubs
<1> QED BY <1>2, <1>3, RtIs DEF Alone, DriverInv

\* What the command line has to do does not depend on the hub's memory.
LEMMA CliSame ==
    ASSUME CliInv, slot' = slot, cli' = cli, todo'["cli"] = todo["cli"],
           todo'["hub"] = todo["hub"] \/ todo'["hub"] = <<>> \/ (lock' # "cli" /\ todo["cli"] = <<>>),
           lock' = lock \/ (lock # "cli" /\ lock' # "cli")
    PROVE  CliInv'
<1>1. Drops(todo["cli"])'
  BY DEF CliInv, Drops, Gone
<1>2. Gone' <=> Gone
  BY DEF Gone
<1>3. StateLast(todo["cli"])' <=> StateLast(todo["cli"])
  BY DEF StateLast
<1> QED BY <1>1, <1>2, <1>3 DEF CliInv

\* An edit by the hub: there is no runner.
LEMMA AloneMutates ==
    ASSUME HubTypes, Alone, NEW r \in Runs, NEW kind \in {"mark", "set"}, Mutates(r, "slot", kind),
           hub.driver = NoRun, hub'.driver = NoRun,
           RequestInv'
    PROVE  Alone'
<1>1. /\ lock # "cli" /\ slot' = slot /\ cli' = cli
      /\ \/ /\ Loads(slot) /\ lock' = "hub"
            /\ \E s \in Seq(OpSet) : todo' = [todo EXCEPT !["hub"] = s]
         \/ lock' = "none" /\ todo' = todo
  BY MutatesIs
<1>2. todo'["cli"] = todo["cli"] /\ lock' # "cli"
  BY <1>1 DEF HubTypes, Procs
<1>3. Loads(slot) => todo["cli"] = <<>>
  BY <1>1, GoneIs DEF Alone, CliInv
<1>4. CliInv'
  BY <1>1, <1>2, <1>3, CliSame DEF Alone
<1>5. DriverInv'
  BY DEF DriverInv
<1> QED BY <1>4, <1>5 DEF Alone

\* A save of the runner.
LEMMA AloneSaves ==
    ASSUME HubTypes, Alone, Ready, hub.driver # NoRun, CanEdit,
           todo' = [todo EXCEPT !["hub"] = Saving(hub.mem, "mark")],
           UNCHANGED <<slot, lock, cli>>, hub'.driver = hub.driver, hub'.rts = hub.rts
    PROVE  CliInv' /\ DriverInv'
<1>1. There(slot)
  BY DriverRt
<1>2. hub.mem \in Copies /\ past \in Pasts
  BY DEF HubTypes, Hubs
<1> DEFINE s == Saving(hub.mem, "mark")
<1>3. /\ \A i \in 1 .. Len(s) : s[i].f \in Saves \cup {"ack"}
      /\ \A i \in 1 .. Len(s) : s[i].f \notin {"asideDef", "putDef"}
  BY <1>2, SavingIs DEF Kinds
<1>4. todo'["hub"] = s /\ todo'["cli"] = todo["cli"]
  BY DEF HubTypes, Procs
<1> HIDE DEF s
<1>5. lock = "hub" /\ todo["cli"] = <<>>
  BY DEF Alone, DriverInv
<1>6. CliInv'
  BY <1>4, <1>5, CliSame DEF Alone
<1>7. Written(s, hub.driver)
  BY <1>3 DEF Written
<1>8. DriverInv'
  BY <1>1, <1>3, <1>4, <1>5, <1>7 DEF Alone, DriverInv, DefinitionSafe, There, Content, Read
<1> QED BY <1>6, <1>8

\* A step that only touches runtimes and requests.
LEMMA AloneSame ==
    ASSUME HubTypes, Alone, UNCHANGED <<slot, lock, cli, todo>>, hub'.driver = hub.driver,
           hub.driver # NoRun => /\ hub'.rts[hub.driver].at = "slot"
                                 /\ hub'.rts[hub.driver].live,
           RequestInv'
    PROVE  Alone'
<1>1. CliInv'
  BY CliSame DEF Alone
<1>2. DriverInv'
  BY DEF DriverInv, Alone, DefinitionSafe, There, Content, Read
<1> QED BY <1>1, <1>2 DEF Alone

\* One part of the hub's memory changed, and the others.
LEMMA HubFields ==
    ASSUME hub \in Hubs
    PROVE  /\ \A r \in Runs, x \in Rts :
                 LET h == [hub EXCEPT !.rts[r] = x]
                 IN  /\ h.req = hub.req /\ h.driver = hub.driver /\ h.rts[r] = x
                     /\ \A o \in Runs : o # r => h.rts[o] = hub.rts[o]
           /\ \A r \in Runs, x \in Rts, q \in Reqs :
                 LET h == [hub EXCEPT !.rts[r] = x, !.req = q]
                 IN  /\ h.req = q /\ h.driver = hub.driver /\ h.rts[r] = x
                     /\ \A o \in Runs : o # r => h.rts[o] = hub.rts[o]
           /\ \A r \in Runs, x \in Rts, m \in Copies :
                 LET h == [hub EXCEPT !.driver = r, !.mem = m, !.rts[r] = x]
                 IN  /\ h.req = hub.req /\ h.driver = r /\ h.rts[r] = x
                     /\ \A o \in Runs : o # r => h.rts[o] = hub.rts[o]
           /\ \A r \in Runs, x \in Rts, m \in Copies :
                 LET h == [hub EXCEPT !.driver = NoRun, !.rts[r] = x, !.mem = m]
                 IN  /\ h.req = hub.req /\ h.driver = NoRun /\ h.rts[r] = x
                     /\ \A o \in Runs : o # r => h.rts[o] = hub.rts[o]
<1>1. ASSUME NEW r \in Runs, NEW x \in Rts
      PROVE  LET h == [hub EXCEPT !.rts[r] = x]
             IN  /\ h.req = hub.req /\ h.driver = hub.driver /\ h.rts[r] = x
                 /\ \A o \in Runs : o # r => h.rts[o] = hub.rts[o]
  BY DEF Hubs
<1>2. ASSUME NEW r \in Runs, NEW x \in Rts, NEW q \in Reqs
      PROVE  LET h == [hub EXCEPT !.rts[r] = x, !.req = q]
             IN  /\ h.req = q /\ h.driver = hub.driver /\ h.rts[r] = x
                 /\ \A o \in Runs : o # r => h.rts[o] = hub.rts[o]
  BY DEF Hubs
<1>3. ASSUME NEW r \in Runs, NEW x \in Rts, NEW m \in Copies
      PROVE  LET h == [hub EXCEPT !.driver = r, !.mem = m, !.rts[r] = x]
             IN  /\ h.req = hub.req /\ h.driver = r /\ h.rts[r] = x
                 /\ \A o \in Runs : o # r => h.rts[o] = hub.rts[o]
  BY DEF Hubs
<1>4. ASSUME NEW r \in Runs, NEW x \in Rts, NEW m \in Copies
      PROVE  LET h == [hub EXCEPT !.driver = NoRun, !.rts[r] = x, !.mem = m]
             IN  /\ h.req = hub.req /\ h.driver = NoRun /\ h.rts[r] = x
                 /\ \A o \in Runs : o # r => h.rts[o] = hub.rts[o]
  BY DEF Hubs
<1> QED BY <1>1, <1>2, <1>3, <1>4

\* With nothing in the hub's memory there is no runner and no request.
LEMMA OffIs ==
    ASSUME hub'.driver = NoRun, hub'.req = NoReq, hub'.rts = [r \in Runs |-> NoRt]
    PROVE  RequestInv' /\ DriverInv'
BY DEF RequestInv, DriverInv, NoRt

\* The hub keeps its runner alone.
LEMMA AloneHub ==
    ASSUME HubTypes, LockInv, Alone, Habits = {}, HubStep
    PROVE  Alone'
<1>1. /\ hub \in Hubs /\ todo \in [Procs -> Seq(OpSet)] /\ slot \in Slots /\ past \in Pasts
      /\ hub.mem \in Copies /\ hub.rts \in [Runs -> Rts] /\ NoReq \in Reqs /\ NoRt \in Rts
      /\ arch \in [Runs -> Archives]
  BY Nothing DEF HubTypes, Hubs
<1>2. /\ "unlocked" \notin Habits /\ "alias" \notin Habits /\ "slow" \notin Habits
      /\ CliInv /\ DriverInv /\ RequestInv
  BY DEF Alone
<1>3. CASE Boot \/ Shutdown
  <2>1. hub'.driver = NoRun /\ hub'.req = NoReq /\ hub'.rts = [r \in Runs |-> NoRt]
    BY <1>3 DEF Boot, Shutdown, Off
  <2>2. CliInv'
    BY <1>2, <1>3, CliSame DEF Boot, Shutdown
  <2> QED BY <2>1, <2>2, OffIs DEF Alone
<1>4. CASE HubDies
  <2>1. hub'.driver = NoRun /\ hub'.req = NoReq /\ hub'.rts = [r \in Runs |-> NoRt]
    BY <1>4 DEF HubDies, Off
  <2>2. /\ todo'["hub"] = <<>> /\ todo'["cli"] = todo["cli"]
        /\ lock' = lock \/ (lock # "cli" /\ lock' # "cli")
    BY <1>1, <1>4 DEF HubDies, Dies, Procs
  <2>3. CliInv'
    BY <1>2, <1>4, <2>2, CliSame DEF HubDies, Dies
  <2> QED BY <2>1, <2>3, OffIs DEF Alone
<1>5. CASE AnswerOnDisk
  <2>1. hub.req.run \in Runs /\ Mutates(hub.req.run, "slot", "mark") /\ hub.driver = NoRun
    BY <1>2, <1>5, RequestAtSlot DEF AnswerOnDisk, RequestInv
  <2>2. hub'.driver = NoRun /\ hub'.req = NoReq /\ hub'.rts = hub.rts
    BY <1>1, <1>5, <2>1 DEF AnswerOnDisk, Hubs
  <2>3. RequestInv'
    BY <1>2, <2>1, <2>2 DEF RequestInv
  <2> QED BY <2>1, <2>2, <2>3, AloneMutates
<1>6. CASE AnswerRefused
  <2>1. hub'.driver = hub.driver /\ hub'.req = NoReq /\ hub'.rts = hub.rts
    BY <1>1, <1>6 DEF AnswerRefused, Hubs
  <2>2. RequestInv'
    BY <1>2, <2>1 DEF RequestInv
  <2> QED BY <1>2, <1>6, <2>1, <2>2, AloneSame DEF AnswerRefused, DriverInv
<1>7. CASE AnswerInMemory
  <2>1. hub'.driver = hub.driver /\ hub'.req = NoReq /\ hub'.rts = hub.rts
    BY <1>1, <1>7 DEF AnswerInMemory, Hubs
  <2>2. hub.req # NoReq
    BY <1>7 DEF AnswerInMemory, NoReq
  <2>3. hub.driver # NoRun
    BY <1>2, <1>7, <2>2 DEF RequestInv, AnswerInMemory
  <2>4. RequestInv'
    BY <1>2, <2>1 DEF RequestInv
  <2> QED BY <1>7, <2>1, <2>3, <2>4, AloneSaves DEF AnswerInMemory, Alone
<1>8. CASE RunnerSaves
  <2>1. hub'.driver = hub.driver /\ hub'.req = hub.req /\ hub'.rts = hub.rts
    BY <1>1, <1>8 DEF RunnerSaves, Hubs
  <2>2. RequestInv'
    BY <1>2, <2>1 DEF RequestInv
  <2> QED BY <1>8, <2>1, <2>2, AloneSaves DEF RunnerSaves, Alone
<1>9. CASE RunnerEnds
  <2> DEFINE d == hub.driver
             x == [hub.rts[d] EXCEPT !.live = FALSE]
             m == IF hub.req.active THEN hub.mem ELSE NoCopy
  <2>1. d \in Runs /\ d # NoRun /\ hub.req = NoReq
    BY <1>1, <1>2, <1>9 DEF RunnerEnds, Hubs, Undivided
  <2>2. x \in Rts /\ ~x.live /\ m \in Copies
    BY <1>1, <2>1, Nothing DEF Rts
  <2>3. hub' = [hub EXCEPT !.driver = NoRun, !.rts[d] = x, !.mem = m]
    BY <1>9 DEF RunnerEnds
  <2>4. \A o \in Runs : hub.rts[o].live => o = d
    BY <1>2 DEF RequestInv
  <2> HIDE DEF d, x, m
  <2>5. /\ hub'.driver = NoRun /\ hub'.req = NoReq /\ hub'.rts[d] = x
        /\ \A o \in Runs : o # d => hub'.rts[o] = hub.rts[o]
    BY <1>1, <2>1, <2>2, <2>3, HubFields
  <2>6. RequestInv'
    BY <2>2, <2>4, <2>5 DEF RequestInv
  <2>7. lock = "hub" /\ todo["cli"] = <<>>
    BY <1>2, <1>9 DEF DriverInv, RunnerEnds
  <2>8. todo'["cli"] = todo["cli"] /\ lock' = lock /\ slot' = slot /\ cli' = cli
    BY <1>1, <1>9 DEF RunnerEnds, Procs
  <2>9. CliInv'
    BY <1>2, <2>7, <2>8, CliSame
  <2> QED BY <2>5, <2>6, <2>9 DEF Alone, DriverInv
<1>10. ASSUME NEW r \in Runs, Ready, hub.driver = r PROVE Rt(r) = hub.rts[r]
  BY <1>10, DriverRt, Constants
<1>11. ASSUME NEW r \in Runs, Look(r) PROVE Alone'
  <2>1. Rt(r) \in Rts /\ (Rt(r).live => hub.rts[r].live) /\ Ready
    BY <1>11, RtIs DEF Look, Serves
  <2>2. /\ hub'.driver = hub.driver /\ hub'.req = hub.req /\ hub'.rts[r] = Rt(r)
        /\ \A o \in Runs : o # r => hub'.rts[o] = hub.rts[o]
    BY <1>1, <1>11, <2>1, HubFields DEF Look
  <2>3. RequestInv'
    BY <1>2, <2>1, <2>2 DEF RequestInv
  <2>4. hub.driver # NoRun => hub'.rts[hub.driver] = hub.rts[hub.driver]
    BY <1>1, <1>10, <2>1, <2>2 DEF Hubs
  <2> QED BY <1>2, <1>11, <2>2, <2>3, <2>4, AloneSame DEF Look, DriverInv
<1>12. ASSUME NEW r \in Runs, Settings(r) PROVE Alone'
  <2>1. Mutates(r, "slot", "set") /\ Serves(r) /\ ~Archived(r) /\ ~Running(r)
    BY <1>12, OnSlot DEF Settings
  <2>2. hub.driver = NoRun
    BY <1>2, <2>1, ServesDriver
  <2>3. Rt(r) \in Rts /\ (Rt(r).live => hub.rts[r].live)
    BY RtIs
  <2>4. /\ hub'.driver = hub.driver /\ hub'.req = hub.req /\ hub'.rts[r] = Rt(r)
        /\ \A o \in Runs : o # r => hub'.rts[o] = hub.rts[o]
    BY <1>1, <1>12, <2>3, HubFields DEF Settings
  <2>5. RequestInv'
    BY <1>2, <2>3, <2>4 DEF RequestInv
  <2> QED BY <2>1, <2>2, <2>4, <2>5, AloneMutates
<1>13. ASSUME NEW r \in Runs, Start(r) PROVE Alone'
  <2>1. /\ lock # "cli" /\ slot' = slot /\ cli' = cli /\ Ready /\ Undivided /\ Serves(r)
        /\ ~Archived(r) /\ ~InProgress(r)
    BY <1>13, StartIs
  <2>2. hub.driver = NoRun
    BY <1>2, <2>1, ServesDriver
  <2>3. Rt(r) \in Rts /\ (Rt(r).live => hub.rts[r].live) /\ Rt(r).at = "slot" /\ There(slot)
    BY <2>1, RtIs, OnSlot
  <2>4. hub.req = NoReq /\ \A o \in Runs : ~hub.rts[o].live
    BY <1>2, <2>1, <2>2, Constants DEF Undivided, RequestInv
  <2>5. Loads(slot) => todo["cli"] = <<>>
    BY <1>2, <2>1, GoneIs DEF CliInv
  <2> DEFINE x == [Rt(r) EXCEPT !.live = TRUE, !.starting = TRUE]
  <2>6. x \in Rts /\ x.live /\ x.at = "slot"
    BY <2>3 DEF Rts
  <2> HIDE DEF x
  <2>7. ASSUME Loads(slot), lock' = "hub", NEW s \in Seq(OpSet), NEW c \in Copies,
               todo' = [todo EXCEPT !["hub"] = s],
               \A i \in 1 .. Len(s) : s[i].f \in Saves \cup {"ack"},
               Written(s, Content(slot).def.run),
               hub' = [hub EXCEPT !.driver = r, !.mem = c, !.rts[r] = x]
        PROVE  Alone'
    <3>1. /\ hub'.driver = r /\ hub'.req = NoReq /\ hub'.rts[r] = x
          /\ \A o \in Runs : o # r => hub'.rts[o] = hub.rts[o]
      BY <1>1, <2>4, <2>6, <2>7, HubFields
    <3>2. todo'["hub"] = s /\ todo'["cli"] = <<>> /\ todo["cli"] = <<>>
      BY <1>1, <2>5, <2>7 DEF Procs
    <3>3. Content(slot).def.run = r
      BY <1>2, <2>1 DEF Serves, Archived
    <3>4. CliInv'
      BY <1>2, <2>1, <2>7, <3>2, CliSame
    <3>5. RequestInv'
      BY <2>4, <3>1 DEF RequestInv
    <3>6. Content(slot)' = Content(slot) /\ There(slot)'
      BY <2>1, <2>3 DEF Content, There, Read
    <3>7. DriverInv'
      BY <2>6, <2>7, <3>1, <3>2, <3>3, <3>6 DEF DriverInv, DefinitionSafe
    <3> QED BY <3>4, <3>5, <3>7 DEF Alone
  <2>8. ASSUME hub' = [hub EXCEPT !.rts[r] = Rt(r)],
               \/ Loads(slot) /\ lock' = "hub" /\ \E s \in Seq(OpSet) : todo' = [todo EXCEPT !["hub"] = s]
               \/ lock' = "none" /\ todo' = todo
        PROVE  Alone'
    <3>1. /\ hub'.driver = NoRun /\ hub'.req = NoReq /\ hub'.rts[r] = Rt(r)
          /\ \A o \in Runs : o # r => hub'.rts[o] = hub.rts[o]
      BY <1>1, <2>2, <2>3, <2>4, <2>8, HubFields
    <3>2. todo'["cli"] = todo["cli"] /\ lock' # "cli"
      BY <1>1, <2>8 DEF Procs
    <3>3. CliInv'
      BY <1>2, <2>1, <2>5, <2>8, <3>2, CliSame
    <3>4. RequestInv'
      BY <2>3, <2>4, <3>1 DEF RequestInv
    <3> QED BY <3>1, <3>3, <3>4 DEF Alone, DriverInv
  <2> QED BY <1>13, <2>7, <2>8, StartIs DEF x
<1>14. ASSUME NEW r \in Runs, Started(r) PROVE Alone'
  <2> DEFINE x == [hub.rts[r] EXCEPT !.starting = FALSE]
  <2>1. x \in Rts /\ x.live = hub.rts[r].live /\ x.at = hub.rts[r].at
    BY <1>1 DEF Rts
  <2>2. hub' = [hub EXCEPT !.rts[r] = x]
    BY <1>14 DEF Started
  <2> HIDE DEF x
  <2>3. /\ hub'.driver = hub.driver /\ hub'.req = hub.req /\ hub'.rts[r] = x
        /\ \A o \in Runs : o # r => hub'.rts[o] = hub.rts[o]
    BY <1>1, <2>1, <2>2, HubFields
  <2>4. RequestInv'
    BY <1>2, <2>1, <2>3 DEF RequestInv
  <2>5. hub.driver # NoRun => hub'.rts[hub.driver].at = "slot" /\ hub'.rts[hub.driver].live
    BY <1>1, <1>2, <2>1, <2>3 DEF DriverInv, Hubs
  <2> QED BY <1>14, <2>3, <2>4, <2>5, AloneSame DEF Started
<1>15. Idle => todo["cli"] = <<>> /\ lock # "cli"
  BY DEF Idle, LockInv
<1>16. ASSUME NEW r \in Runs, Archive(r) PROVE Alone'
  <2>1. /\ Serves(r) /\ ~Running(r) /\ Ready /\ Idle
        /\ slot' = slot /\ lock' = lock /\ cli' = cli
    BY <1>2, <1>16 DEF Archive, Serves, Undisturbed
  <2>2. /\ hub'.driver = hub.driver /\ hub'.req = hub.req /\ hub'.rts[r] = NoRt
        /\ \A o \in Runs : o # r => hub'.rts[o] = hub.rts[o]
    BY <1>1, <1>16, HubFields DEF Archive
  <2>3. RequestInv'
    BY <1>2, <2>2 DEF RequestInv, NoRt
  <2>4. todo'["cli"] = todo["cli"]
    BY <1>1, <1>16 DEF Archive, Procs
  <2>5. CliInv'
    BY <1>2, <1>15, <2>1, <2>4, CliSame
  <2>6. ASSUME hub.driver # NoRun PROVE DriverInv'
    <3>1. Archived(r)
      BY <1>2, <2>1, <2>6, ServesDriver
    <3>2. hub.driver # r /\ There(slot)
      BY <1>2, <2>1, <2>6, <3>1, DriverRt DEF Archived, DriverInv
    <3>3. todo'["hub"] = <<>> /\ hub'.rts[hub.driver] = hub.rts[hub.driver]
      BY <1>1, <1>16, <2>2, <2>6, <3>1, <3>2, DriverRt DEF Archive, Procs
    <3>4. /\ \A i \in 1 .. Len(<<>>) : <<>>[i].f \in Saves \cup {"ack"}
          /\ Written(<<>>, hub.driver)
      BY NoOps DEF Written
    <3>5. Content(slot)' = Content(slot) /\ There(slot)'
      BY <2>1, <3>2 DEF Content, There, Read
    <3> QED BY <1>2, <2>1, <2>2, <2>4, <2>6, <3>3, <3>4, <3>5 DEF DriverInv, DefinitionSafe
  <2>7. ASSUME hub.driver = NoRun PROVE DriverInv'
    BY <2>2, <2>7 DEF DriverInv
  <2> QED BY <2>3, <2>5, <2>6, <2>7 DEF Alone
<1>17. ASSUME NEW r \in Runs, NewRun(r) PROVE Alone'
  <2>1. /\ Ready /\ Idle /\ slot' = slot /\ lock' = lock /\ cli' = cli
    BY <1>2, <1>17 DEF NewRun, Undisturbed
  <2>2. hub.driver = NoRun
    <3>1. ASSUME hub.driver # NoRun PROVE FALSE
      <4>1. There(slot) /\ hub.driver \in Runs
        BY <2>1, <3>1, DriverRt
      <4>2. ~(hub.rts[hub.driver].at = "slot" /\ hub.rts[hub.driver].live)
        BY <1>17, <4>1 DEF NewRun
      <4> QED BY <1>2, <3>1, <4>2 DEF DriverInv
    <3> QED BY <3>1
  <2> DEFINE f == [o \in Runs |-> IF o = r THEN [NoRt EXCEPT !.at = "slot"]
                                  ELSE IF hub.rts[o].at = "slot" THEN NoRt ELSE hub.rts[o]]
  <2>3. hub' = [hub EXCEPT !.rts = f]
    BY <1>17 DEF NewRun
  <2>4. ~[NoRt EXCEPT !.at = "slot"].live
    BY DEF NoRt
  <2>5. \A o \in Runs : f[o].live => hub.rts[o].live
    BY <2>4 DEF NoRt
  <2> HIDE DEF f
  <2>6. hub'.driver = hub.driver /\ hub'.req = hub.req /\ hub'.rts = f
    BY <1>1, <2>3 DEF Hubs
  <2>7. RequestInv'
    BY <1>2, <2>5, <2>6 DEF RequestInv
  <2>8. todo'["cli"] = todo["cli"]
    BY <1>1, <1>17 DEF NewRun, Procs
  <2>9. CliInv'
    BY <1>2, <1>15, <2>1, <2>8, CliSame
  <2> QED BY <2>2, <2>6, <2>7, <2>9 DEF Alone, DriverInv
<1>18. ASSUME NEW r \in Runs, NEW k \in {"retry", "task"}, Ask(r, k) PROVE Alone'
  <2>1. Serves(r) /\ ~Archived(r) /\ ~Refused(r, k) /\ Ready
    BY <1>18 DEF Ask, Serves
  <2> DEFINE q == [kind |-> k, run |-> r, at |-> Rt(r).at, active |-> k = "task" /\ Running(r)]
  <2>2. Rt(r).at = "slot" /\ Rt(r) \in Rts /\ (Rt(r).live => hub.rts[r].live)
    BY <2>1, OnSlot, RtIs
  <2>3. q \in Reqs /\ q.active = (k = "task" /\ Running(r))
    BY <2>2 DEF Reqs, Running, Rts
  <2>4. hub' = [hub EXCEPT !.rts[r] = Rt(r), !.req = q]
    BY <1>18 DEF Ask
  <2>5. hub.driver # NoRun => k = "task" /\ Running(r)
    BY <1>2, <2>1, ServesDriver DEF Refused
  <2>6. Running(r) => hub.driver # NoRun
    BY <1>2, <2>2, Constants DEF Running, RequestInv
  <2> HIDE DEF q
  <2>7. /\ hub'.driver = hub.driver /\ hub'.req = q /\ hub'.rts[r] = Rt(r)
        /\ \A o \in Runs : o # r => hub'.rts[o] = hub.rts[o]
    BY <1>1, <2>2, <2>3, <2>4, HubFields
  <2>8. RequestInv'
    BY <1>2, <2>2, <2>3, <2>5, <2>6, <2>7 DEF RequestInv
  <2>9. hub.driver # NoRun => hub'.rts[hub.driver] = hub.rts[hub.driver]
    BY <1>1, <1>10, <2>1, <2>7 DEF Hubs
  <2> QED BY <1>2, <1>18, <2>7, <2>8, <2>9, AloneSame DEF Ask, DriverInv
<1> QED
  BY <1>3, <1>4, <1>5, <1>6, <1>7, <1>8, <1>9, <1>11, <1>12, <1>13, <1>14, <1>16, <1>17, <1>18
  DEF HubStep

\* Every step keeps the runner alone.
LEMMA AloneStep ==
    Habits = {} /\ HubTypes /\ LockInv /\ Alone /\ [Next]_vars => Alone'
<1> SUFFICES ASSUME Habits = {}, HubTypes, LockInv, Alone, [Next]_vars PROVE Alone'
  OBVIOUS
<1>1. CASE Next
  <2>1. ASSUME NEW p \in Procs, Write(p) PROVE Alone'
    <3>1. hub' = hub
      BY <2>1, WriteOther
    <3>2. RequestInv'
      BY <3>1 DEF RequestInv, Alone
    <3>3. CliInv' /\ DriverInv'
      BY <2>1, DriverWriteHub, DriverWriteCli DEF Alone, Procs
    <3> QED BY <3>2, <3>3 DEF Alone
  <2> QED BY <1>1, <2>1, NextIs, AloneCli, AloneHub
<1>2. CASE UNCHANGED vars
  BY <1>2 DEF vars, Alone, CliInv, DriverInv, RequestInv, DefinitionSafe, There, Content, Read,
              Drops, Gone, StateLast
<1> QED BY <1>1, <1>2

\* Nothing drives the run at the start.
LEMMA AloneInit == Init => Alone
<1> SUFFICES ASSUME Init PROVE Alone
  OBVIOUS
<1>1. /\ hub.driver = NoRun /\ hub.req = NoReq /\ (\A r \in Runs : ~hub.rts[r].live)
      /\ cli.cmd = "none" /\ todo["cli"] = <<>> /\ todo["hub"] = <<>>
  BY DEF Init, Off, NoRt, Procs
<1>2. \A i \in 1 .. Len(todo["cli"]) : FALSE
  BY <1>1, NoOps
<1>3. CliInv
  BY <1>1, <1>2 DEF CliInv, Drops
<1> QED BY <1>1, <1>3 DEF Alone, DriverInv, RequestInv

\* "One runner owns one file": with requests that are read at once, that name
\* the run the slot holds, and with archiving and new runs only while no command
\* runs, no command drives the run or works on its files while the hub drives it,
\* and the lock is the hub's all that time.
THEOREM OneRunner == Habits = {} => (Spec => []OneDriver)
<1> SUFFICES ASSUME Habits = {} PROVE Spec => []OneDriver
  OBVIOUS
<1>1. HubTypes /\ LockInv /\ Alone /\ [Next]_vars => Alone'
  BY AloneStep
<1>2. Alone => OneDriver
  BY DEF Alone, CliInv, DriverInv, OneDriver
<1> QED BY <1>1, <1>2, AloneInit, LockInit, LockStep, HubTyped, PTL DEF Spec

-----------------------------------------------------------------------------
(* What was acknowledged is kept.  The invariant names up to two copies of  *)
(* runs that have every acknowledged edit: y, which the slot holds or will  *)
(* hold when the list of the one process that works is done, and c, which   *)
(* is on its way to the archive.  The shapes of the lists are told from     *)
(* their first operation on, so that a step takes one shape to the next.    *)

\* The rest of a list: when the files are written, what was done may be
\* acknowledged and the lock given back; nothing else follows.
Ends(s) == \A i \in 1 .. Len(s) : s[i].f \in {"ack", "unlock"}
Next1(s, f) == s # <<>> /\ s[1].f = f
\* What is left of a save of y, from each of its writes on.
PutState(s, y) == s # <<>> /\ s[1] = Op("putSt", y.st) /\ Ends(Tail(s))
AsideState(s, y) == Next1(s, "asideSt") /\ PutState(Tail(s), y)
PutDef(s, y) == s # <<>> /\ s[1] = Op("putDef", y.def) /\ AsideState(Tail(s), y)
AsideDef(s, y) == Next1(s, "asideDef") /\ PutDef(Tail(s), y)
\* The slot holds y, or will when s is done.
Saved(s, y) ==
    \/ Ends(s) /\ slot.def = y.def /\ slot.st = y.st
    \/ (PutState(s, y) \/ AsideState(s, y)) /\ slot.def = y.def
    \/ PutDef(s, y) \/ AsideDef(s, y)

\* What is left of a move of r, or of a removal, and of the save of y, the run
\* that comes after it, from each operation on.
Rest(s, y) == IF y = NoCopy THEN s = <<>> ELSE AsideDef(s, y)
DropLock(s, y) == Next1(s, "dropLock") /\ Rest(Tail(s), y)
MvBak(s, y) == Next1(s, "mvBak") /\ DropLock(Tail(s), y)
MvDir(s, r, y) == s # <<>> /\ s[1] = Op("mvDir", r) /\ MvBak(Tail(s), y)
MvDef(s, r, y) == s # <<>> /\ s[1] = Op("mvDef", r) /\ MvDir(Tail(s), r, y)
MkDir(s, r, y) == s # <<>> /\ s[1] = Op("mkdir", r) /\ MvDef(Tail(s), r, y)
RmDir(s, y) == Next1(s, "rmDir") /\ DropLock(Tail(s), y)
RmDef(s, y) == Next1(s, "rmDef") /\ RmDir(Tail(s), y)

\* The slot leads to y (nothing, if y is no copy), no other copy is needed;
\* or the copy c is on its way to the archive.
Vacant == Gone /\ slot.def = NoDef
Leading(s, y) ==
    \/ y # NoCopy /\ (Saved(s, y) \/ RmDef(s, y) \/ RmDir(s, y) \/ DropLock(s, y) \/ MvBak(s, y))
    \/ y = NoCopy /\ Vacant /\ (s = <<>> \/ DropLock(s, y) \/ MvBak(s, y))
Leaving(s, c, y) ==
    \/ /\ MkDir(s, c.def.run, y) /\ ~arch[c.def.run].dir
       /\ slot.def = c.def /\ slot.st = c.st
    \/ /\ MvDef(s, c.def.run, y) /\ arch[c.def.run].dir
       /\ slot.def = c.def /\ slot.st = c.st
    \/ /\ MvDir(s, c.def.run, y) /\ arch[c.def.run].dir
       /\ slot.def = NoDef /\ arch[c.def.run].files.def = c.def /\ slot.st = c.st

\* A copy that can be read and has every acknowledged edit of its run.
Whole(y) ==
    /\ y.def # NoDef /\ y.st.there /\ y.def.tasks \subseteq y.st.tasks
    /\ y.def.run = First => 0 \in y.def.tasks
Good(y) ==
    /\ Whole(y)
    /\ \A k \in past.kept : k[1] = y.def.run => Holds(y, k)
Filed(r) == [def |-> arch[r].files.def, st |-> arch[r].files.st]
IsAt(r, y, c) == arch[r].dir \/ (y # NoCopy /\ r = y.def.run) \/ (c # NoCopy /\ r = c.def.run)
Kept(p, y, c) ==
    /\ \A q \in Procs : q # p => todo[q] = <<>>
    /\ IF c = NoCopy THEN Leading(todo[p], y) ELSE Leaving(todo[p], c, y)
    /\ y # NoCopy => Good(y) /\ ~arch[y.def.run].dir
    /\ c # NoCopy => Good(c) /\ (y # NoCopy => c.def.run # y.def.run)
    /\ \A r \in Runs : arch[r].dir /\ (c # NoCopy => r # c.def.run) =>
          Good(Filed(r)) /\ arch[r].files.def.run = r
    /\ \A i \in 1 .. Len(todo[p]) : todo[p][i].f = "ack" =>
          y # NoCopy /\ todo[p][i].v[1] = y.def.run /\ Holds(y, todo[p][i].v)
    /\ IsAt(First, y, c) /\ \A k \in past.kept : k[1] \in Runs /\ (HasTasks(k[1]) => IsAt(k[1], y, c))
    /\ hub.driver # NoRun => c = NoCopy /\ y # NoCopy /\ hub.mem = y
    /\ cli.cmd = "run" => c = NoCopy /\ y # NoCopy /\ cli.mem = y

\* Every edit that was acknowledged is in a copy, unless a death cut something.
KeepInv == past.cut \/ \E p \in Procs, y \in Copies, c \in Copies : Kept(p, y, c)

\* A sequence of operations with one more in front, and one that is followed by another.
LEMMA Front ==
    ASSUME NEW s \in Seq(OpSet), NEW t \in Seq(OpSet), s # <<>>
    PROVE  s \o t # <<>> /\ (s \o t)[1] = s[1] /\ Tail(s \o t) = Tail(s) \o t /\ Tail(s) \in Seq(OpSet)
<1>1. s \o t \in Seq(OpSet) /\ Len(s \o t) = Len(s) + Len(t) /\ Len(s) \in Nat /\ Len(t) \in Nat
      /\ \A i \in 1 .. Len(s) + Len(t) : (s \o t)[i] = IF i <= Len(s) THEN s[i] ELSE t[i - Len(s)]
  BY ConcatProperties, LenProperties
<1>2. Len(s) >= 1 /\ Tail(s) \in Seq(OpSet) /\ Len(Tail(s)) = Len(s) - 1
      /\ \A i \in 1 .. Len(Tail(s)) : Tail(s)[i] = s[i + 1] /\ i + 1 \in 1 .. Len(s)
  BY TailIs
<1>3. s \o t # <<>> /\ (s \o t)[1] = s[1]
  <2>1. Len(s \o t) # 0 /\ 1 \in 1 .. Len(s) + Len(t) /\ 1 <= Len(s)
    BY <1>1, <1>2
  <2> QED BY <1>1, <2>1, NoOps
<1>4. Tail(s \o t) \in Seq(OpSet) /\ Len(Tail(s \o t)) = Len(s \o t) - 1
      /\ \A i \in 1 .. Len(Tail(s \o t)) : Tail(s \o t)[i] = (s \o t)[i + 1] /\ i + 1 \in 1 .. Len(s \o t)
  BY <1>1, <1>3, TailIs
<1>5. Tail(s) \o t \in Seq(OpSet) /\ Len(Tail(s) \o t) = Len(Tail(s)) + Len(t)
      /\ \A i \in 1 .. Len(Tail(s)) + Len(t) :
            (Tail(s) \o t)[i] = IF i <= Len(Tail(s)) THEN Tail(s)[i] ELSE t[i - Len(Tail(s))]
  BY <1>2, ConcatProperties
<1>6. Len(Tail(s \o t)) = Len(Tail(s) \o t)
  BY <1>1, <1>2, <1>4, <1>5
<1>7. ASSUME NEW i \in 1 .. Len(Tail(s \o t)) PROVE Tail(s \o t)[i] = (Tail(s) \o t)[i]
  <2>1. Tail(s \o t)[i] = (s \o t)[i + 1] /\ i \in 1 .. Len(s) - 1 + Len(t) /\ i \in Int
    BY <1>1, <1>4
  <2>2. (s \o t)[i + 1] = IF i + 1 <= Len(s) THEN s[i + 1] ELSE t[(i + 1) - Len(s)]
    BY <1>1, <2>1
  <2>3. (Tail(s) \o t)[i] = IF i <= Len(s) - 1 THEN Tail(s)[i] ELSE t[i - (Len(s) - 1)]
    BY <1>2, <1>5, <2>1
  <2>4. i <= Len(s) - 1 => Tail(s)[i] = s[i + 1]
    BY <1>1, <1>2, <2>1
  <2>5. (i + 1) - Len(s) = i - (Len(s) - 1) /\ (i + 1 <= Len(s) <=> i <= Len(s) - 1)
    BY <1>1, <2>1
  <2> QED BY <2>1, <2>2, <2>3, <2>4, <2>5
<1>8. Tail(s \o t) = Tail(s) \o t
  BY <1>4, <1>5, <1>6, <1>7, SeqEqual
<1> QED BY <1>2, <1>3, <1>8

\* No operation, one to acknowledge or one to give the lock back: nothing is written.
LEMMA EndsIs ==
    /\ Ends(<<>>) /\ Ends(Unlock) /\ Unlock \in Seq(OpSet)
    /\ \A s \in Seq(OpSet) : Ends(s) /\ s # <<>> => s[1].f \in {"ack", "unlock"} /\ Ends(Tail(s))
<1>1. Ends(<<>>) /\ Ends(Unlock) /\ Unlock \in Seq(OpSet)
  BY NoOps DEF Ends, Unlock, Op, OpSet, Plain
<1>2. ASSUME NEW s \in Seq(OpSet), Ends(s), s # <<>> PROVE s[1].f \in {"ack", "unlock"} /\ Ends(Tail(s))
  <2>1. 1 \in 1 .. Len(s) /\ \A i \in 1 .. Len(Tail(s)) : Tail(s)[i] = s[i + 1] /\ i + 1 \in 1 .. Len(s)
    BY <1>2, TailIs
  <2> QED BY <1>2, <2>1 DEF Ends
<1> QED BY <1>1, <1>2

\* The operations of a save, whatever is done after it.
LEMMA SaveShape ==
    ASSUME NEW y \in Copies, NEW t \in Seq(OpSet), Ends(t)
    PROVE  AsideState(SaveState(y) \o t, y) /\ AsideDef(SaveBoth(y) \o t, y)
<1> DEFINE a == Op("asideDef", NoRun)
           b == Op("putDef", y.def)
           e == Op("asideSt", NoRun)
           g == Op("putSt", y.st)
<1>1. a \in OpSet /\ b \in OpSet /\ e \in OpSet /\ g \in OpSet /\ a.f = "asideDef" /\ e.f = "asideSt"
  BY DEF Op, OpSet, Plain, Copies
<1>2. SaveState(y) = <<e, g>> /\ SaveBoth(y) = <<a, b, e, g>>
  BY DEF SaveState, SaveBoth
<1> HIDE DEF a, b, e, g
<1>3. /\ <<g>> \in Seq(OpSet) /\ <<e, g>> \in Seq(OpSet) /\ <<b, e, g>> \in Seq(OpSet)
      /\ <<a, b, e, g>> \in Seq(OpSet)
      /\ <<g>> # <<>> /\ <<e, g>> # <<>> /\ <<b, e, g>> # <<>> /\ <<a, b, e, g>> # <<>>
      /\ Tail(<<g>>) = <<>> /\ Tail(<<e, g>>) = <<g>> /\ Tail(<<b, e, g>>) = <<e, g>>
      /\ Tail(<<a, b, e, g>>) = <<b, e, g>>
      /\ <<g>>[1] = g /\ <<e, g>>[1] = e /\ <<b, e, g>>[1] = b /\ <<a, b, e, g>>[1] = a
  BY <1>1
<1>4. PutState(<<g>> \o t, y)
  <2>1. <<g>> \o t # <<>> /\ (<<g>> \o t)[1] = g /\ Tail(<<g>> \o t) = t
    BY <1>3, Front, NoOps
  <2> QED BY <2>1 DEF PutState, g
<1>5. AsideState(<<e, g>> \o t, y)
  <2>1. <<e, g>> \o t # <<>> /\ (<<e, g>> \o t)[1] = e /\ Tail(<<e, g>> \o t) = <<g>> \o t
    BY <1>3, Front
  <2> QED BY <1>1, <1>4, <2>1 DEF AsideState, Next1
<1>6. PutDef(<<b, e, g>> \o t, y)
  <2>1. <<b, e, g>> \o t # <<>> /\ (<<b, e, g>> \o t)[1] = b /\ Tail(<<b, e, g>> \o t) = <<e, g>> \o t
    BY <1>3, Front
  <2> QED BY <1>5, <2>1 DEF PutDef, b
<1>7. AsideDef(<<a, b, e, g>> \o t, y)
  <2>1. <<a, b, e, g>> \o t # <<>> /\ (<<a, b, e, g>> \o t)[1] = a /\ Tail(<<a, b, e, g>> \o t) = <<b, e, g>> \o t
    BY <1>3, Front
  <2> QED BY <1>1, <1>6, <2>1 DEF AsideDef, Next1
<1> QED BY <1>2, <1>5, <1>7

\* What an operation is, from the first of a list of a known shape.
LEMMA ShapeHead ==
    ASSUME NEW s, NEW y
    PROVE  /\ PutState(s, y) => s[1].f = "putSt" /\ s[1].v = y.st /\ Ends(Tail(s))
           /\ AsideState(s, y) => s[1].f = "asideSt" /\ PutState(Tail(s), y)
           /\ PutDef(s, y) => s[1].f = "putDef" /\ s[1].v = y.def /\ AsideState(Tail(s), y)
           /\ AsideDef(s, y) => s[1].f = "asideDef" /\ PutDef(Tail(s), y)
           /\ DropLock(s, y) => s[1].f = "dropLock" /\ Rest(Tail(s), y)
           /\ MvBak(s, y) => s[1].f = "mvBak" /\ DropLock(Tail(s), y)
           /\ RmDir(s, y) => s[1].f = "rmDir" /\ DropLock(Tail(s), y)
           /\ RmDef(s, y) => s[1].f = "rmDef" /\ RmDir(Tail(s), y)
           /\ \A r : MvDir(s, r, y) => s[1].f = "mvDir" /\ s[1].v = r /\ MvBak(Tail(s), y)
           /\ \A r : MvDef(s, r, y) => s[1].f = "mvDef" /\ s[1].v = r /\ MvDir(Tail(s), r, y)
           /\ \A r : MkDir(s, r, y) => s[1].f = "mkdir" /\ s[1].v = r /\ MvDef(Tail(s), r, y)
<1>1. \A f, v : Op(f, v).f = f /\ Op(f, v).v = v
  BY DEF Op
<1>2. PutState(s, y) => s[1].f = "putSt" /\ s[1].v = y.st /\ Ends(Tail(s))
  BY <1>1 DEF PutState
<1>3. AsideState(s, y) => s[1].f = "asideSt" /\ PutState(Tail(s), y)
  BY DEF AsideState, Next1
<1>4. PutDef(s, y) => s[1].f = "putDef" /\ s[1].v = y.def /\ AsideState(Tail(s), y)
  BY <1>1 DEF PutDef
<1>5. AsideDef(s, y) => s[1].f = "asideDef" /\ PutDef(Tail(s), y)
  BY DEF AsideDef, Next1
<1>6. DropLock(s, y) => s[1].f = "dropLock" /\ Rest(Tail(s), y)
  BY DEF DropLock, Next1
<1>7. MvBak(s, y) => s[1].f = "mvBak" /\ DropLock(Tail(s), y)
  BY DEF MvBak, Next1
<1>8. RmDir(s, y) => s[1].f = "rmDir" /\ DropLock(Tail(s), y)
  BY DEF RmDir, Next1
<1>9. RmDef(s, y) => s[1].f = "rmDef" /\ RmDir(Tail(s), y)
  BY DEF RmDef, Next1
<1>10. \A r : MvDir(s, r, y) => s[1].f = "mvDir" /\ s[1].v = r /\ MvBak(Tail(s), y)
  BY <1>1 DEF MvDir
<1>11. \A r : MvDef(s, r, y) => s[1].f = "mvDef" /\ s[1].v = r /\ MvDir(Tail(s), r, y)
  BY <1>1 DEF MvDef
<1>12. \A r : MkDir(s, r, y) => s[1].f = "mkdir" /\ s[1].v = r /\ MvDef(Tail(s), r, y)
  BY <1>1 DEF MkDir
<1> QED BY <1>2, <1>3, <1>4, <1>5, <1>6, <1>7, <1>8, <1>9, <1>10, <1>11, <1>12

\* One operation of a save brings it nearer to its end.
LEMMA SavedWrite ==
    ASSUME HubTypes, NEW p \in Procs, Write(p), NEW y \in Copies, Saved(todo[p], y)
    PROVE  Saved(todo[p], y)' /\ todo[p][1].f \in Saves \cup {"ack", "unlock"}
<1> DEFINE s == todo[p]
           t == todo'[p]
           o == s[1]
<1>1. s \in Seq(OpSet) /\ s # <<>> /\ t = Tail(s)
  BY RestIs
<1>2. slot \in Slots
  BY DEF HubTypes
<1> SUFFICES /\ o.f \in Saves \cup {"ack", "unlock"}
             /\ \/ Ends(t) /\ slot'.def = y.def /\ slot'.st = y.st
                \/ (PutState(t, y) \/ AsideState(t, y)) /\ slot'.def = y.def
                \/ PutDef(t, y) \/ AsideDef(t, y)
  BY DEF Saved
<1>3. CASE Ends(s) /\ slot.def = y.def /\ slot.st = y.st
  <2>1. o.f \in {"ack", "unlock"} /\ Ends(t)
    BY <1>1, <1>3, EndsIs
  <2>2. slot' = slot
    BY <2>1, WriteSlot
  <2> QED BY <1>3, <2>1, <2>2
<1>4. CASE PutState(s, y) /\ slot.def = y.def
  <2>1. o.f = "putSt" /\ o.v = y.st /\ Ends(t)
    BY <1>1, <1>4, ShapeHead
  <2>2. slot' = [slot EXCEPT !.st = o.v]
    BY <2>1, WriteSlot
  <2> QED BY <1>2, <1>4, <2>1, <2>2 DEF Slots, Saves
<1>5. CASE AsideState(s, y) /\ slot.def = y.def
  <2>1. o.f = "asideSt" /\ PutState(t, y)
    BY <1>1, <1>5, ShapeHead
  <2>2. slot'.def = slot.def
    BY <1>2, <2>1, WriteSlot DEF Slots
  <2> QED BY <1>5, <2>1, <2>2 DEF Saves
<1>6. CASE PutDef(s, y)
  <2>1. o.f = "putDef" /\ o.v = y.def /\ AsideState(t, y)
    BY <1>1, <1>6, ShapeHead
  <2>2. slot' = [slot EXCEPT !.def = o.v]
    BY <2>1, WriteSlot
  <2> QED BY <1>2, <2>1, <2>2 DEF Slots, Saves
<1>7. CASE AsideDef(s, y)
  BY <1>1, <1>7, ShapeHead DEF Saves
<1> QED BY <1>3, <1>4, <1>5, <1>6, <1>7 DEF Saved

\* One operation of a removal, or of the end of a move, and of the save after it.
LEMMA LeadingWrite ==
    ASSUME HubTypes, NEW p \in Procs, Write(p), NEW y \in Copies, Leading(todo[p], y)
    PROVE  /\ Leading(todo[p], y)'
           /\ todo[p][1].f \in Saves \cup {"ack", "unlock", "rmDef", "rmDir", "dropLock", "mvBak"}
<1> DEFINE s == todo[p]
           t == todo'[p]
           o == s[1]
<1>1. s \in Seq(OpSet) /\ s # <<>> /\ t = Tail(s)
  BY RestIs
<1>2. slot \in Slots
  BY DEF HubTypes
<1>3. Rest(t, y) <=> IF y = NoCopy THEN t = <<>> ELSE AsideDef(t, y)
  BY DEF Rest
<1>4. CASE y # NoCopy
  <2> SUFFICES /\ o.f \in Saves \cup {"ack", "unlock", "rmDef", "rmDir", "dropLock", "mvBak"}
               /\ Saved(todo[p], y)' \/ RmDef(t, y) \/ RmDir(t, y) \/ DropLock(t, y) \/ MvBak(t, y)
    BY <1>4 DEF Leading
  <2>1. CASE Saved(s, y)
    BY <2>1, SavedWrite
  <2>2. CASE RmDef(s, y) \/ RmDir(s, y) \/ MvBak(s, y)
    BY <1>1, <2>2, ShapeHead
  <2>3. CASE DropLock(s, y)
    <3>1. o.f = "dropLock" /\ AsideDef(t, y)
      BY <1>1, <1>3, <1>4, <2>3, ShapeHead
    <3> QED BY <3>1 DEF Saved
  <2> QED BY <1>4, <2>1, <2>2, <2>3 DEF Leading
<1>5. CASE y = NoCopy
  <2>1. Vacant /\ (DropLock(s, y) \/ MvBak(s, y))
    BY <1>1, <1>5 DEF Leading
  <2>2. o.f \in {"dropLock", "mvBak"} /\ (t = <<>> \/ DropLock(t, y))
    BY <1>1, <1>3, <1>5, <2>1, ShapeHead
  <2>3. slot'.def = slot.def /\ slot'.st = slot.st /\ slot'.stBak = slot.stBak
    BY <1>2, <2>2, WriteSlot DEF Slots
  <2>4. Vacant'
    BY <2>1, <2>3 DEF Vacant, Gone
  <2> QED BY <1>5, <2>2, <2>4 DEF Leading
<1> QED BY <1>4, <1>5

\* One operation of a move.
LEMMA LeavingWrite ==
    ASSUME HubTypes, NEW p \in Procs, Write(p), NEW y \in Copies, NEW c \in Copies, c.def.run \in Runs,
           Leaving(todo[p], c, y)
    PROVE  /\ todo[p][1].f \in {"mkdir", "mvDef", "mvDir"}
           /\ \A r \in Runs : r # c.def.run => arch'[r].dir = arch[r].dir /\ Filed(r)' = Filed(r)
           /\ arch'[c.def.run].dir
           /\ \/ Leaving(todo[p], c, y)'
              \/ Leading(todo[p], y)' /\ Filed(c.def.run)' = [def |-> c.def, st |-> c.st]
<1> DEFINE s == todo[p]
           t == todo'[p]
           o == s[1]
           r == c.def.run
<1>1. s \in Seq(OpSet) /\ s # <<>> /\ t = Tail(s)
  BY RestIs
<1>2. slot \in Slots
  BY DEF HubTypes
<1>3. /\ MkDir(s, r, y) => o.f = "mkdir" /\ o.v = r /\ MvDef(t, r, y)
      /\ MvDef(s, r, y) => o.f = "mvDef" /\ o.v = r /\ MvDir(t, r, y)
      /\ MvDir(s, r, y) => o.f = "mvDir" /\ o.v = r /\ MvBak(t, y)
  <2>1. MkDir(s, r, y) => o.f = "mkdir" /\ o.v = r /\ MvDef(t, r, y)
    BY <1>1 DEF MkDir, Op
  <2>2. MvDef(s, r, y) => o.f = "mvDef" /\ o.v = r /\ MvDir(t, r, y)
    BY <1>1 DEF MvDef, Op
  <2>3. MvDir(s, r, y) => o.f = "mvDir" /\ o.v = r /\ MvBak(t, y)
    BY <1>1 DEF MvDir, Op
  <2> QED BY <2>1, <2>2, <2>3
<1>4. MkDir(s, r, y) \/ MvDef(s, r, y) \/ MvDir(s, r, y)
  BY DEF Leaving
<1>5. o.f \in {"mkdir", "mvDef", "mvDir"} /\ o.v = r
  BY <1>3, <1>4
<1>6. \A q \in Runs : q # r => arch'[q].dir = arch[q].dir /\ Filed(q)' = Filed(q)
  BY <1>5, ArchAfter DEF Filed
<1>7. arch \in [Runs -> Archives] /\ arch[r] \in Archives /\ arch[r].files \in Slots
  BY DEF HubTypes, Archives
<1>8. CASE MkDir(s, r, y) /\ slot.def = c.def /\ slot.st = c.st
  <2>1. arch'[r].dir /\ slot' = slot /\ MvDef(t, r, y)
    BY <1>3, <1>8, ArchAfter, WriteSlot
  <2>2. Leaving(todo[p], c, y)'
    BY <1>8, <2>1 DEF Leaving
  <2> QED BY <1>5, <1>6, <2>1, <2>2
<1>9. CASE MvDef(s, r, y) /\ arch[r].dir /\ slot.def = c.def /\ slot.st = c.st
  <2>1. arch'[r].dir /\ MvDir(t, r, y) /\ o.f = "mvDef" /\ o.v = r
    BY <1>3, <1>9, ArchAfter
  <2>2. slot'.def = NoDef /\ slot'.st = slot.st
    BY <1>2, <2>1, WriteSlot DEF Slots
  <2>3. arch'[r].files.def = slot.def
    <3>1. arch' = [arch EXCEPT ![r].files.def = slot.def]
      BY <2>1, WriteArch
    <3> QED BY <1>7, <3>1 DEF Archives, Slots
  <2>4. Leaving(todo[p], c, y)'
    BY <1>9, <2>1, <2>2, <2>3 DEF Leaving
  <2> QED BY <1>5, <1>6, <2>1, <2>4
<1>10. CASE MvDir(s, r, y) /\ arch[r].dir /\ slot.def = NoDef /\ arch[r].files.def = c.def /\ slot.st = c.st
  <2>1. arch'[r].dir /\ MvBak(t, y) /\ o.f = "mvDir" /\ o.v = r
    BY <1>3, <1>10, ArchAfter
  <2>2. slot'.def = NoDef /\ slot'.st = NoSt /\ slot'.stBak = NoSt
    BY <1>2, <1>10, <2>1, WriteSlot DEF Slots
  <2>3. arch'[r].files.def = arch[r].files.def
    BY <2>1, ArchAfter
  <2>4. arch'[r].files.st = slot.st
    <3> DEFINE a == [arch EXCEPT ![r].files.st = slot.st]
    <3>1. arch' = [a EXCEPT ![r].files.stBak = slot.stBak]
      BY <2>1, WriteArch
    <3>2. a \in [Runs -> Archives] /\ a[r].files.st = slot.st
      BY <1>2, <1>7 DEF Archives, Slots
    <3> HIDE DEF a
    <3> QED BY <3>1, <3>2 DEF Archives, Slots
  <2>5. Leading(todo[p], y)'
    BY <2>1, <2>2 DEF Leading, Vacant, Gone
  <2>6. Filed(r)' = [def |-> c.def, st |-> c.st]
    BY <1>10, <2>3, <2>4 DEF Filed
  <2> QED BY <1>5, <1>6, <2>1, <2>5, <2>6
<1> QED BY <1>8, <1>9, <1>10 DEF Leaving

\* A copy is its two parts.
LEMMA CopyIs == \A c \in Copies : c = [def |-> c.def, st |-> c.st]
BY DEF Copies

\* A copy that is good has the definition of a run.
LEMMA GoodRun == \A y \in Copies : Good(y) => y.def.run \in Runs /\ y # NoCopy
<1> SUFFICES ASSUME NEW y \in Copies, Good(y) PROVE y.def.run \in Runs /\ y # NoCopy
  OBVIOUS
<1>1. y.def \in Defs /\ y.def # NoDef
  BY DEF Copies, Good, Whole
<1> QED BY <1>1 DEF Defs, NoCopy

\* One file operation keeps what was acknowledged.
LEMMA KeptWrite ==
    ASSUME HubTypes, NEW w \in Procs, Write(w), NEW p \in Procs, NEW y \in Copies, NEW c \in Copies, Kept(p, y, c)
    PROVE  Kept(p, y, c)' \/ Kept(p, y, NoCopy)'
<1> DEFINE s == todo[p]
           t == todo'[p]
           o == s[1]
<1>1. todo[w] # <<>>
  BY RestIs
<1>2. w = p
  BY <1>1 DEF Kept
<1>3. Write(p)
  BY <1>2
<1>4. /\ s \in Seq(OpSet) /\ s # <<>> /\ t = Tail(s) /\ o \in OpSet /\ 1 \in 1 .. Len(s)
      /\ \A i \in 1 .. Len(t) : t[i] = s[i + 1] /\ i + 1 \in 1 .. Len(s)
      /\ \A q \in Procs : q # p => todo'[q] = todo[q]
  BY <1>3, RestIs
<1>5. \A q \in Procs : q # p => todo'[q] = <<>>
  BY <1>4 DEF Kept
<1>6. /\ past' = IF o.f = "ack" THEN [past EXCEPT !.kept = past.kept \cup {o.v}] ELSE past
      /\ hub' = hub /\ cli' = cli
  BY <1>3, WriteOther
<1>7. past \in Pasts
  BY DEF HubTypes
<1>8. \A i \in 1 .. Len(s) : s[i].f = "ack" => y # NoCopy /\ s[i].v[1] = y.def.run /\ Holds(y, s[i].v)
  BY DEF Kept
<1>9. \A i \in 1 .. Len(t) : t[i].f = "ack" => y # NoCopy /\ t[i].v[1] = y.def.run /\ Holds(y, t[i].v)
  BY <1>4, <1>8
<1>10. /\ y # NoCopy => Good(y) /\ ~arch[y.def.run].dir /\ y.def.run \in Runs
       /\ c # NoCopy => Good(c) /\ (y # NoCopy => c.def.run # y.def.run) /\ c.def.run \in Runs
  BY GoodRun DEF Kept
<1>11. CASE c = NoCopy
  <2>1. Leading(s, y)
    BY <1>11 DEF Kept
  <2>2. Leading(todo[p], y)' /\ o.f \in Saves \cup {"ack", "unlock", "rmDef", "rmDir", "dropLock", "mvBak"}
    BY <1>3, <2>1, LeadingWrite
  <2>3. \A r \in Runs : arch'[r].dir = arch[r].dir /\ arch'[r].files.def = arch[r].files.def /\ Filed(r)' = Filed(r)
    BY <1>3, <2>2, ArchAfter DEF Filed, Saves
  <2>4. \A k \in past'.kept : k \in past.kept \/ (y # NoCopy /\ k[1] = y.def.run /\ Holds(y, k) /\ k = o.v /\ o.f = "ack")
    BY <1>4, <1>6, <1>7, <1>8 DEF Pasts
  <2>5. \A r \in Runs : (y = NoCopy \/ r # y.def.run) => (HasTasks(r)' => HasTasks(r))
    BY <2>4 DEF HasTasks
  <2>6. y # NoCopy => Good(y)' /\ ~arch'[y.def.run].dir
    BY <1>10, <2>3, <2>4 DEF Good
  <2>7. ASSUME NEW r \in Runs, arch'[r].dir PROVE Good(Filed(r))' /\ arch'[r].files.def.run = r
    <3>1. arch[r].dir /\ Good(Filed(r)) /\ arch[r].files.def.run = r /\ Filed(r).def.run = r
      BY <1>11, <2>3, <2>7 DEF Kept, Filed
    <3>2. y # NoCopy => r # y.def.run
      BY <1>10, <3>1
    <3>3. \A k \in past'.kept : k[1] = r => k \in past.kept
      BY <2>4, <3>2
    <3>4. PICK g : g = Filed(r)
      OBVIOUS
    <3>5. Good(g) /\ g.def.run = r /\ Filed(r)' = g
      BY <2>3, <3>1, <3>4 DEF Good
    <3>6. Good(g)'
      BY <3>3, <3>5 DEF Good
    <3> QED BY <2>3, <3>1, <3>5, <3>6 DEF Good
  <2>8. \A r \in Runs : IsAt(r, y, c) => IsAt(r, y, c)'
    BY <2>3 DEF IsAt
  <2>9. IsAt(First, y, c)'
    BY <2>8, Constants DEF Kept
  <2>10. ASSUME NEW k \in past'.kept PROVE k[1] \in Runs /\ (HasTasks(k[1])' => IsAt(k[1], y, c)')
    <3>1. k[1] \in Runs
      BY <1>10, <2>4 DEF Kept
    <3>2. CASE y # NoCopy /\ k[1] = y.def.run
      BY <3>1, <3>2 DEF IsAt
    <3>3. CASE y = NoCopy \/ k[1] # y.def.run
      <4>1. k \in past.kept
        BY <2>4, <3>3
      <4>2. HasTasks(k[1]) => IsAt(k[1], y, c)
        BY <4>1 DEF Kept
      <4> QED BY <2>5, <2>8, <3>1, <3>3, <4>2
    <3> QED BY <3>2, <3>3
  <2>11. (hub.driver # NoRun => y # NoCopy /\ hub.mem = y) /\ (cli.cmd = "run" => y # NoCopy /\ cli.mem = y)
    BY DEF Kept
  <2> HIDE DEF s, t, o
  <2> QED BY <1>5, <1>6, <1>9, <1>11, <2>2, <2>6, <2>7, <2>9, <2>10, <2>11 DEF Kept, t
<1>12. CASE c # NoCopy
  <2>1. Leaving(s, c, y) /\ c.def.run \in Runs
    BY <1>10, <1>12 DEF Kept
  <2>2. /\ o.f \in {"mkdir", "mvDef", "mvDir"}
        /\ \A r \in Runs : r # c.def.run => arch'[r].dir = arch[r].dir /\ Filed(r)' = Filed(r)
        /\ arch'[c.def.run].dir
        /\ \/ Leaving(todo[p], c, y)'
           \/ Leading(todo[p], y)' /\ Filed(c.def.run)' = [def |-> c.def, st |-> c.st]
    BY <1>3, <2>1, LeavingWrite
  <2>3. past' = past
    BY <1>6, <2>2
  <2>4. y # NoCopy => Good(y)' /\ ~arch'[y.def.run].dir
    BY <1>10, <1>12, <2>2, <2>3 DEF Good
  <2>5. Good(c)'
    BY <1>10, <1>12, <2>3 DEF Good
  <2>6. ASSUME NEW r \in Runs, r # c.def.run, arch'[r].dir PROVE Good(Filed(r))' /\ arch'[r].files.def.run = r
    <3>1. arch[r].dir /\ Good(Filed(r)) /\ arch[r].files.def.run = r /\ Filed(r)' = Filed(r)
      BY <2>2, <2>6, <1>12 DEF Kept
    <3>2. arch'[r].files.def = arch[r].files.def
      BY <3>1 DEF Filed
    <3>3. PICK g : g = Filed(r)
      OBVIOUS
    <3>4. Good(g)'
      BY <2>3, <3>1, <3>3 DEF Good
    <3>5. Filed(r)' = g
      BY <3>1, <3>3
    <3> QED BY <3>1, <3>2, <3>4, <3>5 DEF Good
  <2>7. \A r \in Runs : IsAt(r, y, c) => IsAt(r, y, c)' /\ IsAt(r, y, NoCopy)'
    BY <2>2 DEF IsAt
  <2>8. /\ IsAt(First, y, c)' /\ IsAt(First, y, NoCopy)'
        /\ \A k \in past'.kept : k[1] \in Runs /\ (HasTasks(k[1])' => IsAt(k[1], y, c)' /\ IsAt(k[1], y, NoCopy)')
    <3>1. IsAt(First, y, c) /\ \A k \in past.kept : k[1] \in Runs /\ (HasTasks(k[1]) => IsAt(k[1], y, c))
      BY DEF Kept
    <3>2. \A r \in Runs : HasTasks(r)' => HasTasks(r)
      BY <2>3 DEF HasTasks
    <3> QED BY <2>3, <2>7, <3>1, <3>2, Constants
  <2>9. hub'.driver = NoRun /\ cli'.cmd # "run"
    BY <1>6, <1>12 DEF Kept
  <2>10. CASE Leaving(todo[p], c, y)'
    <3> HIDE DEF s, t, o
    <3>1. Kept(p, y, c)'
      BY <1>5, <1>9, <1>10, <1>12, <2>4, <2>5, <2>6, <2>8, <2>9, <2>10 DEF Kept, t
    <3> QED BY <3>1
  <2>11. CASE Leading(todo[p], y)' /\ Filed(c.def.run)' = [def |-> c.def, st |-> c.st]
    <3>1. Filed(c.def.run)' = c /\ arch'[c.def.run].files.def = c.def
      BY <2>11, CopyIs DEF Filed
    <3>2. Good(Filed(c.def.run))'
      BY <2>5, <3>1 DEF Good
    <3>3. ASSUME NEW r \in Runs, arch'[r].dir PROVE Good(Filed(r))' /\ arch'[r].files.def.run = r
      BY <2>6, <3>1, <3>2, <3>3
    <3> HIDE DEF s, t, o
    <3>4. Kept(p, y, NoCopy)'
      BY <1>5, <1>9, <2>4, <2>8, <2>9, <2>11, <3>3 DEF Kept, t
    <3> QED BY <3>4
  <2> QED BY <2>2, <2>10, <2>11
<1> QED BY <1>11, <1>12

\* Where nothing is left to be written, the slot is the copy, or nothing is there.
LEMMA KeptQuiet ==
    ASSUME HubTypes, NEW p \in Procs, NEW y \in Copies, NEW c \in Copies, Kept(p, y, c), Ends(todo[p])
    PROVE  /\ c = NoCopy
           /\ y # NoCopy => slot.def = y.def /\ slot.st = y.st /\ There(slot) /\ Loads(slot) /\ Content(slot) = y
           /\ y = NoCopy => Vacant /\ todo[p] = <<>> /\ ~There(slot) /\ ~Loads(slot)
<1> DEFINE s == todo[p]
<1>1. s \in Seq(OpSet)
  BY DEF HubTypes
<1>2. s # <<>> => s[1].f \in {"ack", "unlock"}
  BY <1>1, EndsIs
<1>3. /\ ~PutState(s, y) /\ ~AsideState(s, y) /\ ~PutDef(s, y) /\ ~AsideDef(s, y)
      /\ ~RmDef(s, y) /\ ~RmDir(s, y) /\ ~DropLock(s, y) /\ ~MvBak(s, y)
  BY <1>2 DEF PutState, AsideState, PutDef, AsideDef, RmDef, RmDir, DropLock, MvBak, Next1, Op
<1>4. \A r : ~MkDir(s, r, y) /\ ~MvDef(s, r, y) /\ ~MvDir(s, r, y)
  BY <1>2 DEF MkDir, MvDef, MvDir, Op
<1>5. c = NoCopy
  BY <1>4 DEF Kept, Leaving
<1>6. Leading(s, y)
  BY <1>5 DEF Kept
<1>7. ASSUME y # NoCopy
      PROVE  slot.def = y.def /\ slot.st = y.st /\ There(slot) /\ Loads(slot) /\ Content(slot) = y
  <2>1. slot.def = y.def /\ slot.st = y.st
    BY <1>3, <1>6, <1>7 DEF Leading, Saved
  <2>2. Whole(y)
    BY <1>7 DEF Kept, Good
  <2>3. y.st # NoSt /\ y.def # NoDef
    BY <2>2 DEF Whole, NoSt
  <2>4. Content(slot) = y
    BY <2>1, <2>3, CopyIs DEF Content, Read
  <2> QED BY <2>1, <2>2, <2>3, <2>4 DEF There, Loads, Whole
<1>8. ASSUME y = NoCopy PROVE Vacant /\ s = <<>> /\ ~There(slot) /\ ~Loads(slot)
  <2>1. Vacant /\ s = <<>>
    BY <1>3, <1>6, <1>8 DEF Leading
  <2> QED BY <2>1, GoneIs DEF Vacant, There
<1> QED BY <1>5, <1>7, <1>8

\* Where the files stay as they are, so does what was acknowledged.
LEMMA KeptStay ==
    ASSUME HubTypes, NEW p \in Procs, NEW y \in Copies, NEW c \in Copies, Kept(p, y, c), NEW q \in Procs,
           slot' = slot, arch' = arch, past'.kept = past.kept,
           hub'.driver # NoRun => c = NoCopy /\ y # NoCopy /\ hub'.mem = y,
           cli'.cmd = "run" => c = NoCopy /\ y # NoCopy /\ cli'.mem = y,
           \/ p = q /\ todo' = todo
           \/ /\ Ends(todo[p]) /\ (todo'[q] = <<>> \/ (todo'[q] = Unlock /\ y # NoCopy))
              /\ \A o \in Procs : o # q => todo'[o] = <<>>
    PROVE  Kept(q, y, c)'
<1>1. (\A x : Good(x)' <=> Good(x)) /\ (\A x : HasTasks(x)' <=> HasTasks(x))
  BY DEF Good, HasTasks
<1>2. (\A x : IsAt(x, y, c)' <=> IsAt(x, y, c)) /\ (\A x : Filed(x)' = Filed(x))
  BY DEF IsAt, Filed
<1>3. \A r \in Runs : Good(Filed(r)) <=> Good(Filed(r))'
  <2> TAKE r \in Runs
  <2>1. PICK g : g = Filed(r)
    OBVIOUS
  <2>2. Filed(r)' = g /\ (Good(g)' <=> Good(g))
    BY <1>1, <1>2, <2>1
  <2> QED BY <2>1, <2>2 DEF Good
<1>4. /\ y # NoCopy => Good(y)' /\ ~arch'[y.def.run].dir
      /\ c # NoCopy => Good(c)' /\ (y # NoCopy => c.def.run # y.def.run)
      /\ \A r \in Runs : arch'[r].dir /\ (c # NoCopy => r # c.def.run) =>
          Good(Filed(r))' /\ arch'[r].files.def.run = r
      /\ IsAt(First, y, c)' /\ \A k \in past'.kept : k[1] \in Runs /\ (HasTasks(k[1])' => IsAt(k[1], y, c)')
  BY <1>1, <1>2, <1>3 DEF Kept
<1>5. CASE p = q /\ todo' = todo
  <2>1. IF c = NoCopy THEN Leading(todo[p], y)' ELSE Leaving(todo[p], c, y)'
    BY <1>5 DEF Kept, Leading, Leaving, Saved, Vacant, Gone
  <2> QED BY <1>4, <1>5, <2>1 DEF Kept
<1>6. CASE /\ Ends(todo[p]) /\ (todo'[q] = <<>> \/ (todo'[q] = Unlock /\ y # NoCopy))
           /\ \A o \in Procs : o # q => todo'[o] = <<>>
  <2>1. /\ c = NoCopy
        /\ y # NoCopy => slot.def = y.def /\ slot.st = y.st
        /\ y = NoCopy => Vacant
    BY <1>6, KeptQuiet
  <2>2. Ends(todo'[q]) /\ (y = NoCopy => todo'[q] = <<>>)
    BY <1>6, EndsIs
  <2>3. Leading(todo[q], y)'
    BY <2>1, <2>2 DEF Leading, Saved, Vacant, Gone
  <2>4. \A i \in 1 .. Len(todo'[q]) : todo'[q][i].f # "ack"
    BY <1>6, NoOps DEF Unlock, Op
  <2> QED BY <1>4, <1>6, <2>1, <2>3, <2>4 DEF Kept
<1> QED BY <1>5, <1>6

\* An edit loses nothing, and has itself.
LEMMA EditedHolds ==
    ASSUME NEW y \in Copies, NEW kind \in Kinds, past \in Pasts, CanEdit, Whole(y)
    PROVE  /\ Whole(Edited(y, kind)) /\ Holds(Edited(y, kind), <<y.def.run, kind, past.edits + 1>>)
           /\ \A k \in Acks : Holds(y, k) => Holds(Edited(y, kind), k)
<1> DEFINE e == past.edits + 1
           z == Edited(y, kind)
<1>1. y.def \in [run : Runs, tasks : SUBSET Tasks, set : SUBSET Tasks] /\ y.st \in Sts
  BY DEF Copies, Defs, Whole
<1>2. z.def # NoDef /\ z.def.run = y.def.run
  BY EditedIs DEF Whole
<1> HIDE DEF e
<1>3. /\ y.def.tasks \subseteq z.def.tasks /\ y.def.set \subseteq z.def.set
      /\ y.st.marks \subseteq z.st.marks /\ z.st.there = y.st.there
      /\ kind = "add" => /\ z.def.tasks = y.def.tasks \cup {e} /\ z.st.tasks = y.st.tasks \cup {e}
      /\ kind # "add" => z.def.tasks = y.def.tasks /\ z.st.tasks = y.st.tasks
      /\ kind = "set" => z.def.set = y.def.set \cup {e}
      /\ kind = "mark" => z.st.marks = y.st.marks \cup {e}
  <2>1. CASE kind = "add"
    <3> DEFINE d == [y.def EXCEPT !.tasks = @ \cup {e}]
               s == [y.st EXCEPT !.tasks = @ \cup {e}]
    <3>1. z = [[y EXCEPT !.def = d] EXCEPT !.st = s]
      BY <2>1 DEF Edited, e, Copies
    <3>2. d.tasks = y.def.tasks \cup {e} /\ d.set = y.def.set
      BY <1>1
    <3>3. s.tasks = y.st.tasks \cup {e} /\ s.there = y.st.there /\ s.marks = y.st.marks
      BY <1>1 DEF Sts
    <3> HIDE DEF d, s
    <3>4. z.def = d /\ z.st = s
      BY <3>1 DEF Copies
    <3> QED BY <2>1, <3>2, <3>3, <3>4
  <2>2. CASE kind = "set"
    <3> DEFINE d == [y.def EXCEPT !.set = @ \cup {e}]
    <3>1. z = [y EXCEPT !.def = d]
      BY <2>2 DEF Edited, e, Copies
    <3>2. d.tasks = y.def.tasks /\ d.set = y.def.set \cup {e}
      BY <1>1
    <3> HIDE DEF d
    <3>4. z.def = d /\ z.st = y.st
      BY <3>1 DEF Copies
    <3> QED BY <2>2, <3>2, <3>4
  <2>3. CASE kind = "mark"
    <3> DEFINE s == [y.st EXCEPT !.marks = @ \cup {e}]
    <3>1. z = [y EXCEPT !.st = s]
      BY <2>3 DEF Edited, e, Copies
    <3>3. s.tasks = y.st.tasks /\ s.there = y.st.there /\ s.marks = y.st.marks \cup {e}
      BY <1>1 DEF Sts
    <3> HIDE DEF s
    <3>4. z.def = y.def /\ z.st = s
      BY <3>1 DEF Copies
    <3> QED BY <2>3, <3>3, <3>4
  <2> QED BY <2>1, <2>2, <2>3 DEF Kinds
<1> HIDE DEF z
<1>4. Whole(z)
  BY <1>2, <1>3 DEF Whole
<1>5. Holds(z, <<y.def.run, kind, e>>)
  BY <1>3 DEF Holds, Kinds
<1>6. ASSUME NEW k \in Acks, Holds(y, k) PROVE Holds(z, k)
  <2>1. k[2] \in {"add", "set", "mark"}
    BY DEF Acks, Kinds
  <2> QED BY <1>3, <1>6, <2>1 DEF Holds
<1> QED BY <1>4, <1>5, <1>6 DEF e, z

\* An edit is decided on where nothing is left to do.
LEMMA KeptEdit ==
    ASSUME HubTypes, NEW p \in Procs, NEW y \in Copies, Kept(p, y, NoCopy), y # NoCopy, NEW q \in Procs,
           NEW kind \in Kinds, CanEdit, todo[p] = <<>>,
           slot' = slot, arch' = arch, past'.kept = past.kept,
           NEW t \in Seq(OpSet), Ends(t), \A i \in 1 .. Len(t) : t[i].f # "ack",
           todo'[q] = Saving(y, kind) \o t, \A o \in Procs : o # q => todo'[o] = <<>>,
           hub'.driver # NoRun => hub'.mem = Edited(y, kind),
           cli'.cmd = "run" => cli'.mem = Edited(y, kind)
    PROVE  \E z \in Copies : Kept(q, z, NoCopy)'
<1> DEFINE k == <<y.def.run, kind, past.edits + 1>>
           a == <<Op("ack", k)>>
<1>1. past \in Pasts /\ Good(y) /\ Whole(y) /\ y.def # NoDef /\ y.def.run \in Runs
  BY GoodRun DEF HubTypes, Kept, Good, Whole
<1>2. PICK z : z = Edited(y, kind)
  OBVIOUS
<1>3. z \in Copies /\ z.def.run = y.def.run /\ Whole(z)
  BY <1>1, <1>2, EditedIs, EditedHolds
<1>4. \A x \in Acks : Holds(y, x) => Holds(z, x)
  BY <1>1, <1>2, EditedHolds
<1>5. Holds(z, k)
  BY <1>1, <1>2, EditedHolds
<1>6. slot.def = y.def /\ slot.st = y.st
  BY EndsIs, KeptQuiet, Nothing
<1>7. a \in Seq(OpSet) /\ Len(a) = 1 /\ a[1] = Op("ack", k) /\ Op("ack", k).f = "ack" /\ Op("ack", k).v = k
  <2>1. past.edits + 1 \in Edits
    BY <1>1, Constants DEF CanEdit, Pasts, Tasks, Edits
  <2>2. k \in Acks
    BY <1>1, <2>1 DEF Acks
  <2>3. Op("ack", k) \in OpSet
    BY <2>2 DEF Op, OpSet
  <2>4. Op("ack", k).f = "ack" /\ Op("ack", k).v = k
    BY DEF Op
  <2> HIDE DEF k
  <2> QED BY <2>3, <2>4
<1> DEFINE b == a \o t
<1> HIDE DEF k, a
<1>8. /\ b \in Seq(OpSet) /\ Len(b) = 1 + Len(t) /\ Len(t) \in Nat
      /\ \A i \in 1 .. Len(b) : (i = 1 /\ b[i] = Op("ack", k)) \/ (i - 1 \in 1 .. Len(t) /\ b[i] = t[i - 1])
  <2>1. /\ b \in Seq(OpSet) /\ Len(b) = Len(a) + Len(t) /\ Len(t) \in Nat
        /\ \A i \in 1 .. Len(a) + Len(t) : b[i] = IF i <= Len(a) THEN a[i] ELSE t[i - Len(a)]
    BY <1>7, ConcatProperties, LenProperties
  <2> HIDE DEF b
  <2>2. ASSUME NEW i \in 1 .. 1 + Len(t)
        PROVE  (i = 1 /\ b[i] = Op("ack", k)) \/ (i - 1 \in 1 .. Len(t) /\ b[i] = t[i - 1])
    <3>1. b[i] = IF i <= 1 THEN a[i] ELSE t[i - 1]
      BY <1>7, <2>1
    <3>2. i \in Int /\ i >= 1 /\ (i = 1 \/ i - 1 \in 1 .. Len(t))
      BY <2>1
    <3>3. CASE i = 1
      <4>1. b[1] = a[1]
        BY <3>1, <3>3
      <4>2. a[1] = Op("ack", k)
        BY <1>7
      <4> QED BY ONLY <3>3, <4>1, <4>2
    <3>4. CASE i # 1
      <4>1. ~(i <= 1)
        BY <3>2, <3>4
      <4> QED BY <3>1, <3>2, <3>4, <4>1
    <3> QED BY <3>3, <3>4
  <2> QED BY <1>7, <2>1, <2>2
<1> HIDE DEF b
<1>9. Ends(b) /\ \A i \in 1 .. Len(b) : b[i].f = "ack" => b[i].v = k
  BY <1>7, <1>8 DEF Ends
<1> DEFINE s == Save(y, z)
<1>10. /\ s \in Seq(OpSet)
       /\ \/ s = <<>> /\ z = y
          \/ s = SaveState(z) /\ z.def = y.def
          \/ s = SaveBoth(z)
       /\ SaveState(z) \in Seq(OpSet) /\ SaveBoth(z) \in Seq(OpSet)
  BY <1>3, SaveIs
<1> HIDE DEF s
<1>11. todo'[q] = s \o b
  <2>1. Saving(y, kind) = s \o a
    BY <1>2 DEF Saving, a, k, s
  <2>2. \A u, v, w \in Seq(OpSet) : (u \o v) \o w = u \o (v \o w)
    BY ONLY ConcatAssociative
  <2>3. (s \o a) \o t = s \o b
    BY <1>7, <1>10, <2>2 DEF b
  <2> QED BY <2>1, <2>3
<1>12. \A i \in 1 .. Len(s) : s[i].f # "ack"
  <2>1. \A i \in 1 .. Len(SaveState(z)) : SaveState(z)[i].f # "ack"
    BY DEF SaveState, Op
  <2>2. \A i \in 1 .. Len(SaveBoth(z)) : SaveBoth(z)[i].f # "ack"
    BY DEF SaveBoth, Op
  <2> QED BY <1>10, <2>1, <2>2, NoOps
<1>13. Saved(todo[q], z)'
  <2>1. CASE s = <<>> /\ z = y
    <3>1. todo'[q] = b
      BY <1>8, <1>11, <2>1, NoOps
    <3> QED BY <1>6, <1>9, <2>1, <3>1 DEF Saved
  <2>2. CASE s = SaveState(z) /\ z.def = y.def
    <3>1. AsideState(todo'[q], z)
      BY <1>3, <1>8, <1>9, <1>11, <2>2, SaveShape
    <3> QED BY <1>6, <2>2, <3>1 DEF Saved
  <2>3. CASE s = SaveBoth(z)
    <3>1. AsideDef(todo'[q], z)
      BY <1>3, <1>8, <1>9, <1>11, <2>3, SaveShape
    <3> QED BY <3>1 DEF Saved
  <2> QED BY <1>10, <2>1, <2>2, <2>3
<1>14. \A i \in 1 .. Len(todo'[q]) : todo'[q][i].f = "ack" => todo'[q][i].v = k
  <2>1. \A i \in 1 .. Len(s \o b) :
                 \/ i \in 1 .. Len(s) /\ (s \o b)[i] = s[i]
                 \/ i - Len(s) \in 1 .. Len(b) /\ (s \o b)[i] = b[i - Len(s)]
    <3>1. s \in Seq(OpSet) /\ b \in Seq(OpSet)
      BY <1>8, <1>10
    <3> QED BY ONLY <3>1, ConcatIs
  <2> QED BY <1>9, <1>11, <1>12, <2>1
<1>15. k[1] = y.def.run
  BY DEF k
<1>16. past.kept \subseteq Acks
  BY <1>1 DEF Pasts
<1>17. z # NoCopy /\ Good(z)'
  <2>1. z # NoCopy
    BY <1>3 DEF Whole, NoCopy
  <2>2. \A x \in past.kept : x[1] = z.def.run => Holds(z, x)
    BY <1>1, <1>3, <1>4, <1>16 DEF Good
  <2> QED BY <1>3, <2>1, <2>2 DEF Good
<1>18. \A r \in Runs : arch'[r].dir => Good(Filed(r))' /\ arch'[r].files.def.run = r
  <2> SUFFICES ASSUME NEW r \in Runs, arch[r].dir PROVE Good(Filed(r))' /\ arch'[r].files.def.run = r
    OBVIOUS
  <2>1. Good(Filed(r)) /\ arch[r].files.def.run = r
    BY DEF Kept
  <2>2. PICK g : g = Filed(r)
    OBVIOUS
  <2>3. Filed(r)' = g /\ Good(g)
    BY <2>1, <2>2 DEF Filed, Good
  <2> QED BY <2>1, <2>3 DEF Good
<1>19. (\A x : HasTasks(x)' <=> HasTasks(x)) /\ (\A x : IsAt(x, z, NoCopy)' <=> IsAt(x, y, NoCopy))
  BY <1>3, <1>17 DEF HasTasks, IsAt
<1>20. IsAt(First, z, NoCopy)' /\ \A x \in past'.kept : x[1] \in Runs /\ (HasTasks(x[1])' => IsAt(x[1], z, NoCopy)')
  BY <1>19 DEF Kept
<1>21. ~arch'[z.def.run].dir
  BY <1>3 DEF Kept
<1>22. Leading(todo[q], z)'
  BY <1>13, <1>17 DEF Leading
<1>23. /\ hub'.driver # NoRun => hub'.mem = z
       /\ cli'.cmd = "run" => cli'.mem = z
       /\ \A o \in Procs : o # q => todo'[o] = <<>>
  BY <1>2
<1>24. \A i \in 1 .. Len(todo'[q]) : todo'[q][i].f = "ack" =>
          z # NoCopy /\ todo'[q][i].v[1] = z.def.run /\ Holds(z, todo'[q][i].v)
  BY <1>3, <1>5, <1>14, <1>15, <1>17
<1>25. Kept(q, z, NoCopy)'
  BY <1>17, <1>18, <1>20, <1>21, <1>22, <1>23, <1>24 DEF Kept
<1> QED BY <1>3, <1>25

\* The operations after the first, by their places.
LEMMA TailOf ==
    ASSUME NEW s \in Seq(OpSet), NEW n \in Nat, Len(s) = n + 1
    PROVE  /\ s # <<>> /\ Tail(s) \in Seq(OpSet) /\ Len(Tail(s)) = n
           /\ \A i \in 1 .. n : Tail(s)[i] = s[i + 1]
<1>1. s # <<>>
  BY NoOps
<1>2. Tail(s) \in Seq(OpSet) /\ Len(Tail(s)) = Len(s) - 1 /\ \A i \in 1 .. Len(Tail(s)) : Tail(s)[i] = s[i + 1]
  BY <1>1, TailIs
<1>3. Len(Tail(s)) = n
  BY <1>2
<1> QED BY <1>1, <1>2, <1>3

\* The operations of a move, whatever is done after it.
LEMMA MoveShape ==
    ASSUME NEW r \in Runs, arch \in [Runs -> Archives], ~arch[r].dir, NEW y, NEW t \in Seq(OpSet), Rest(t, y)
    PROVE  MkDir(Move(r) \o t, r, y)
<1> DEFINE s1 == Move(r)
           s2 == Tail(s1)
           s3 == Tail(s2)
           s4 == Tail(s3)
           s5 == Tail(s4)
           s6 == Tail(s5)
<1>1. s1 \in Seq(OpSet) /\ Len(s1) = 5 /\ s1[4].f = "mvBak" /\ s1[5].f = "dropLock"
  <2>1. Move(r)[1] = Op("mkdir", r)
    BY DEF Move, AlreadyArchived
  <2>2. Move(r)[1].f = "mkdir"
    BY <2>1 DEF Op
  <2>3. Move(r) # <<>>
    BY DEF Move, AlreadyArchived
  <2> HIDE DEF s1
  <2> QED BY <2>3, MoveIs DEF s1
<1>2. s1[1] = Op("mkdir", r) /\ s1[2] = Op("mvDef", r) /\ s1[3] = Op("mvDir", r)
  <2> DEFINE m == [i \in 1..5 |-> Op(<<"mkdir", "mvDef", "mvDir", "mvBak", "dropLock">>[i], r)]
  <2>1. s1 = m
    BY DEF Move, AlreadyArchived
  <2>2. /\ m[1] = Op("mkdir", r) /\ m[2] = Op("mvDef", r) /\ m[3] = Op("mvDir", r)
    OBVIOUS
  <2> HIDE DEF m
  <2> QED BY <2>1, <2>2
<1> HIDE DEF s1
<1>4. s1 # <<>> /\ s2 \in Seq(OpSet) /\ Len(s2) = 4
      /\ s2[1] = s1[2] /\ s2[2] = s1[3] /\ s2[3] = s1[4] /\ s2[4] = s1[5]
  <2>1. s1 \in Seq(OpSet) /\ Len(s1) = 4 + 1 /\ 4 \in Nat
    BY <1>1
  <2>2. s1 # <<>> /\ Tail(s1) \in Seq(OpSet) /\ Len(Tail(s1)) = 4 /\ \A i \in 1 .. 4 : Tail(s1)[i] = s1[i + 1]
    BY <2>1, TailOf
  <2>3. 1 \in 1 .. 4 /\ 1 + 1 = 2 /\ 2 \in 1 .. 4 /\ 2 + 1 = 3 /\ 3 \in 1 .. 4 /\ 3 + 1 = 4 /\ 4 \in 1 .. 4 /\ 4 + 1 = 5
    OBVIOUS
  <2>4. Tail(s1)[1] = s1[2] /\ Tail(s1)[2] = s1[3] /\ Tail(s1)[3] = s1[4] /\ Tail(s1)[4] = s1[5]
    BY ONLY <2>2, <2>3
  <2> QED BY <2>2, <2>4 DEF s2
<1> HIDE DEF s2
<1>5. s2 # <<>> /\ s3 \in Seq(OpSet) /\ Len(s3) = 3 /\ s3[1] = s2[2] /\ s3[2] = s2[3] /\ s3[3] = s2[4]
  <2>1. s2 \in Seq(OpSet) /\ Len(s2) = 3 + 1 /\ 3 \in Nat
    BY <1>4
  <2>2. s2 # <<>> /\ Tail(s2) \in Seq(OpSet) /\ Len(Tail(s2)) = 3 /\ \A i \in 1 .. 3 : Tail(s2)[i] = s2[i + 1]
    BY <2>1, TailOf
  <2>3. 1 \in 1 .. 3 /\ 1 + 1 = 2 /\ 2 \in 1 .. 3 /\ 2 + 1 = 3 /\ 3 \in 1 .. 3 /\ 3 + 1 = 4
    OBVIOUS
  <2>4. Tail(s2)[1] = s2[2] /\ Tail(s2)[2] = s2[3] /\ Tail(s2)[3] = s2[4]
    BY ONLY <2>2, <2>3
  <2> QED BY <2>2, <2>4 DEF s3
<1> HIDE DEF s3
<1>6. s3 # <<>> /\ s4 \in Seq(OpSet) /\ Len(s4) = 2 /\ s4[1] = s3[2] /\ s4[2] = s3[3]
  <2>1. s3 \in Seq(OpSet) /\ Len(s3) = 2 + 1 /\ 2 \in Nat
    BY <1>5
  <2>2. s3 # <<>> /\ Tail(s3) \in Seq(OpSet) /\ Len(Tail(s3)) = 2 /\ \A i \in 1 .. 2 : Tail(s3)[i] = s3[i + 1]
    BY <2>1, TailOf
  <2>3. 1 \in 1 .. 2 /\ 1 + 1 = 2 /\ 2 \in 1 .. 2 /\ 2 + 1 = 3
    OBVIOUS
  <2>4. Tail(s3)[1] = s3[2] /\ Tail(s3)[2] = s3[3]
    BY ONLY <2>2, <2>3
  <2> QED BY <2>2, <2>4 DEF s4
<1> HIDE DEF s4
<1>7. s4 # <<>> /\ s5 \in Seq(OpSet) /\ Len(s5) = 1 /\ s5[1] = s4[2]
  <2>1. s4 \in Seq(OpSet) /\ Len(s4) = 1 + 1 /\ 1 \in Nat
    BY <1>6
  <2>2. s4 # <<>> /\ Tail(s4) \in Seq(OpSet) /\ Len(Tail(s4)) = 1 /\ \A i \in 1 .. 1 : Tail(s4)[i] = s4[i + 1]
    BY <2>1, TailOf
  <2>3. 1 \in 1 .. 1 /\ 1 + 1 = 2
    OBVIOUS
  <2>4. Tail(s4)[1] = s4[2]
    BY ONLY <2>2, <2>3
  <2> QED BY <2>2, <2>4 DEF s5
<1> HIDE DEF s5
<1>8. s5 # <<>> /\ s6 \in Seq(OpSet) /\ s6 = <<>>
  <2>1. s5 \in Seq(OpSet) /\ Len(s5) = 0 + 1 /\ 0 \in Nat
    BY <1>7
  <2>2. s5 # <<>> /\ Tail(s5) \in Seq(OpSet) /\ Len(Tail(s5)) = 0
    BY <2>1, TailOf
  <2> QED BY <2>2, EmptySeq
<1> HIDE DEF s6
<1>9. \A s \in Seq(OpSet) : s # <<>> => s \o t # <<>> /\ (s \o t)[1] = s[1] /\ Tail(s \o t) = Tail(s) \o t
  BY Front
<1>10. DropLock(s5 \o t, y)
  <2>1. s5 \o t # <<>> /\ (s5 \o t)[1] = s5[1] /\ Tail(s5 \o t) = s6 \o t
    BY <1>7, <1>8, <1>9 DEF s6
  <2>2. s6 \o t = t
    BY <1>8, NoOps
  <2>3. s5[1].f = "dropLock"
    BY <1>1, <1>4, <1>5, <1>6, <1>7
  <2> QED BY <2>1, <2>2, <2>3 DEF DropLock, Next1
<1>11. MvBak(s4 \o t, y)
  <2>1. s4 \o t # <<>> /\ (s4 \o t)[1] = s4[1] /\ Tail(s4 \o t) = s5 \o t
    BY <1>6, <1>7, <1>9 DEF s5
  <2>2. s4[1].f = "mvBak"
    BY <1>1, <1>4, <1>5, <1>6
  <2> QED BY <1>10, <2>1, <2>2 DEF MvBak, Next1
<1>12. MvDir(s3 \o t, r, y)
  <2>1. s3 \o t # <<>> /\ (s3 \o t)[1] = s3[1] /\ Tail(s3 \o t) = s4 \o t
    BY <1>5, <1>6, <1>9 DEF s4
  <2>2. s3[1] = Op("mvDir", r)
    BY <1>2, <1>4, <1>5
  <2> QED BY <1>11, <2>1, <2>2 DEF MvDir
<1>13. MvDef(s2 \o t, r, y)
  <2>1. s2 \o t # <<>> /\ (s2 \o t)[1] = s2[1] /\ Tail(s2 \o t) = s3 \o t
    BY <1>4, <1>5, <1>9 DEF s3
  <2>2. s2[1] = Op("mvDef", r)
    BY <1>2, <1>4
  <2> QED BY <1>12, <2>1, <2>2 DEF MvDef
<1>14. MkDir(s1 \o t, r, y)
  <2>1. s1 \o t # <<>> /\ (s1 \o t)[1] = s1[1] /\ Tail(s1 \o t) = s2 \o t
    BY <1>1, <1>4, <1>9 DEF s2
  <2> QED BY <1>2, <1>13, <2>1 DEF MkDir
<1> QED BY <1>14 DEF s1

\* The operations of a removal, whatever is done after it.
LEMMA ClearShape ==
    ASSUME NEW y, NEW t \in Seq(OpSet), Rest(t, y)
    PROVE  RmDef(Clear \o t, y)
<1> DEFINE a == Op("rmDef", NoRun)
           b == Op("rmDir", NoRun)
           e == Op("dropLock", NoRun)
<1>1. a \in OpSet /\ b \in OpSet /\ e \in OpSet /\ a.f = "rmDef" /\ b.f = "rmDir" /\ e.f = "dropLock"
  BY DEF Op, OpSet, Plain
<1>2. Clear = <<a, b, e>>
  BY DEF Clear
<1> HIDE DEF a, b, e
<1>3. /\ <<e>> \in Seq(OpSet) /\ <<b, e>> \in Seq(OpSet) /\ <<a, b, e>> \in Seq(OpSet)
      /\ <<e>> # <<>> /\ <<b, e>> # <<>> /\ <<a, b, e>> # <<>>
      /\ Tail(<<e>>) = <<>> /\ Tail(<<b, e>>) = <<e>> /\ Tail(<<a, b, e>>) = <<b, e>>
      /\ <<e>>[1] = e /\ <<b, e>>[1] = b /\ <<a, b, e>>[1] = a
  BY <1>1
<1>4. DropLock(<<e>> \o t, y)
  <2>1. <<e>> \o t # <<>> /\ (<<e>> \o t)[1] = e /\ Tail(<<e>> \o t) = t
    BY <1>3, Front, NoOps
  <2> QED BY <1>1, <2>1 DEF DropLock, Next1
<1>5. RmDir(<<b, e>> \o t, y)
  <2>1. <<b, e>> \o t # <<>> /\ (<<b, e>> \o t)[1] = b /\ Tail(<<b, e>> \o t) = <<e>> \o t
    BY <1>3, Front
  <2> QED BY <1>1, <1>4, <2>1 DEF RmDir, Next1
<1>6. RmDef(<<a, b, e>> \o t, y)
  <2>1. <<a, b, e>> \o t # <<>> /\ (<<a, b, e>> \o t)[1] = a /\ Tail(<<a, b, e>> \o t) = <<b, e>> \o t
    BY <1>3, Front
  <2> QED BY <1>1, <1>5, <2>1 DEF RmDef, Next1
<1> QED BY <1>2, <1>6

\* Where a process decides on what to do with nothing left to do, what was kept
\* is kept if the copy of the slot goes on its way, or stays, or has nothing to keep.
LEMMA KeptShift ==
    ASSUME HubTypes, NEW p \in Procs, NEW y \in Copies, Kept(p, y, NoCopy), NEW q \in Procs,
           slot' = slot, arch' = arch, past'.kept = past.kept,
           \A o \in Procs : o # q => todo'[o] = <<>>,
           hub'.driver = NoRun, cli'.cmd # "run",
           NEW z \in Copies, NEW c \in Copies,
           z # NoCopy => Good(z) /\ ~arch[z.def.run].dir,
           c # NoCopy => c = y /\ (z # NoCopy => c.def.run # z.def.run),
           y # NoCopy => c = y \/ ~HasTasks(y.def.run),
           \A i \in 1 .. Len(todo'[q]) : todo'[q][i].f # "ack",
           IF c = NoCopy THEN Leading(todo[q], z)' ELSE Leaving(todo[q], c, z)'
    PROVE  Kept(q, z, c)'
<1>1. (\A x : Good(x)' <=> Good(x)) /\ (\A x : HasTasks(x)' <=> HasTasks(x))
  BY DEF Good, HasTasks
<1>2. ASSUME NEW r \in Runs, arch[r].dir PROVE Good(Filed(r))' /\ arch'[r].files.def.run = r
  <2>1. Good(Filed(r)) /\ arch[r].files.def.run = r
    BY <1>2 DEF Kept
  <2>2. PICK g : g = Filed(r)
    OBVIOUS
  <2>3. Filed(r)' = g /\ Good(g)
    BY <2>1, <2>2 DEF Filed, Good
  <2> QED BY <2>1, <2>3 DEF Good
<1>3. \A x : IsAt(x, y, NoCopy) /\ HasTasks(x) => IsAt(x, z, c)'
  BY DEF IsAt
<1>4. HasTasks(First) /\ IsAt(First, y, NoCopy)
  BY DEF HasTasks, Kept
<1>5. \A k \in past.kept : k[1] \in Runs /\ (HasTasks(k[1]) => IsAt(k[1], y, NoCopy))
  BY DEF Kept
<1>6. IsAt(First, z, c)' /\ \A k \in past'.kept : k[1] \in Runs /\ (HasTasks(k[1])' => IsAt(k[1], z, c)')
  BY <1>1, <1>3, <1>4, <1>5
<1>7. y # NoCopy => Good(y)
  BY DEF Kept
<1>8. /\ z # NoCopy => Good(z)' /\ ~arch'[z.def.run].dir
      /\ c # NoCopy => Good(c)' /\ (z # NoCopy => c.def.run # z.def.run)
  BY <1>1, <1>7
<1>9. \A r \in Runs : arch'[r].dir => Good(Filed(r))' /\ arch'[r].files.def.run = r
  BY <1>2
<1> QED BY <1>6, <1>8, <1>9 DEF Kept

\* The run of the slot is sent to the archive.
LEMMA KeptMove ==
    ASSUME HubTypes, NEW p \in Procs, NEW y \in Copies, Kept(p, y, NoCopy), todo[p] = <<>>, y # NoCopy,
           NEW q \in Procs, slot' = slot, arch' = arch, past'.kept = past.kept,
           \A o \in Procs : o # q => todo'[o] = <<>>, todo'[q] = Move(y.def.run),
           hub'.driver = NoRun, cli'.cmd # "run"
    PROVE  Kept(q, NoCopy, y)'
<1>1. slot.def = y.def /\ slot.st = y.st
  BY EndsIs, KeptQuiet, Nothing
<1>2. Good(y) /\ y.def.run \in Runs /\ ~arch[y.def.run].dir /\ arch \in [Runs -> Archives]
  BY GoodRun DEF Kept, HubTypes
<1>3. Move(y.def.run) \in Seq(OpSet) /\ \A i \in 1 .. Len(Move(y.def.run)) : Move(y.def.run)[i].f # "ack"
  <2>1. Move(y.def.run) \in Seq(OpSet) /\ \A i \in 1 .. Len(Move(y.def.run)) : Move(y.def.run)[i].f \in Moving
    BY <1>2, MoveIs
  <2> QED BY <2>1 DEF Moving
<1>4. MkDir(Move(y.def.run), y.def.run, NoCopy)
  <2>1. Rest(<<>>, NoCopy) /\ <<>> \in Seq(OpSet)
    BY NoOps DEF Rest
  <2>2. MkDir(Move(y.def.run) \o <<>>, y.def.run, NoCopy)
    BY <1>2, <2>1, MoveShape
  <2>3. Move(y.def.run) \o <<>> = Move(y.def.run)
    BY <1>3, ConcatEmptySeq
  <2> QED BY <2>2, <2>3
<1>5. Leaving(todo[q], y, NoCopy)'
  BY <1>1, <1>2, <1>4 DEF Leaving
<1> QED BY <1>3, <1>5, Nothing, KeptShift

\* A new run takes the slot: the one that is there is archived if it has tasks.
LEMMA KeptNew ==
    ASSUME HubTypes, NEW p \in Procs, NEW y \in Copies, Kept(p, y, NoCopy), todo[p] = <<>>,
           NEW r \in Runs, r \notin Used,
           NEW q \in Procs, slot' = slot, arch' = arch, past'.kept = past.kept,
           \A o \in Procs : o # q => todo'[o] = <<>>, todo'[q] = StartNew(r),
           hub'.driver = NoRun, cli'.cmd # "run"
    PROVE  \E c \in Copies : Kept(q, Fresh(r), c)'
<1> DEFINE z == Fresh(r)
           s == SaveBoth(z)
<1>1. z \in Copies /\ z.def # NoDef /\ z.def.run = r /\ z.def.tasks = {} /\ z.st.there /\ z # NoCopy
  BY Nothing DEF NoCopy
<1> HIDE DEF z
<1>2. Save(NoCopy, z) = s /\ s \in Seq(OpSet)
  <2>1. z # NoCopy /\ z.def # NoCopy.def
    BY <1>1 DEF NoCopy
  <2> QED BY <1>1, <2>1, SaveIs, Nothing
<1>3. AsideDef(s, z)
  <2>1. AsideDef(s \o <<>>, z)
    BY <1>1, EndsIs, NoOps, SaveShape
  <2> QED BY <1>2, <2>1, ConcatEmptySeq
<1> HIDE DEF s
<1>4. /\ y # NoCopy => slot.def = y.def /\ slot.st = y.st /\ There(slot) /\ Loads(slot) /\ Content(slot) = y
      /\ y = NoCopy => ~There(slot)
  BY EndsIs, KeptQuiet, Nothing
<1>5. ~arch[r].dir /\ r # slot.def.run /\ \A k \in past.kept : k[1] # r
  BY DEF Used
<1>6. y # NoCopy => Good(y) /\ y.def.run \in Runs /\ y.def.run # r /\ ~arch[y.def.run].dir
  BY <1>4, <1>5, GoodRun DEF Kept
<1>7. Good(z)
  <2>1. r # First
    <3>1. IsAt(First, y, NoCopy)
      BY DEF Kept
    <3> QED BY <1>5, <1>6, <3>1 DEF IsAt
  <2> QED BY <1>1, <1>5, <2>1 DEF Good, Whole
<1>8. \A i \in 1 .. Len(todo'[q]) : todo'[q][i].f # "ack"
  BY StartNewIs DEF HubTypes
<1>9. /\ StartNew(r) =
            (IF ~(There(slot) /\ Loads(slot)) THEN <<>>
             ELSE IF Content(slot).def.tasks # {} THEN Move(Content(slot).def.run) ELSE Clear) \o s
  BY <1>2 DEF StartNew, z
<1>10. Rest(s, z)
  BY <1>1, <1>3 DEF Rest
<1>11. CASE y = NoCopy
  <2>1. StartNew(r) = s
    BY <1>2, <1>4, <1>9, <1>11, NoOps
  <2>2. Leading(todo[q], z)'
    BY <1>1, <1>3, <2>1 DEF Leading, Saved
  <2>3. Kept(q, z, NoCopy)'
    BY <1>1, <1>5, <1>7, <1>8, <1>11, <2>2, Nothing, KeptShift
  <2> QED BY <2>3, Nothing DEF z
<1>12. CASE y # NoCopy /\ y.def.tasks = {}
  <2>1. StartNew(r) = Clear \o s
    BY <1>4, <1>9, <1>12
  <2>2. RmDef(Clear \o s, z)
    BY <1>2, <1>10, ClearShape
  <2>3. Leading(todo[q], z)'
    BY <1>1, <2>1, <2>2 DEF Leading
  <2>4. ~HasTasks(y.def.run)
    <3>1. y.def.run # First
      BY <1>6, <1>12 DEF Good, Whole
    <3>2. \A k \in past.kept : k[1] = y.def.run => k[2] # "add"
      BY <1>6, <1>12 DEF Good, Holds
    <3> QED BY <3>1, <3>2 DEF HasTasks
  <2>5. Kept(q, z, NoCopy)'
    BY <1>1, <1>5, <1>7, <1>8, <2>3, <2>4, Nothing, KeptShift
  <2> QED BY <2>5, Nothing DEF z
<1>13. CASE y # NoCopy /\ y.def.tasks # {}
  <2>1. StartNew(r) = Move(y.def.run) \o s
    BY <1>4, <1>9, <1>13
  <2>2. MkDir(Move(y.def.run) \o s, y.def.run, z)
    BY <1>2, <1>6, <1>10, <1>13, MoveShape DEF HubTypes
  <2>3. Leaving(todo[q], y, z)'
    BY <1>4, <1>6, <1>13, <2>1, <2>2 DEF Leaving
  <2>4. Kept(q, z, y)'
    BY <1>1, <1>5, <1>6, <1>7, <1>8, <1>13, <2>3, KeptShift
  <2> QED BY <2>4 DEF z
<1> QED BY <1>11, <1>12, <1>13

\* With nothing to do in either process, the slot is the copy.
LEMMA KeptNow ==
    ASSUME HubTypes, KeepInv, ~past.cut, Quiet
    PROVE  \E p \in Procs, y \in Copies :
              /\ Kept(p, y, NoCopy) /\ todo[p] = <<>>
              /\ Loads(slot) => y # NoCopy /\ Content(slot) = y
<1>1. PICK p \in Procs, y \in Copies, c \in Copies : Kept(p, y, c)
  BY DEF KeepInv
<1>2. todo[p] = <<>> /\ Ends(todo[p])
  BY EndsIs DEF Quiet
<1>3. c = NoCopy
  BY <1>1, <1>2, KeptQuiet
<1>4. Loads(slot) => y # NoCopy /\ Content(slot) = y
  BY <1>1, <1>2, KeptQuiet
<1> QED BY <1>1, <1>2, <1>3, <1>4

\* An edit that is counted is not acknowledged yet, and cuts nothing.
LEMMA CountedIs == ASSUME past \in Pasts, Counted PROVE past'.kept = past.kept /\ past'.cut = past.cut
BY DEF Counted, Pasts

\* The files of the slot are read only where there is something to lose.
LEMMA KeptHere ==
    ASSUME HubTypes, KeepInv, ~past.cut, Quiet, Loads(slot), NEW q \in Procs, NEW kind \in Kinds, CanEdit,
           slot' = slot, arch' = arch, past'.kept = past.kept,
           NEW t \in Seq(OpSet), Ends(t), \A i \in 1 .. Len(t) : t[i].f # "ack",
           todo'[q] = Saving(Content(slot), kind) \o t, \A o \in Procs : o # q => todo'[o] = <<>>,
           hub'.driver # NoRun => hub'.mem = Edited(Content(slot), kind),
           cli'.cmd # "run"
    PROVE  KeepInv'
<1>1. PICK p \in Procs, y \in Copies :
         Kept(p, y, NoCopy) /\ todo[p] = <<>> /\ y # NoCopy /\ Content(slot) = y
  BY KeptNow
<1>2. \E z \in Copies : Kept(q, z, NoCopy)'
  <2>1. todo'[q] = Saving(y, kind) \o t /\ (hub'.driver # NoRun => hub'.mem = Edited(y, kind))
    BY <1>1
  <2> QED BY <1>1, <2>1, KeptEdit
<1> QED BY <1>2, Nothing DEF KeepInv

\* A death: what the dead had to do is not done, and cuts something unless it
\* was only to acknowledge or to give the lock back.
LEMMA DiesIs ==
    ASSUME HubTypes, NEW p \in Procs, Dies(p)
    PROVE  /\ slot' = slot /\ arch' = arch /\ todo' = [todo EXCEPT ![p] = <<>>] /\ past'.kept = past.kept
           /\ past.cut => past'.cut
           /\ ~past'.cut => Ends(todo[p])
<1> DEFINE e == \E i \in DOMAIN todo[p] : todo[p][i].f \notin {"unlock", "ack"}
<1>1. past' = [past EXCEPT !.faults = @ + 1, !.cut = past.cut \/ e] /\ past \in Pasts
  BY DEF Dies, HubTypes
<1>2. ~e => Ends(todo[p])
  <2>1. DOMAIN todo[p] = 1 .. Len(todo[p])
    BY LenProperties DEF HubTypes
  <2> QED BY <2>1 DEF Ends
<1> HIDE DEF e
<1>3. past'.kept = past.kept /\ past'.cut = (past.cut \/ e)
  BY <1>1 DEF Pasts
<1> QED BY <1>2, <1>3 DEF Dies

\* Whoever dies, what was acknowledged is kept, unless the death cuts something.
LEMMA KeptDies ==
    ASSUME HubTypes, KeepInv, ~past.cut, NEW q \in Procs, Dies(q),
           hub'.driver = NoRun \/ hub' = hub, cli'.cmd = "none" \/ cli' = cli
    PROVE  KeepInv'
<1>1. PICK p \in Procs, y \in Copies, c \in Copies : Kept(p, y, c)
  BY DEF KeepInv
<1>2. /\ slot' = slot /\ arch' = arch /\ past'.kept = past.kept
      /\ todo' = [todo EXCEPT ![q] = <<>>] /\ todo \in [Procs -> Seq(OpSet)]
      /\ ~past'.cut => Ends(todo[q])
  BY DiesIs DEF HubTypes
<1>3. /\ hub'.driver # NoRun => c = NoCopy /\ y # NoCopy /\ hub'.mem = y
      /\ cli'.cmd = "run" => c = NoCopy /\ y # NoCopy /\ cli'.mem = y
  BY <1>1 DEF Kept
<1>4. CASE p # q \/ todo[q] = <<>>
  <2>1. todo[q] = <<>>
    BY <1>1, <1>4 DEF Kept
  <2>2. todo' = todo
    BY <1>2, <2>1
  <2>3. Kept(p, y, c)'
    BY <1>1, <1>2, <1>3, <2>2, KeptStay
  <2> QED BY <2>3 DEF KeepInv
<1>5. CASE p = q /\ ~past'.cut
  <2>1. Ends(todo[p]) /\ todo'[q] = <<>> /\ \A o \in Procs : o # q => todo'[o] = <<>>
    BY <1>1, <1>2, <1>5 DEF Kept
  <2>2. Kept(p, y, c)'
    BY <1>1, <1>2, <1>3, <1>5, <2>1, KeptStay
  <2> QED BY <2>2 DEF KeepInv
<1>6. CASE past'.cut
  BY <1>6 DEF KeepInv
<1> QED BY <1>4, <1>5, <1>6

\* The command line keeps what was acknowledged.
LEMMA KeptCli ==
    ASSUME HubTypes, Alone, KeepInv, ~past.cut, Habits = {},
           \/ \E k \in Kinds : CliEdit(k)
           \/ \E r \in Runs : CliNewRun(r)
           \/ CliArchive \/ CliRun \/ CliRunSaves \/ CliExits \/ CliDies
    PROVE  KeepInv'
<1>1. /\ past \in Pasts /\ slot \in Slots /\ NoCopy \in Copies /\ arch \in [Runs -> Archives]
      /\ todo \in [Procs -> Seq(OpSet)] /\ cli \in Clis /\ "cli" \in Procs /\ <<>> \in Seq(OpSet) /\ Ends(<<>>)
      /\ \A i \in 1 .. Len(<<>>) : <<>>[i].f # "ack"
  BY Nothing, NoOps, EndsIs DEF HubTypes, Procs
<1>2. ASSUME NEW cmd, NEW m, NEW ops, Begins(cmd, m, ops)
      PROVE  /\ Quiet /\ hub' = hub /\ hub.driver = NoRun /\ slot' = slot /\ arch' = arch
             /\ cli' = [cmd |-> cmd, mem |-> m] /\ todo'["cli"] = ops
             /\ \A o \in Procs : o # "cli" => todo'[o] = <<>>
  <2>1. /\ todo["hub"] = <<>> /\ todo["cli"] = <<>> /\ lock = "none"
        /\ todo' = [todo EXCEPT !["cli"] = ops] /\ hub' = hub /\ slot' = slot /\ arch' = arch
        /\ cli' = [cmd |-> cmd, mem |-> m]
    BY <1>2 DEF Begins, MayBegin, Idle
  <2>2. hub.driver = NoRun
    BY <2>1 DEF Alone, DriverInv
  <2> QED BY <1>1, <2>1, <2>2 DEF Quiet, Procs
<1>3. ASSUME NEW k \in Kinds, CliEdit(k) PROVE KeepInv'
  <2>1. Begins("edit", NoCopy, Saving(Content(slot), k)) /\ Loads(slot) /\ CanEdit /\ Counted
    BY <1>3 DEF CliEdit
  <2>2. /\ Quiet /\ hub'.driver = NoRun /\ slot' = slot /\ arch' = arch /\ cli'.cmd # "run"
        /\ todo'["cli"] = Saving(Content(slot), k) /\ \A o \in Procs : o # "cli" => todo'[o] = <<>>
    BY <1>2, <2>1
  <2>3. Saving(Content(slot), k) = Saving(Content(slot), k) \o <<>>
    <3>1. Content(slot) \in Copies /\ Content(slot).def # NoDef
      BY <1>1, <2>1, ContentIs
    <3>2. Saving(Content(slot), k) \in Seq(OpSet)
      BY <1>1, <2>1, <3>1, SavingIs
    <3> HIDE DEF Saving
    <3> QED BY <3>2, ConcatEmptySeq
  <2>4. past'.kept = past.kept
    BY <1>1, <2>1, CountedIs
  <2> QED BY <1>1, <2>1, <2>2, <2>3, <2>4, KeptHere
<1>4. ASSUME NEW r \in Runs, CliNewRun(r) PROVE KeepInv'
  <2>1. Begins("new-run", NoCopy, StartNew(r)) /\ r \notin Used /\ past' = past
    BY <1>4 DEF CliNewRun
  <2>2. /\ Quiet /\ hub'.driver = NoRun /\ slot' = slot /\ arch' = arch /\ cli'.cmd # "run"
        /\ todo'["cli"] = StartNew(r) /\ \A o \in Procs : o # "cli" => todo'[o] = <<>>
    BY <1>2, <2>1
  <2>3. PICK p \in Procs, y \in Copies : Kept(p, y, NoCopy) /\ todo[p] = <<>>
    BY <2>2, KeptNow
  <2>4. \E c \in Copies : Kept("cli", Fresh(r), c)'
    BY <1>1, <2>1, <2>2, <2>3, KeptNew
  <2>5. PICK z : z = Fresh(r)
    OBVIOUS
  <2>6. z \in Copies /\ \E c \in Copies : Kept("cli", z, c)'
    BY <2>4, <2>5, Nothing DEF Fresh
  <2> QED BY <1>1, <2>6 DEF KeepInv
<1>5. ASSUME CliArchive PROVE KeepInv'
  <2>1. Begins("archive", NoCopy, Move(Content(slot).def.run)) /\ Loads(slot) /\ past' = past
    BY <1>5 DEF CliArchive
  <2>2. /\ Quiet /\ hub'.driver = NoRun /\ slot' = slot /\ arch' = arch /\ cli'.cmd # "run"
        /\ todo'["cli"] = Move(Content(slot).def.run) /\ \A o \in Procs : o # "cli" => todo'[o] = <<>>
    BY <1>2, <2>1
  <2>3. PICK p \in Procs, y \in Copies :
           Kept(p, y, NoCopy) /\ todo[p] = <<>> /\ y # NoCopy /\ Content(slot) = y
    BY <2>1, <2>2, KeptNow
  <2>4. Kept("cli", NoCopy, y)'
    BY <1>1, <2>1, <2>2, <2>3, KeptMove
  <2> QED BY <1>1, <2>4 DEF KeepInv
<1>6. ASSUME CliRun PROVE KeepInv'
  <2>1. Begins("run", Content(slot), <<>>) /\ Loads(slot) /\ past' = past
    BY <1>6 DEF CliRun
  <2>2. /\ Quiet /\ hub'.driver = NoRun /\ slot' = slot /\ arch' = arch /\ cli'.mem = Content(slot)
        /\ todo'["cli"] = <<>> /\ \A o \in Procs : o # "cli" => todo'[o] = <<>>
    BY <1>2, <2>1
  <2>3. PICK p \in Procs, y \in Copies :
           Kept(p, y, NoCopy) /\ todo[p] = <<>> /\ y # NoCopy /\ Content(slot) = y
    BY <2>1, <2>2, KeptNow
  <2>4. Kept("cli", y, NoCopy)'
    BY <1>1, <2>1, <2>2, <2>3, KeptStay
  <2> QED BY <1>1, <2>4 DEF KeepInv
<1>7. ASSUME CliRunSaves PROVE KeepInv'
  <2>1. /\ cli.cmd = "run" /\ todo["cli"] = <<>> /\ CanEdit /\ Counted
        /\ cli' = [cli EXCEPT !.mem = Edited(cli.mem, "mark")]
        /\ todo' = [todo EXCEPT !["cli"] = Saving(cli.mem, "mark")]
        /\ slot' = slot /\ arch' = arch /\ hub' = hub
    BY <1>7 DEF CliRunSaves
  <2>2. lock = "cli" /\ todo["hub"] = <<>>
    BY <2>1 DEF Alone, CliInv
  <2>3. hub.driver = NoRun /\ Quiet
    BY <2>1, <2>2 DEF Alone, DriverInv, Quiet, Procs
  <2>4. PICK p \in Procs, y \in Copies : Kept(p, y, NoCopy) /\ todo[p] = <<>>
    BY <2>3, KeptNow
  <2>5. y # NoCopy /\ cli.mem = y
    BY <2>1, <2>4 DEF Kept
  <2>6. Saving(y, "mark") = Saving(y, "mark") \o <<>>
    <3>1. Saving(y, "mark") \in Seq(OpSet)
      BY <1>1, <2>1, SavingIs DEF Kinds
    <3> QED BY <3>1, ConcatEmptySeq
  <2>7. todo'["cli"] = Saving(y, "mark") \o <<>> /\ \A o \in Procs : o # "cli" => todo'[o] = <<>>
    BY <1>1, <2>1, <2>2, <2>5, <2>6 DEF Procs
  <2>8. cli'.mem = Edited(y, "mark") /\ hub'.driver = NoRun
    BY <1>1, <2>1, <2>3, <2>5 DEF Clis
  <2>9. past'.kept = past.kept
    BY <1>1, <2>1, CountedIs
  <2>10. \E z \in Copies : Kept("cli", z, NoCopy)'
    BY <1>1, <2>1, <2>4, <2>5, <2>7, <2>8, <2>9, KeptEdit DEF Kinds
  <2> QED BY <1>1, <2>10 DEF KeepInv
<1>8. PICK p \in Procs, y \in Copies, c \in Copies : Kept(p, y, c)
  BY DEF KeepInv
<1>9. hub.driver # NoRun => c = NoCopy /\ y # NoCopy /\ hub.mem = y
  BY <1>8 DEF Kept
<1>10. ASSUME CliExits PROVE KeepInv'
  <2>1. cli'.cmd # "run" /\ slot' = slot /\ arch' = arch /\ hub' = hub /\ todo' = todo /\ past' = past
    BY <1>10 DEF CliExits
  <2>2. Kept(p, y, c)'
    BY <1>8, <1>9, <2>1, KeptStay
  <2> QED BY <2>2 DEF KeepInv
<1>11. ASSUME CliDies PROVE KeepInv'
  <2>1. Dies("cli") /\ hub' = hub /\ cli'.cmd = "none"
    BY <1>11 DEF CliDies
  <2> QED BY <1>1, <2>1, KeptDies
<1> QED BY <1>3, <1>4, <1>5, <1>6, <1>7, <1>10, <1>11

\* Where no file is touched and nothing is decided on, nothing is lost.
LEMMA KeptSame ==
    ASSUME HubTypes, KeepInv, ~past.cut,
           slot' = slot, arch' = arch, todo' = todo, past' = past, cli' = cli,
           hub'.driver = NoRun \/ (hub'.driver = hub.driver /\ hub'.mem = hub.mem)
    PROVE  KeepInv'
<1>1. PICK p \in Procs, y \in Copies, c \in Copies : Kept(p, y, c)
  BY DEF KeepInv
<1>2. /\ hub'.driver # NoRun => c = NoCopy /\ y # NoCopy /\ hub'.mem = y
      /\ cli'.cmd = "run" => c = NoCopy /\ y # NoCopy /\ cli'.mem = y
  BY <1>1 DEF Kept
<1>3. Kept(p, y, c)'
  BY <1>1, <1>2, KeptStay
<1> QED BY <1>3 DEF KeepInv

\* Where the hub is ready and the lock is not the command line's, or the hub has
\* a runner, nothing is left to do and no command drives the run.
LEMMA HubAlone ==
    ASSUME HubTypes, Alone, Ready, hub.driver # NoRun \/ (lock # "cli" /\ Loads(slot))
    PROVE  Quiet /\ cli.cmd # "run"
<1>1. todo["hub"] = <<>>
  BY DEF Ready
<1>2. CASE hub.driver # NoRun
  BY <1>1, <1>2 DEF Alone, DriverInv, CliInv, Quiet, Procs
<1>3. CASE lock # "cli" /\ Loads(slot)
  <2>1. ~Gone
    BY <1>3, GoneIs
  <2> QED BY <1>1, <1>3, <2>1 DEF Alone, CliInv, Quiet, Procs
<1> QED BY <1>2, <1>3

\* What is done after an edit: nothing, or giving the lock back.
LEMMA NoMore ==
    \A t \in {<<>>, Unlock} : t \in Seq(OpSet) /\ Ends(t) /\ \A i \in 1 .. Len(t) : t[i].f # "ack"
<1>1. \A i \in 1 .. Len(Unlock) : Unlock[i].f # "ack"
  BY DEF Unlock, Op
<1>2. \A i \in 1 .. Len(<<>>) : <<>>[i].f # "ack"
  BY NoOps
<1> QED BY <1>1, <1>2, NoOps, EndsIs

\* An edit by the hub of what is on disk.
LEMMA KeptMutates ==
    ASSUME HubTypes, Alone, KeepInv, ~past.cut, Ready, hub.driver = NoRun, hub'.driver = NoRun,
           NEW r \in Runs, NEW kind \in {"mark", "set"}, Mutates(r, "slot", kind)
    PROVE  KeepInv'
<1>1. lock # "cli" /\ slot' = slot /\ arch' = arch /\ cli' = cli
  BY DEF Mutates
<1>2. CASE /\ Loads(slot) /\ CanEdit /\ Counted
           /\ todo' = [todo EXCEPT !["hub"] = Saving(Content(slot), kind) \o Unlock]
  <2>1. Quiet /\ cli'.cmd # "run"
    BY <1>1, <1>2, HubAlone
  <2>2. past'.kept = past.kept
    BY <1>2, CountedIs DEF HubTypes
  <2>3. todo'["hub"] = Saving(Content(slot), kind) \o Unlock /\ \A o \in Procs : o # "hub" => todo'[o] = <<>>
    BY <1>2, <2>1 DEF HubTypes, Procs, Quiet
  <2>4. Unlock \in Seq(OpSet) /\ Ends(Unlock) /\ \A i \in 1 .. Len(Unlock) : Unlock[i].f # "ack"
    BY NoMore
  <2> QED BY <1>1, <1>2, <2>1, <2>2, <2>3, <2>4, KeptHere DEF Procs, Kinds
<1>3. CASE ~Loads(slot) /\ todo' = todo /\ past' = past
  BY <1>1, <1>3, KeptSame
<1> QED BY <1>2, <1>3 DEF Mutates

\* A save of the hub's runner.
LEMMA KeptRunner ==
    ASSUME HubTypes, Alone, KeepInv, ~past.cut, Ready, hub.driver # NoRun, CanEdit, Counted,
           hub'.mem = Edited(hub.mem, "mark"), todo' = [todo EXCEPT !["hub"] = Saving(hub.mem, "mark")],
           UNCHANGED <<slot, arch, cli>>
    PROVE  KeepInv'
<1>1. Quiet /\ cli.cmd # "run" /\ past \in Pasts
  BY HubAlone DEF HubTypes
<1>2. PICK p \in Procs, y \in Copies : Kept(p, y, NoCopy) /\ todo[p] = <<>>
  BY <1>1, KeptNow
<1>3. y # NoCopy /\ hub.mem = y
  BY <1>2 DEF Kept
<1>4. Saving(y, "mark") = Saving(y, "mark") \o <<>>
  <2>1. Saving(y, "mark") \in Seq(OpSet)
    BY <1>1, SavingIs DEF Kinds
  <2> QED BY <2>1, ConcatEmptySeq
<1>5. todo'["hub"] = Saving(y, "mark") \o <<>> /\ \A o \in Procs : o # "hub" => todo'[o] = <<>>
  BY <1>1, <1>3, <1>4 DEF HubTypes, Procs, Quiet
<1>6. past'.kept = past.kept
  BY <1>1, CountedIs
<1>7. <<>> \in Seq(OpSet) /\ Ends(<<>>) /\ \A i \in 1 .. Len(<<>>) : <<>>[i].f # "ack"
  BY NoMore
<1>8. \E z \in Copies : Kept("hub", z, NoCopy)'
  BY <1>1, <1>2, <1>3, <1>5, <1>6, <1>7, KeptEdit DEF Kinds, Procs
<1> QED BY <1>8, Nothing DEF KeepInv, Procs

\* A runner starts, or nothing is to be run; the options may be saved before.
LEMMA KeptStart ==
    ASSUME HubTypes, Alone, KeepInv, ~past.cut, Habits = {}, NEW r \in Runs, Start(r)
    PROVE  KeepInv'
<1>1. /\ lock # "cli" /\ slot' = slot /\ arch' = arch /\ cli' = cli
      /\ Ready /\ Serves(r) /\ ~Archived(r) /\ ~InProgress(r)
  BY StartIs
<1>2. hub.driver = NoRun
  BY <1>1, ServesDriver
<1>3. hub \in Hubs /\ Rt(r) \in Rts /\ past \in Pasts /\ todo \in [Procs -> Seq(OpSet)] /\ slot \in Slots
  BY RtIs DEF HubTypes
<1>4. [hub EXCEPT !.rts[r] = Rt(r)].driver = NoRun
  BY <1>2, <1>3, HubFields
<1> DEFINE Begun(ops, something, c, t) ==
              /\ Loads(slot) /\ (ops = <<>> \/ ops = Saving(Content(slot), "set"))
              /\ c = IF ops = <<>> THEN Content(slot) ELSE Edited(Content(slot), "set")
              /\ IF ops = <<>> THEN UNCHANGED past ELSE CanEdit /\ Counted
              /\ t = IF something /\ hub.driver = NoRun THEN <<>> ELSE NothingToRun
              /\ todo' = [todo EXCEPT !["hub"] = ops \o t]
              /\ hub' = IF something /\ hub.driver = NoRun
                        THEN [hub EXCEPT !.driver = r, !.mem = c,
                                         !.rts[r] = [Rt(r) EXCEPT !.live = TRUE, !.starting = TRUE]]
                        ELSE [hub EXCEPT !.rts[r] = Rt(r)]
<1>5. ASSUME NEW ops, NEW something \in BOOLEAN, NEW c, NEW t, Begun(ops, something, c, t)
      PROVE  KeepInv'
  <2>1. t \in {<<>>, Unlock} /\ t \in Seq(OpSet) /\ Ends(t) /\ \A i \in 1 .. Len(t) : t[i].f # "ack"
    <3>1. t \in {<<>>, Unlock}
      BY <1>5 DEF NothingToRun
    <3> QED BY <3>1, NoMore
  <2>2. hub'.driver # NoRun => hub'.mem = c
    <3>1. CASE something
      BY <1>2, <1>3, <1>5, <3>1 DEF Hubs
    <3>2. CASE ~something
      BY <1>4, <1>5, <3>2
    <3> QED BY <3>1, <3>2
  <2>3. Quiet /\ cli'.cmd # "run"
    BY <1>1, <1>5, HubAlone
  <2>4. todo'["hub"] = ops \o t /\ \A o \in Procs : o # "hub" => todo'[o] = <<>>
    BY <1>3, <1>5, <2>3 DEF Procs, Quiet
  <2>5. CASE ops = <<>>
    <3>1. PICK p \in Procs, y \in Copies :
             Kept(p, y, NoCopy) /\ todo[p] = <<>> /\ y # NoCopy /\ Content(slot) = y
      BY <1>5, <2>3, KeptNow
    <3>2. todo'["hub"] = t
      BY <2>1, <2>4, <2>5, NoOps
    <3>3. c = y /\ past' = past
      BY <1>5, <2>5, <3>1
    <3>4. Kept("hub", y, NoCopy)'
      BY <1>1, <2>1, <2>2, <2>3, <2>4, <3>1, <3>2, <3>3, EndsIs, Nothing, KeptStay DEF Procs
    <3> QED BY <3>4, Nothing DEF KeepInv, Procs
  <2>6. CASE ops # <<>>
    <3>1. /\ ops = Saving(Content(slot), "set") /\ c = Edited(Content(slot), "set")
          /\ CanEdit /\ past'.kept = past.kept
      BY <1>3, <1>5, <2>6, CountedIs
    <3> QED BY <1>1, <1>5, <2>1, <2>2, <2>3, <2>4, <3>1, KeptHere DEF Procs, Kinds
  <2> QED BY <2>5, <2>6
<1>6. ASSUME ~Loads(slot), hub' = [hub EXCEPT !.rts[r] = Rt(r)], UNCHANGED <<todo, past>>
      PROVE  KeepInv'
  BY <1>1, <1>4, <1>6, KeptSame
<1>7. CASE Loads(slot)
  <2>1. PICK ops \in {<<>>, Saving(Content(slot), "set")}, something \in BOOLEAN :
           LET c == IF ops = <<>> THEN Content(slot) ELSE Edited(Content(slot), "set")
               runs == something /\ hub.driver = NoRun
               drives == [Rt(r) EXCEPT !.live = TRUE, !.starting = TRUE]
           IN  /\ IF ops = <<>> THEN UNCHANGED past ELSE CanEdit /\ Counted
               /\ todo' = [todo EXCEPT !["hub"] = ops \o (IF runs THEN <<>> ELSE NothingToRun)]
               /\ hub' = IF runs
                         THEN [hub EXCEPT !.driver = r, !.mem = c, !.rts[r] = drives]
                         ELSE [hub EXCEPT !.rts[r] = Rt(r)]
    BY <1>7 DEF Start
  <2>2. PICK c : c = IF ops = <<>> THEN Content(slot) ELSE Edited(Content(slot), "set")
    OBVIOUS
  <2>3. PICK t : t = IF something /\ hub.driver = NoRun THEN <<>> ELSE NothingToRun
    OBVIOUS
  <2>4. ops = <<>> \/ ops = Saving(Content(slot), "set")
    OBVIOUS
  <2>5. Begun(ops, something, c, t)
    BY <1>7, <2>1, <2>2, <2>3, <2>4
  <2> HIDE DEF Begun
  <2> QED BY <1>5, <2>5
<1>8. CASE ~Loads(slot)
  BY <1>6, <1>8 DEF Start
<1> QED BY <1>7, <1>8

\* The hub keeps what was acknowledged.
LEMMA KeptHub ==
    ASSUME HubTypes, Alone, KeepInv, ~past.cut, Habits = {}, HubStep
    PROVE  KeepInv'
<1>1. /\ hub \in Hubs /\ todo \in [Procs -> Seq(OpSet)] /\ slot \in Slots /\ past \in Pasts
      /\ hub.mem \in Copies /\ hub.rts \in [Runs -> Rts] /\ NoReq \in Reqs /\ NoRt \in Rts
      /\ arch \in [Runs -> Archives] /\ NoCopy \in Copies /\ "hub" \in Procs
  BY Nothing DEF HubTypes, Hubs, Procs
<1>2. "unlocked" \notin Habits /\ "alias" \notin Habits /\ "slow" \notin Habits /\ RequestInv
  BY DEF Alone
<1>3. CASE Boot \/ Shutdown
  <2>1. hub'.driver = NoRun
    BY <1>3 DEF Boot, Shutdown, Off
  <2> QED BY <1>3, <2>1, KeptSame DEF Boot, Shutdown
<1>4. CASE HubDies
  <2>1. Dies("hub") /\ hub'.driver = NoRun /\ cli' = cli
    BY <1>4 DEF HubDies, Off
  <2> QED BY <1>1, <2>1, KeptDies
<1>5. CASE AnswerOnDisk
  <2>1. hub.req.run \in Runs /\ Mutates(hub.req.run, "slot", "mark") /\ hub.driver = NoRun /\ Ready
    BY <1>2, <1>5, RequestAtSlot DEF AnswerOnDisk, RequestInv
  <2>2. hub'.driver = NoRun
    BY <1>1, <1>5, <2>1 DEF AnswerOnDisk, Hubs
  <2> QED BY <2>1, <2>2, KeptMutates
<1>6. CASE AnswerRefused
  <2>1. hub'.driver = hub.driver /\ hub'.mem = hub.mem
    BY <1>1, <1>6 DEF AnswerRefused, Hubs
  <2> QED BY <1>6, <2>1, KeptSame DEF AnswerRefused
<1>7. CASE AnswerInMemory
  <2>1. hub.req # NoReq
    BY <1>7 DEF AnswerInMemory, NoReq
  <2>2. hub.driver # NoRun
    BY <1>2, <1>7, <2>1 DEF RequestInv, AnswerInMemory
  <2>3. hub'.mem = Edited(hub.mem, "mark")
    BY <1>1, <1>7 DEF AnswerInMemory, Hubs
  <2> QED BY <1>7, <2>2, <2>3, KeptRunner DEF AnswerInMemory
<1>8. CASE RunnerSaves
  <2>1. hub'.mem = Edited(hub.mem, "mark")
    BY <1>1, <1>8 DEF RunnerSaves, Hubs
  <2> QED BY <1>8, <2>1, KeptRunner DEF RunnerSaves
<1>9. CASE RunnerEnds
  <2> DEFINE d == hub.driver
             x == [hub.rts[d] EXCEPT !.live = FALSE]
             m == IF hub.req.active THEN hub.mem ELSE NoCopy
  <2>1. d \in Runs /\ d # NoRun /\ Ready
    BY <1>1, <1>9 DEF RunnerEnds, Hubs
  <2>2. x \in Rts /\ m \in Copies
    BY <1>1, <2>1 DEF Rts
  <2>3. hub' = [hub EXCEPT !.driver = NoRun, !.rts[d] = x, !.mem = m]
    BY <1>9 DEF RunnerEnds
  <2>4. Quiet /\ cli.cmd # "run"
    BY <2>1, HubAlone
  <2> HIDE DEF x, m
  <2>5. hub'.driver = NoRun
    BY <1>1, <2>1, <2>2, <2>3, HubFields
  <2>6. PICK p \in Procs, y \in Copies : Kept(p, y, NoCopy) /\ todo[p] = <<>>
    BY <2>4, KeptNow
  <2>7. y # NoCopy
    BY <2>1, <2>6 DEF Kept
  <2>8. todo'["hub"] = Unlock /\ \A o \in Procs : o # "hub" => todo'[o] = <<>>
    BY <1>1, <1>9, <2>4 DEF RunnerEnds, Quiet, Procs
  <2>9. slot' = slot /\ arch' = arch /\ cli' = cli /\ past' = past
    BY <1>9 DEF RunnerEnds
  <2>10. Kept("hub", y, NoCopy)'
    BY <1>1, <2>4, <2>5, <2>6, <2>7, <2>8, <2>9, EndsIs, KeptStay
  <2> QED BY <1>1, <2>10 DEF KeepInv
<1>10. ASSUME NEW r \in Runs, NEW x \in Rts
       PROVE  /\ [hub EXCEPT !.rts[r] = x].driver = hub.driver
              /\ [hub EXCEPT !.rts[r] = x].mem = hub.mem
  BY <1>1 DEF Hubs
<1>11. ASSUME NEW r \in Runs, Look(r) PROVE KeepInv'
  <2>1. hub'.driver = hub.driver /\ hub'.mem = hub.mem
    BY <1>10, <1>11, RtIs DEF Look
  <2> QED BY <1>11, <2>1, KeptSame DEF Look
<1>12. ASSUME NEW r \in Runs, Settings(r) PROVE KeepInv'
  <2>1. Mutates(r, "slot", "set") /\ Serves(r) /\ ~Archived(r) /\ ~Running(r) /\ Ready
    BY <1>12, OnSlot DEF Settings, Serves
  <2>2. hub.driver = NoRun
    BY <1>2, <2>1, ServesDriver
  <2>3. hub'.driver = NoRun
    BY <1>10, <1>12, <2>2, RtIs DEF Settings
  <2> QED BY <2>1, <2>2, <2>3, KeptMutates
<1>13. ASSUME NEW r \in Runs, Start(r) PROVE KeepInv'
  BY <1>13, KeptStart
<1>14. ASSUME NEW r \in Runs, Started(r) PROVE KeepInv'
  <2> DEFINE x == [hub.rts[r] EXCEPT !.starting = FALSE]
  <2>1. x \in Rts
    BY <1>1 DEF Rts
  <2>2. hub' = [hub EXCEPT !.rts[r] = x]
    BY <1>14 DEF Started
  <2> HIDE DEF x
  <2>3. hub'.driver = hub.driver /\ hub'.mem = hub.mem
    BY <1>10, <2>1, <2>2
  <2> QED BY <1>14, <2>3, KeptSame DEF Started
<1>15. ASSUME NEW r \in Runs, Archive(r) PROVE KeepInv'
  <2>1. /\ Serves(r) /\ ~Running(r) /\ Ready /\ Idle /\ (Archived(r) \/ Loads(slot))
        /\ slot' = slot /\ arch' = arch /\ cli' = cli /\ past' = past
        /\ todo' = [todo EXCEPT !["hub"] = IF Archived(r) THEN <<>> ELSE Move(Content(slot).def.run)]
    BY <1>2, <1>15 DEF Archive, Serves, Undisturbed
  <2>2. hub'.driver = hub.driver /\ hub'.mem = hub.mem
    BY <1>1, <1>10, <1>15 DEF Archive
  <2>3. Quiet /\ cli'.cmd # "run"
    BY <2>1 DEF Ready, Idle, Quiet, Procs
  <2>4. CASE Archived(r)
    <3>1. todo' = todo
      BY <1>1, <2>1, <2>3, <2>4 DEF Quiet
    <3> QED BY <2>1, <2>2, <3>1, KeptSame
  <2>5. CASE ~Archived(r)
    <3>1. hub'.driver = NoRun
      BY <1>2, <2>1, <2>2, <2>5, ServesDriver
    <3>2. PICK p \in Procs, y \in Copies :
             Kept(p, y, NoCopy) /\ todo[p] = <<>> /\ y # NoCopy /\ Content(slot) = y
      BY <2>1, <2>3, <2>5, KeptNow
    <3>3. todo'["hub"] = Move(y.def.run) /\ \A o \in Procs : o # "hub" => todo'[o] = <<>>
      BY <1>1, <2>1, <2>3, <2>5, <3>2 DEF Quiet, Procs
    <3>4. Kept("hub", NoCopy, y)'
      BY <1>1, <2>1, <2>3, <3>1, <3>2, <3>3, KeptMove
    <3> QED BY <1>1, <3>4 DEF KeepInv
  <2> QED BY <2>4, <2>5
<1>16. ASSUME NEW r \in Runs, NewRun(r) PROVE KeepInv'
  <2>1. /\ Ready /\ Idle /\ slot' = slot /\ arch' = arch /\ cli' = cli /\ past' = past /\ r \notin Used
        /\ todo' = [todo EXCEPT !["hub"] = StartNew(r)]
    BY <1>2, <1>16 DEF NewRun, Undisturbed
  <2>2. hub.driver = NoRun
    <3>1. ASSUME hub.driver # NoRun PROVE FALSE
      <4>1. There(slot) /\ hub.driver \in Runs
        BY <2>1, <3>1, DriverRt
      <4>2. ~(hub.rts[hub.driver].at = "slot" /\ hub.rts[hub.driver].live)
        BY <1>16, <4>1 DEF NewRun
      <4> QED BY <3>1, <4>2 DEF Alone, DriverInv
    <3> QED BY <3>1
  <2>3. hub'.driver = NoRun
    BY <1>1, <1>16, <2>2 DEF NewRun, Hubs
  <2>4. Quiet /\ cli'.cmd # "run"
    BY <2>1 DEF Ready, Idle, Quiet, Procs
  <2>5. PICK p \in Procs, y \in Copies : Kept(p, y, NoCopy) /\ todo[p] = <<>>
    BY <2>4, KeptNow
  <2>6. todo'["hub"] = StartNew(r) /\ \A o \in Procs : o # "hub" => todo'[o] = <<>>
    BY <1>1, <2>1, <2>4 DEF Quiet, Procs
  <2>7. \E c \in Copies : Kept("hub", Fresh(r), c)'
    BY <1>1, <2>1, <2>3, <2>4, <2>5, <2>6, KeptNew
  <2>8. PICK z : z = Fresh(r)
    OBVIOUS
  <2>9. z \in Copies /\ \E c \in Copies : Kept("hub", z, c)'
    BY <2>7, <2>8, Nothing DEF Fresh
  <2> QED BY <1>1, <2>9 DEF KeepInv
<1>17. ASSUME NEW r \in Runs, NEW k \in {"retry", "task"}, Ask(r, k) PROVE KeepInv'
  <2>1. hub'.driver = hub.driver /\ hub'.mem = hub.mem
    BY <1>1, <1>17 DEF Ask, Hubs
  <2> QED BY <1>17, <2>1, KeptSame DEF Ask
<1> QED
  BY <1>3, <1>4, <1>5, <1>6, <1>7, <1>8, <1>9, <1>11, <1>12, <1>13, <1>14, <1>15, <1>16, <1>17
  DEF HubStep

\* What a death cut stays cut.
LEMMA CutStays ==
    ASSUME HubTypes, past.cut, Next
    PROVE  past'.cut
<1>1. past \in Pasts /\ (Counted => past'.cut = past.cut)
  BY CountedIs DEF HubTypes
<1>2. ASSUME NEW p \in Procs, Write(p) PROVE past'.cut
  BY <1>1, <1>2, WriteOther DEF Pasts
<1>3. ASSUME NEW p \in Procs, Dies(p) PROVE past'.cut
  BY <1>3, DiesIs
<1>4. CASE HubStep
  <2>1. CASE HubDies
    <3>1. Dies("hub")
      BY <2>1 DEF HubDies
    <3> QED BY <1>3, <3>1 DEF Procs
  <2>2. CASE AnswerOnDisk \/ \E r \in Runs : Settings(r)
    BY <1>1, <2>2 DEF AnswerOnDisk, Settings, Mutates
  <2>3. CASE \E r \in Runs : Start(r)
    BY <1>1, <2>3 DEF Start
  <2>4. CASE AnswerInMemory \/ RunnerSaves
    BY <1>1, <2>4 DEF AnswerInMemory, RunnerSaves
  <2>5. CASE Boot \/ Shutdown \/ AnswerRefused \/ RunnerEnds
    BY <2>5 DEF Boot, Shutdown, AnswerRefused, RunnerEnds
  <2>6. CASE \E r \in Runs : Look(r) \/ Started(r) \/ Archive(r) \/ NewRun(r)
    BY <2>6 DEF Look, Started, Archive, NewRun
  <2>7. CASE \E r \in Runs, k \in {"retry", "task"} : Ask(r, k)
    BY <2>7 DEF Ask
  <2> QED BY <1>4, <2>1, <2>2, <2>3, <2>4, <2>5, <2>6, <2>7 DEF HubStep
<1>5. CASE \E k \in Kinds : CliEdit(k)
  BY <1>1, <1>5 DEF CliEdit
<1>6. CASE CliRunSaves
  BY <1>1, <1>6 DEF CliRunSaves
<1>7. CASE CliDies
  BY <1>3, <1>7 DEF CliDies, Procs
<1>8. CASE (\E r \in Runs : CliNewRun(r)) \/ CliArchive \/ CliRun \/ CliExits
  BY <1>8 DEF CliNewRun, CliArchive, CliRun, CliExits
<1> QED BY <1>2, <1>4, <1>5, <1>6, <1>7, <1>8, NextIs

\* Every step keeps what was acknowledged, or cuts something.
LEMMA KeepStep ==
    Habits = {} /\ HubTypes /\ Alone /\ KeepInv /\ [Next]_vars => KeepInv'
<1> SUFFICES ASSUME Habits = {}, HubTypes, Alone, KeepInv, [Next]_vars PROVE KeepInv'
  OBVIOUS
<1>1. CASE past.cut /\ Next
  BY <1>1, CutStays DEF KeepInv
<1>2. CASE ~past.cut /\ Next
  <2>1. ASSUME NEW w \in Procs, Write(w) PROVE KeepInv'
    <3>1. PICK p \in Procs, y \in Copies, c \in Copies : Kept(p, y, c)
      BY <1>2 DEF KeepInv
    <3>2. Kept(p, y, c)' \/ Kept(p, y, NoCopy)'
      BY <2>1, <3>1, KeptWrite
    <3> QED BY <3>2, Nothing DEF KeepInv
  <2> QED BY <1>2, <2>1, NextIs, KeptCli, KeptHub
<1>3. CASE UNCHANGED vars /\ past.cut
  BY <1>3 DEF vars, KeepInv
<1>4. CASE UNCHANGED vars /\ ~past.cut
  <2>1. /\ slot' = slot /\ arch' = arch /\ todo' = todo /\ past' = past /\ cli' = cli
        /\ hub'.driver = hub.driver /\ hub'.mem = hub.mem
    BY <1>4 DEF vars
  <2> QED BY <1>4, <2>1, KeptSame
<1> QED BY <1>1, <1>2, <1>3, <1>4

\* The slot is the first run at the start.
LEMMA KeepInit == Init => KeepInv
<1> SUFFICES ASSUME Init PROVE KeepInv
  OBVIOUS
<1> DEFINE c == [Fresh(First) EXCEPT !.def.tasks = {0}, !.st.tasks = {0}]
           y == [def |-> slot.def, st |-> slot.st]
<1>1. 0 \in Tasks /\ First \in Runs /\ First # NoRun
  BY Constants DEF Tasks
<1>2. /\ Fresh(First) \in Copies /\ Fresh(First).def.run = First /\ Fresh(First).st.there
      /\ Fresh(First).def \in [run : Runs, tasks : SUBSET Tasks, set : SUBSET Tasks]
      /\ Fresh(First).st \in Sts
  BY <1>1, Nothing DEF Copies, Defs
<1>3. c.def = [Fresh(First).def EXCEPT !.tasks = {0}] /\ c.st = [Fresh(First).st EXCEPT !.tasks = {0}]
  BY <1>2 DEF Copies
<1>4. slot.def = c.def /\ slot.st = c.st
  <2>1. slot = [Empty EXCEPT !.def = c.def, !.st = c.st]
    BY DEF Init
  <2> HIDE DEF c
  <2> QED BY <2>1 DEF Empty
<1>5. /\ y \in Copies /\ y.def.run = First /\ y.def.tasks = {0} /\ y.st.tasks = {0} /\ y.st.there
      /\ slot.def = y.def /\ slot.st = y.st /\ y.def # NoDef /\ y # NoCopy
  <2>1. slot.def = [Fresh(First).def EXCEPT !.tasks = {0}] /\ slot.st = [Fresh(First).st EXCEPT !.tasks = {0}]
    BY <1>3, <1>4
  <2>2. /\ slot.def.run = First /\ slot.def.tasks = {0} /\ slot.st.tasks = {0} /\ slot.st.there
        /\ slot.def \in Defs /\ slot.st \in Sts
    BY <1>1, <1>2, <2>1 DEF Defs, Sts
  <2>3. slot.def # NoDef
    BY <1>1, <2>2 DEF NoDef
  <2> QED BY <2>2, <2>3 DEF Copies, NoCopy
<1> HIDE DEF c, y
<1>6. /\ arch = [r \in Runs |-> NoArchive] /\ past.kept = {} /\ hub.driver = NoRun /\ cli.cmd # "run"
      /\ \A p \in Procs : todo[p] = <<>>
  BY DEF Init, Off
<1>7. \A r \in Runs : ~arch[r].dir
  BY <1>6 DEF NoArchive
<1>8. Good(y)
  BY <1>5, <1>6 DEF Good, Whole
<1>9. Leading(todo["hub"], y)
  BY <1>5, <1>6, EndsIs DEF Leading, Saved, Procs
<1>10. IsAt(First, y, NoCopy)
  BY <1>5 DEF IsAt
<1>11. \A i \in 1 .. Len(todo["hub"]) : todo["hub"][i].f # "ack"
  BY <1>6, NoOps DEF Procs
<1>12. Kept("hub", y, NoCopy)
  BY <1>1, <1>5, <1>6, <1>7, <1>8, <1>9, <1>10, <1>11 DEF Kept
<1> QED BY <1>5, <1>12, Nothing DEF KeepInv, Procs

\* What is kept can be found, where nothing is left to do.
LEMMA KeepFinds == HubTypes /\ KeepInv => EditsKept
<1> SUFFICES ASSUME HubTypes, KeepInv, Quiet, ~past.cut, NEW k \in past.kept, HasTasks(k[1])
             PROVE  Found(k[1]) # "none" /\ Loads(Home(k[1])) /\ Holds(Content(Home(k[1])), k)
  BY DEF EditsKept
<1> DEFINE r == k[1]
<1>1. PICK p \in Procs, y \in Copies :
         Kept(p, y, NoCopy) /\ todo[p] = <<>> /\ (Loads(slot) => y # NoCopy /\ Content(slot) = y)
  BY KeptNow
<1>2. r \in Runs /\ IsAt(r, y, NoCopy)
  BY <1>1 DEF Kept
<1>3. y # NoCopy => There(slot) /\ Loads(slot) /\ Content(slot) = y /\ Good(y)
  <2>1. Ends(todo[p])
    BY <1>1, EndsIs
  <2>2. y # NoCopy => There(slot) /\ Loads(slot) /\ Content(slot) = y
    BY <1>1, <2>1, Nothing, KeptQuiet
  <2> QED BY <1>1, <2>2 DEF Kept
<1> HIDE DEF r
<1>4. CASE y # NoCopy /\ r = y.def.run
  <2>1. Found(r) = "slot"
    BY <1>3, <1>4 DEF Found
  <2>2. Home(r) = slot
    BY <2>1 DEF Home
  <2>3. Holds(y, k)
    BY <1>3, <1>4 DEF Good, r
  <2>4. Found(r) # "none" /\ Loads(Home(r)) /\ Holds(Content(Home(r)), k)
    BY <1>3, <1>4, <2>1, <2>2, <2>3
  <2> QED BY <2>4 DEF r
<1>5. CASE ~(y # NoCopy /\ r = y.def.run)
  <2>1. arch[r].dir
    BY <1>2, <1>5 DEF IsAt
  <2> DEFINE f == arch[r].files
             g == Filed(r)
  <2>2. Good(g) /\ f.def.run = r
    BY <1>1, <1>2, <2>1 DEF Kept
  <2>3. g.def = f.def /\ g.st = f.st /\ g = [def |-> f.def, st |-> f.st]
    BY DEF Filed
  <2> HIDE DEF f, g
  <2>4. f.def # NoDef /\ f.st.there /\ f.def.tasks \subseteq f.st.tasks /\ Holds(g, k)
    BY <2>2, <2>3 DEF Good, Whole, r
  <2>5. f.st # NoSt
    BY <2>4 DEF NoSt
  <2>6. Content(f) = g
    BY <2>3, <2>4, <2>5 DEF Content, Read
  <2>7. Loads(f)
    BY <2>3, <2>4, <2>6 DEF Loads
  <2>8. Found(r) = "archive"
    BY <1>1, <1>5, <2>4 DEF Found, There, f
  <2>9. Home(r) = f
    BY <2>8 DEF Home, f
  <2>10. Found(r) # "none" /\ Loads(Home(r)) /\ Holds(Content(Home(r)), k)
    BY <2>4, <2>6, <2>7, <2>8, <2>9
  <2> QED BY <2>10 DEF r
<1> QED BY <1>4, <1>5

\* What was acknowledged stays: with requests that are read at once, that name
\* the run the slot holds, and with archiving and new runs only while no command
\* runs, every edit the command line or the hub acknowledged is found where its
\* run is found, in the slot or in the archive, and the run loads, unless a death
\* cut a save or a move.
THEOREM EditsAreKept == Habits = {} => (Spec => []EditsKept)
<1> SUFFICES ASSUME Habits = {} PROVE Spec => []EditsKept
  OBVIOUS
<1>1. HubTypes /\ LockInv /\ Alone /\ [Next]_vars => Alone'
  BY AloneStep
<1>2. HubTypes /\ Alone /\ KeepInv /\ [Next]_vars => KeepInv'
  BY KeepStep
<1> QED
  BY <1>1, <1>2, AloneInit, LockInit, LockStep, KeepInit, KeepFinds, HubTyped, PTL DEF Spec

=============================================================================
