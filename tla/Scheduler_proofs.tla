-------------------------- MODULE Scheduler_proofs --------------------------
(***************************************************************************)
(* Four facts about the scheduler, for any number of jobs, editors and     *)
(* edits and in every mode:                                                *)
(*   - every variable has its type, and at most one `dag run` is alive     *)
(*     until the scheduler is killed or interrupted, with any overlap of   *)
(*     loads and saves;                                                    *)
(*   - where no load-save of schedule.json contains another, a job starts  *)
(*     only after its predecessor's last run exited with 0, and is blocked *)
(*     only for a run of something it waits for that ended badly.          *)
(* The pass that blocks and the search for what a job waits for are        *)
(* recursive functions: what they compute is proved by induction, which    *)
(* the library's theorem on well-founded orders gives for sets of numbers. *)
(***************************************************************************)
EXTENDS Scheduler, SequenceTheorems, WellFoundedInduction, TLAPS

-----------------------------------------------------------------------------
(* Induction, without an operator parameter: on sets of numbers.           *)

\* A set of naturals that is not empty has a least element.
LEMMA Least ==
    ASSUME NEW S \in SUBSET Nat, S # {} PROVE \E m \in S : \A k \in S : m <= k
<1> DEFINE R == OpToRel(<, Nat)
<1>1. IsWellFoundedOn(R, Nat)
  BY NatLessThanWellFounded
<1>2. \A x, y \in Nat : x < y => <<x, y>> \in R
  BY DEF OpToRel
<1> HIDE DEF R
<1>3. \E x \in S : \A y \in S : ~ (<<y, x>> \in R)
  BY <1>1, WFMin
<1>4. PICK x \in S : \A y \in S : ~ (<<y, x>> \in R)
  BY <1>3
<1>5. \A k \in S : x <= k
  <2> SUFFICES ASSUME NEW k \in S, ~(x <= k) PROVE FALSE
    OBVIOUS
  <2>1. k < x /\ k \in Nat /\ x \in Nat
    OBVIOUS
  <2> QED BY <2>1, <1>2, <1>4
<1> QED BY <1>5

\* A set with 0 and with the successor of each of its numbers has them all.
LEMMA Induction ==
    ASSUME NEW S, 0 \in S, \A n \in Nat : n \in S => n + 1 \in S PROVE Nat \subseteq S
<1> DEFINE T == Nat \ S
<1> SUFFICES ASSUME T # {} PROVE FALSE
  OBVIOUS
<1>1. PICK m \in T : \A k \in T : m <= k
  BY Least
<1>2. m # 0 /\ m - 1 \in Nat /\ m - 1 \notin T
  BY <1>1
<1> QED BY <1>2

\* The steps of a recursion through V, and the function that makes N of them.
Turns(V) == [Nat -> [V -> V]]
Iterated(f, v, G, N) == f[0] = v /\ \A n \in 1 .. N : f[n] = G[n][f[n - 1]]

\* A function of the numbers up to N can be defined by its first value and a
\* step G from each value to the next.
LEMMA Recursion ==
    ASSUME NEW V, NEW v \in V, NEW G \in Turns(V)
    PROVE  \A N \in Nat : \E f \in [0 .. N -> V] : Iterated(f, v, G, N)
<1> USE DEF Turns
<1> DEFINE Is(f, N) == f[0] = v /\ \A n \in 1 .. N : f[n] = G[n][f[n - 1]]
           S == {N \in Nat : \E f \in [0 .. N -> V] : Is(f, N)}
<1>1. 0 \in S
  <2> DEFINE f == [n \in 0 .. 0 |-> v]
  <2>1. f \in [0 .. 0 -> V] /\ Is(f, 0)
    OBVIOUS
  <2> HIDE DEF f
  <2> QED BY <2>1
<1>2. ASSUME NEW N \in Nat, N \in S PROVE N + 1 \in S
  <2>1. PICK f \in [0 .. N -> V] : Is(f, N)
    BY <1>2
  <2> DEFINE next == G[N + 1][f[N]]
             g == [n \in 0 .. (N + 1) |-> IF n = N + 1 THEN next ELSE f[n]]
  <2>2. f[N] \in V /\ next \in V
    <3>1. f[N] \in V
      BY <2>1
    <3> QED BY <3>1
  <2>3. g \in [0 .. (N + 1) -> V]
    <3>1. \A n \in 0 .. (N + 1) : n # N + 1 => n \in 0 .. N
      OBVIOUS
    <3>2. \A n \in 0 .. (N + 1) : (IF n = N + 1 THEN next ELSE f[n]) \in V
      BY <2>2, <3>1
    <3> HIDE DEF next
    <3> QED BY <3>2
  <2>4. g[0] = v
    BY <2>1
  <2>5. ASSUME NEW n \in 1 .. (N + 1) PROVE g[n] = G[n][g[n - 1]]
    <3>1. n - 1 \in 0 .. N /\ n - 1 # N + 1 /\ n \in 0 .. (N + 1) /\ n - 1 \in 0 .. (N + 1)
      OBVIOUS
    <3>2. g[n - 1] = f[n - 1]
      BY <3>1
    <3>3. CASE n = N + 1
      BY <3>1, <3>2, <3>3
    <3>4. CASE n # N + 1
      <4>1. n \in 1 .. N /\ g[n] = f[n]
        BY <3>4, <3>1
      <4>2. f[n] = G[n][f[n - 1]]
        BY <4>1, <2>1
      <4> QED BY <4>1, <4>2, <3>2
    <3> QED BY <3>3, <3>4
  <2> HIDE DEF g
  <2>6. Is(g, N + 1)
    BY <2>4, <2>5
  <2> HIDE DEF Is
  <2> QED BY <2>3, <2>6
<1>3. Nat \subseteq S
  <2> HIDE DEF S
  <2> QED BY <1>1, <1>2, Induction
<1> QED BY <1>3 DEF Iterated

-----------------------------------------------------------------------------
(* One job in flight.                                                      *)

\* The processes are a sequence of records, whatever ids their jobs have.
ProcsOK == \E J : procs \in Seq([job : J, exit : {"none", "ok", "bad"}])

\* Where the scheduler holds a child, and that no other process is alive.
Holding == {"reap", "reaped", "spawned", "mark"}

FlightInv ==
    /\ ProcsOK
    /\ child \in 0 .. Len(procs)
    /\ pc \notin Holding => child = 0
    /\ pc = "reaped" => ~Live(child)
    /\ \A i \in DOMAIN procs : procs[i].exit = "none" => i = child

\* No process is alive at first.
LEMMA FlightInit == Init => FlightInv
<1> SUFFICES ASSUME Init PROVE FlightInv
  OBVIOUS
<1>1. procs \in Seq([job : {}, exit : {"none", "ok", "bad"}]) /\ procs = <<>>
  BY DEF Init
<1> QED BY <1>1 DEF Init, FlightInv, ProcsOK, Holding

\* The steps that leave the processes and the child alone.
LEMMA FlightKept ==
    ASSUME FlightInv, procs' = procs, child' = child,
           pc' \notin Holding => child = 0,
           pc' = "reaped" => ~Live(child)
    PROVE  FlightInv'
BY DEF FlightInv, ProcsOK, Live

\* The next process is the child: the one before it has exited.
LEMMA FlightPick == ASSUME FlightInv, Pick PROVE FlightInv'
<1>1. PICK J : procs \in Seq([job : J, exit : {"none", "ok", "bad"}])
  BY DEF FlightInv, ProcsOK
<1>2. CASE Startable = {}
  BY <1>2, FlightKept DEF Pick, FlightInv, Holding, Goto
<1>3. CASE Startable # {}
  <2> DEFINE j == First(Startable)
             new == [job |-> j, exit |-> "none"]
             R == [job : J \cup {j}, exit : {"none", "ok", "bad"}]
  <2>1. /\ procs' = Append(procs, new) /\ child' = Len(procs) + 1 /\ pc' = "spawned"
        /\ child = 0
    BY <1>3 DEF Pick, Goto, FlightInv, Holding
  <2>2. procs \in Seq(R) /\ new \in R
    <3>1. [job : J, exit : {"none", "ok", "bad"}] \subseteq R
      OBVIOUS
    <3>2. procs \in Seq(R)
      BY <1>1, <3>1, SeqMonotonic
    <3> QED BY <3>2
  <2> HIDE DEF j, new, R
  <2>3. /\ procs' \in Seq(R) /\ Len(procs') = Len(procs) + 1
        /\ \A i \in 1 .. Len(procs) : procs'[i] = procs[i]
        /\ DOMAIN procs' = 1 .. (Len(procs) + 1) /\ DOMAIN procs = 1 .. Len(procs)
        /\ Len(procs) \in Nat
    BY <2>1, <2>2
  <2>4. ProcsOK'
    BY <2>3 DEF ProcsOK, R
  <2>5. \A i \in DOMAIN procs : procs[i].exit # "none"
    BY <2>1, <2>3 DEF FlightInv
  <2>6. \A i \in DOMAIN procs' : procs'[i].exit = "none" => i = child'
    BY <2>1, <2>3, <2>5
  <2> QED BY <2>1, <2>3, <2>4, <2>6 DEF FlightInv, Holding
<1> QED BY <1>2, <1>3

\* A process that exits is alive no longer, and no other is touched.
LEMMA FlightExit ==
    ASSUME FlightInv, NEW i \in DOMAIN procs, Exit(i) PROVE FlightInv'
<1>1. PICK J : procs \in Seq([job : J, exit : {"none", "ok", "bad"}])
  BY DEF FlightInv, ProcsOK
<1>2. PICK code \in {"ok", "bad"} : procs' = [procs EXCEPT ![i].exit = code]
  BY DEF Exit
<1>3. [procs[i] EXCEPT !.exit = code] \in [job : J, exit : {"none", "ok", "bad"}]
  <2>1. procs[i] \in [job : J, exit : {"none", "ok", "bad"}]
    <3>1. i \in 1 .. Len(procs)
      BY <1>1, LenProperties
    <3> QED BY <1>1, <3>1, ElementOfSeq
  <2> QED BY <2>1
<1>4. /\ procs' \in Seq([job : J, exit : {"none", "ok", "bad"}])
      /\ Len(procs') = Len(procs) /\ DOMAIN procs' = DOMAIN procs
      /\ procs'[i].exit = code
      /\ \A k \in DOMAIN procs \ {i} : procs'[k] = procs[k]
  BY <1>1, <1>2, <1>3
<1>5. ProcsOK'
  BY <1>4 DEF ProcsOK
<1>6. pc' = pc /\ child' = child
  BY DEF Exit, schedVars
<1>7. pc' = "reaped" => ~Live(child)'
  BY <1>2, <1>4, <1>6, <1>1 DEF FlightInv, Live
<1>8. \A k \in DOMAIN procs' : procs'[k].exit = "none" => k = child'
  BY <1>2, <1>4, <1>6 DEF FlightInv
<1> QED BY <1>4, <1>5, <1>6, <1>7, <1>8 DEF FlightInv

\* The scheduler spawns only after it has seen its child exit.
LEMMA FlightWork == ASSUME FlightInv, Working PROVE FlightInv'
<1>1. CASE Boot
  BY <1>1, FlightKept DEF Boot, Goto, FlightInv, Holding
<1>2. CASE BootSaves
  BY <1>2, FlightKept DEF BootSaves, Goto, FlightInv, Holding
<1>3. CASE Reap
  BY <1>3, FlightKept DEF Reap, Goto, FlightInv, Holding
<1>4. CASE ReapSaves
  <2>1. procs' = procs /\ child' = 0 /\ pc' \in {"over", "block"}
    BY <1>4 DEF ReapSaves, Goto
  <2>2. \A i \in DOMAIN procs : procs[i].exit # "none"
    <3>1. ASSUME NEW i \in DOMAIN procs, procs[i].exit = "none" PROVE FALSE
      <4>1. i = child /\ ~Live(child)
        BY <1>4, <3>1 DEF ReapSaves, FlightInv
      <4>2. i # 0
        BY DEF FlightInv, ProcsOK
      <4> QED BY <3>1, <4>1, <4>2 DEF Live
    <3> QED BY <3>1
  <2>3. Len(procs) \in Nat
    BY DEF FlightInv, ProcsOK
  <2>4. child' \in 0 .. Len(procs')
    BY <2>1, <2>3
  <2>5. ProcsOK'
    BY <2>1 DEF FlightInv, ProcsOK
  <2> QED BY <2>1, <2>2, <2>4, <2>5 DEF FlightInv, Holding
<1>5. CASE Block
  BY <1>5, FlightKept DEF Block, Goto, FlightInv, Holding
<1>6. CASE BlockSaves
  BY <1>6, FlightKept DEF BlockSaves, Goto, FlightInv, Holding
<1>7. CASE Mark
  BY <1>7, FlightKept DEF Mark, Goto, FlightInv, Holding
<1>8. CASE MarkSaves
  BY <1>8, FlightKept DEF MarkSaves, Goto, FlightInv, Holding
<1>9. CASE Poll
  BY <1>9, FlightKept DEF Poll, Goto, FlightInv, Holding
<1>10. CASE InterruptSaves
  <2>1. child = 0 /\ procs' = procs /\ child' = 0 /\ pc' = "off"
    BY <1>10 DEF InterruptSaves, Goto, FlightInv, Holding
  <2> QED BY <2>1, FlightKept
<1>11. CASE Again
  BY <1>11, FlightKept DEF Again, Goto, FlightInv, Holding
<1> QED BY <1>1, <1>2, <1>3, <1>4, <1>5, <1>6, <1>7, <1>8, <1>9, <1>10, <1>11, FlightPick
        DEF Working

\* Deaths are only ever counted.
LEMMA DeathsCount == ASSUME [Next]_vars PROVE deaths' = deaths \/ deaths' = deaths + 1
<1>1. CASE Working
  BY <1>1 DEF Working, Boot, BootSaves, Reap, ReapSaves, Block, BlockSaves, Pick,
              Mark, MarkSaves, Poll, InterruptSaves, Again
<1>2. CASE Interrupted \/ Killed
  BY <1>2 DEF Interrupted, Killed
<1>3. CASE \E e \in Editors : EditBegins(e) \/ EditSaves(e)
  BY <1>3 DEF EditBegins, EditSaves, schedVars
<1>4. CASE (\E i \in DOMAIN procs : Exit(i)) \/ (\E j \in Ids : TimeComes(j))
  BY <1>4 DEF Exit, TimeComes, schedVars
<1>5. CASE UNCHANGED vars
  BY <1>5 DEF vars
<1> QED BY <1>1, <1>2, <1>3, <1>4, <1>5 DEF Next

\* "Sequential scheduler: never more than one job in flight": true of a
\* scheduler as long as it lives, whatever other processes do to the list.
THEOREM OneAtATime == Spec => []OneInFlight
<1> DEFINE Inv == deaths \in Nat /\ (deaths = 0 => FlightInv)
<1>1. Init => Inv
  BY FlightInit DEF Init
<1>2. Inv /\ [Next]_vars => Inv'
  <2> SUFFICES ASSUME Inv, [Next]_vars PROVE Inv'
    OBVIOUS
  <2>a. deaths' = deaths \/ deaths' = deaths + 1
    BY DeathsCount
  <2> SUFFICES ASSUME deaths' = 0 PROVE FlightInv'
    BY <2>a
  <2>0. deaths = 0 /\ FlightInv
    BY <2>a
  <2>1. CASE Working
    BY <2>0, <2>1, FlightWork
  <2>2. CASE Interrupted \/ Killed
    BY <2>0, <2>2 DEF Interrupted, Killed
  <2>3. CASE \E e \in Editors : EditBegins(e) \/ EditSaves(e)
    <3>1. procs' = procs /\ child' = child /\ pc' = pc
      BY <2>3 DEF EditBegins, EditSaves, schedVars
    <3> QED BY <2>0, <3>1, FlightKept DEF FlightInv
  <2>4. CASE \E i \in DOMAIN procs : Exit(i)
    BY <2>0, <2>4, FlightExit
  <2>5. CASE \E j \in Ids : TimeComes(j)
    <3>1. procs' = procs /\ child' = child /\ pc' = pc
      BY <2>5 DEF TimeComes, schedVars
    <3> QED BY <2>0, <3>1, FlightKept DEF FlightInv
  <2>6. CASE UNCHANGED vars
    <3>1. procs' = procs /\ child' = child /\ pc' = pc
      BY <2>6 DEF vars
    <3> QED BY <2>0, <3>1, FlightKept DEF FlightInv
  <2> QED BY <2>1, <2>2, <2>3, <2>4, <2>5, <2>6 DEF Next
<1>3. Inv => OneInFlight
  BY DEF FlightInv, OneInFlight, Live
<1> QED BY <1>1, <1>2, <1>3, PTL DEF Spec

-----------------------------------------------------------------------------
(* Lists of jobs.                                                          *)

\* The lists there are.
Lists == UNION {[S -> Job] : S \in SUBSET Ids}

\* They are the values the type invariant calls lists.
LEMMA ListsAre == \A list : IsList(list) <=> list \in Lists
BY DEF IsList, Lists

\* One decision of the pass changes the status of one job, from pending to
\* blocked or from blocked to pending.
LEMMA DecidedOne ==
    ASSUME NEW list \in Lists, NEW j
    PROVE  /\ Decided(list, j) \in Lists
           /\ DOMAIN Decided(list, j) = DOMAIN list
           /\ \A k \in DOMAIN list :
                 /\ k # j => Decided(list, j)[k] = list[k]
                 /\ Decided(list, j)[k].after = list[k].after
                 /\ Decided(list, j)[k].status = list[k].status
                    \/ {list[k].status, Decided(list, j)[k].status} = {"pending", "blocked"}
<1>1. PICK S \in SUBSET Ids : list \in [S -> Job]
  BY DEF Lists
<1>2. ASSUME NEW s \in {"blocked", "pending"}, j \in S
      PROVE  /\ [list EXCEPT ![j].status = s] \in [S -> Job]
             /\ [list EXCEPT ![j].status = s][j].status = s
             /\ \A k \in S : /\ k # j => [list EXCEPT ![j].status = s][k] = list[k]
                             /\ [list EXCEPT ![j].status = s][k].after = list[k].after
  BY <1>1, <1>2 DEF Job, Statuses
<1>3. CASE j \notin DOMAIN list
  BY <1>3 DEF Decided
<1>4. CASE j \in DOMAIN list /\ list[j].status = "pending" /\ Blocked(list, j)
  <2>1. Decided(list, j) = [list EXCEPT ![j].status = "blocked"]
    BY <1>4 DEF Decided
  <2>2. j \in S
    BY <1>1, <1>4
  <2> QED BY <2>1, <2>2, <1>1, <1>2, <1>4 DEF Lists
<1>5. CASE /\ j \in DOMAIN list /\ list[j].status = "blocked"
           /\ list[j].after \in DOMAIN list
           /\ list[list[j].after].status \in {"pending", "running"}
  <2>1. Decided(list, j) = [list EXCEPT ![j].status = "pending"]
    BY <1>5 DEF Decided
  <2>2. j \in S
    BY <1>1, <1>5
  <2> QED BY <2>1, <2>2, <1>1, <1>2, <1>5 DEF Lists
<1>6. CASE Decided(list, j) = list
  BY <1>6
<1> QED BY <1>3, <1>4, <1>5, <1>6 DEF Decided

\* The pass is its decisions, one after the other.
LEMMA PassIs ==
    ASSUME NEW list \in Lists, MaxJobs \in Nat
    PROVE  \E f \in [0 .. MaxJobs -> Lists] :
              /\ f[0] = list /\ BlockPass(list) = f[MaxJobs]
              /\ \A n \in 1 .. MaxJobs : f[n] = Decided(f[n - 1], n)
<1> DEFINE upTo[n \in 0 .. MaxJobs] == IF n = 0 THEN list ELSE Decided(upTo[n - 1], n)
<1> HIDE DEF upTo
<1>1. \E G : /\ G \in [Nat -> [Lists -> Lists]]
             /\ \A n \in Nat, l \in Lists : G[n][l] = Decided(l, n)
  <2> DEFINE G == [n \in Nat |-> [l \in Lists |-> Decided(l, n)]]
  <2>1. G \in [Nat -> [Lists -> Lists]]
    BY DecidedOne
  <2>2. \A n \in Nat, l \in Lists : G[n][l] = Decided(l, n)
    OBVIOUS
  <2> HIDE DEF G
  <2> QED BY <2>1, <2>2
<1>2. PICK G : /\ G \in [Nat -> [Lists -> Lists]]
               /\ \A n \in Nat, l \in Lists : G[n][l] = Decided(l, n)
  BY <1>1
<1>a. \A N \in Nat : \E f \in [0 .. N -> Lists] : Iterated(f, list, G, N)
  <2>1. G \in Turns(Lists)
    BY <1>2 DEF Turns
  <2> QED BY <2>1, Recursion
<1>3. PICK f \in [0 .. MaxJobs -> Lists] :
         f[0] = list /\ \A n \in 1 .. MaxJobs : f[n] = G[n][f[n - 1]]
  BY <1>a DEF Iterated
<1>4. \A n \in 1 .. MaxJobs : f[n] = Decided(f[n - 1], n)
  <2> TAKE n \in 1 .. MaxJobs
  <2>1. n \in Nat /\ n - 1 \in 0 .. MaxJobs
    OBVIOUS
  <2>2. f[n - 1] \in Lists
    BY <2>1, <1>3
  <2> QED BY <2>1, <2>2, <1>2, <1>3
<1>5. f = [n \in 0 .. MaxJobs |-> IF n = 0 THEN list ELSE Decided(f[n - 1], n)]
  <2>1. \A n \in 0 .. MaxJobs : f[n] = IF n = 0 THEN list ELSE Decided(f[n - 1], n)
    <3> TAKE n \in 0 .. MaxJobs
    <3>1. n = 0 \/ n \in 1 .. MaxJobs
      OBVIOUS
    <3> QED BY <3>1, <1>3, <1>4
  <2>2. f = [n \in 0 .. MaxJobs |-> f[n]]
    BY <1>3
  <2> QED BY <2>1, <2>2
<1>6. upTo = [n \in 0 .. MaxJobs |-> IF n = 0 THEN list ELSE Decided(upTo[n - 1], n)]
  BY <1>5 DEF upTo
<1>7. BlockPass(list) = upTo[MaxJobs]
  BY DEF BlockPass, upTo
<1>8. \A n \in Nat : n \in 0 .. MaxJobs => upTo[n] = f[n]
  <2> DEFINE S == {n \in Nat : n \in 0 .. MaxJobs => upTo[n] = f[n]}
  <2>1. 0 \in S
    BY <1>6, <1>3
  <2>2. ASSUME NEW n \in Nat, n \in S PROVE n + 1 \in S
    <3> SUFFICES ASSUME n + 1 \in 0 .. MaxJobs PROVE upTo[n + 1] = f[n + 1]
      OBVIOUS
    <3>1. n \in 0 .. MaxJobs /\ n + 1 \in 1 .. MaxJobs /\ (n + 1) - 1 = n /\ n + 1 # 0
      OBVIOUS
    <3>2. upTo[n + 1] = Decided(upTo[n], n + 1)
      BY <1>6, <3>1
    <3>3. f[n + 1] = Decided(f[n], n + 1)
      BY <1>4, <3>1
    <3> QED BY <3>1, <3>2, <3>3, <2>2
  <2> HIDE DEF S
  <2>3. Nat \subseteq S
    BY <2>1, <2>2, Induction
  <2> QED BY <2>3 DEF S
<1>9. MaxJobs \in 0 .. MaxJobs
  OBVIOUS
<1> QED BY <1>3, <1>4, <1>7, <1>8, <1>9

\* What the pass keeps: the jobs, what each waits for, and every status but
\* "pending" and "blocked".  A job it blocks was blocked already or is decided
\* on a list that holds the jobs before it as the pass leaves them.
LEMMA PassKeeps ==
    ASSUME NEW list \in Lists, MaxJobs \in Nat
    PROVE  /\ BlockPass(list) \in Lists
           /\ DOMAIN BlockPass(list) = DOMAIN list
           /\ \A k \in DOMAIN list :
                 /\ BlockPass(list)[k].after = list[k].after
                 /\ BlockPass(list)[k].status = list[k].status
                    \/ {list[k].status, BlockPass(list)[k].status} = {"pending", "blocked"}
                 /\ BlockPass(list)[k].status = "blocked" =>
                       \/ list[k].status = "blocked"
                       \/ \E m \in Lists :
                             /\ DOMAIN m = DOMAIN list /\ Blocked(m, k)
                             /\ m[k].after = list[k].after
                             /\ \A i \in DOMAIN list : i < k => m[i] = BlockPass(list)[i]
<1> DEFINE D == DOMAIN list
<1>1. PICK f \in [0 .. MaxJobs -> Lists] :
         /\ f[0] = list /\ BlockPass(list) = f[MaxJobs]
         /\ \A n \in 1 .. MaxJobs : f[n] = Decided(f[n - 1], n)
  BY PassIs
<1>2. D \subseteq 1 .. MaxJobs
  BY DEF Lists, Ids
<1> DEFINE Swap(s, t) == s = t \/ {s, t} = {"pending", "blocked"}
           Kept(n) == /\ DOMAIN f[n] = D
                      /\ \A k \in D : /\ f[n][k].after = list[k].after
                                      /\ Swap(list[k].status, f[n][k].status)
                                      /\ k > n => f[n][k] = list[k]
                                      /\ k <= n => f[n][k] = f[k][k]
           S == {n \in Nat : n \in 0 .. MaxJobs => Kept(n)}
<1>3. ASSUME NEW n \in 0 .. MaxJobs, n + 1 \in 0 .. MaxJobs
      PROVE  /\ DOMAIN f[n + 1] = DOMAIN f[n]
             /\ f[n + 1] = Decided(f[n], n + 1)
             /\ \A k \in DOMAIN f[n] :
                   /\ k # n + 1 => f[n + 1][k] = f[n][k]
                   /\ f[n + 1][k].after = f[n][k].after
                   /\ Swap(f[n][k].status, f[n + 1][k].status)
  <2>1. f[n] \in Lists /\ n + 1 \in 1 .. MaxJobs /\ (n + 1) - 1 = n
    BY <1>1, <1>3
  <2>2. f[n + 1] = Decided(f[n], n + 1)
    BY <1>1, <2>1
  <2> DEFINE m == f[n]
  <2>3. m \in Lists
    BY <2>1
  <2> HIDE DEF m
  <2>4. /\ DOMAIN Decided(m, n + 1) = DOMAIN m
        /\ \A k \in DOMAIN m :
              /\ k # n + 1 => Decided(m, n + 1)[k] = m[k]
              /\ Decided(m, n + 1)[k].after = m[k].after
              /\ Swap(m[k].status, Decided(m, n + 1)[k].status)
    BY <2>3, DecidedOne
  <2> HIDE DEF Swap
  <2> QED BY <2>2, <2>4 DEF m
<1>4. 0 \in S
  <2>1. \A k \in D : k > 0 /\ ~ (k <= 0)
    BY <1>2
  <2> QED BY <1>1, <2>1
<1>5. ASSUME NEW n \in Nat, n \in S PROVE n + 1 \in S
  <2> SUFFICES ASSUME n + 1 \in 0 .. MaxJobs PROVE Kept(n + 1)
    OBVIOUS
  <2>1. n \in 0 .. MaxJobs /\ Kept(n)
    BY <1>5
  <2>2. DOMAIN f[n + 1] = D
    BY <1>3, <2>1
  <2>3. ASSUME NEW k \in D
        PROVE  /\ f[n + 1][k].after = list[k].after
               /\ Swap(list[k].status, f[n + 1][k].status)
               /\ k > n + 1 => f[n + 1][k] = list[k]
               /\ k <= n + 1 => f[n + 1][k] = f[k][k]
    <3>1. k \in 1 .. MaxJobs
      BY <1>2
    <3>0. /\ f[n][k].after = list[k].after
          /\ Swap(list[k].status, f[n][k].status)
          /\ k > n => f[n][k] = list[k]
          /\ k <= n => f[n][k] = f[k][k]
      BY <2>1
    <3>a. /\ k # n + 1 => f[n + 1][k] = f[n][k]
          /\ f[n + 1][k].after = f[n][k].after
          /\ Swap(f[n][k].status, f[n + 1][k].status)
      BY <1>3, <2>1
    <3> HIDE DEF Swap
    <3>2. CASE k = n + 1
      <4>1. f[n][k] = list[k] /\ ~ (k > n + 1)
        BY <3>2, <3>0, <3>1
      <4> QED BY <4>1, <3>2, <3>0, <3>a
    <3>3. CASE k # n + 1
      <4>1. (k > n + 1 => k > n) /\ (k <= n + 1 => k <= n)
        BY <3>3, <3>1
      <4> QED BY <4>1, <3>3, <3>0, <3>a
    <3> QED BY <3>2, <3>3
  <2> QED BY <2>2, <2>3
<1>6. \A n \in 0 .. MaxJobs : Kept(n)
  <2> HIDE DEF Kept
  <2>1. Nat \subseteq S
    <3> HIDE DEF S
    <3> QED BY <1>4, <1>5, Induction
  <2> QED BY <2>1
<1>7. MaxJobs \in 0 .. MaxJobs /\ BlockPass(list) = f[MaxJobs] /\ f[MaxJobs] \in Lists
  BY <1>1
<1>8. Kept(MaxJobs)
  BY <1>6, <1>7
<1>9. ASSUME NEW k \in D, f[MaxJobs][k].status = "blocked"
      PROVE  \/ list[k].status = "blocked"
             \/ \E m \in Lists :
                   /\ DOMAIN m = D /\ Blocked(m, k)
                   /\ m[k].after = list[k].after
                   /\ \A i \in D : i < k => m[i] = f[MaxJobs][i]
  <2> DEFINE m == f[k - 1]
  <2>1. k \in 1 .. MaxJobs /\ k - 1 \in 0 .. MaxJobs /\ (k - 1) + 1 = k /\ ~ (k <= k - 1)
        /\ k > k - 1 /\ k <= MaxJobs
    BY <1>2
  <2>2. Kept(k - 1) /\ m \in Lists
    BY <1>6, <2>1, <1>1
  <2>3. f[k][k].status = "blocked"
    BY <1>8, <1>9, <2>1
  <2>4. f[k] = Decided(m, k) /\ m[k] = list[k]
    BY <1>1, <2>1, <2>2
  <2>5. \A i \in D : i < k => m[i] = f[MaxJobs][i]
    <3> SUFFICES ASSUME NEW i \in D, i < k PROVE m[i] = f[MaxJobs][i]
      OBVIOUS
    <3>1. i \in 1 .. MaxJobs /\ i <= k - 1 /\ i <= MaxJobs
      BY <1>2, <2>1
    <3> QED BY <3>1, <2>2, <1>8
  <2>6. CASE m[k].status = "pending" /\ Blocked(m, k)
    <3> HIDE DEF m
    <3> QED BY <2>2, <2>4, <2>5, <2>6 DEF m
  <2>7. CASE ~ (m[k].status = "pending" /\ Blocked(m, k))
    <3> DEFINE n == [m EXCEPT ![k].status = "pending"]
    <3>1. k \in DOMAIN m
      BY <2>2
    <3>2. m[k] \in Job /\ n[k].status = "pending"
      BY <2>2, <3>1 DEF Lists, Job
    <3>3. Decided(m, k) \in {m, n}
      BY <2>7 DEF Decided
    <3>4. Decided(m, k) = m
      BY <3>2, <3>3, <2>3, <2>4
    <3> QED BY <3>4, <2>3, <2>4
  <2> QED BY <2>6, <2>7
<1> HIDE DEF D
<1> QED BY <1>7, <1>8, <1>9 DEF D

-----------------------------------------------------------------------------
(* Types, with any overlap of loads and saves.                             *)

\* Where the scheduler holds a copy, and what the editors do with theirs.
Saving == {"boot", "reaped", "blocked", "mark", "interrupted"}

TypeInv ==
    /\ TypeOK
    /\ pc \in Saving => view[Sched] # NoView
    /\ \A e \in Editors :
          view[e] # NoView /\ op[e].kind = "retry" => op[e].id \in DOMAIN view[e]

\* The parts of it that most steps leave alone.
ViewsOK == DOMAIN view = Actors /\ \A x \in Actors : view[x] = NoView \/ IsList(view[x])
ProcsTyped ==
    /\ procs \in Seq([job : Ids, exit : {"none", "ok", "bad"}])
    /\ Len(procs) <= MaxSpawns
    /\ child \in 0 .. Len(procs) /\ runningId \in 0 .. MaxJobs
EditsOK == added \in 0 .. MaxJobs /\ edits \in 0 .. MaxEdits /\ op \in [Editors -> Ops]
RetriesOK ==
    \A e \in Editors :
        view[e] # NoView /\ op[e].kind = "retry" => op[e].id \in DOMAIN view[e]
Places == {"off", "boot", "reap", "reaped", "block", "blocked", "pick", "spawned",
           "mark", "poll", "interrupted", "over"}

\* The invariant is its parts.
LEMMA TypeParts ==
    TypeInv <=> /\ IsList(jobs) /\ ViewsOK /\ ProcsTyped /\ EditsOK /\ RetriesOK
                /\ come \subseteq Ids /\ pc \in Places /\ deaths \in 0 .. MaxDeaths
                /\ (pc \in Saving => view[Sched] # NoView)
BY DEF TypeInv, TypeOK, ViewsOK, ProcsTyped, EditsOK, RetriesOK, Places

\* The constants that are numbers.
LEMMA Bounds == MaxJobs \in Nat /\ MaxEdits \in Nat /\ MaxSpawns \in Nat /\ MaxDeaths \in Nat
BY SchedulerAssumption

\* No copy is no list.
LEMMA ListIsView == \A list : IsList(list) => list # NoView
BY NoViewAssumption DEF IsList

\* A load or a save by x keeps the copies copies of lists.
LEMMA LoadKeeps ==
    ASSUME TypeInv, NEW x \in Actors, LoadBy(x)
    PROVE  /\ ViewsOK' /\ view'[x] = jobs /\ view'[x] # NoView
           /\ \A y \in Actors \ {x} : view'[y] = view[y]
<1>1. IsList(jobs) /\ ViewsOK /\ jobs # NoView
  BY TypeParts, ListIsView
<1>2. view' = [view EXCEPT ![x] = jobs]
  BY DEF LoadBy
<1>3. DOMAIN view' = Actors /\ view'[x] = jobs /\ \A y \in Actors \ {x} : view'[y] = view[y]
  BY <1>1, <1>2 DEF ViewsOK
<1> QED BY <1>1, <1>3 DEF ViewsOK

\* A save by x takes its copy away and leaves the others alone.
LEMMA SaveKeeps ==
    ASSUME TypeInv, NEW x \in Actors, NEW list, IsList(list), SaveBy(x, list)
    PROVE  /\ ViewsOK' /\ IsList(jobs)' /\ jobs' = list /\ view'[x] = NoView
           /\ \A y \in Actors \ {x} : view'[y] = view[y]
<1>1. ViewsOK
  BY TypeParts
<1>2. jobs' = list /\ view' = [view EXCEPT ![x] = NoView]
  BY DEF SaveBy
<1>3. DOMAIN view' = Actors /\ view'[x] = NoView /\ \A y \in Actors \ {x} : view'[y] = view[y]
  BY <1>1, <1>2 DEF ViewsOK
<1>4. IsList(jobs')
  BY <1>2
<1>5. IsList(jobs)'
  BY <1>4 DEF IsList, Job, Ids, Statuses
<1> QED BY <1>1, <1>2, <1>3, <1>5 DEF ViewsOK

\* What the editors and the scheduler make of a list is a list.
LEMMA WithoutIs == ASSUME NEW list, IsList(list), NEW S PROVE IsList(Without(list, S))
BY DEF IsList, Without

\* A list with one more job is a list.
LEMMA AddedIs ==
    ASSUME NEW list, IsList(list), NEW id \in Ids, NEW after \in Afters, NEW timed \in Clocks
    PROVE  IsList(Added(list, id, after, timed))
<1> DEFINE new == [status |-> "pending", after |-> after, timed |-> timed, pid |-> 0]
<1>1. new \in Job
  BY SchedulerAssumption DEF Job, Statuses
<1> HIDE DEF new
<1>2. Added(list, id, after, timed) = [j \in DOMAIN list \cup {id} |-> IF j = id THEN new ELSE list[j]]
  BY DEF Added, new
<1>3. \A j \in DOMAIN list \cup {id} : (IF j = id THEN new ELSE list[j]) \in Job
  BY <1>1 DEF IsList
<1> QED BY <1>2, <1>3 DEF IsList

\* A list with another status for its j-th job is a list of the same jobs.
LEMMA StatusIs ==
    ASSUME NEW list, IsList(list), NEW j \in DOMAIN list, NEW s \in Statuses
    PROVE  /\ IsList([list EXCEPT ![j].status = s])
           /\ DOMAIN [list EXCEPT ![j].status = s] = DOMAIN list
           /\ [list EXCEPT ![j].status = s][j] = [list[j] EXCEPT !.status = s]
           /\ [list EXCEPT ![j].status = s][j].status = s
           /\ \A k \in DOMAIN list : /\ k # j => [list EXCEPT ![j].status = s][k] = list[k]
                                     /\ [list EXCEPT ![j].status = s][k].after = list[k].after
<1>1. list[j] \in Job
  BY DEF IsList
<1>2. [list[j] EXCEPT !.status = s] \in Job
  BY <1>1 DEF Job
<1>3. /\ [list[j] EXCEPT !.status = s].status = s
      /\ [list[j] EXCEPT !.status = s].after = list[j].after
  BY <1>1 DEF Job
<1> QED BY <1>2, <1>3 DEF IsList

\* A list with its j-th job running as process p.
Marked(list, j, p) == [list EXCEPT ![j].status = "running", ![j].pid = p]

\* Marking one job as running leaves the others alone.
LEMMA MarkedIs ==
    ASSUME NEW list, IsList(list), NEW j \in DOMAIN list, NEW p \in 0 .. MaxSpawns,
           NEW new, new = Marked(list, j, p)
    PROVE  /\ IsList(new) /\ DOMAIN new = DOMAIN list
           /\ new[j].status = "running" /\ new[j].after = list[j].after
           /\ \A k \in DOMAIN list \ {j} : new[k] = list[k]
<1>1. list[j] \in Job
  BY DEF IsList
<1> DEFINE rec == [[list[j] EXCEPT !.status = "running"] EXCEPT !.pid = p]
<1>2. rec \in Job /\ rec.status = "running" /\ rec.after = list[j].after
  BY <1>1 DEF Job, Statuses
<1>3. new = [list EXCEPT ![j] = rec]
  BY DEF IsList, Marked
<1> HIDE DEF rec
<1>4. /\ IsList(new) /\ DOMAIN new = DOMAIN list
      /\ new[j] = rec
      /\ \A k \in DOMAIN list \ {j} : new[k] = list[k]
  BY <1>2, <1>3 DEF IsList
<1> QED BY <1>2, <1>4

\* Failing the jobs whose process is gone leaves the others alone.
LEMMA ReapedIs ==
    ASSUME NEW list, IsList(list), NEW gone \in SUBSET DOMAIN list
    PROVE  LET new == [j \in DOMAIN list |->
                          IF j \in gone
                          THEN [list[j] EXCEPT !.status = "failed", !.pid = 0] ELSE list[j]]
           IN  /\ IsList(new) /\ DOMAIN new = DOMAIN list
               /\ \A j \in DOMAIN list : new[j].after = list[j].after
               /\ \A j \in gone : new[j].status = "failed"
               /\ \A j \in DOMAIN list \ gone : new[j] = list[j]
<1>1. ASSUME NEW j \in DOMAIN list
      PROVE  /\ [list[j] EXCEPT !.status = "failed", !.pid = 0] \in Job
             /\ [list[j] EXCEPT !.status = "failed", !.pid = 0].status = "failed"
             /\ [list[j] EXCEPT !.status = "failed", !.pid = 0].after = list[j].after
  <2>1. list[j] \in Job
    BY DEF IsList
  <2> DEFINE r == list[j]
             s == [[r EXCEPT !.status = "failed"] EXCEPT !.pid = 0]
  <2>2. 0 \in 0 .. MaxSpawns /\ r \in Job
    BY <2>1, Bounds
  <2> HIDE DEF r
  <2>3. s \in Job /\ s.status = "failed" /\ s.after = r.after
    BY <2>2 DEF Job, Statuses
  <2>4. [r EXCEPT !.status = "failed", !.pid = 0] = s
    OBVIOUS
  <2> HIDE DEF s
  <2> QED BY <2>3, <2>4 DEF r
<1> QED BY <1>1 DEF IsList

\* The first job of a set of jobs is one of them.
LEMMA FirstIs == ASSUME NEW S \in SUBSET Ids, S # {} PROVE First(S) \in S /\ \A k \in S : First(S) <= k
<1>1. S \in SUBSET Nat
  BY Bounds DEF Ids
<1>2. \E j \in S : \A k \in S : j <= k
  BY <1>1, Least
<1> QED BY <1>2 DEF First

\* A `dag run` that exits, by itself or killed with the scheduler.
LEMMA ExitedIs ==
    ASSUME ProcsTyped, NEW i \in DOMAIN procs, NEW code \in {"ok", "bad"}
    PROVE  LET new == [procs EXCEPT ![i].exit = code]
           IN  /\ new \in Seq([job : Ids, exit : {"none", "ok", "bad"}])
               /\ Len(new) = Len(procs) /\ DOMAIN new = DOMAIN procs
               /\ new[i].exit = code /\ new[i].job = procs[i].job
               /\ \A k \in DOMAIN procs \ {i} : new[k] = procs[k]
<1> DEFINE R == [job : Ids, exit : {"none", "ok", "bad"}]
<1>1. procs \in Seq(R) /\ DOMAIN procs = 1 .. Len(procs)
  BY DEF ProcsTyped
<1>2. procs[i] \in R
  <2>1. i \in 1 .. Len(procs)
    BY <1>1
  <2> QED BY <1>1, <2>1, ElementOfSeq
<1>3. /\ [procs[i] EXCEPT !.exit = code] \in R
      /\ [procs[i] EXCEPT !.exit = code].exit = code
      /\ [procs[i] EXCEPT !.exit = code].job = procs[i].job
  BY <1>2
<1> HIDE DEF R
<1> QED BY <1>1, <1>3 DEF R

\* A load of the scheduler, from which it goes on to save.
LEMMA TypeLoad ==
    ASSUME TypeInv, LoadBy(Sched),
           pc' \in Places, jobs' = jobs, UNCHANGED editVars, come' = come,
           ProcsTyped', deaths' \in 0 .. MaxDeaths
    PROVE  TypeInv'
<1>1. Sched \in Actors /\ Sched \notin Editors /\ Editors \subseteq Actors
  BY SchedulerAssumption DEF Actors
<1>2. /\ ViewsOK' /\ view'[Sched] # NoView
      /\ \A y \in Actors \ {Sched} : view'[y] = view[y]
  BY <1>1, LoadKeeps
<1>3. IsList(jobs)'
  BY TypeParts DEF IsList, Job, Ids, Statuses
<1>4. EditsOK' /\ RetriesOK'
  BY <1>1, <1>2, TypeParts DEF EditsOK, RetriesOK, editVars
<1>5. come' \subseteq Ids
  BY TypeParts
<1> QED BY <1>2, <1>3, <1>4, <1>5 DEF TypeInv, TypeOK, ViewsOK, ProcsTyped, EditsOK, RetriesOK, Places

\* A save of the scheduler, after which it holds no copy.
LEMMA TypeSave ==
    ASSUME TypeInv, NEW list, IsList(list), SaveBy(Sched, list),
           pc' \in Places \ Saving, UNCHANGED editVars, come' = come,
           ProcsTyped', deaths' \in 0 .. MaxDeaths
    PROVE  TypeInv'
<1>1. Sched \in Actors /\ Sched \notin Editors /\ Editors \subseteq Actors
  BY SchedulerAssumption DEF Actors
<1>2. /\ ViewsOK' /\ IsList(jobs)'
      /\ \A y \in Actors \ {Sched} : view'[y] = view[y]
  BY <1>1, SaveKeeps
<1>4. EditsOK' /\ RetriesOK'
  BY <1>1, <1>2, TypeParts DEF EditsOK, RetriesOK, editVars
<1>5. come' \subseteq Ids
  BY TypeParts
<1> QED BY <1>2, <1>4, <1>5 DEF TypeInv, TypeOK, ViewsOK, ProcsTyped, EditsOK, RetriesOK, Places

\* A step of the scheduler that is neither.
LEMMA TypeElse ==
    ASSUME TypeInv, view' = view \/ (pc' \notin Saving /\ view' = [view EXCEPT ![Sched] = NoView]),
           pc' \in Places, pc' \in Saving => pc \in Saving, jobs' = jobs,
           UNCHANGED editVars, come' \subseteq Ids, ProcsTyped', deaths' \in 0 .. MaxDeaths
    PROVE  TypeInv'
<1>1. Sched \in Actors /\ Sched \notin Editors /\ Editors \subseteq Actors
  BY SchedulerAssumption DEF Actors
<1>2. /\ ViewsOK'
      /\ \A y \in Actors \ {Sched} : view'[y] = view[y]
      /\ pc' \in Saving => view'[Sched] # NoView
  BY <1>1, TypeParts DEF ViewsOK, IsList, Job, Ids, Statuses
<1>3. IsList(jobs)'
  BY TypeParts DEF IsList, Job, Ids, Statuses
<1>4. EditsOK' /\ RetriesOK'
  BY <1>1, <1>2, TypeParts DEF EditsOK, RetriesOK, editVars
<1> QED BY <1>2, <1>3, <1>4 DEF TypeInv, TypeOK, ViewsOK, ProcsTyped, EditsOK, RetriesOK, Places

\* The copy the scheduler works on, where it has one.
LEMMA SchedView ==
    ASSUME TypeInv, pc \in Saving PROVE IsList(view[Sched])
BY TypeParts DEF ViewsOK, Actors

\* The types hold at first.
LEMMA TypeInit == Init => TypeInv
<1> SUFFICES ASSUME Init PROVE TypeInv
  OBVIOUS
<1>1. IsList(jobs)
  BY DEF Init, IsList
<1>2. procs \in Seq([job : Ids, exit : {"none", "ok", "bad"}]) /\ Len(procs) = 0
  BY DEF Init
<1>3. ViewsOK /\ EditsOK
  BY Bounds DEF Init, ViewsOK, EditsOK, Ops
<1>4. RetriesOK
  BY DEF Init, RetriesOK, NoOp
<1> QED BY <1>1, <1>2, <1>3, <1>4, Bounds, TypeParts DEF Init, ProcsTyped, Places, Saving

\* An edit, from its load to its save.
LEMMA TypeEdit ==
    ASSUME TypeInv, NEW e \in Editors, EditBegins(e) \/ EditSaves(e) PROVE TypeInv'
<1>1. e \in Actors /\ Sched # e /\ Editors \subseteq Actors /\ Sched \in Actors
  BY SchedulerAssumption DEF Actors
<1>2. pc' = pc /\ come' = come /\ procs' = procs /\ child' = child /\ runningId' = runningId
      /\ deaths' = deaths
  BY DEF EditBegins, EditSaves, schedVars
<1>3. ProcsTyped' /\ come' \subseteq Ids /\ pc' \in Places /\ deaths' \in 0 .. MaxDeaths
  BY <1>2, TypeParts DEF ProcsTyped, Places, Ids
<1>4. CASE EditBegins(e)
  <2>1. /\ ViewsOK' /\ view'[e] = jobs
        /\ \A y \in Actors \ {e} : view'[y] = view[y]
    BY <1>1, <1>4, LoadKeeps DEF EditBegins
  <2>2. IsList(jobs)'
    BY <1>4, TypeParts DEF EditBegins, IsList, Job, Ids, Statuses
  <2>3. edits' \in 0 .. MaxEdits
    BY <1>4, TypeParts, Bounds DEF EditBegins, EditsOK
  <2>4. DOMAIN jobs \subseteq Ids
    BY TypeParts DEF IsList
  <2>5. /\ added' \in 0 .. MaxJobs
        /\ \E o \in Ops : /\ op' = [op EXCEPT ![e] = o]
                          /\ o.kind = "retry" => o.id \in DOMAIN jobs
    <3>1. PICK kind \in Commands :
             \/ /\ kind = "add" /\ added < MaxJobs
                /\ added' = added + 1
                /\ op' = [op EXCEPT ![e] = [kind |-> kind, id |-> added + 1]]
             \/ /\ kind \in {"remove", "retry"}
                /\ \E j \in DOMAIN jobs : op' = [op EXCEPT ![e] = [kind |-> kind, id |-> j]]
                /\ UNCHANGED added
             \/ /\ kind = "clear"
                /\ op' = [op EXCEPT ![e] = [kind |-> kind, id |-> 0]]
                /\ UNCHANGED added
      BY <1>4 DEF EditBegins
    <3>2. added \in 0 .. MaxJobs
      BY TypeParts DEF EditsOK
    <3>3. CASE kind = "add"
      <4> DEFINE o == [kind |-> "add", id |-> added + 1]
      <4>1. o \in Ops /\ o.kind # "retry" /\ added + 1 \in 0 .. MaxJobs
        BY <3>1, <3>2, <3>3, Bounds DEF Ops, Ids
      <4>2. op' = [op EXCEPT ![e] = o] /\ added' = added + 1
        BY <3>1, <3>3
      <4> HIDE DEF o
      <4> QED BY <4>1, <4>2
    <3>4. CASE kind \in {"remove", "retry"}
      <4>1. PICK j \in DOMAIN jobs : op' = [op EXCEPT ![e] = [kind |-> kind, id |-> j]]
        BY <3>1, <3>4
      <4> DEFINE o == [kind |-> kind, id |-> j]
      <4>2. o \in Ops /\ o.id = j
        BY <2>4, <3>4 DEF Ops
      <4>3. op' = [op EXCEPT ![e] = o] /\ added' = added
        BY <3>1, <3>4, <4>1
      <4> HIDE DEF o
      <4> QED BY <4>2, <4>3, <3>2
    <3>5. CASE kind = "clear"
      <4> DEFINE o == [kind |-> "clear", id |-> 0]
      <4>1. o \in Ops /\ o.kind # "retry"
        BY DEF Ops
      <4>2. op' = [op EXCEPT ![e] = o] /\ added' = added
        BY <3>1, <3>5
      <4> HIDE DEF o
      <4> QED BY <4>1, <4>2, <3>2
    <3> QED BY <3>1, <3>3, <3>4, <3>5
  <2>6. PICK o \in Ops : op' = [op EXCEPT ![e] = o] /\ (o.kind = "retry" => o.id \in DOMAIN jobs)
    BY <2>5
  <2>7. EditsOK'
    BY <2>3, <2>5, <2>6, TypeParts DEF EditsOK, Ops, NoOp, Ids
  <2>8. RetriesOK'
    <3>1. op'[e] = o /\ \A x \in Editors \ {e} : op'[x] = op[x]
      BY <2>6, TypeParts DEF EditsOK
    <3> QED BY <3>1, <2>1, <2>6, <1>1, TypeParts DEF RetriesOK
  <2>9. pc' \in Saving => view'[Sched] # NoView
    BY <1>1, <1>2, <2>1, TypeParts
  <2> QED BY <1>3, <2>1, <2>2, <2>7, <2>8, <2>9
          DEF TypeInv, TypeOK, ViewsOK, ProcsTyped, EditsOK, RetriesOK, Places
<1>5. CASE EditSaves(e)
  <2>1. IsList(view[e]) /\ op[e] \in Ops
    BY <1>1, <1>5, TypeParts DEF EditSaves, ViewsOK, EditsOK
  <2>2. \E list : IsList(list) /\ SaveBy(e, list)
    <3>1. CASE op[e].kind = "add"
      <4>1. PICK after \in Afters, timed \in Clocks :
               SaveBy(e, Added(view[e], op[e].id, after, timed))
        BY <1>5, <3>1 DEF EditSaves
      <4>2. op[e].id \in Ids
        BY <2>1, <3>1 DEF Ops, NoOp
      <4> QED BY <2>1, <4>1, <4>2, AddedIs
    <3>2. CASE op[e].kind = "remove"
      BY <1>5, <3>2, <2>1, WithoutIs DEF EditSaves
    <3>3. CASE op[e].kind = "retry"
      <4>1. op[e].id \in DOMAIN view[e]
        BY <1>5, <3>3, TypeParts DEF EditSaves, RetriesOK
      <4>2. SaveBy(e, [view[e] EXCEPT ![op[e].id].status = "pending"])
        BY <1>5, <3>3 DEF EditSaves
      <4>3. "pending" \in Statuses
        BY DEF Statuses
      <4> QED BY <2>1, <4>1, <4>2, <4>3, StatusIs
    <3>4. CASE op[e].kind = "clear"
      BY <1>5, <3>4, <2>1, WithoutIs DEF EditSaves
    <3> QED BY <1>5, <3>1, <3>2, <3>3, <3>4 DEF EditSaves
  <2>3. /\ ViewsOK' /\ IsList(jobs)' /\ view'[e] = NoView
        /\ \A y \in Actors \ {e} : view'[y] = view[y]
    BY <1>1, <2>2, SaveKeeps
  <2>4. op' = [op EXCEPT ![e] = NoOp] /\ added' = added /\ edits' = edits
    BY <1>5 DEF EditSaves
  <2>5. EditsOK'
    BY <2>4, TypeParts DEF EditsOK, Ops, NoOp, Ids
  <2>6. RetriesOK'
    <3>1. \A x \in Editors \ {e} : op'[x] = op[x]
      BY <2>4, TypeParts DEF EditsOK
    <3> QED BY <3>1, <2>3, <1>1, TypeParts DEF RetriesOK
  <2>7. pc' \in Saving => view'[Sched] # NoView
    BY <1>1, <1>2, <2>3, TypeParts
  <2> QED BY <1>3, <2>3, <2>5, <2>6, <2>7
          DEF TypeInv, TypeOK, ViewsOK, ProcsTyped, EditsOK, RetriesOK, Places
<1> QED BY <1>4, <1>5

\* The turns of the scheduler.
LEMMA TypeWork == ASSUME TypeInv, Working \/ Interrupted \/ Killed PROVE TypeInv'
<1>0. /\ IsList(jobs) /\ ProcsTyped /\ come \subseteq Ids /\ pc \in Places
      /\ deaths \in 0 .. MaxDeaths
  BY TypeParts
<1>a. ASSUME UNCHANGED <<procs, child, runningId>> PROVE ProcsTyped'
  BY <1>0, <1>a DEF ProcsTyped, Ids
<1>b. ASSUME procs' = procs, child' = 0, runningId' = 0 PROVE ProcsTyped'
  BY <1>0, <1>b, Bounds DEF ProcsTyped, Ids
<1>1. CASE Boot
  BY <1>1, <1>0, <1>a, TypeLoad DEF Boot, Goto, Places
<1>2. CASE BootSaves
  <2> DEFINE list == view[Sched]
             gone == {j \in DOMAIN list : list[j].status = "running" /\ ~Live(list[j].pid)}
             new == [j \in DOMAIN list |-> IF j \in gone
                        THEN [list[j] EXCEPT !.status = "failed", !.pid = 0] ELSE list[j]]
  <2>1. IsList(list)
    BY <1>2, SchedView DEF BootSaves, Saving
  <2>2. gone \in SUBSET DOMAIN list
    OBVIOUS
  <2>3. SaveBy(Sched, IF gone = {} THEN jobs ELSE new) /\ pc' = "reap"
    BY <1>2 DEF BootSaves, Goto
  <2> HIDE DEF gone, list
  <2>4. IsList(new)
    BY <2>1, <2>2, ReapedIs
  <2> HIDE DEF new
  <2>5. \E l : IsList(l) /\ SaveBy(Sched, l)
    BY <2>3, <2>4, <1>0
  <2> QED BY <2>3, <2>5, <1>0, <1>2, <1>a, TypeSave DEF BootSaves, Places, Saving
<1>3. CASE Reap
  <2>1. CASE child = 0 /\ pc' = "block" /\ view' = view
    BY <2>1, <1>3, <1>0, <1>a, TypeElse DEF Reap, Places, Saving
  <2>2. CASE LoadBy(Sched) /\ pc' = "reaped"
    BY <2>2, <1>3, <1>0, <1>a, TypeLoad DEF Reap, Places, Saving
  <2> QED BY <1>3, <2>1, <2>2 DEF Reap, Goto
<1>4. CASE ReapSaves
  <2> DEFINE list == view[Sched]
             verdict == IF procs[child].exit = "ok" THEN "done" ELSE "failed"
  <2>1. IsList(list)
    BY <1>4, SchedView DEF ReapSaves, Saving
  <2>2. verdict \in Statuses
    BY DEF Statuses
  <2>3. SaveBy(Sched, IF runningId \in DOMAIN list
                      THEN [list EXCEPT ![runningId].status = verdict] ELSE jobs)
        /\ pc' \in {"over", "block"}
    BY <1>4 DEF ReapSaves, Goto
  <2> HIDE DEF list, verdict
  <2>4. \E l : IsList(l) /\ SaveBy(Sched, l)
    BY <2>1, <2>2, <2>3, <1>0, StatusIs
  <2> QED BY <2>3, <2>4, <1>0, <1>4, <1>b, TypeSave DEF ReapSaves, Places, Saving
<1>5. CASE Block
  BY <1>5, <1>0, <1>a, TypeLoad DEF Block, Goto, Places
<1>6. CASE BlockSaves
  <2> DEFINE list == view[Sched]
  <2>1. IsList(list)
    BY <1>6, SchedView DEF BlockSaves, Saving
  <2>2. SaveBy(Sched, IF BlockPass(list) # list THEN BlockPass(list) ELSE jobs) /\ pc' = "pick"
    BY <1>6 DEF BlockSaves, Goto
  <2> HIDE DEF list
  <2>3. IsList(BlockPass(list))
    BY <2>1, Bounds, ListsAre, PassKeeps
  <2>4. \E l : IsList(l) /\ SaveBy(Sched, l)
    BY <2>2, <2>3, <1>0
  <2> QED BY <2>2, <2>4, <1>0, <1>6, <1>a, TypeSave DEF BlockSaves, Places, Saving
<1>7. CASE Pick
  <2>1. pc' \in {"spawned", "poll", "over"} /\ view' = view /\ jobs' = jobs
        /\ UNCHANGED editVars /\ come' = come /\ deaths' = deaths
    BY <1>7 DEF Pick, Goto
  <2>2. ProcsTyped'
    <3>1. CASE Startable = {}
      BY <3>1, <1>7, <1>a DEF Pick
    <3>2. CASE Startable # {}
      <4> DEFINE R == [job : Ids, exit : {"none", "ok", "bad"}]
                 new == [job |-> First(Startable), exit |-> "none"]
      <4>1. Startable \in SUBSET Ids
        BY <1>0 DEF Startable, Pending, IsList
      <4>2. First(Startable) \in Ids
        BY <3>2, <4>1, FirstIs
      <4>3. new \in R
        BY <4>2
      <4>4. procs' = Append(procs, new) /\ child' = Len(procs) + 1
            /\ runningId' = First(Startable) /\ Len(procs) < MaxSpawns
        BY <3>2, <1>7 DEF Pick
      <4>5. procs \in Seq(R) /\ Len(procs) \in Nat
        BY <1>0 DEF ProcsTyped
      <4> HIDE DEF new, R
      <4>6. procs' \in Seq(R) /\ Len(procs') = Len(procs) + 1
        BY <4>3, <4>4, <4>5
      <4>7. Len(procs') <= MaxSpawns /\ child' \in 0 .. Len(procs') /\ runningId' \in 0 .. MaxJobs
        BY <4>2, <4>4, <4>5, <4>6, Bounds DEF Ids
      <4> QED BY <4>6, <4>7 DEF ProcsTyped, R, Ids
    <3> QED BY <3>1, <3>2
  <2> QED BY <2>1, <2>2, <1>0, TypeElse DEF Places, Saving
<1>8. CASE Mark
  BY <1>8, <1>0, <1>a, TypeLoad DEF Mark, Goto, Places
<1>9. CASE MarkSaves
  <2> DEFINE list == view[Sched]
  <2>1. IsList(list)
    BY <1>9, SchedView DEF MarkSaves, Saving
  <2>2. child \in 0 .. MaxSpawns
    BY <1>0, Bounds DEF ProcsTyped
  <2>3. SaveBy(Sched, IF runningId \in DOMAIN list
                      THEN [list EXCEPT ![runningId].status = "running",
                                        ![runningId].pid = child] ELSE jobs)
        /\ pc' = "reap"
    BY <1>9 DEF MarkSaves, Goto
  <2> HIDE DEF list
  <2>4. \E l : IsList(l) /\ SaveBy(Sched, l)
    <3>1. CASE runningId \in DOMAIN list
      <4>1. IsList(Marked(list, runningId, child))
        BY <2>1, <2>2, <3>1, MarkedIs
      <4>2. SaveBy(Sched, Marked(list, runningId, child))
        BY <2>3, <3>1 DEF Marked
      <4> QED BY <4>1, <4>2
    <3>2. CASE runningId \notin DOMAIN list
      BY <2>3, <3>2, <1>0
    <3> QED BY <3>1, <3>2
  <2> QED BY <2>3, <2>4, <1>0, <1>9, <1>a, TypeSave DEF MarkSaves, Places, Saving
<1>10. CASE Poll
  BY <1>10, <1>0, <1>a, TypeElse DEF Poll, Goto, Places, Saving
<1>11. CASE InterruptSaves
  <2> DEFINE list == view[Sched]
  <2>1. IsList(list)
    BY <1>11, SchedView DEF InterruptSaves, Saving
  <2>2. "cancelled" \in Statuses
    BY DEF Statuses
  <2>3. SaveBy(Sched, IF runningId \in DOMAIN list
                      THEN [list EXCEPT ![runningId].status = "cancelled"] ELSE jobs)
        /\ pc' = "off"
    BY <1>11 DEF InterruptSaves, Goto
  <2> HIDE DEF list
  <2>4. \E l : IsList(l) /\ SaveBy(Sched, l)
    BY <2>1, <2>2, <2>3, <1>0, StatusIs
  <2> QED BY <2>3, <2>4, <1>0, <1>11, <1>b, TypeSave DEF InterruptSaves, Places, Saving
<1>12. CASE Again
  BY <1>12, <1>0, <1>a, TypeElse DEF Again, Goto, Places, Saving
<1>13. CASE Interrupted
  <2>1. ProcsTyped'
    <3>1. CASE Live(child)
      <4>1. child \in DOMAIN procs
        BY <3>1, <1>0 DEF ProcsTyped, Live
      <4> DEFINE new == [procs EXCEPT ![child].exit = "bad"]
      <4>2. new \in Seq([job : Ids, exit : {"none", "ok", "bad"}]) /\ Len(new) = Len(procs)
        BY <4>1, <1>0, ExitedIs
      <4>3. procs' = new /\ child' = child /\ runningId' = runningId
        BY <3>1, <1>13 DEF Interrupted
      <4> HIDE DEF new
      <4> QED BY <4>2, <4>3, <1>0 DEF ProcsTyped, Ids
    <3>2. CASE ~Live(child)
      BY <3>2, <1>13, <1>a DEF Interrupted
    <3> QED BY <3>1, <3>2
  <2>2. deaths' \in 0 .. MaxDeaths
    BY <1>0, <1>13, Bounds DEF Interrupted
  <2> QED BY <2>1, <2>2, <1>0, <1>13, TypeLoad DEF Interrupted, Goto, Places
<1>14. CASE Killed
  <2>1. deaths' \in 0 .. MaxDeaths
    BY <1>0, <1>14, Bounds DEF Killed
  <2> QED BY <2>1, <1>0, <1>14, <1>b, TypeElse DEF Killed, Goto, Places, Saving
<1> QED BY <1>1, <1>2, <1>3, <1>4, <1>5, <1>6, <1>7, <1>8, <1>9, <1>10, <1>11, <1>12,
           <1>13, <1>14 DEF Working

\* Every step keeps the types.
LEMMA TypeStep == ASSUME TypeInv, [Next]_vars PROVE TypeInv'
<1>1. CASE \E i \in DOMAIN procs : Exit(i)
  <2>1. PICK i \in DOMAIN procs : Exit(i)
    BY <1>1
  <2>2. PICK code \in {"ok", "bad"} : procs' = [procs EXCEPT ![i].exit = code]
    BY <2>1 DEF Exit
  <2> DEFINE new == [procs EXCEPT ![i].exit = code]
  <2>3. new \in Seq([job : Ids, exit : {"none", "ok", "bad"}]) /\ Len(new) = Len(procs)
    BY TypeParts, ExitedIs
  <2>4. procs' = new /\ UNCHANGED <<jobs, editVars, view, come, schedVars>>
    BY <2>1, <2>2 DEF Exit
  <2> HIDE DEF new
  <2>5. ProcsTyped'
    BY <2>3, <2>4, TypeParts DEF ProcsTyped, Ids, schedVars
  <2> QED BY <2>4, <2>5, TypeParts, TypeElse DEF schedVars
<1>2. CASE \E j \in Ids : TimeComes(j)
  <2>1. ProcsTyped' /\ come' \subseteq Ids
    BY <1>2, TypeParts DEF TimeComes, ProcsTyped, Ids, schedVars
  <2> QED BY <2>1, <1>2, TypeParts, TypeElse DEF TimeComes, schedVars
<1>3. CASE UNCHANGED vars
  <2>1. ProcsTyped'
    BY <1>3, TypeParts DEF ProcsTyped, Ids, vars
  <2> QED BY <2>1, <1>3, TypeParts, TypeElse DEF vars, editVars
<1> QED BY <1>1, <1>2, <1>3, TypeEdit, TypeWork DEF Next

\* Every variable has its type, in every mode and with any overlap: no copy is
\* taken for a list, no status, job or process is named that cannot exist.
THEOREM SchedulerTyped == Spec => []TypeOK
<1>1. TypeInv => TypeOK
  BY DEF TypeInv
<1> QED BY <1>1, TypeInit, TypeStep, PTL DEF Spec

-----------------------------------------------------------------------------
(* No load-save contains another.                                          *)

\* Who holds a copy holds the list, and holds it alone.
Alone ==
    \A x \in Actors :
        view[x] # NoView => view[x] = jobs /\ \A y \in Actors : view[y] # NoView => y = x

\* Jobs are numbered as they are added.
Numbered ==
    /\ DOMAIN jobs \subseteq 1 .. added
    /\ \A e \in Editors :
          view[e] # NoView /\ op[e].kind = "add" => op[e].id = added /\ added \notin DOMAIN jobs

QuietInv ==
    /\ TypeInv /\ Alone /\ Numbered
    /\ pc \notin Saving => view[Sched] = NoView

\* What a step of the scheduler does to the list: the jobs and what they wait
\* for stay, and a status changes in one of five ways.
LEMMA WorkEffect ==
    ASSUME QuietInv, Working \/ Interrupted \/ Killed
    PROVE  /\ DOMAIN jobs' = DOMAIN jobs
           /\ \A k \in DOMAIN jobs :
                 /\ jobs'[k].after = jobs[k].after
                 /\ \/ jobs'[k].status = jobs[k].status
                    \/ BootSaves /\ jobs[k].status = "running" /\ jobs'[k].status = "failed"
                    \/ /\ ReapSaves /\ k = runningId
                       /\ jobs'[k].status = IF procs[child].exit = "ok" THEN "done" ELSE "failed"
                    \/ BlockSaves /\ {jobs[k].status, jobs'[k].status} = {"pending", "blocked"}
                    \/ MarkSaves /\ k = runningId /\ jobs'[k].status = "running"
                    \/ InterruptSaves /\ k = runningId /\ jobs'[k].status = "cancelled"
<1>0. TypeInv /\ IsList(jobs) /\ Sched \in Actors
  BY TypeParts DEF QuietInv, Actors
<1>a. pc \in Saving => view[Sched] = jobs
  BY <1>0, TypeParts DEF QuietInv, Alone
<1>1. CASE jobs' = jobs
  BY <1>1
<1>2. CASE BootSaves
  <2> DEFINE gone == {j \in DOMAIN jobs : jobs[j].status = "running" /\ ~Live(jobs[j].pid)}
             new == [j \in DOMAIN jobs |-> IF j \in gone
                        THEN [jobs[j] EXCEPT !.status = "failed", !.pid = 0] ELSE jobs[j]]
  <2>1. view[Sched] = jobs
    BY <1>2, <1>a DEF BootSaves, Saving
  <2>2. jobs' = IF gone = {} THEN jobs ELSE new
    BY <1>2, <2>1 DEF BootSaves, SaveBy
  <2>3. gone \in SUBSET DOMAIN jobs /\ \A j \in gone : jobs[j].status = "running"
    OBVIOUS
  <2> HIDE DEF gone
  <2>4. /\ DOMAIN new = DOMAIN jobs
        /\ \A j \in DOMAIN jobs : new[j].after = jobs[j].after
        /\ \A j \in gone : new[j].status = "failed"
        /\ \A j \in DOMAIN jobs \ gone : new[j] = jobs[j]
    BY <1>0, <2>3, ReapedIs
  <2> HIDE DEF new
  <2> QED BY <2>2, <2>3, <2>4, <1>2
<1>3. CASE ReapSaves
  <2> DEFINE verdict == IF procs[child].exit = "ok" THEN "done" ELSE "failed"
  <2>1. view[Sched] = jobs
    BY <1>3, <1>a DEF ReapSaves, Saving
  <2>2. jobs' = IF runningId \in DOMAIN jobs THEN [jobs EXCEPT ![runningId].status = verdict]
                ELSE jobs
    BY <1>3, <2>1 DEF ReapSaves, SaveBy
  <2>3. verdict \in Statuses
    BY DEF Statuses
  <2> HIDE DEF verdict
  <2> QED BY <2>2, <2>3, <1>0, <1>3, StatusIs DEF verdict
<1>4. CASE BlockSaves
  <2>1. view[Sched] = jobs
    BY <1>4, <1>a DEF BlockSaves, Saving
  <2>2. jobs' = IF BlockPass(jobs) # jobs THEN BlockPass(jobs) ELSE jobs
    BY <1>4, <2>1 DEF BlockSaves, SaveBy
  <2>3. jobs' = BlockPass(jobs)
    BY <2>2
  <2>4. jobs \in Lists /\ MaxJobs \in Nat
    BY <1>0, ListsAre, Bounds
  <2> QED BY <2>3, <2>4, <1>4, PassKeeps
<1>5. CASE MarkSaves
  <2>1. view[Sched] = jobs
    BY <1>5, <1>a DEF MarkSaves, Saving
  <2>2. child \in 0 .. MaxSpawns
    BY <1>0, TypeParts, Bounds DEF ProcsTyped
  <2> DEFINE new == Marked(jobs, runningId, child)
  <2>3. jobs' = IF runningId \in DOMAIN jobs THEN new ELSE jobs
    BY <1>5, <2>1 DEF MarkSaves, SaveBy, Marked
  <2>4. CASE runningId \in DOMAIN jobs
    <3>1. /\ DOMAIN new = DOMAIN jobs
          /\ new[runningId].status = "running" /\ new[runningId].after = jobs[runningId].after
          /\ \A k \in DOMAIN jobs \ {runningId} : new[k] = jobs[k]
      BY <2>2, <2>4, <1>0, MarkedIs
    <3> HIDE DEF new
    <3> QED BY <3>1, <2>3, <2>4, <1>5
  <2> QED BY <2>3, <2>4
<1>6. CASE InterruptSaves
  <2>1. view[Sched] = jobs
    BY <1>6, <1>a DEF InterruptSaves, Saving
  <2>2. jobs' = IF runningId \in DOMAIN jobs
                THEN [jobs EXCEPT ![runningId].status = "cancelled"] ELSE jobs
    BY <1>6, <2>1 DEF InterruptSaves, SaveBy
  <2>3. "cancelled" \in Statuses
    BY DEF Statuses
  <2> QED BY <2>2, <2>3, <1>0, <1>6, StatusIs
<1> QED BY <1>1, <1>2, <1>3, <1>4, <1>5, <1>6
        DEF Working, Boot, Reap, Block, Pick, Mark, Poll, Again, Interrupted, Killed

\* What the save of an edit does to it: it adds a pending job, makes a job
\* pending again, or takes jobs away.
LEMMA EditEffect ==
    ASSUME QuietInv, NEW e \in Editors, EditSaves(e)
    PROVE  \A k \in DOMAIN jobs' :
              \/ /\ k \in DOMAIN jobs /\ jobs'[k].after = jobs[k].after
                 /\ jobs'[k].status = jobs[k].status \/ jobs'[k].status = "pending"
              \/ op[e].kind = "add" /\ k = added /\ jobs'[k].status = "pending"
<1>0. TypeInv /\ IsList(jobs) /\ e \in Actors
  BY TypeParts DEF QuietInv, Actors
<1>a. view[e] = jobs /\ view[e] # NoView
  BY <1>0 DEF QuietInv, Alone, EditSaves
<1>1. CASE op[e].kind = "add"
  <2>1. op[e].id = added
    BY <1>1, <1>a DEF QuietInv, Numbered
  <2>2. PICK after \in Afters, timed \in Clocks : jobs' = Added(jobs, added, after, timed)
    BY <1>1, <1>a, <2>1 DEF EditSaves, SaveBy
  <2> QED BY <2>2, <1>1 DEF Added
<1>2. CASE op[e].kind = "remove"
  <2>1. jobs' = Without(jobs, {op[e].id})
    BY <1>2, <1>a DEF EditSaves, SaveBy
  <2> QED BY <2>1 DEF Without
<1>3. CASE op[e].kind = "retry"
  <2>1. jobs' = [jobs EXCEPT ![op[e].id].status = "pending"] /\ op[e].id \in DOMAIN jobs
    BY <1>0, <1>3, <1>a, TypeParts DEF EditSaves, SaveBy, RetriesOK
  <2>2. "pending" \in Statuses
    BY DEF Statuses
  <2> QED BY <2>1, <2>2, <1>0, StatusIs
<1>4. CASE op[e].kind = "clear"
  <2>1. jobs' = Without(jobs, Finished(jobs))
    BY <1>4, <1>a DEF EditSaves, SaveBy
  <2> QED BY <2>1 DEF Without
<1> QED BY <1>1, <1>2, <1>3, <1>4 DEF EditSaves

\* Whoever loads is alone then, and whoever saves was.
LEMMA AloneLoad ==
    ASSUME ~Overlap, QuietInv, NEW x \in Actors, LoadBy(x), jobs' = jobs
    PROVE  Alone' /\ \A y \in Actors \ {x} : view[y] = NoView /\ view'[y] = NoView
<1>1. TypeInv
  BY DEF QuietInv
<1>2. /\ view'[x] = jobs
      /\ \A y \in Actors \ {x} : view'[y] = view[y]
  BY <1>1, LoadKeeps
<1>3. \A y \in Actors : view[y] = NoView
  BY DEF LoadBy, MayLoad
<1> QED BY <1>2, <1>3 DEF Alone

\* Whoever saves was alone, and leaves no copy behind.
LEMMA AloneSave ==
    ASSUME QuietInv, NEW x \in Actors, view[x] # NoView, view' = [view EXCEPT ![x] = NoView]
    PROVE  Alone' /\ \A y \in Actors : view'[y] = NoView
<1>1. \A y \in Actors \ {x} : view[y] = NoView
  BY DEF QuietInv, Alone
<1>2. DOMAIN view = Actors
  BY TypeParts DEF QuietInv, ViewsOK
<1> QED BY <1>1, <1>2 DEF Alone

\* Nobody holds a copy at first.
LEMMA QuietInit == Init => QuietInv
<1> SUFFICES ASSUME Init PROVE QuietInv
  OBVIOUS
<1>1. TypeInv
  BY TypeInit
<1>2. Alone /\ Numbered /\ view[Sched] = NoView
  BY DEF Init, Alone, Numbered, Actors, NoOp
<1> QED BY <1>1, <1>2 DEF QuietInv

\* No step makes two hold copies at once, or uses a number twice.
LEMMA QuietStep == ASSUME ~Overlap, QuietInv, [Next]_vars PROVE QuietInv'
<1>0. TypeInv' /\ TypeInv
  BY TypeStep DEF QuietInv
<1>a. /\ Sched \in Actors /\ Sched \notin Editors /\ Editors \subseteq Actors
      /\ \A e \in Editors : e # Sched
  BY SchedulerAssumption DEF Actors
<1>b. added \in Nat
  BY <1>0, TypeParts DEF EditsOK
<1>1. ASSUME NEW e \in Editors, EditBegins(e) PROVE QuietInv'
  <2>1. LoadBy(e) /\ jobs' = jobs /\ pc' = pc /\ e \in Actors
    BY <1>1, <1>a DEF EditBegins, schedVars
  <2>2. Alone' /\ \A y \in Actors \ {e} : view[y] = NoView /\ view'[y] = NoView
    BY <2>1, AloneLoad
  <2>3. view'[Sched] = NoView
    BY <2>2, <1>a
  <2>4. DOMAIN jobs' \subseteq 1 .. added'
    BY <1>1, <1>b DEF EditBegins, QuietInv, Numbered
  <2>5. op'[e].kind = "add" => op'[e].id = added' /\ added' \notin DOMAIN jobs'
    <3>1. PICK kind \in Commands :
             \/ /\ kind = "add" /\ added < MaxJobs
                /\ added' = added + 1
                /\ op' = [op EXCEPT ![e] = [kind |-> kind, id |-> added + 1]]
             \/ /\ kind \in {"remove", "retry"}
                /\ \E j \in DOMAIN jobs : op' = [op EXCEPT ![e] = [kind |-> kind, id |-> j]]
                /\ UNCHANGED added
             \/ /\ kind = "clear"
                /\ op' = [op EXCEPT ![e] = [kind |-> kind, id |-> 0]]
                /\ UNCHANGED added
      BY <1>1 DEF EditBegins
    <3>2. DOMAIN op = Editors
      BY <1>0, TypeParts DEF EditsOK
    <3>3. added + 1 \notin DOMAIN jobs
      BY <1>b DEF QuietInv, Numbered
    <3> QED BY <3>1, <3>2, <3>3, <2>1
  <2>6. Numbered'
    <3>1. \A y \in Editors : view'[y] # NoView => y = e
      BY <2>2, <1>a
    <3> QED BY <2>4, <2>5, <3>1 DEF Numbered
  <2> QED BY <1>0, <2>2, <2>3, <2>6 DEF QuietInv
<1>2. ASSUME NEW e \in Editors, EditSaves(e) PROVE QuietInv'
  <2>1. view[e] # NoView /\ view' = [view EXCEPT ![e] = NoView] /\ e \in Actors /\ added' = added
    BY <1>2, <1>a DEF EditSaves, SaveBy
  <2>2. Alone' /\ \A y \in Actors : view'[y] = NoView
    BY <2>1, AloneSave
  <2>3. DOMAIN jobs' \subseteq 1 .. added'
    <3>1. DOMAIN jobs' \subseteq DOMAIN jobs \cup {added} \/ DOMAIN jobs' \subseteq DOMAIN jobs
      BY <1>2, EditEffect
    <3>2. op[e].kind = "add" => added \in Ids
      <4>1. op[e].kind = "add" => op[e].id = added
        BY <2>1 DEF QuietInv, Numbered
      <4>2. op[e] \in Ops
        BY <1>0, TypeParts DEF EditsOK
      <4> QED BY <4>1, <4>2 DEF Ops, NoOp
    <3>3. op[e].kind = "add" => added \in 1 .. added
      BY <3>2, <1>b DEF Ids
    <3>4. \A k \in DOMAIN jobs' : k \in DOMAIN jobs \/ (op[e].kind = "add" /\ k = added)
      BY <1>2, EditEffect
    <3> QED BY <3>3, <3>4, <2>1 DEF QuietInv, Numbered
  <2>4. Numbered'
    BY <2>2, <2>3, <1>a DEF Numbered
  <2> QED BY <1>0, <1>a, <2>2, <2>4 DEF QuietInv
<1>3. CASE Working \/ Interrupted \/ Killed
  <2>1. DOMAIN jobs' = DOMAIN jobs /\ UNCHANGED editVars
    BY <1>3, WorkEffect DEF Working, Boot, BootSaves, Reap, ReapSaves, Block, BlockSaves,
           Pick, Mark, MarkSaves, Poll, InterruptSaves, Again, Interrupted, Killed
  <2>2. \/ LoadBy(Sched) /\ jobs' = jobs /\ pc' \in Saving
        \/ pc \in Saving /\ view' = [view EXCEPT ![Sched] = NoView] /\ pc' \notin Saving
        \/ view' = view /\ jobs' = jobs /\ pc \notin Saving /\ pc' \notin Saving
        \/ jobs' = jobs /\ view' = [view EXCEPT ![Sched] = NoView] /\ pc' \notin Saving
    BY <1>3 DEF Working, Boot, BootSaves, Reap, ReapSaves, Block, BlockSaves,
           Pick, Mark, MarkSaves, Poll, InterruptSaves, Again, Interrupted, Killed, Goto, Saving,
           SaveBy
  <2>3. CASE LoadBy(Sched) /\ jobs' = jobs /\ pc' \in Saving
    <3>1. Alone' /\ \A y \in Actors \ {Sched} : view[y] = NoView /\ view'[y] = NoView
      BY <2>3, <1>a, AloneLoad
    <3>2. Numbered'
      BY <3>1, <2>1, <1>a DEF Numbered, QuietInv, editVars
    <3> QED BY <1>0, <2>3, <3>1, <3>2 DEF QuietInv
  <2>4. CASE pc \in Saving /\ view' = [view EXCEPT ![Sched] = NoView] /\ pc' \notin Saving
    <3>0. view[Sched] # NoView
      BY <2>4, <1>0, TypeParts
    <3>1. Alone' /\ \A y \in Actors : view'[y] = NoView
      BY <2>4, <3>0, <1>a, AloneSave
    <3>2. Numbered'
      BY <3>1, <2>1, <1>a DEF Numbered, QuietInv, editVars
    <3> QED BY <1>0, <1>a, <3>1, <3>2 DEF QuietInv
  <2>5. CASE view' = view /\ jobs' = jobs /\ pc \notin Saving /\ pc' \notin Saving
    BY <2>5, <1>0, <2>1 DEF QuietInv, Alone, Numbered, editVars
  <2>6. CASE jobs' = jobs /\ view' = [view EXCEPT ![Sched] = NoView] /\ pc' \notin Saving
    <3>1. DOMAIN view = Actors
      BY <1>0, TypeParts DEF ViewsOK
    <3>2. /\ view'[Sched] = NoView
          /\ \A y \in Actors \ {Sched} : view'[y] = view[y]
      BY <3>1, <2>6, <1>a
    <3>3. Alone'
      BY <3>2, <2>6 DEF QuietInv, Alone
    <3>4. Numbered'
      BY <3>2, <2>1, <2>6, <1>a DEF Numbered, QuietInv, editVars
    <3> QED BY <1>0, <3>2, <3>3, <3>4 DEF QuietInv
  <2> QED BY <2>2, <2>3, <2>4, <2>5, <2>6
<1>4. CASE (\E i \in DOMAIN procs : Exit(i)) \/ (\E j \in Ids : TimeComes(j)) \/ UNCHANGED vars
  <2>1. UNCHANGED <<jobs, view, pc, editVars>>
    BY <1>4 DEF Exit, TimeComes, vars, schedVars, editVars
  <2> QED BY <2>1, <1>0 DEF QuietInv, Alone, Numbered, editVars
<1> QED BY <1>1, <1>2, <1>3, <1>4 DEF Next

-----------------------------------------------------------------------------
(* What is done, and what starts after it.                                 *)

\* The child is the last process started, and runs the job the scheduler says.
ChildInv ==
    /\ pc \notin Holding \cup {"interrupted"} => child = 0
    /\ pc \in {"reaped", "spawned", "mark"} => child # 0
    /\ pc = "reaped" => procs[child].exit # "none"
    /\ child # 0 => child = Len(procs) /\ procs[child].job = runningId

\* The last run of k exited with 0.
EndedWell(k) ==
    \E i \in DOMAIN procs :
        /\ procs[i].job = k /\ procs[i].exit = "ok"
        /\ \A l \in DOMAIN procs : l > i => procs[l].job # k

\* A job is done only if its last run says so.
DoneInv == \A k \in DOMAIN jobs : jobs[k].status = "done" => EndedWell(k)

StartInv == QuietInv /\ ChildInv /\ DoneInv

\* What a step does to the processes: nothing, an exit, or a new one at the
\* end for the first job that is due.
LEMMA ProcsEffect ==
    ASSUME TypeInv, [Next]_vars
    PROVE  \/ procs' = procs
           \/ /\ DOMAIN procs' = DOMAIN procs /\ Len(procs') = Len(procs)
              /\ \E i \in DOMAIN procs :
                    /\ procs[i].exit = "none" /\ procs'[i].exit \in {"ok", "bad"}
                    /\ procs'[i].job = procs[i].job
                    /\ \A l \in DOMAIN procs \ {i} : procs'[l] = procs[l]
           \/ /\ Pick /\ Startable # {}
              /\ Len(procs') = Len(procs) + 1
              /\ DOMAIN procs' = DOMAIN procs \cup {Len(procs) + 1}
              /\ Len(procs) + 1 \notin DOMAIN procs
              /\ procs'[Len(procs) + 1] = [job |-> First(Startable), exit |-> "none"]
              /\ First(Startable) \in Startable
              /\ \A l \in DOMAIN procs : procs'[l] = procs[l]
              /\ child' = Len(procs) + 1 /\ runningId' = First(Startable) /\ pc' = "spawned"
<1>0. ProcsTyped /\ IsList(jobs)
  BY TypeParts
<1>1. ASSUME NEW i \in DOMAIN procs, Exit(i)
      PROVE  /\ DOMAIN procs' = DOMAIN procs /\ Len(procs') = Len(procs)
             /\ \E k \in DOMAIN procs :
                   /\ procs[k].exit = "none" /\ procs'[k].exit \in {"ok", "bad"}
                   /\ procs'[k].job = procs[k].job
                   /\ \A l \in DOMAIN procs \ {k} : procs'[l] = procs[l]
  <2>1. PICK code \in {"ok", "bad"} : procs' = [procs EXCEPT ![i].exit = code]
    BY <1>1 DEF Exit
  <2> DEFINE new == [procs EXCEPT ![i].exit = code]
  <2>2. /\ Len(new) = Len(procs) /\ DOMAIN new = DOMAIN procs
        /\ new[i].exit = code /\ new[i].job = procs[i].job
        /\ \A k \in DOMAIN procs \ {i} : new[k] = procs[k]
    BY <1>0, ExitedIs
  <2>3. procs' = new /\ procs[i].exit = "none"
    BY <1>1, <2>1 DEF Exit
  <2> HIDE DEF new
  <2> QED BY <2>2, <2>3
<1>2. CASE Interrupted
  <2>1. CASE Live(child)
    <3>1. child \in DOMAIN procs
      BY <2>1, <1>0 DEF ProcsTyped, Live
    <3> DEFINE new == [procs EXCEPT ![child].exit = "bad"]
    <3>2. /\ Len(new) = Len(procs) /\ DOMAIN new = DOMAIN procs
          /\ new[child].exit = "bad" /\ new[child].job = procs[child].job
          /\ \A k \in DOMAIN procs \ {child} : new[k] = procs[k]
      BY <3>1, <1>0, ExitedIs
    <3>3. procs' = new /\ procs[child].exit = "none"
      BY <1>2, <2>1 DEF Interrupted, Live
    <3> HIDE DEF new
    <3> QED BY <3>1, <3>2, <3>3
  <2> QED BY <1>2, <2>1 DEF Interrupted
<1>3. CASE Pick
  <2>1. CASE Startable = {}
    BY <2>1, <1>3 DEF Pick
  <2>2. CASE Startable # {}
    <3> DEFINE j == First(Startable)
               new == [job |-> j, exit |-> "none"]
               R == [job : Ids, exit : {"none", "ok", "bad"}]
    <3>1. Startable \in SUBSET Ids
      BY <1>0 DEF Startable, Pending, IsList
    <3>2. j \in Startable
      BY <2>2, <3>1, FirstIs
    <3>3. new \in R /\ procs \in Seq(R) /\ Len(procs) \in Nat /\ DOMAIN procs = 1 .. Len(procs)
      BY <3>1, <3>2, <1>0 DEF ProcsTyped
    <3>4. procs' = Append(procs, new) /\ child' = Len(procs) + 1 /\ runningId' = j
          /\ pc' = "spawned"
      BY <1>3, <2>2 DEF Pick, Goto
    <3> HIDE DEF new, R, j
    <3>5. /\ Len(procs') = Len(procs) + 1 /\ DOMAIN procs' = 1 .. (Len(procs) + 1)
          /\ procs'[Len(procs) + 1] = new
          /\ \A l \in 1 .. Len(procs) : procs'[l] = procs[l]
      BY <3>3, <3>4
    <3>6. /\ DOMAIN procs' = DOMAIN procs \cup {Len(procs) + 1}
          /\ Len(procs) + 1 \notin DOMAIN procs
      BY <3>3, <3>5
    <3> QED BY <1>3, <2>2, <3>2, <3>3, <3>4, <3>5, <3>6 DEF j, new
  <2> QED BY <2>1, <2>2
<1>4. ASSUME NEW e \in Editors, EditBegins(e) \/ EditSaves(e) PROVE procs' = procs
  BY <1>4 DEF EditBegins, EditSaves
<1>5. CASE (\E j \in Ids : TimeComes(j)) \/ Killed \/ UNCHANGED vars
  BY <1>5 DEF TimeComes, Killed, vars
<1>6. CASE Boot \/ BootSaves \/ Reap \/ ReapSaves \/ Block \/ BlockSaves
           \/ Mark \/ MarkSaves \/ Poll \/ InterruptSaves \/ Again
  BY <1>6 DEF Boot, BootSaves, Reap, ReapSaves, Block, BlockSaves, Mark, MarkSaves,
              Poll, InterruptSaves, Again
<1> QED BY <1>1, <1>2, <1>3, <1>4, <1>5, <1>6 DEF Next, Working

\* A good end stays the last run of a job until the job is started again.
LEMMA EndedKept ==
    ASSUME TypeInv, [Next]_vars, NEW k, EndedWell(k),
           ~ (Startable # {} /\ Pick /\ k = First(Startable))
    PROVE  EndedWell(k)'
<1>1. PICK i \in DOMAIN procs :
         /\ procs[i].job = k /\ procs[i].exit = "ok"
         /\ \A l \in DOMAIN procs : l > i => procs[l].job # k
  BY DEF EndedWell
<1>2. CASE procs' = procs
  BY <1>1, <1>2 DEF EndedWell
<1>3. CASE /\ DOMAIN procs' = DOMAIN procs
           /\ \E c \in DOMAIN procs :
                 /\ procs[c].exit = "none" /\ procs'[c].job = procs[c].job
                 /\ \A l \in DOMAIN procs \ {c} : procs'[l] = procs[l]
  <2>1. PICK c \in DOMAIN procs :
                 /\ procs[c].exit = "none" /\ procs'[c].job = procs[c].job
                 /\ \A l \in DOMAIN procs \ {c} : procs'[l] = procs[l]
    BY <1>3
  <2>2. i # c /\ \A l \in DOMAIN procs : procs'[l].job = procs[l].job
    BY <1>1, <2>1
  <2>3. procs'[i] = procs[i]
    BY <2>1, <2>2
  <2> QED BY <1>1, <1>3, <2>2, <2>3 DEF EndedWell
<1>4. CASE /\ Pick /\ Startable # {}
           /\ DOMAIN procs' = DOMAIN procs \cup {Len(procs) + 1}
           /\ procs'[Len(procs) + 1] = [job |-> First(Startable), exit |-> "none"]
           /\ \A l \in DOMAIN procs : procs'[l] = procs[l]
  <2>1. procs'[Len(procs) + 1].job # k
    BY <1>4
  <2> QED BY <1>1, <1>4, <2>1 DEF EndedWell
<1> QED BY <1>2, <1>3, <1>4, ProcsEffect

\* The child stays the last process while the scheduler holds it.
LEMMA ChildStep == ASSUME QuietInv, ChildInv, [Next]_vars PROVE ChildInv'
<1>0. ProcsTyped /\ TypeInv
  BY TypeParts DEF QuietInv
<1>1. CASE Pick
  <2>1. CASE Startable = {}
    BY <1>1, <2>1 DEF Pick, Goto, ChildInv, Holding
  <2>2. CASE Startable # {}
    <3>1. /\ Len(procs') = Len(procs) + 1 /\ child' = Len(procs) + 1
          /\ procs'[Len(procs) + 1] = [job |-> First(Startable), exit |-> "none"]
          /\ runningId' = First(Startable) /\ pc' = "spawned"
      <4>1. procs' # procs
        <5>1. procs' = Append(procs, [job |-> First(Startable), exit |-> "none"])
          BY <1>1, <2>2 DEF Pick
        <5>2. \E R : procs \in Seq(R)
          BY <1>0 DEF ProcsTyped
        <5>3. Len(procs') = Len(procs) + 1 /\ Len(procs) \in Nat
          BY <5>1, <5>2
        <5> QED BY <5>3
      <4>2. pc' = "spawned" /\ child' = Len(procs) + 1 /\ pc = "pick"
            /\ runningId' = First(Startable)
            /\ procs' = Append(procs, [job |-> First(Startable), exit |-> "none"])
        BY <1>1, <2>2 DEF Pick, Goto
      <4>3. \E R : procs \in Seq(R)
        BY <1>0 DEF ProcsTyped
      <4> QED BY <4>2, <4>3
    <3>2. child' # 0
      <4>1. Len(procs) \in Nat
        BY <1>0 DEF ProcsTyped
      <4> QED BY <3>1, <4>1
    <3> QED BY <3>1, <3>2 DEF ChildInv, Holding
  <2> QED BY <2>1, <2>2
<1>2. CASE /\ DOMAIN procs' = DOMAIN procs /\ Len(procs') = Len(procs)
           /\ \E c \in DOMAIN procs :
                 /\ procs[c].exit = "none" /\ procs'[c].exit \in {"ok", "bad"}
                 /\ procs'[c].job = procs[c].job
                 /\ \A l \in DOMAIN procs \ {c} : procs'[l] = procs[l]
           /\ ~Pick
  <2>1. PICK c \in DOMAIN procs :
                 /\ procs[c].exit = "none" /\ procs'[c].exit \in {"ok", "bad"}
                 /\ procs'[c].job = procs[c].job
                 /\ \A l \in DOMAIN procs \ {c} : procs'[l] = procs[l]
    BY <1>2
  <2>2. \A l \in DOMAIN procs : procs'[l].job = procs[l].job
                             /\ (procs[l].exit # "none" => procs'[l].exit # "none")
    BY <2>1
  <2>3. child # 0 => child \in DOMAIN procs
    BY <1>0 DEF ProcsTyped
  <2>4. procs' # procs
    BY <2>1
  <2>5. CASE Interrupted
    <3>1. child' = child /\ pc' = "interrupted" /\ runningId' = runningId
      BY <2>5 DEF Interrupted, Goto
    <3> QED BY <3>1, <2>2, <2>3, <1>2 DEF ChildInv, Holding
  <2>6. CASE \E i \in DOMAIN procs : Exit(i)
    <3>1. child' = child /\ pc' = pc /\ runningId' = runningId
      BY <2>6 DEF Exit, schedVars
    <3> QED BY <3>1, <2>2, <2>3, <1>2 DEF ChildInv, Holding
  <2> QED BY <1>2, <2>4, <2>5, <2>6 DEF Next, Working, vars, Boot, BootSaves, Reap, ReapSaves,
             Block, BlockSaves, Mark, MarkSaves, Poll, InterruptSaves, Again, Killed, TimeComes,
             EditBegins, EditSaves, schedVars
<1>3. CASE procs' = procs /\ ~Pick
  <2>1. CASE child' = child /\ runningId' = runningId /\ pc' = pc
    BY <1>3, <2>1 DEF ChildInv, Holding
  <2>2. CASE child' = 0 /\ pc' \in {"off", "over", "block"}
    BY <1>3, <2>2 DEF ChildInv, Holding
  <2>3. CASE Boot \/ BootSaves \/ Block \/ BlockSaves \/ Poll \/ Again
    BY <1>3, <2>3 DEF ChildInv, Holding, Boot, BootSaves, Block, BlockSaves, Poll, Again, Goto
  <2>4. CASE Reap \/ Mark \/ MarkSaves \/ Interrupted
    BY <1>3, <2>4 DEF ChildInv, Holding, Reap, Mark, MarkSaves, Interrupted, Goto, Live
  <2>5. CASE ReapSaves \/ InterruptSaves \/ Killed
    BY <2>2, <2>5 DEF ReapSaves, InterruptSaves, Killed, Goto
  <2>6. CASE UNCHANGED vars \/ (\E j \in Ids : TimeComes(j)) \/ (\E i \in DOMAIN procs : Exit(i))
             \/ (\E e \in Editors : EditBegins(e) \/ EditSaves(e))
    BY <2>1, <2>6 DEF vars, TimeComes, Exit, EditBegins, EditSaves, schedVars
  <2> QED BY <1>3, <2>3, <2>4, <2>5, <2>6 DEF Next, Working
<1>4. procs' = procs \/ Pick \/ ~ (procs' = procs \/ Pick)
  OBVIOUS
<1> QED BY <1>0, <1>1, <1>2, <1>3, ProcsEffect

\* A job becomes done only by the reap of its own last run.
LEMMA DoneStep == ASSUME StartInv, [Next]_vars PROVE DoneInv'
<1>0. TypeInv /\ QuietInv /\ ProcsTyped
  BY TypeParts DEF StartInv, QuietInv
<1> SUFFICES ASSUME NEW k \in DOMAIN jobs', jobs'[k].status = "done" PROVE EndedWell(k)'
  BY DEF DoneInv
<1>1. CASE k \in DOMAIN jobs /\ jobs[k].status = "done"
  <2>1. EndedWell(k)
    BY <1>1 DEF StartInv, DoneInv
  <2>2. ~ (Startable # {} /\ Pick /\ k = First(Startable))
    <3> SUFFICES ASSUME Startable # {}, k = First(Startable) PROVE FALSE
      OBVIOUS
    <3>1. Startable \in SUBSET Ids
      BY <1>0, TypeParts DEF Startable, Pending, IsList
    <3>2. k \in Startable
      BY <3>1, FirstIs
    <3> QED BY <3>2, <1>1 DEF Startable, Pending
  <2> QED BY <1>0, <2>1, <2>2, EndedKept
<1>2. CASE Working \/ Interrupted \/ Killed
  <2>1. k \in DOMAIN jobs
    BY <1>0, <1>2, WorkEffect
  <2>2. CASE jobs[k].status # "done"
    <3>1. ReapSaves /\ k = runningId /\ procs[child].exit = "ok"
      <4>1. \/ BootSaves /\ jobs[k].status = "running" /\ jobs'[k].status = "failed"
            \/ /\ ReapSaves /\ k = runningId
               /\ jobs'[k].status = IF procs[child].exit = "ok" THEN "done" ELSE "failed"
            \/ BlockSaves /\ {jobs[k].status, jobs'[k].status} = {"pending", "blocked"}
            \/ MarkSaves /\ k = runningId /\ jobs'[k].status = "running"
            \/ InterruptSaves /\ k = runningId /\ jobs'[k].status = "cancelled"
        BY <1>0, <1>2, <2>1, <2>2, WorkEffect
      <4>2. {jobs[k].status, jobs'[k].status} # {"pending", "blocked"}
        OBVIOUS
      <4> QED BY <4>1, <4>2
    <3>2. child # 0 /\ child = Len(procs) /\ procs[child].job = k /\ child \in DOMAIN procs
      BY <3>1, <1>0 DEF ReapSaves, StartInv, ChildInv, ProcsTyped
    <3>3. \A l \in DOMAIN procs : ~ (l > child)
      BY <3>2, <1>0 DEF ProcsTyped
    <3>4. EndedWell(k)
      BY <3>1, <3>2, <3>3 DEF EndedWell
    <3>5. procs' = procs
      BY <3>1 DEF ReapSaves
    <3> QED BY <3>4, <3>5 DEF EndedWell
  <2> QED BY <2>1, <2>2, <1>1
<1>3. ASSUME NEW e \in Editors, EditSaves(e) PROVE EndedWell(k)'
  <2>1. k \in DOMAIN jobs /\ jobs[k].status = "done"
    BY <1>0, <1>3, EditEffect
  <2> QED BY <2>1, <1>1
<1>4. CASE jobs' = jobs
  BY <1>1, <1>4
<1> QED BY <1>2, <1>3, <1>4 DEF Next, EditBegins, Exit, TimeComes, vars

\* A job with a predecessor starts only when the last run of the predecessor
\* exited with 0, where no load-save of the list contains another.
THEOREM AfterSuccess == ~Overlap => (Spec => StartsAfterSuccess)
<1> SUFFICES ASSUME ~Overlap PROVE Spec => StartsAfterSuccess
  OBVIOUS
<1>1. Init => StartInv
  <2> SUFFICES ASSUME Init PROVE StartInv
    OBVIOUS
  <2>1. ChildInv /\ DoneInv
    BY DEF Init, ChildInv, DoneInv, Holding
  <2> QED BY <2>1, QuietInit DEF StartInv
<1>2. StartInv /\ [Next]_vars => StartInv'
  BY QuietStep, ChildStep, DoneStep DEF StartInv
<1>3. ASSUME StartInv, [Next]_vars
      PROVE  \A i \in DOMAIN procs' \ DOMAIN procs :
                LET j == procs'[i].job
                    k == jobs[j].after
                IN  k # 0 => Runs(k) # {} /\ procs[LastRun(k)].exit = "ok"
  <2> SUFFICES ASSUME NEW i \in DOMAIN procs' \ DOMAIN procs,
                      jobs[procs'[i].job].after # 0
               PROVE  /\ Runs(jobs[procs'[i].job].after) # {}
                      /\ procs[LastRun(jobs[procs'[i].job].after)].exit = "ok"
    OBVIOUS
  <2> DEFINE j == procs'[i].job
             k == jobs[j].after
  <2>0. TypeInv
    BY <1>3 DEF StartInv, QuietInv
  <2>1. j = First(Startable) /\ First(Startable) \in Startable
    BY <1>3, <2>0, ProcsEffect
  <2>2. j \in Startable
    BY <2>1
  <2>3. k \in DOMAIN jobs /\ jobs[k].status = "done"
    BY <2>2 DEF Startable, Due
  <2> HIDE DEF k
  <2>4. PICK l \in DOMAIN procs :
           /\ procs[l].job = k /\ procs[l].exit = "ok"
           /\ \A m \in DOMAIN procs : m > l => procs[m].job # k
    BY <1>3, <2>3 DEF StartInv, DoneInv, EndedWell
  <2>5. DOMAIN procs \subseteq Nat
    BY <2>0, TypeParts DEF ProcsTyped
  <2>6. l \in Runs(k) /\ \A m \in Runs(k) : m <= l
    BY <2>4, <2>5 DEF Runs
  <2>7. LastRun(k) = l
    <3>1. LastRun(k) \in Runs(k) /\ \A m \in Runs(k) : m <= LastRun(k)
      BY <2>6 DEF LastRun
    <3>2. LastRun(k) <= l /\ l <= LastRun(k) /\ l \in Nat /\ LastRun(k) \in Nat
      BY <3>1, <2>5, <2>6 DEF Runs
    <3> QED BY <3>2
  <2> QED BY <2>4, <2>6, <2>7 DEF k
<1> QED BY <1>1, <1>2, <1>3, PTL DEF Spec, StartsAfterSuccess

-----------------------------------------------------------------------------
(* What a job waits for, in any list.                                      *)

Wider(list, S) == S \cup {list[k].after : k \in S \cap DOMAIN list}

Reach(list, j) ==
    LET upTo[n \in 0 .. MaxJobs] ==
            IF n = 0 THEN {j}
            ELSE LET S == upTo[n - 1]
                 IN  S \cup {list[k].after : k \in S \cap DOMAIN list}
    IN  upTo[MaxJobs]

\* Each job it reaches comes after the one that job waits for.
Ordered(list, j) == \A k \in Reach(list, j) \cap DOMAIN list : list[k].after < k

\* What the run checks is said with the jobs on disk.
LEMMA ReachAncestors ==
    ASSUME NEW j \in Ids
    PROVE  /\ Ancestors(j) = Reach(jobs, j) \ {j, 0}
           /\ IsList(jobs) /\ j \in Reach(jobs, j) => (InOrder(j) <=> Ordered(jobs, j))
<1>1. Ancestors(j) = Reach(jobs, j) \ {j, 0}
  BY DEF Ancestors, Reach
<1>2. ASSUME IsList(jobs), j \in Reach(jobs, j) PROVE InOrder(j) <=> Ordered(jobs, j)
  <2>1. 0 \notin DOMAIN jobs
    BY <1>2 DEF IsList, Ids
  <2>2. (Ancestors(j) \cup {j}) \cap DOMAIN jobs = Reach(jobs, j) \cap DOMAIN jobs
    BY <1>1, <1>2, <2>1
  <2> QED BY <2>2 DEF InOrder, Ordered
<1> QED BY <1>1, <1>2

\* The search is its steps, one after the other.
LEMMA ReachIs ==
    ASSUME NEW list \in Lists, NEW j \in Ids
    PROVE  \E f \in [0 .. MaxJobs -> SUBSET (0 .. MaxJobs)] :
              /\ f[0] = {j} /\ Reach(list, j) = f[MaxJobs]
              /\ \A n \in 1 .. MaxJobs : f[n] = Wider(list, f[n - 1])
<1>0. MaxJobs \in Nat
  BY Bounds
<1> DEFINE Sets == SUBSET (0 .. MaxJobs)
           upTo[n \in 0 .. MaxJobs] ==
               IF n = 0 THEN {j}
               ELSE LET S == upTo[n - 1]
                    IN  S \cup {list[k].after : k \in S \cap DOMAIN list}
<1> HIDE DEF upTo
<1>a. \A S \in Sets : Wider(list, S) \in Sets
  <2>1. \A k \in DOMAIN list : list[k].after \in 0 .. MaxJobs
    BY DEF Lists, Job
  <2> QED BY <2>1 DEF Wider
<1>1. \E G : /\ G \in [Nat -> [Sets -> Sets]]
             /\ \A n \in Nat, S \in Sets : G[n][S] = Wider(list, S)
  <2> DEFINE G == [n \in Nat |-> [S \in Sets |-> Wider(list, S)]]
  <2> HIDE DEF Sets
  <2>1. G \in [Nat -> [Sets -> Sets]]
    BY <1>a
  <2>2. \A n \in Nat, S \in Sets : G[n][S] = Wider(list, S)
    OBVIOUS
  <2> HIDE DEF G
  <2> QED BY <2>1, <2>2
<1>2. PICK G : /\ G \in [Nat -> [Sets -> Sets]]
               /\ \A n \in Nat, S \in Sets : G[n][S] = Wider(list, S)
  BY <1>1
<1>b. {j} \in Sets
  BY DEF Ids
<1> HIDE DEF Sets
<1>c. \A N \in Nat : \E f \in [0 .. N -> Sets] : Iterated(f, {j}, G, N)
  <2>1. G \in Turns(Sets)
    BY <1>2 DEF Turns
  <2> QED BY <2>1, <1>b, Recursion
<1>3. PICK f \in [0 .. MaxJobs -> Sets] :
         f[0] = {j} /\ \A n \in 1 .. MaxJobs : f[n] = G[n][f[n - 1]]
  BY <1>c, <1>0 DEF Iterated
<1>4. \A n \in 1 .. MaxJobs : f[n] = Wider(list, f[n - 1])
  <2> TAKE n \in 1 .. MaxJobs
  <2>1. n \in Nat /\ n - 1 \in 0 .. MaxJobs
    BY <1>0
  <2>2. f[n - 1] \in Sets
    BY <2>1, <1>3
  <2> QED BY <2>1, <2>2, <1>2, <1>3
<1>5. f = [n \in 0 .. MaxJobs |->
              IF n = 0 THEN {j}
              ELSE LET S == f[n - 1]
                   IN  S \cup {list[k].after : k \in S \cap DOMAIN list}]
  <2>1. \A n \in 0 .. MaxJobs : f[n] =
           IF n = 0 THEN {j}
           ELSE LET S == f[n - 1]
                IN  S \cup {list[k].after : k \in S \cap DOMAIN list}
    <3> TAKE n \in 0 .. MaxJobs
    <3>1. n = 0 \/ n \in 1 .. MaxJobs
      BY <1>0
    <3> QED BY <3>1, <1>3, <1>4 DEF Wider
  <2>2. f = [n \in 0 .. MaxJobs |-> f[n]]
    BY <1>3
  <2> QED BY <2>1, <2>2
<1>6. upTo = [n \in 0 .. MaxJobs |->
                 IF n = 0 THEN {j}
                 ELSE LET S == upTo[n - 1]
                      IN  S \cup {list[k].after : k \in S \cap DOMAIN list}]
  BY <1>5 DEF upTo
<1>7. Reach(list, j) = upTo[MaxJobs]
  BY DEF Reach, upTo
<1>8. \A n \in Nat : n \in 0 .. MaxJobs => upTo[n] = f[n]
  <2> DEFINE S == {n \in Nat : n \in 0 .. MaxJobs => upTo[n] = f[n]}
  <2>1. 0 \in S
    BY <1>6, <1>3
  <2>2. ASSUME NEW n \in Nat, n \in S PROVE n + 1 \in S
    <3> SUFFICES ASSUME n + 1 \in 0 .. MaxJobs PROVE upTo[n + 1] = f[n + 1]
      OBVIOUS
    <3>1. n \in 0 .. MaxJobs /\ n + 1 \in 1 .. MaxJobs /\ (n + 1) - 1 = n /\ n + 1 # 0
      BY <1>0
    <3>2. upTo[n + 1] = Wider(list, upTo[n])
      BY <1>6, <3>1 DEF Wider
    <3>3. f[n + 1] = Wider(list, f[n])
      BY <1>4, <3>1
    <3> QED BY <3>1, <3>2, <3>3, <2>2
  <2> HIDE DEF S
  <2>3. Nat \subseteq S
    BY <2>1, <2>2, Induction
  <2> QED BY <2>3 DEF S
<1>9. MaxJobs \in 0 .. MaxJobs
  BY <1>0
<1> QED BY <1>3, <1>4, <1>7, <1>8, <1>9 DEF Sets

\* A set that has j and, of each job it has, what that job waits for, has all
\* that j reaches.
LEMMA ReachLeast ==
    ASSUME NEW list \in Lists, NEW j \in Ids, NEW T, j \in T,
           \A k \in T \cap DOMAIN list : list[k].after \in T
    PROVE  Reach(list, j) \subseteq T
<1>1. PICK f \in [0 .. MaxJobs -> SUBSET (0 .. MaxJobs)] :
         /\ f[0] = {j} /\ Reach(list, j) = f[MaxJobs]
         /\ \A n \in 1 .. MaxJobs : f[n] = Wider(list, f[n - 1])
  BY ReachIs
<1>0. MaxJobs \in Nat
  BY Bounds
<1> DEFINE S == {n \in Nat : n \in 0 .. MaxJobs => f[n] \subseteq T}
<1>2. 0 \in S
  BY <1>1
<1>3. ASSUME NEW n \in Nat, n \in S PROVE n + 1 \in S
  <2> SUFFICES ASSUME n + 1 \in 0 .. MaxJobs PROVE f[n + 1] \subseteq T
    OBVIOUS
  <2>1. n \in 0 .. MaxJobs /\ n + 1 \in 1 .. MaxJobs /\ (n + 1) - 1 = n
    BY <1>0
  <2>2. f[n + 1] = Wider(list, f[n]) /\ f[n] \subseteq T
    BY <1>1, <1>3, <2>1
  <2> QED BY <2>2 DEF Wider
<1>4. Nat \subseteq S
  <2> HIDE DEF S
  <2> QED BY <1>2, <1>3, Induction
<1>5. MaxJobs \in S /\ MaxJobs \in 0 .. MaxJobs
  BY <1>0, <1>4
<1> QED BY <1>1, <1>5

\* It reaches itself.
LEMMA ReachSelf == ASSUME NEW list \in Lists, NEW j \in Ids PROVE j \in Reach(list, j)
<1>1. PICK f \in [0 .. MaxJobs -> SUBSET (0 .. MaxJobs)] :
         /\ f[0] = {j} /\ Reach(list, j) = f[MaxJobs]
         /\ \A n \in 1 .. MaxJobs : f[n] = Wider(list, f[n - 1])
  BY ReachIs
<1>0. MaxJobs \in Nat
  BY Bounds
<1> DEFINE S == {n \in Nat : n \in 0 .. MaxJobs => j \in f[n]}
<1>2. 0 \in S
  BY <1>1
<1>3. ASSUME NEW n \in Nat, n \in S PROVE n + 1 \in S
  <2> SUFFICES ASSUME n + 1 \in 0 .. MaxJobs PROVE j \in f[n + 1]
    OBVIOUS
  <2>1. n \in 0 .. MaxJobs /\ n + 1 \in 1 .. MaxJobs /\ (n + 1) - 1 = n
    BY <1>0
  <2>2. f[n + 1] = Wider(list, f[n]) /\ j \in f[n]
    BY <1>1, <1>3, <2>1
  <2> QED BY <2>2 DEF Wider
<1>4. Nat \subseteq S
  <2> HIDE DEF S
  <2> QED BY <1>2, <1>3, Induction
<1>5. MaxJobs \in S /\ MaxJobs \in 0 .. MaxJobs
  BY <1>0, <1>4
<1> QED BY <1>1, <1>5

\* Where every job it reaches comes after what that job waits for, the search
\* is long enough: it reaches that too, and nothing after itself.
LEMMA ReachClosed ==
    ASSUME NEW list \in Lists, NEW j \in Ids, Ordered(list, j)
    PROVE  /\ \A k \in Reach(list, j) \cap DOMAIN list : list[k].after \in Reach(list, j)
           /\ \A k \in Reach(list, j) : k \in 0 .. MaxJobs /\ k <= j
<1>1. PICK f \in [0 .. MaxJobs -> SUBSET (0 .. MaxJobs)] :
         /\ f[0] = {j} /\ Reach(list, j) = f[MaxJobs]
         /\ \A n \in 1 .. MaxJobs : f[n] = Wider(list, f[n - 1])
  BY ReachIs
<1>0. MaxJobs \in Nat /\ j \in Nat /\ j <= MaxJobs /\ MaxJobs \in 0 .. MaxJobs
  BY Bounds DEF Ids
<1>a. \A k \in DOMAIN list : k \in 1 .. MaxJobs /\ list[k].after \in 0 .. MaxJobs
  BY DEF Lists, Job, Ids
\* The sets only grow.
<1> DEFINE Up(m) == \A n \in 0 .. MaxJobs : n + m = MaxJobs => f[n] \subseteq f[MaxJobs]
           U == {m \in Nat : Up(m)}
<1>2. Nat \subseteq U
  <2>1. 0 \in U
    OBVIOUS
  <2>2. ASSUME NEW m \in Nat, m \in U PROVE m + 1 \in U
    <3> SUFFICES ASSUME NEW n \in 0 .. MaxJobs, n + (m + 1) = MaxJobs
                 PROVE f[n] \subseteq f[MaxJobs]
      OBVIOUS
    <3>1. n + 1 \in 1 .. MaxJobs /\ n + 1 \in 0 .. MaxJobs /\ (n + 1) + m = MaxJobs
          /\ (n + 1) - 1 = n
      BY <1>0
    <3>2. f[n + 1] \subseteq f[MaxJobs]
      BY <3>1, <2>2
    <3>3. f[n + 1] = Wider(list, f[n])
      BY <1>1, <3>1
    <3> QED BY <3>2, <3>3 DEF Wider
  <2> HIDE DEF U
  <2> QED BY <2>1, <2>2, Induction
<1>3. \A n \in 0 .. MaxJobs : f[n] \subseteq f[MaxJobs]
  <2> TAKE n \in 0 .. MaxJobs
  <2>1. MaxJobs - n \in Nat /\ n + (MaxJobs - n) = MaxJobs
    BY <1>0
  <2>2. Up(MaxJobs - n)
    BY <2>1, <1>2
  <2> QED BY <2>1, <2>2
\* After n steps, only jobs at least n before j may lack what they wait for.
<1> DEFINE Q(n) == \A k \in f[n] \cap DOMAIN list : list[k].after \in f[n] \/ k + n <= j
           S == {n \in Nat : n \in 0 .. MaxJobs => Q(n)}
<1>4. 0 \in S
  BY <1>0, <1>1
<1>5. ASSUME NEW n \in Nat, n \in S PROVE n + 1 \in S
  <2> SUFFICES ASSUME n + 1 \in 0 .. MaxJobs,
                      NEW k \in f[n + 1] \cap DOMAIN list, list[k].after \notin f[n + 1]
               PROVE  k + (n + 1) <= j
    OBVIOUS
  <2>1. n \in 0 .. MaxJobs /\ n + 1 \in 1 .. MaxJobs /\ (n + 1) - 1 = n
    BY <1>0
  <2>2. f[n + 1] = Wider(list, f[n])
    BY <1>1, <2>1
  <2>3. k \notin f[n]
    BY <2>2 DEF Wider
  <2>4. PICK i \in f[n] \cap DOMAIN list : k = list[i].after
    BY <2>2, <2>3 DEF Wider
  <2>5. i + n <= j
    BY <1>5, <2>1, <2>3, <2>4
  <2>6. i \in Reach(list, j) \cap DOMAIN list
    BY <1>1, <1>3, <2>1, <2>4
  <2>7. k < i
    BY <2>4, <2>6 DEF Ordered
  <2> QED BY <2>5, <2>7, <1>a, <2>4, <1>0
<1>6. Nat \subseteq S
  <2> HIDE DEF S
  <2> QED BY <1>4, <1>5, Induction
<1>7. \A k \in Reach(list, j) \cap DOMAIN list : list[k].after \in Reach(list, j)
  <2> SUFFICES ASSUME NEW k \in Reach(list, j) \cap DOMAIN list, ~ (k + MaxJobs <= j)
               PROVE  list[k].after \in Reach(list, j)
    <3>1. \A k \in DOMAIN list : ~ (k + MaxJobs <= j)
      BY <1>0, <1>a
    <3> QED BY <3>1
  <2>1. Q(MaxJobs)
    BY <1>0, <1>6
  <2> QED BY <1>1, <2>1
<1> DEFINE T == {k \in Reach(list, j) : k \in 0 .. MaxJobs /\ k <= j}
<1>8. j \in T
  BY <1>0, ReachSelf
<1>9. \A k \in T \cap DOMAIN list : list[k].after \in T
  <2> TAKE k \in T \cap DOMAIN list
  <2>1. list[k].after < k
    BY DEF Ordered
  <2> QED BY <2>1, <1>7, <1>a, <1>0
<1>10. Reach(list, j) \subseteq T
  <2> HIDE DEF T
  <2> QED BY <1>8, <1>9, ReachLeast
<1> QED BY <1>7, <1>10

\* Two lists that agree on what j reaches in one of them agree on what it
\* reaches.
LEMMA ReachSame ==
    ASSUME NEW list \in Lists, NEW other \in Lists, NEW j \in Ids, Ordered(list, j),
           \A k \in Reach(list, j) : /\ k \in DOMAIN other <=> k \in DOMAIN list
                                     /\ k \in DOMAIN list => other[k].after = list[k].after
    PROVE  Reach(other, j) = Reach(list, j) /\ Ordered(other, j)
<1>1. Reach(other, j) \subseteq Reach(list, j)
  BY ReachClosed, ReachLeast, ReachSelf
<1>2. Ordered(other, j)
  BY <1>1 DEF Ordered
<1>3. \A k \in Reach(other, j) \cap DOMAIN other : other[k].after \in Reach(other, j)
  BY <1>2, ReachClosed
<1>4. \A k \in Reach(other, j) \cap DOMAIN list : list[k].after \in Reach(other, j)
  BY <1>1, <1>3
<1>5. Reach(list, j) \subseteq Reach(other, j)
  <2>1. j \in Reach(other, j)
    BY ReachSelf
  <2> QED BY <1>4, <2>1, ReachLeast
<1> QED BY <1>1, <1>2, <1>5

\* What a job waits for reaches no more than the job.
LEMMA ReachSub ==
    ASSUME NEW list \in Lists, NEW j \in Ids, Ordered(list, j),
           NEW k \in Reach(list, j), k \in Ids
    PROVE  Reach(list, k) \subseteq Reach(list, j) /\ Ordered(list, k)
<1>1. Reach(list, k) \subseteq Reach(list, j)
  BY ReachClosed, ReachLeast
<1> QED BY <1>1 DEF Ordered

-----------------------------------------------------------------------------
(* Why jobs are blocked.                                                   *)

\* A `dag run` of k ended badly.
EndedBadly(k) == \E i \in DOMAIN procs : procs[i].job = k /\ procs[i].exit = "bad"

\* While the scheduler lives, the only running job is its child's, and a job
\* fails by its own run.
FailInv ==
    /\ pc # "interrupted"
    /\ \A k \in DOMAIN jobs :
          /\ jobs[k].status # "cancelled"
          /\ jobs[k].status = "running" => k = runningId /\ child # 0
          /\ jobs[k].status = "failed" => EndedBadly(k)

\* What blocks j: a run of something it waits for ended badly.
Caused(list, j) == \E k \in Reach(list, j) \ {j, 0} : EndedBadly(k)
\* All that j reaches is listed, and after what it waits for.
Accounted(list, j) == Ordered(list, j) /\ Reach(list, j) \ {0} \subseteq DOMAIN list
BlockInv ==
    \A j \in DOMAIN jobs : jobs[j].status = "blocked" /\ Accounted(jobs, j) => Caused(jobs, j)

CauseInv == StartInv /\ FailInv /\ BlockInv

\* A run that ended badly did so for ever.
LEMMA BadlyKept == ASSUME TypeInv, [Next]_vars, NEW k, EndedBadly(k) PROVE EndedBadly(k)'
<1>1. PICK i \in DOMAIN procs : procs[i].job = k /\ procs[i].exit = "bad"
  BY DEF EndedBadly
<1>2. i \in DOMAIN procs' /\ procs'[i] = procs[i]
  <2>1. CASE procs' = procs
    BY <1>1, <2>1
  <2>2. CASE /\ DOMAIN procs' = DOMAIN procs
             /\ \E c \in DOMAIN procs :
                   /\ procs[c].exit = "none"
                   /\ \A l \in DOMAIN procs \ {c} : procs'[l] = procs[l]
    BY <1>1, <2>2
  <2>3. CASE /\ DOMAIN procs' = DOMAIN procs \cup {Len(procs) + 1}
             /\ \A l \in DOMAIN procs : procs'[l] = procs[l]
    BY <1>1, <2>3
  <2> QED BY <2>1, <2>2, <2>3, ProcsEffect
<1> QED BY <1>1, <1>2 DEF EndedBadly

\* The reap gives the job of the child its verdict.
LEMMA ReapEffect ==
    ASSUME QuietInv, ReapSaves, runningId \in DOMAIN jobs
    PROVE  jobs'[runningId].status = IF procs[child].exit = "ok" THEN "done" ELSE "failed"
<1>0. IsList(jobs) /\ Sched \in Actors /\ TypeInv
  BY TypeParts DEF QuietInv, Actors
<1> DEFINE verdict == IF procs[child].exit = "ok" THEN "done" ELSE "failed"
<1>1. view[Sched] = jobs
  BY <1>0, TypeParts DEF ReapSaves, Saving, QuietInv, Alone
<1>2. jobs' = [jobs EXCEPT ![runningId].status = verdict]
  BY <1>1 DEF ReapSaves, SaveBy
<1>3. verdict \in Statuses
  BY DEF Statuses
<1> HIDE DEF verdict
<1>4. jobs'[runningId].status = verdict
  BY <1>0, <1>2, <1>3, StatusIs
<1> QED BY <1>4 DEF verdict

\* A job fails by its own run, as long as the scheduler lives.
LEMMA FailStep ==
    ASSUME StartInv, FailInv, ~Overlap, [Next]_vars, deaths' = 0, deaths = 0 PROVE FailInv'
<1>0. QuietInv /\ TypeInv /\ ProcsTyped /\ ChildInv /\ deaths # deaths + 1
  BY TypeParts DEF StartInv, QuietInv
<1>1. ASSUME NEW e \in Editors, EditSaves(e) PROVE FailInv'
  <2>1. pc' = pc /\ child' = child /\ runningId' = runningId
    BY <1>1 DEF EditSaves, schedVars
  <2>2. ASSUME NEW k \in DOMAIN jobs'
        PROVE  jobs'[k].status = "pending" \/ (k \in DOMAIN jobs /\ jobs'[k].status = jobs[k].status)
    BY <1>0, <1>1, EditEffect
  <2> QED BY <1>0, <2>1, <2>2, BadlyKept DEF FailInv
<1>2. CASE Working
  <2>1. ~InterruptSaves
    BY DEF FailInv, InterruptSaves
  <2>2. pc' # "interrupted"
    BY <1>2, <2>1 DEF FailInv, Working, Boot, BootSaves, Reap, ReapSaves, Block, BlockSaves, Pick,
           Mark, MarkSaves, Poll, Again, Goto
  <2>3. ASSUME NEW k \in DOMAIN jobs'
        PROVE  /\ jobs'[k].status # "cancelled"
               /\ jobs'[k].status = "running" => k = runningId' /\ child' # 0
               /\ jobs'[k].status = "failed" => EndedBadly(k)'
    <3>1. /\ k \in DOMAIN jobs
          /\ \/ jobs'[k].status = jobs[k].status
             \/ BootSaves /\ jobs[k].status = "running" /\ jobs'[k].status = "failed"
             \/ /\ ReapSaves /\ k = runningId
                /\ jobs'[k].status = IF procs[child].exit = "ok" THEN "done" ELSE "failed"
             \/ BlockSaves /\ {jobs[k].status, jobs'[k].status} = {"pending", "blocked"}
             \/ MarkSaves /\ k = runningId /\ jobs'[k].status = "running"
      BY <1>0, <1>2, <2>1, WorkEffect
    <3>2. CASE ReapSaves /\ k = runningId
      <4>1. /\ child # 0 /\ procs[child].exit # "none" /\ procs[child].job = k
            /\ child \in DOMAIN procs /\ procs' = procs
        BY <1>0, <3>2 DEF ReapSaves, ChildInv, ProcsTyped
      <4>2. procs[child] \in [job : Ids, exit : {"none", "ok", "bad"}]
        <5>1. procs \in Seq([job : Ids, exit : {"none", "ok", "bad"}]) /\ child \in 1 .. Len(procs)
          BY <1>0, <4>1 DEF ProcsTyped
        <5> QED BY <5>1, ElementOfSeq
      <4>3. procs[child].exit \in {"ok", "bad"}
        BY <4>1, <4>2
      <4>4. jobs'[k].status = IF procs[child].exit = "ok" THEN "done" ELSE "failed"
        BY <1>0, <3>1, <3>2, ReapEffect
      <4> QED BY <4>1, <4>3, <4>4 DEF EndedBadly
    <3>3. CASE jobs'[k].status = jobs[k].status /\ ~ (ReapSaves /\ k = runningId)
      <4>1. jobs[k].status # "cancelled"
        BY <3>1 DEF FailInv
      <4>2. jobs[k].status = "failed" => EndedBadly(k)'
        BY <3>1, <1>0, BadlyKept DEF FailInv
      <4>3. jobs[k].status = "running" => k = runningId' /\ child' # 0
        <5> SUFFICES ASSUME jobs[k].status = "running" PROVE k = runningId' /\ child' # 0
          OBVIOUS
        <5>1. k = runningId /\ child # 0 /\ ~ReapSaves
          BY <3>1, <3>3 DEF FailInv
        <5>2. ~Pick
          BY <1>0, <5>1 DEF Pick, ChildInv, Holding
        <5>3. runningId' = runningId /\ child' = child
          BY <1>2, <2>1, <5>1, <5>2 DEF Working, Boot, BootSaves, Reap, Block, BlockSaves,
                 Mark, MarkSaves, Poll, Again
        <5> QED BY <5>1, <5>3
      <4> QED BY <3>3, <4>1, <4>2, <4>3
    <3>4. CASE BootSaves /\ jobs[k].status = "running"
      BY <1>0, <3>1, <3>4 DEF BootSaves, FailInv, ChildInv, Holding
    <3>5. CASE BlockSaves /\ {jobs[k].status, jobs'[k].status} = {"pending", "blocked"}
      <4>1. jobs'[k].status \in {"pending", "blocked"}
        BY <3>5
      <4> QED BY <4>1
    <3>6. CASE MarkSaves /\ k = runningId /\ jobs'[k].status = "running"
      <4>1. child' = child /\ runningId' = runningId /\ child # 0
        BY <1>0, <3>6 DEF MarkSaves, ChildInv
      <4> QED BY <3>6, <4>1
    <3> QED BY <3>1, <3>2, <3>3, <3>4, <3>5, <3>6
  <2> QED BY <2>2, <2>3 DEF FailInv
<1>3. ASSUME NEW e \in Editors, EditBegins(e) PROVE FailInv'
  BY <1>0, <1>3, BadlyKept DEF FailInv, EditBegins, schedVars
<1>4. CASE (\E i \in DOMAIN procs : Exit(i)) \/ (\E j \in Ids : TimeComes(j)) \/ UNCHANGED vars
  <2>1. pc' = pc /\ child' = child /\ runningId' = runningId /\ jobs' = jobs
    BY <1>4 DEF Exit, TimeComes, vars, schedVars
  <2> QED BY <1>0, <2>1, BadlyKept DEF FailInv
<1>5. ~Interrupted /\ ~Killed
  <2>1. deaths \in Nat
    BY <1>0, TypeParts
  <2> QED BY <2>1 DEF Interrupted, Killed
<1> QED BY <1>1, <1>2, <1>3, <1>4, <1>5 DEF Next

\* A cause is a cause for ever.
LEMMA CausedKept ==
    ASSUME TypeInv, [Next]_vars, NEW list, NEW j, Caused(list, j)
    PROVE  \E k \in Reach(list, j) \ {j, 0} : EndedBadly(k)'
BY BadlyKept DEF Caused

\* Where a list blocks what was blocked, or what waits for a failure or for a
\* job before it that the list blocks, every blocked job has its cause.
LEMMA CauseSpreads ==
    ASSUME NEW list \in Lists, NEW B,
           \A k \in DOMAIN list : list[k].status # "cancelled",
           \A k \in DOMAIN list : list[k].status = "failed" => k \in B,
           \A j \in DOMAIN list : list[j].status = "blocked" /\ Accounted(list, j) =>
              \/ \E k \in Reach(list, j) \ {j, 0} : k \in B
              \/ \E m \in Lists :
                    /\ DOMAIN m = DOMAIN list /\ Blocked(m, j) /\ m[j].after = list[j].after
                    /\ \A i \in DOMAIN list : i < j => m[i] = list[i]
    PROVE  \A j \in DOMAIN list : list[j].status = "blocked" /\ Accounted(list, j) =>
              \E k \in Reach(list, j) \ {j, 0} : k \in B
<1> DEFINE P(j) == list[j].status = "blocked" /\ Accounted(list, j) =>
                       \E k \in Reach(list, j) \ {j, 0} : k \in B
           S == {n \in Nat : \A j \in DOMAIN list : j <= n => P(j)}
<1>0. DOMAIN list \subseteq Ids /\ MaxJobs \in Nat /\ DOMAIN list \subseteq 1 .. MaxJobs
  BY Bounds DEF Lists, Ids
<1>1. 0 \in S
  BY <1>0
<1>2. ASSUME NEW n \in Nat, n \in S PROVE n + 1 \in S
  <2> SUFFICES ASSUME NEW j \in DOMAIN list, j <= n + 1,
                      list[j].status = "blocked", Accounted(list, j)
               PROVE  \E k \in Reach(list, j) \ {j, 0} : k \in B
    OBVIOUS
  <2>1. CASE \E m \in Lists :
                /\ DOMAIN m = DOMAIN list /\ Blocked(m, j) /\ m[j].after = list[j].after
                /\ \A i \in DOMAIN list : i < j => m[i] = list[i]
    <3>1. PICK m \in Lists :
                /\ DOMAIN m = DOMAIN list /\ Blocked(m, j) /\ m[j].after = list[j].after
                /\ \A i \in DOMAIN list : i < j => m[i] = list[i]
      BY <2>1
    <3> DEFINE k == list[j].after
    <3>2. j \in Reach(list, j) /\ j \in Ids
      BY <1>0, ReachSelf
    <3>3. k \in Reach(list, j) /\ k < j
      BY <3>2, ReachClosed DEF Accounted, Ordered
    <3>4. k # 0
      BY <3>1 DEF Blocked
    <3>5. k \in DOMAIN list
      BY <3>3, <3>4 DEF Accounted
    <3>6. list[k].status \in Failing
      BY <3>1, <3>3, <3>5 DEF Blocked
    <3>7. CASE list[k].status = "failed"
      BY <3>7, <3>3, <3>4, <3>5, <1>0
    <3>8. CASE list[k].status = "blocked"
      <4>1. Reach(list, k) \subseteq Reach(list, j) /\ Ordered(list, k)
        BY <3>2, <3>3, <3>5, <1>0, ReachSub DEF Accounted
      <4>2. Accounted(list, k)
        BY <4>1 DEF Accounted
      <4>3. k <= n
        BY <3>3, <3>5, <1>0
      <4>4. PICK i \in Reach(list, k) \ {k, 0} : i \in B
        BY <1>2, <3>5, <3>8, <4>2, <4>3
      <4>5. i <= k /\ i \in 0 .. MaxJobs
        BY <4>1, <3>5, <1>0, ReachClosed
      <4>6. i # j
        BY <4>5, <3>3, <3>5, <1>0
      <4> QED BY <4>1, <4>4, <4>6
    <3> QED BY <3>5, <3>6, <3>7, <3>8 DEF Failing
  <2> QED BY <2>1
<1>3. Nat \subseteq S
  <2> HIDE DEF S
  <2> QED BY <1>1, <1>2, Induction
<1> QED
  <2> TAKE j \in DOMAIN list
  <2>1. j \in Nat /\ j <= j
    BY <1>0
  <2> QED BY <2>1, <1>3

\* No step leaves a blocked job without its cause.
LEMMA BlockStep ==
    ASSUME CauseInv, FailInv', ~Overlap, [Next]_vars, TypeInv', deaths' = 0, deaths = 0
    PROVE  BlockInv'
<1>0. /\ QuietInv /\ TypeInv /\ jobs \in Lists /\ jobs' \in Lists
      /\ DOMAIN jobs \subseteq Ids /\ DOMAIN jobs' \subseteq Ids
  <2>1. QuietInv /\ TypeInv /\ IsList(jobs) /\ IsList(jobs)'
    BY TypeParts DEF CauseInv, StartInv, QuietInv, TypeInv, TypeOK
  <2>2. IsList(jobs')
    BY <2>1 DEF IsList, Job, Ids, Statuses
  <2> QED BY <2>1, <2>2, ListsAre DEF IsList
<1>1. ASSUME NEW j \in DOMAIN jobs', j \in DOMAIN jobs, jobs[j].status = "blocked",
             Accounted(jobs', j), Reach(jobs', j) = Reach(jobs, j), Accounted(jobs, j)
      PROVE  \E k \in Reach(jobs', j) \ {j, 0} : EndedBadly(k)'
  BY <1>0, <1>1, CausedKept DEF CauseInv, BlockInv
<1>2. ASSUME NEW e \in Editors, EditSaves(e) PROVE BlockInv'
  <2> SUFFICES ASSUME NEW j \in DOMAIN jobs', jobs'[j].status = "blocked", Accounted(jobs', j)
               PROVE  \E k \in Reach(jobs', j) \ {j, 0} : EndedBadly(k)'
    BY DEF BlockInv, Caused, Accounted, Reach, Ordered
  <2>1. j \in DOMAIN jobs /\ jobs[j].status = "blocked"
    BY <1>0, <1>2, EditEffect
  <2>2. (added \in Nat /\ j < added) \/ op[e].kind # "add"
    <3> SUFFICES ASSUME op[e].kind = "add" PROVE added \in Nat /\ j < added
      OBVIOUS
    <3>1. view[e] # NoView
      BY <1>2 DEF EditSaves
    <3>2. added \notin DOMAIN jobs /\ j \in 1 .. added
      BY <3>1, <2>1, <1>0 DEF QuietInv, Numbered
    <3>3. added \in Nat
      BY <1>0, TypeParts DEF EditsOK
    <3> QED BY <3>2, <3>3, <2>1
  <2>3. ASSUME NEW k \in Reach(jobs', j)
        PROVE  /\ k \in DOMAIN jobs <=> k \in DOMAIN jobs'
               /\ k \in DOMAIN jobs' => jobs[k].after = jobs'[k].after
    <3>1. k <= j /\ k \in 0 .. MaxJobs
      BY <1>0, ReachClosed DEF Accounted
    <3>2. k = 0 \/ k \in DOMAIN jobs'
      BY DEF Accounted
    <3>3. CASE k = 0
      <4>1. 0 \notin DOMAIN jobs /\ 0 \notin DOMAIN jobs'
        BY <1>0 DEF Ids
      <4> QED BY <3>3, <4>1
    <3>4. CASE k \in DOMAIN jobs'
      <4>1. op[e].kind = "add" => k # added
        BY <2>2, <3>1, <2>1, <1>0, Bounds DEF Ids
      <4> QED BY <3>4, <4>1, <1>0, <1>2, EditEffect
    <3> QED BY <3>2, <3>3, <3>4
  <2>4. Reach(jobs, j) = Reach(jobs', j) /\ Ordered(jobs, j)
    BY <1>0, <2>3, ReachSame DEF Accounted
  <2>5. Accounted(jobs, j)
    BY <2>3, <2>4 DEF Accounted
  <2> QED BY <1>1, <2>1, <2>4, <2>5
<1>3. CASE Working
  <2> DEFINE B == {k \in Ids : EndedBadly(k)'}
  <2>1. DOMAIN jobs' = DOMAIN jobs /\ \A k \in DOMAIN jobs : jobs'[k].after = jobs[k].after
    BY <1>0, <1>3, WorkEffect
  <2>2. ASSUME NEW j \in DOMAIN jobs', jobs'[j].status = "blocked", Accounted(jobs', j)
        PROVE  \/ \E k \in Reach(jobs', j) \ {j, 0} : k \in B
               \/ \E m \in Lists :
                     /\ DOMAIN m = DOMAIN jobs' /\ Blocked(m, j) /\ m[j].after = jobs'[j].after
                     /\ \A i \in DOMAIN jobs' : i < j => m[i] = jobs'[i]
    <3>1. CASE jobs[j].status = "blocked"
      <4>1. Reach(jobs, j) = Reach(jobs', j) /\ Ordered(jobs, j)
        BY <1>0, <2>1, <2>2, ReachSame DEF Accounted
      <4>2. Accounted(jobs, j)
        BY <2>1, <2>2, <4>1 DEF Accounted
      <4>3. PICK k \in Reach(jobs', j) \ {j, 0} : EndedBadly(k)'
        BY <1>1, <2>1, <2>2, <3>1, <4>1, <4>2
      <4>4. k \in Ids
        BY <1>0, <2>2, <4>3, ReachClosed DEF Accounted, Ids
      <4> QED BY <4>3, <4>4
    <3>2. CASE jobs[j].status # "blocked"
      <4>1. BlockSaves
        <5>1. \/ BootSaves /\ jobs[j].status = "running" /\ jobs'[j].status = "failed"
              \/ /\ ReapSaves /\ j = runningId
                 /\ jobs'[j].status = IF procs[child].exit = "ok" THEN "done" ELSE "failed"
              \/ BlockSaves /\ {jobs[j].status, jobs'[j].status} = {"pending", "blocked"}
              \/ MarkSaves /\ j = runningId /\ jobs'[j].status = "running"
              \/ InterruptSaves /\ j = runningId /\ jobs'[j].status = "cancelled"
          BY <1>0, <1>3, <2>1, <2>2, <3>2, WorkEffect
        <5> QED BY <5>1, <2>2
      <4>2. view[Sched] = jobs
        BY <4>1, <1>0, TypeParts DEF BlockSaves, Saving, QuietInv, Alone, Actors
      <4>3. jobs' = BlockPass(jobs)
        BY <4>1, <4>2 DEF BlockSaves, SaveBy
      <4> QED BY <4>3, <3>2, <2>1, <2>2, <1>0, Bounds, PassKeeps
    <3> QED BY <3>1, <3>2
  <2>3. /\ \A k \in DOMAIN jobs' : jobs'[k].status # "cancelled"
        /\ \A k \in DOMAIN jobs' : jobs'[k].status = "failed" => k \in B
    BY <1>0 DEF FailInv
  <2> DEFINE list == jobs'
  <2>4. \A j \in DOMAIN list : list[j].status = "blocked" /\ Accounted(list, j) =>
           \E k \in Reach(list, j) \ {j, 0} : k \in B
    <3>1. list \in Lists
      BY <1>0
    <3>2. \A j \in DOMAIN list : list[j].status = "blocked" /\ Accounted(list, j) =>
              \/ \E k \in Reach(list, j) \ {j, 0} : k \in B
              \/ \E m \in Lists :
                    /\ DOMAIN m = DOMAIN list /\ Blocked(m, j) /\ m[j].after = list[j].after
                    /\ \A i \in DOMAIN list : i < j => m[i] = list[i]
      BY <2>2
    <3>3. /\ \A k \in DOMAIN list : list[k].status # "cancelled"
          /\ \A k \in DOMAIN list : list[k].status = "failed" => k \in B
      BY <2>3
    <3> HIDE DEF list, B
    <3> QED BY <3>1, <3>2, <3>3, CauseSpreads
  <2> QED BY <2>4 DEF BlockInv, Caused, Accounted, Reach, Ordered
<1>4. CASE jobs' = jobs
  <2> SUFFICES ASSUME NEW j \in DOMAIN jobs', jobs'[j].status = "blocked", Accounted(jobs', j)
               PROVE  \E k \in Reach(jobs', j) \ {j, 0} : EndedBadly(k)'
    BY DEF BlockInv, Caused, Accounted, Reach, Ordered
  <2> QED BY <1>1, <1>4
<1>5. ~Interrupted /\ ~Killed
  <2>1. deaths \in Nat /\ deaths # deaths + 1
    BY <1>0, TypeParts
  <2> QED BY <2>1 DEF Interrupted, Killed
<1> QED BY <1>2, <1>3, <1>4, <1>5 DEF Next, EditBegins, Exit, TimeComes, vars

\* Under a scheduler that never died, and where no load-save of the list
\* contains another, a job is blocked only for a run of something it waits for
\* that did not end well.
THEOREM BlockedForACause == ~Overlap => (Spec => []BlockedForAFailure)
<1> SUFFICES ASSUME ~Overlap PROVE Spec => []BlockedForAFailure
  OBVIOUS
<1> DEFINE Inv == StartInv /\ (deaths = 0 => FailInv /\ BlockInv)
<1>1. Init => Inv
  <2> SUFFICES ASSUME Init PROVE Inv
    OBVIOUS
  <2>1. ChildInv /\ DoneInv /\ FailInv /\ BlockInv
    BY DEF Init, ChildInv, DoneInv, Holding, FailInv, BlockInv
  <2> QED BY <2>1, QuietInit DEF StartInv
<1>2. Inv /\ [Next]_vars => Inv'
  <2> SUFFICES ASSUME Inv, [Next]_vars PROVE Inv'
    OBVIOUS
  <2>1. StartInv' /\ TypeInv' /\ TypeInv
    BY QuietStep, ChildStep, DoneStep DEF StartInv, QuietInv
  <2> SUFFICES ASSUME deaths' = 0 PROVE FailInv' /\ BlockInv'
    BY <2>1
  <2>2. deaths = 0
    <3>1. deaths \in Nat
      BY <2>1, TypeParts
    <3> QED BY <3>1, DeathsCount
  <2>3. FailInv'
    BY <2>2, FailStep
  <2> QED BY <2>1, <2>2, <2>3, BlockStep DEF CauseInv
<1>3. Inv => BlockedForAFailure
  <2> SUFFICES ASSUME Inv, NEW j \in DOMAIN jobs, jobs[j].status = "blocked", deaths = 0,
                      InOrder(j), Ancestors(j) \subseteq DOMAIN jobs
               PROVE  \E i \in DOMAIN procs : procs[i].job \in Ancestors(j) /\ procs[i].exit # "ok"
    BY DEF BlockedForAFailure
  <2>1. IsList(jobs) /\ jobs \in Lists /\ j \in Ids
    BY TypeParts, ListsAre DEF StartInv, QuietInv, IsList
  <2>2. j \in Reach(jobs, j)
    BY <2>1, ReachSelf
  <2>3. Ancestors(j) = Reach(jobs, j) \ {j, 0} /\ Ordered(jobs, j)
    BY <2>1, <2>2, ReachAncestors
  <2>4. Accounted(jobs, j)
    BY <2>3 DEF Accounted
  <2>5. PICK k \in Reach(jobs, j) \ {j, 0} : EndedBadly(k)
    BY <2>4 DEF BlockInv, Caused
  <2> QED BY <2>3, <2>5 DEF EndedBadly
<1> QED BY <1>1, <1>2, <1>3, PTL DEF Spec

=============================================================================
