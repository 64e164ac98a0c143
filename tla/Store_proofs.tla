---------------------------- MODULE Store_proofs ----------------------------
(***************************************************************************)
(* Proofs about what dag keeps on disk and changes under a lock: the lock  *)
(* itself, the registry of projects, and the graph of a run's tasks.       *)
(*                                                                         *)
(* The lock file of PathLock, for any processes, hosts, deaths, rebirths   *)
(* and bounds:                                                             *)
(*                                                                         *)
(*   1. LockInv is inductive: a claimant that no rival evicted is the one  *)
(*      whose file is on the path (LockCorrect);                           *)
(*   2. so two owners differ by an eviction (EvictionOnly);                *)
(*   3. two processes that no one forces never both own the lock, although *)
(*      either may die at any step (PairExclusive).                        *)
(*                                                                         *)
(* Registry, behind its lock, implements AtomicRegistry.  With the calls   *)
(* that take the lock and two processes, each call is one atomic edit, for *)
(* any files, names and ports, and although either process may die between *)
(* any two steps of the lock, of the load or of the renames.  The          *)
(* invariant it rests on is that what a process has loaded is still what   *)
(* is on disk when it saves (Fresh); that is where exclusion is used, and  *)
(* what removeProject and setProjectPort, without the lock, lack.          *)
(*                                                                         *)
(* TaskGraph, for any finite set of ids and any number of commands:        *)
(*                                                                         *)
(*   1. the queries of graph.ts compute what they are for.  They are       *)
(*      recursive, so first that a recursion along a growing trail, or in  *)
(*      rounds, has a solution (TrailRecursion, NatRecursion), and then    *)
(*      what the solution is, by a task that is first to differ;           *)
(*   2. GraphInv is inductive: a graph keeps its edges among its tasks     *)
(*      (Closed), has no cycle (Rooted) and gives each task a number       *)
(*      (Numbered), whatever adds, edits, removals and retries come;       *)
(*   3. so what is said of a waiting task is right (GraphExplained), skips *)
(*      and retries reach what they should (GraphSkipsExact,               *)
(*      GraphRetryReaches), and its order, chain, lean edges and depth     *)
(*      agree (GraphShapeRight).                                           *)
(***************************************************************************)
EXTENDS Registry, TaskGraph, FiniteSetTheorems, TLAPS

---------------------------------------------------------------------------
(* The lock and the registry.                                              *)

\* Init has the types and the claims.
LEMMA LockInit == ASSUME InitLock PROVE LockInv
<1> USE ProcsAssumption, LoopAssumption
<1>1. LockTypeOK
  BY DEF InitLock, LockTypeOK, NoLock, Steps
<1>2. \A p \in Procs : ClaimSound(p)
  BY DEF InitLock, ClaimSound, Claims
<1> QED BY <1>1, <1>2 DEF LockInv

\* Every action keeps the types.
LEMMA LockTypes ==
    ASSUME LockInv, NEW p \in Procs,
           \/ \E f \in BOOLEAN : Start(p, f)
           \/ Acquiring(p) \/ Releasing(p) \/ Die(p) \/ Rebirth(p)
    PROVE  LockTypeOK'
<1> USE ProcsAssumption, LoopAssumption
<1>0. LockTypeOK /\ ClaimSound(p)
  BY DEF LockInv
<1>e. Evict(p) \subseteq Procs
  BY <1>0 DEF Evict, LockTypeOK, NoLock
<1>l. Leave(p) => /\ at' \in [Procs -> Steps]
                  /\ tries' \in [Procs -> 0 .. MaxTries]
                  /\ empties' \in [Procs -> 0 .. Patience]
                  /\ forced' \in [Procs -> BOOLEAN]
  BY <1>0 DEF Leave, LockTypeOK, Steps
<1>1. CASE \E f \in BOOLEAN : Start(p, f)
  BY <1>0, <1>1 DEF Start, LockTypeOK, Steps
<1>2. CASE Create(p)
  <2>1. at' \in [Procs -> Steps]
    BY <1>0, <1>2 DEF Create, LockTypeOK, Steps
  <2>2. lock' \in {NoLock} \cup [by : Procs, full : BOOLEAN]
    <3>1. Empty(p) \in [by : Procs, full : BOOLEAN]
      BY DEF Empty
    <3> QED BY <1>0, <1>2, <3>1 DEF Create, LockTypeOK
  <2> QED BY <1>0, <1>2, <2>1, <2>2 DEF Create, LockTypeOK
<1>3. CASE Fill(p)
  BY <1>0, <1>3 DEF Fill, LockTypeOK, Steps, Full, NoLock
<1>4. CASE ReadNothing(p)
  <2>1. tries[p] < MaxTries
    BY <1>0, <1>4 DEF ReadNothing, ClaimSound
  <2>2. empties' \in [Procs -> 0 .. Patience] /\ tries' \in [Procs -> 0 .. MaxTries]
    BY <1>0, <1>4, <2>1 DEF ReadNothing, LockTypeOK
  <2>3. at' \in [Procs -> Steps]
    BY <1>0, <1>4 DEF ReadNothing, LockTypeOK, Steps
  <2> QED BY <1>0, <1>4, <2>2, <2>3 DEF ReadNothing, LockTypeOK
<1>5. CASE ReadOwner(p)
  BY <1>0, <1>5 DEF ReadOwner, LockTypeOK, Steps, NoLock
<1>6. CASE Reclaim(p)
  BY <1>0, <1>e, <1>6 DEF Reclaim, LockTypeOK, Steps, Empty
<1>7. CASE Judge(p)
  <2>1. seen' \in [Procs -> Procs \cup {NoProc}]
    BY <1>0, <1>7 DEF Judge, LockTypeOK
  <2>2. CASE Leave(p)
    BY <1>0, <1>l, <1>7, <2>1, <2>2 DEF Judge, LockTypeOK
  <2>3. CASE ~Leave(p)
    BY <1>0, <1>7, <2>1, <2>3 DEF Judge, LockTypeOK, Steps
  <2> QED BY <2>2, <2>3
<1>8. CASE Remove(p)
  <2>1. tries[p] < MaxTries
    BY <1>0, <1>8 DEF Remove, ClaimSound
  <2> QED BY <1>0, <1>e, <1>8, <2>1 DEF Remove, LockTypeOK, Steps
<1>9. CASE Contended(p)
  BY <1>0, <1>9 DEF Contended, Leave, LockTypeOK, Steps
<1>10. CASE Release(p)
  <2>1. CASE lock = Full(p)
    BY <1>0, <1>10, <2>1 DEF Release, LockTypeOK, Steps
  <2>2. CASE lock # Full(p)
    BY <1>0, <1>l, <1>10, <2>2 DEF Release, LockTypeOK
  <2> QED BY <2>1, <2>2
<1>11. CASE Drop(p)
  BY <1>0, <1>e, <1>11 DEF Drop, Leave, LockTypeOK, Steps
<1>12. CASE Die(p)
  BY <1>0, <1>12 DEF Die, Leave, LockTypeOK, Steps
<1>13. CASE Rebirth(p)
  BY <1>0, <1>13 DEF Rebirth, LockTypeOK
<1> QED BY <1>1, <1>2, <1>3, <1>4, <1>5, <1>6, <1>7, <1>8, <1>9, <1>10, <1>11, <1>12, <1>13
        DEF Acquiring, Releasing

\* Every action keeps the claim of every process q, the actor p or a rival.
LEMMA LockClaims ==
    ASSUME LockInv, NEW p \in Procs, NEW q \in Procs,
           \/ \E f \in BOOLEAN : Start(p, f)
           \/ Acquiring(p) \/ Releasing(p) \/ Die(p) \/ Rebirth(p)
    PROVE  ClaimSound(q)'
<1> USE ProcsAssumption, LoopAssumption
<1>0. LockTypeOK /\ ClaimSound(p) /\ ClaimSound(q)
  BY DEF LockInv
<1>n. /\ NoLock # Empty(q) /\ NoLock # Full(q) /\ Empty(q) # Full(q)
      /\ Empty(p) = Empty(q) => p = q
      /\ Full(p) = Full(q) => p = q
      /\ Empty(p) # Full(q) /\ Full(p) # Empty(q)
      /\ Empty(q).by = q /\ Full(q).by = q /\ Full(q).full /\ ~Empty(q).full
  BY DEF NoLock, Empty, Full
<1>e. lock = Empty(q) \/ lock = Full(q) =>
         Evict(p) = IF p # q /\ Claims(q) THEN {q} ELSE {}
  BY <1>n DEF Evict
<1> HIDE DEF Empty, Full, NoLock
<1>1. CASE \E f \in BOOLEAN : Start(p, f)
  BY <1>0, <1>1 DEF Start, LockTypeOK, ClaimSound, Claims
<1>2. CASE Create(p)
  BY <1>0, <1>2, <1>n DEF Create, LockTypeOK, ClaimSound, Claims
<1>3. CASE Fill(p)
  BY <1>0, <1>3, <1>n DEF Fill, LockTypeOK, ClaimSound, Claims
<1>4. CASE ReadNothing(p)
  BY <1>0, <1>4 DEF ReadNothing, LockTypeOK, ClaimSound, Claims
<1>5. CASE ReadOwner(p)
  BY <1>0, <1>5 DEF ReadOwner, LockTypeOK, ClaimSound, Claims, NoLock
<1>6. CASE Reclaim(p)
  <2>1. CASE q = p
    BY <1>0, <1>6, <2>1 DEF Reclaim, LockTypeOK, ClaimSound, Claims
  <2>2. CASE q # p
    <3>1. /\ at'[q] = at[q] /\ alive'[q] = alive[q] /\ tries'[q] = tries[q] /\ seen'[q] = seen[q]
      BY <1>0, <1>6, <2>2 DEF Reclaim, LockTypeOK
    <3>2. q \in evicted' => q \in evicted \/ q \in Evict(p)
      BY <1>6 DEF Reclaim
    <3>3. q \in evicted => q \in evicted'
      BY <1>6, <2>2 DEF Reclaim
    <3>4. q \in Evict(p) => q \in evicted'
      BY <1>6, <2>2 DEF Reclaim
    <3>5. q \in Evict(p) => Claims(q)
      BY <1>0 DEF Evict
    <3>6. ~(Claims(q) /\ q \notin evicted')
      BY <1>0, <1>e, <2>2, <3>3, <3>4 DEF ClaimSound
    <3> QED BY <1>0, <3>1, <3>2, <3>5, <3>6 DEF ClaimSound, Claims
  <2> QED BY <2>1, <2>2
<1>7. CASE Judge(p)
  BY <1>0, <1>7 DEF Judge, Leave, LockTypeOK, ClaimSound, Claims
<1>8. CASE Remove(p)
  <2>1. CASE q = p
    <3>1. at'[p] = "create" /\ alive'[p]
      BY <1>0, <1>8 DEF Remove, LockTypeOK
    <3>2. p \notin evicted /\ p \notin Evict(p)
      BY <1>0, <1>8 DEF Remove, ClaimSound, Claims, Evict
    <3>3. p \notin evicted'
      BY <1>8, <3>2 DEF Remove
    <3> QED BY <2>1, <3>1, <3>3 DEF ClaimSound, Claims
  <2>2. CASE q # p
    <3>1. /\ at'[q] = at[q] /\ alive'[q] = alive[q] /\ tries'[q] = tries[q] /\ seen'[q] = seen[q]
      BY <1>0, <1>8, <2>2 DEF Remove, LockTypeOK
    <3>2. q \in evicted' => q \in evicted \/ q \in Evict(p)
      BY <1>8 DEF Remove
    <3>3. q \in evicted => q \in evicted'
      BY <1>8, <2>2 DEF Remove
    <3>4. q \in Evict(p) => q \in evicted'
      BY <1>8, <2>2 DEF Remove
    <3>5. q \in Evict(p) => Claims(q)
      BY <1>0 DEF Evict
    <3>6. ~(Claims(q) /\ q \notin evicted')
      BY <1>0, <1>e, <2>2, <3>3, <3>4 DEF ClaimSound
    <3> QED BY <1>0, <3>1, <3>2, <3>5, <3>6 DEF ClaimSound, Claims
  <2> QED BY <2>1, <2>2
<1>9. CASE Contended(p)
  BY <1>0, <1>9 DEF Contended, Leave, LockTypeOK, ClaimSound, Claims
<1>10. CASE Release(p)
  BY <1>0, <1>10 DEF Release, Leave, LockTypeOK, ClaimSound, Claims
<1>11. CASE Drop(p)
  <2>1. CASE q = p
    <3>1. at'[p] = "idle" /\ p \notin evicted'
      BY <1>0, <1>11 DEF Drop, Leave, LockTypeOK
    <3> QED BY <2>1, <3>1 DEF ClaimSound, Claims
  <2>2. CASE q # p
    <3>1. /\ at'[q] = at[q] /\ alive'[q] = alive[q] /\ tries'[q] = tries[q] /\ seen'[q] = seen[q]
      BY <1>0, <1>11, <2>2 DEF Drop, Leave, LockTypeOK
    <3>2. q \in evicted' => q \in evicted \/ q \in Evict(p)
      BY <1>11 DEF Drop
    <3>3. q \in evicted => q \in evicted'
      BY <1>11, <2>2 DEF Drop
    <3>4. q \in Evict(p) => q \in evicted'
      BY <1>11, <2>2 DEF Drop
    <3>5. q \in Evict(p) => Claims(q)
      BY <1>0 DEF Evict
    <3>6. ~(Claims(q) /\ q \notin evicted')
      BY <1>0, <1>e, <2>2, <3>3, <3>4 DEF ClaimSound
    <3> QED BY <1>0, <3>1, <3>2, <3>5, <3>6 DEF ClaimSound, Claims
  <2> QED BY <2>1, <2>2
<1>12. CASE Die(p)
  BY <1>0, <1>12 DEF Die, Leave, LockTypeOK, ClaimSound, Claims
<1>13. CASE Rebirth(p)
  BY <1>0, <1>13 DEF Rebirth, LockTypeOK, ClaimSound, Claims
<1> QED BY <1>1, <1>2, <1>3, <1>4, <1>5, <1>6, <1>7, <1>8, <1>9, <1>10, <1>11, <1>12, <1>13
        DEF Acquiring, Releasing

\* Each step of the loop keeps the types and every claim.
LEMMA LockStep == LockInv /\ [NextLock]_lockVars => LockInv'
<1> SUFFICES ASSUME LockInv, [NextLock]_lockVars PROVE LockInv'
  OBVIOUS
<1>1. CASE NextLock
  <2>1. PICK p \in Procs : \/ \E f \in BOOLEAN : Start(p, f)
                          \/ Acquiring(p) \/ Releasing(p) \/ Die(p) \/ Rebirth(p)
    BY <1>1 DEF NextLock
  <2>2. LockTypeOK'
    BY <2>1, LockTypes
  <2>3. \A q \in Procs : ClaimSound(q)'
    BY <2>1, LockClaims
  <2> QED BY <2>2, <2>3 DEF LockInv
<1>2. CASE UNCHANGED lockVars
  BY <1>2 DEF lockVars, LockInv, LockTypeOK, ClaimSound, Claims
<1> QED BY <1>1, <1>2

\* The lock of store.ts, under any schedule of its callers: a process that has
\* created or taken over the file, and whose file no rival removed, is named
\* by the file on the path until it removes it itself.
THEOREM LockCorrect == SpecLock => []LockInv
<1>1. InitLock => LockInv
  BY LockInit
<1> QED BY <1>1, LockStep, PTL DEF SpecLock

-----------------------------------------------------------------------------
\* Two claimants that no one evicted would be on one path with two files.
LEMMA Owned == LockInv => OwnersDifferByEviction
<1> SUFFICES ASSUME LockInv, NEW p \in Procs, NEW q \in Procs,
                    p # q, Owner(p), Owner(q), p \notin evicted, q \notin evicted
             PROVE  FALSE
  BY DEF OwnersDifferByEviction
<1>1. lock = Full(p) /\ lock = Full(q)
  BY DEF LockInv, ClaimSound, Claims, Owner
<1> QED BY <1>1 DEF Full

\* Two processes that both hold a release function of acquireLock: a rival's
\* rmSync (or its rewrite of its own pid) took the file of one of them.  The
\* exclusive create, the empty file and a refusal never make two owners.
THEOREM EvictionOnly == SpecLock => []OwnersDifferByEviction
BY LockCorrect, Owned, PTL

-----------------------------------------------------------------------------
(***************************************************************************)
(* With two processes, no --force, no pid handed out twice and a second    *)
(* long enough to write one line, a removal never hits a live owner: what  *)
(* is judged dead stays dead, and nobody else could have taken its place.  *)
(***************************************************************************)
Pair == /\ \A p, q, r \in Procs : p = q \/ q = r \/ p = r
        /\ Reborn = {} /\ Forcers = {} /\ ~Stall

\* A file of a live process is claimed; who removes has only dead rivals.
PairSound(p) ==
    /\ alive[p] /\ lock # NoLock /\ lock.by = p => Claims(p)
    /\ at[p] = "remove" => \A q \in Procs \ {p} : ~alive[q]
    /\ at[p] # "reclaim"
    /\ ~forced[p]

PairInv == LockInv /\ evicted = {} /\ \A p \in Procs : PairSound(p)

\* With only p and q around, whoever is not p is q.
LEMMA PairStep ==
    ASSUME Pair, PairInv, LockInv', NEW p \in Procs,
           \/ \E f \in BOOLEAN : Start(p, f)
           \/ Acquiring(p) \/ Releasing(p) \/ Die(p) \/ Rebirth(p)
    PROVE  PairInv'
<1> USE ProcsAssumption
<1>0. /\ LockTypeOK /\ evicted = {}
      /\ \A q \in Procs : ClaimSound(q) /\ PairSound(q)
  BY DEF PairInv, LockInv
<1>n. /\ \A q \in Procs : NoLock # Empty(q) /\ NoLock # Full(q)
      /\ \A q : Empty(q).by = q /\ Full(q).by = q /\ Full(q).full
      /\ lock # NoLock => lock.by \in Procs
      /\ lock.full => lock # NoLock
  BY <1>0 DEF NoLock, Empty, Full, LockTypeOK
<1>a. \A q \in Procs : at[q] \in Steps /\ alive[q] \in BOOLEAN
  BY <1>0 DEF LockTypeOK
<1> HIDE DEF Empty, Full, NoLock
<1>1. CASE \E f \in BOOLEAN : Start(p, f)
  <2>1. evicted' = {}
    BY <1>0, <1>1 DEF Start
  <2>2. \A q \in Procs : PairSound(q)'
    BY <1>0, <1>1 DEF Start, LockTypeOK, PairSound, Claims, Pair
  <2> QED BY <2>1, <2>2 DEF PairInv
<1>2. CASE Create(p)
  <2>1. evicted' = {}
    BY <1>0, <1>2 DEF Create
  <2>2. \A q \in Procs : PairSound(q)'
    BY <1>0, <1>n, <1>2 DEF Create, LockTypeOK, PairSound, Claims
  <2> QED BY <2>1, <2>2 DEF PairInv
<1>3. CASE Fill(p)
  <2>1. evicted' = {}
    BY <1>0, <1>3 DEF Fill
  <2>2. lock = Empty(p)
    BY <1>0, <1>3 DEF Fill, ClaimSound, Claims
  <2>3. \A q \in Procs : PairSound(q)'
    BY <1>0, <1>n, <1>3, <2>2 DEF Fill, LockTypeOK, PairSound, Claims
  <2> QED BY <2>1, <2>3 DEF PairInv
<1>4. CASE ReadNothing(p)
  <2>1. evicted' = {}
    BY <1>0, <1>4 DEF ReadNothing
  <2>2. at'[p] = "remove" => \A q \in Procs \ {p} : ~alive[q]
    BY <1>0, <1>n, <1>4 DEF ReadNothing, MayGiveUp, Pair, LockTypeOK
  <2>3. \A q \in Procs : PairSound(q)'
    BY <1>0, <1>4, <2>2 DEF ReadNothing, LockTypeOK, PairSound, Claims
  <2> QED BY <2>1, <2>3 DEF PairInv
<1>5. CASE ReadOwner(p)
  <2>1. evicted' = {}
    BY <1>0, <1>5 DEF ReadOwner
  <2>2. lock.by # p
    BY <1>0, <1>n, <1>5 DEF ReadOwner, PairSound, Claims
  <2>3. \A q \in Procs : PairSound(q)'
    BY <1>0, <1>5, <2>2 DEF ReadOwner, LockTypeOK, PairSound, Claims
  <2> QED BY <2>1, <2>3 DEF PairInv
<1>6. CASE Reclaim(p)
  BY <1>0, <1>6 DEF Reclaim, PairSound
<1>7. CASE Judge(p)
  <2>1. evicted' = {}
    BY <1>0, <1>7 DEF Judge
  <2>2. at'[p] = "remove" => \A q \in Procs \ {p} : ~alive[q]
    BY <1>0, <1>7 DEF Judge, Leave, Stale, Pair, LockTypeOK, ClaimSound, PairSound
  <2>3. \A q \in Procs : PairSound(q)'
    <3>1. CASE Leave(p)
      BY <1>0, <1>7, <3>1 DEF Judge, Leave, LockTypeOK, PairSound, Claims
    <3>2. CASE ~Leave(p)
      BY <1>0, <1>7, <2>2, <3>2 DEF Judge, LockTypeOK, PairSound, Claims
    <3> QED BY <3>1, <3>2
  <2> QED BY <2>1, <2>3 DEF PairInv
<1>8. CASE Remove(p)
  <2>1. Evict(p) = {}
    BY <1>0, <1>n, <1>8 DEF Remove, Evict, PairSound, ClaimSound, Claims
  <2>2. evicted' = {}
    BY <1>0, <1>8, <2>1 DEF Remove
  <2>3. \A q \in Procs : PairSound(q)'
    BY <1>0, <1>8 DEF Remove, LockTypeOK, PairSound, Claims
  <2> QED BY <2>2, <2>3 DEF PairInv
<1>9. CASE Contended(p)
  <2>1. evicted' = {}
    BY <1>0, <1>9 DEF Contended
  <2>2. \A q \in Procs : PairSound(q)'
    BY <1>0, <1>9 DEF Contended, Leave, LockTypeOK, PairSound, Claims
  <2> QED BY <2>1, <2>2 DEF PairInv
<1>10. CASE Release(p)
  <2>1. lock = Full(p)
    BY <1>0, <1>10 DEF Release, ClaimSound, Claims
  <2>2. evicted' = {}
    BY <1>0, <1>10, <2>1 DEF Release
  <2>3. \A q \in Procs : PairSound(q)'
    BY <1>0, <1>10, <2>1 DEF Release, LockTypeOK, PairSound, Claims
  <2> QED BY <2>2, <2>3 DEF PairInv
<1>11. CASE Drop(p)
  <2>1. lock = Full(p)
    BY <1>0, <1>11 DEF Drop, ClaimSound, Claims
  <2>2. evicted' = {}
    BY <1>0, <1>n, <1>11, <2>1 DEF Drop, Evict
  <2>3. \A q \in Procs : PairSound(q)'
    BY <1>0, <1>11 DEF Drop, Leave, LockTypeOK, PairSound, Claims
  <2> QED BY <2>2, <2>3 DEF PairInv
<1>12. CASE Die(p)
  <2>1. evicted' = {}
    BY <1>0, <1>12 DEF Die
  <2>2. \A q \in Procs : PairSound(q)'
    BY <1>0, <1>12 DEF Die, Leave, LockTypeOK, PairSound, Claims
  <2> QED BY <2>1, <2>2 DEF PairInv
<1>13. CASE Rebirth(p)
  BY <1>13 DEF Rebirth, Pair
<1> QED BY <1>1, <1>2, <1>3, <1>4, <1>5, <1>6, <1>7, <1>8, <1>9, <1>10, <1>11, <1>12, <1>13
        DEF Acquiring, Releasing

\* Two processes start without a claim.
LEMMA PairInit == ASSUME InitLock, Pair PROVE PairInv
<1>1. LockInv
  BY LockInit
<1> QED BY <1>1 DEF InitLock, PairInv, PairSound, Claims

\* A process judges only the other one, and removes its file only when it is dead.
LEMMA PairKept == ASSUME Pair, PairInv, [NextLock]_lockVars PROVE PairInv'
<1>1. LockInv'
  BY LockStep DEF PairInv
<1>2. CASE NextLock
  BY <1>1, <1>2, PairStep DEF NextLock
<1>3. CASE UNCHANGED lockVars
  BY <1>1, <1>3 DEF lockVars, PairInv, PairSound, Claims
<1> QED BY <1>2, <1>3

\* So neither is evicted while it owns the lock.
LEMMA PairOwned == PairInv => OneOwner
BY Owned DEF PairInv, OwnersDifferByEviction, OneOwner

\* "One writer per run": with two dag processes on a run (or on the registry)
\* that nobody forces, acquireLock never returns to both, wherever in the loop
\* or in the guarded section either of them dies.
THEOREM PairExclusive == Pair => (SpecLock => []OneOwner)
<1> SUFFICES ASSUME Pair PROVE SpecLock => []OneOwner
  OBVIOUS
<1>1. InitLock => PairInv
  BY PairInit
<1>2. PairInv /\ [NextLock]_lockVars => PairInv'
  BY PairKept
<1> QED BY <1>1, <1>2, PairOwned, PTL DEF SpecLock

-----------------------------------------------------------------------------
OnlyLocked == Pair /\ Kinds \subseteq {"add"}

\* Stages at which the call holds the lock.
Inside == {"backup", "write"}
Leaving == {"done", "failed"}

\* A call is at a stage its lock step allows, and what it loaded is current.
Fresh(p) ==
    /\ stage[p] \in {"none", "lock"} \cup Inside \cup Leaving
    /\ call[p] \in Atomic!Edits \cup {NoOp}
    /\ stage[p] = "none" => call[p] = NoOp /\ at[p] = "idle"
    /\ stage[p] # "none" => call[p] \in Atomic!Edits /\ call[p] # NoOp /\ Locked(call[p])
    /\ stage[p] \in Inside => Owner(p) /\ buf[p] = Current
    /\ stage[p] \in Inside => ~Atomic!NothingToSave(Current, call[p])
    /\ stage[p] \in Leaving => at[p] \in {"held", "drop"}

Shapes == /\ call \in [Procs -> Atomic!Edits \cup {NoOp}]
          /\ DOMAIN stage = Procs /\ DOMAIN buf = Procs

RegInv == PairInv /\ Shapes /\ \A p \in Procs : Fresh(p)

\* No call has begun.
LEMMA RegInit == ASSUME Init, OnlyLocked PROVE RegInv
<1>1. PairInv
  BY PairInit DEF Init, OnlyLocked
<1>2. Shapes /\ \A p \in Procs : Fresh(p)
  BY DEF Init, InitLock, Shapes, Fresh, Inside, Leaving
<1> QED BY <1>1, <1>2 DEF RegInv

\* The registry only ever steps its lock by steps of PathLock.
LEMMA RegLocks == ASSUME [Next]_vars PROVE [NextLock]_lockVars
<1>1. CASE UNCHANGED vars
  BY <1>1 DEF vars
<1>2. ASSUME NEW p \in Procs,
             Begin(p) \/ Load(p) \/ Backup(p) \/ Write(p) \/ Locking(p) \/ Return(p) \/ Reuse(p)
      PROVE  [NextLock]_lockVars
  <2>1. CASE Begin(p)
    <3>1. Start(p, FALSE) \/ UNCHANGED lockVars
      BY <2>1 DEF Begin
    <3> QED BY <3>1 DEF NextLock
  <2>2. CASE Load(p) \/ Backup(p) \/ Write(p) \/ Return(p)
    BY <2>2 DEF Load, Backup, Write, Return
  <2>3. CASE Locking(p)
    BY <2>3 DEF Locking, NextLock
  <2>4. CASE Reuse(p)
    BY <2>4 DEF Reuse, NextLock
  <2> QED BY <1>2, <2>1, <2>2, <2>3, <2>4
<1> QED BY <1>1, <1>2 DEF Next

\* The steps of the registry are steps of the lock, or leave it alone.
LEMMA PairGoesOn == ASSUME RegInv, OnlyLocked, [Next]_vars PROVE PairInv'
BY RegLocks, PairKept DEF RegInv, OnlyLocked

\* A bystander of p's step keeps its stage, its copy and its place in the
\* lock, so all it can lose is that its copy is current.
LEMMA FreshBystander ==
    ASSUME RegInv, NEW q \in Procs, Fresh(q),
           stage'[q] = stage[q], call'[q] = call[q], buf'[q] = buf[q], at'[q] = at[q],
           Current' = Current \/ stage[q] \notin Inside
    PROVE  Fresh(q)'
<1>1. CASE stage[q] \in Inside
  <2>1. Current' = Current
    BY <1>1
  <2>2. Atomic!NothingToSave(Current, call[q])' <=> Atomic!NothingToSave(Current, call[q])
    BY <2>1 DEF Atomic!NothingToSave
  <2> QED BY <1>1, <2>1, <2>2 DEF Fresh, Owner, Inside, Leaving
<1>2. CASE stage[q] \notin Inside
  BY <1>2 DEF Fresh, Inside, Leaving
<1> QED BY <1>1, <1>2

\* Other processes than p: what p's step leaves of theirs.
Others(p) == \A q \in Procs \ {p} :
    stage'[q] = stage[q] /\ call'[q] = call[q] /\ buf'[q] = buf[q] /\ at'[q] = at[q]

\* A step of the lock of one process leaves the place of the other alone.
LEMMA LockOthers ==
    ASSUME LockTypeOK, NEW p \in Procs,
           Acquiring(p) \/ Releasing(p) \/ Die(p) \/ Rebirth(p) \/ (\E f \in BOOLEAN : Start(p, f))
    PROVE  \A q \in Procs \ {p} : at'[q] = at[q]
<1> SUFFICES ASSUME NEW q \in Procs \ {p} PROVE at'[q] = at[q]
  OBVIOUS
<1>1. at \in [Procs -> Steps]
  BY DEF LockTypeOK
<1>2. CASE Create(p) \/ Fill(p) \/ ReadNothing(p) \/ ReadOwner(p)
  BY <1>1, <1>2 DEF Create, Fill, ReadNothing, ReadOwner
<1>3. CASE Reclaim(p) \/ Judge(p) \/ Remove(p) \/ Contended(p)
  BY <1>1, <1>3 DEF Reclaim, Judge, Remove, Contended, Leave
<1>4. CASE Release(p) \/ Drop(p) \/ Die(p) \/ Rebirth(p)
  BY <1>1, <1>4 DEF Release, Drop, Die, Rebirth, Leave
<1>5. CASE \E f \in BOOLEAN : Start(p, f)
  BY <1>1, <1>5 DEF Start
<1> QED BY <1>2, <1>3, <1>4, <1>5 DEF Acquiring, Releasing

\* What the steps below use of the invariant.
LEMMA RegFrame == ASSUME RegInv PROVE
    /\ LockTypeOK /\ at \in [Procs -> Steps]
    /\ call \in [Procs -> Atomic!Edits \cup {NoOp}] /\ DOMAIN stage = Procs /\ DOMAIN buf = Procs
    /\ \A p, q \in Procs : Owner(p) /\ Owner(q) => p = q
BY PairOwned DEF RegInv, PairInv, LockInv, LockTypeOK, Shapes, OneOwner

\* A call begins by asking for the lock.
LEMMA BeginKeeps ==
    ASSUME RegInv, OnlyLocked, NEW p \in Procs, Begin(p)
    PROVE  Shapes' /\ \A q \in Procs : Fresh(q)'
<1>1. PICK o \in Atomic!Edits :
          /\ Locked(o) /\ call' = [call EXCEPT ![p] = o] /\ Start(p, FALSE)
          /\ stage' = [stage EXCEPT ![p] = "lock"]
  BY DEF Begin, OnlyLocked, Locked
<1>2. primary' = primary /\ bak' = bak /\ buf' = buf
  BY DEF Begin
<1>3. Current' = Current
  BY <1>2 DEF Current
<1>4. Shapes'
  BY <1>1, <1>2, RegFrame DEF Shapes
<1>5. o # NoOp
  BY NoOpAssumption
<1>6. Fresh(p)'
  BY <1>1, <1>5, RegFrame DEF Fresh, Inside, Leaving
<1>7. \A q \in Procs \ {p} : Fresh(q)'
  BY <1>1, <1>2, <1>3, RegFrame, LockOthers, FreshBystander DEF RegInv
<1> QED BY <1>4, <1>6, <1>7

\* What is loaded under the lock is current.
LEMMA LoadKeeps ==
    ASSUME RegInv, NEW p \in Procs, Load(p)
    PROVE  Shapes' /\ \A q \in Procs : Fresh(q)'
<1>0. Fresh(p) /\ stage[p] = "lock" /\ Owner(p)
  BY DEF Load, RegInv, Fresh, Inside, Leaving
<1>1. primary' = primary /\ bak' = bak /\ call' = call /\ at' = at
  BY DEF Load, lockVars
<1>2. Current' = Current
  BY <1>1 DEF Current
<1>3. Shapes'
  BY <1>1, RegFrame DEF Load, Shapes
<1>4. \A q \in Procs \ {p} : stage'[q] = stage[q] /\ buf'[q] = buf[q]
  BY RegFrame DEF Load
<1>5. \A q \in Procs \ {p} : Fresh(q)'
  BY <1>1, <1>2, <1>4, FreshBystander DEF RegInv
<1>6. Fresh(p)'
  <2>1. CASE Atomic!NothingToSave(Current, call[p])
    <3>1. stage'[p] = "done"
      BY <2>1, RegFrame DEF Load
    <3> QED BY <1>0, <1>1, <3>1 DEF Fresh, Owner, Inside, Leaving
  <2>2. CASE ~Atomic!NothingToSave(Current, call[p])
    <3>1. stage'[p] = "backup" /\ buf'[p] = Current
      BY <2>2, RegFrame DEF Load
    <3>2. ~Atomic!NothingToSave(Current, call[p])'
      BY <1>1, <1>2, <2>2 DEF Atomic!NothingToSave
    <3> QED BY <1>0, <1>1, <1>2, <3>1, <3>2 DEF Fresh, Owner, Inside, Leaving
  <2> QED BY <2>1, <2>2
<1> QED BY <1>3, <1>5, <1>6

\* The first rename: a reader takes from the backup what it took before.
LEMMA BackupReads == ASSUME NEW p \in Procs, Backup(p) PROVE Current' = Current
<1>1. CASE primary' = primary /\ bak' = bak
  BY <1>1 DEF Current
<1>2. CASE primary.there /\ bak' = primary /\ primary' = NoFile
  BY <1>2 DEF Current, NoFile
<1> QED BY <1>1, <1>2 DEF Backup

\* The first rename does not change what a reader gets.
LEMMA BackupKeeps ==
    ASSUME RegInv, NEW p \in Procs, Backup(p)
    PROVE  Shapes' /\ \A q \in Procs : Fresh(q)'
<1>1. call' = call /\ at' = at /\ buf' = buf /\ stage' = [stage EXCEPT ![p] = "write"]
  BY DEF Backup, lockVars
<1>2. Current' = Current
  BY BackupReads
<1>3. Shapes'
  BY <1>1, RegFrame DEF Shapes
<1>4. \A q \in Procs \ {p} : Fresh(q)'
  BY <1>1, <1>2, RegFrame, FreshBystander DEF RegInv
<1>5. Fresh(p) /\ stage[p] = "backup" /\ stage'[p] = "write"
  BY <1>1, RegFrame DEF Backup, RegInv
<1>6. Atomic!NothingToSave(Current, call[p])' <=> Atomic!NothingToSave(Current, call[p])
  BY <1>1, <1>2 DEF Atomic!NothingToSave
<1>7. Fresh(p)'
  BY <1>1, <1>2, <1>5, <1>6 DEF Fresh, Owner, Inside, Leaving
<1> QED BY <1>3, <1>4, <1>7

\* The second: nobody else is inside, so nobody's copy goes stale.
LEMMA WriteKeeps ==
    ASSUME RegInv, NEW p \in Procs, Write(p)
    PROVE  Shapes' /\ \A q \in Procs : Fresh(q)'
<1>0. Fresh(p) /\ stage[p] = "write" /\ Owner(p)
  BY DEF Write, RegInv, Fresh, Inside
<1>1. call' = call /\ at' = at
  BY DEF Write, lockVars
<1>2. Shapes'
  BY <1>1, RegFrame DEF Write, Shapes
<1>3. stage'[p] \in Leaving
  BY RegFrame DEF Write, Leaving
<1>4. Fresh(p)'
  BY <1>0, <1>1, <1>3 DEF Fresh, Owner, Inside, Leaving
<1>5. \A q \in Procs \ {p} : stage'[q] = stage[q] /\ buf'[q] = buf[q]
  BY RegFrame DEF Write
<1>6. \A q \in Procs \ {p} : stage[q] \notin Inside
  BY <1>0, RegFrame DEF RegInv, Fresh
<1>7. \A q \in Procs \ {p} : Fresh(q)'
  BY <1>1, <1>5, <1>6, FreshBystander DEF RegInv
<1> QED BY <1>2, <1>4, <1>7

\* A call that is over holds nothing.
LEMMA OverKeeps ==
    ASSUME RegInv, NEW p \in Procs, Over(p), at'[p] = "idle"
    PROVE  Fresh(p)'
BY RegFrame DEF Over, Fresh, Inside, Leaving

\* Taking and giving back the lock, and a death in between, change no file.
LEMMA LockingKeeps ==
    ASSUME RegInv, OnlyLocked, NEW p \in Procs, Locking(p)
    PROVE  Shapes' /\ \A q \in Procs : Fresh(q)'
<1>0. Fresh(p) /\ ClaimSound(p) /\ at[p] \in Steps
  BY RegFrame DEF RegInv, PairInv, LockInv
<1>1. primary' = primary /\ bak' = bak
  BY DEF Locking
<1>2. Current' = Current
  BY <1>1 DEF Current
<1>3. \A q \in Procs \ {p} : at'[q] = at[q]
  BY RegFrame, LockOthers DEF Locking
<1>4. Over(p) \/ (call' = call /\ stage' = stage /\ buf' = buf)
  BY DEF Locking
<1>5. Shapes'
  BY <1>4, RegFrame DEF Over, Shapes
<1>6. \A q \in Procs \ {p} : call'[q] = call[q] /\ stage'[q] = stage[q] /\ buf'[q] = buf[q]
  BY <1>4, RegFrame DEF Over
<1>7. \A q \in Procs \ {p} : Fresh(q)'
  BY <1>2, <1>3, <1>6, FreshBystander DEF RegInv
<1>8. Fresh(p)'
  <2>1. CASE at'[p] = "idle"
    BY <2>1, OverKeeps DEF Locking
  <2>2. CASE at'[p] # "idle"
    <3>1. call' = call /\ stage' = stage /\ buf' = buf
      BY <2>2 DEF Locking
    <3>2. CASE Die(p)
      BY <2>2, <3>2, RegFrame DEF Die, Leave
    <3>3. CASE stage[p] = "lock"
      BY <1>0, <3>1, <3>3 DEF Fresh, Inside, Leaving
    <3>4. CASE stage[p] \in Leaving /\ Releasing(p)
      <4>1. at'[p] \in {"held", "drop"}
        BY <2>2, <3>4, RegFrame DEF Releasing, Release, Drop, Leave
      <4> QED BY <1>0, <3>1, <3>4, <4>1 DEF Fresh, Inside, Leaving
    <3> QED BY <3>2, <3>3, <3>4 DEF Locking, Leaving
  <2> QED BY <2>1, <2>2
<1> QED BY <1>5, <1>7, <1>8

\* Every step keeps the invariant.
LEMMA RegStep == ASSUME RegInv, OnlyLocked, [Next]_vars PROVE RegInv'
<1>1. PairInv'
  BY PairGoesOn
<1>2. Shapes' /\ \A q \in Procs : Fresh(q)'
  <2>1. CASE UNCHANGED vars
    BY <2>1 DEF vars, lockVars, regVars, RegInv, Shapes, Fresh, Current, Owner,
                Atomic!NothingToSave
  <2>2. ASSUME NEW p \in Procs,
               Begin(p) \/ Load(p) \/ Backup(p) \/ Write(p) \/ Locking(p) \/ Return(p) \/ Reuse(p)
        PROVE  Shapes' /\ \A q \in Procs : Fresh(q)'
    <3>1. CASE Return(p)
      BY <3>1 DEF Return, RegInv, Fresh
    <3>2. CASE Reuse(p)
      BY <3>2 DEF Reuse, Rebirth, OnlyLocked, Pair
    <3> QED BY <2>2, <3>1, <3>2, BeginKeeps, LoadKeeps, BackupKeeps, WriteKeeps, LockingKeeps
  <2> QED BY <2>1, <2>2 DEF Next
<1> QED BY <1>1, <1>2 DEF RegInv

-----------------------------------------------------------------------------
\* What a caller is waiting for, as AtomicRegistry sees it.
Waiting == [p \in Procs |-> IF stage[p] = "done" THEN Done ELSE call[p]]

\* The atomic registry sees a step of p as a change of the call of p alone.
LEMMA WaitingStays ==
    ASSUME RegInv, NEW p \in Procs,
           \A q \in Procs \ {p} : stage'[q] = stage[q] /\ call'[q] = call[q]
    PROVE  \A v : (IF stage'[p] = "done" THEN Done ELSE call'[p]) = v =>
                     Waiting' = [Waiting EXCEPT ![p] = v]
BY DEF Waiting

\* A step of the registry is a step of the atomic one, or none of its business.
LEMMA RegRefines ==
    ASSUME RegInv, OnlyLocked, [Next]_vars
    PROVE  Atomic!Next \/ (Current' = Current /\ Waiting' = Waiting)
<1>w. \A q \in Procs : Waiting[q] = IF stage[q] = "done" THEN Done ELSE call[q]
  BY DEF Waiting
<1>s. ASSUME call' = call, NEW p \in Procs, stage[p] # "done", stage'[p] # "done",
             \A q \in Procs \ {p} : stage'[q] = stage[q]
      PROVE  Waiting' = Waiting
  <2>1. \A q \in Procs : (stage'[q] = "done") <=> (stage[q] = "done")
    BY <1>s
  <2> QED BY <1>s, <2>1 DEF Waiting
<1>1. CASE UNCHANGED vars
  BY <1>1 DEF vars, lockVars, regVars, Current, Waiting
<1>2. ASSUME NEW p \in Procs, Begin(p)
      PROVE  Atomic!Call(p)
  <2>1. PICK o \in Atomic!Edits :
            /\ call' = [call EXCEPT ![p] = o] /\ stage' = [stage EXCEPT ![p] = "lock"]
    BY <1>2 DEF Begin, OnlyLocked, Locked
  <2>2. call[p] = NoOp /\ primary' = primary /\ bak' = bak
    BY <1>2 DEF Begin
  <2>3. stage[p] = "none"
    BY <2>2 DEF RegInv, Fresh
  <2>4. Waiting[p] = NoOp
    BY <1>w, <2>2, <2>3
  <2>5. Waiting' = [Waiting EXCEPT ![p] = o]
    BY <2>1, RegFrame, WaitingStays
  <2> QED BY <2>1, <2>2, <2>4, <2>5 DEF Atomic!Call, Current, Waiting
<1>3. ASSUME NEW p \in Procs, Load(p)
      PROVE  Atomic!TakeEffect(p) \/ (Current' = Current /\ Waiting' = Waiting)
  <2>1. call' = call /\ Current' = Current
    BY <1>3 DEF Load, Current
  <2>2. stage[p] = "lock" /\ call[p] \in Atomic!Edits
    BY <1>3 DEF Load, RegInv, Fresh, Inside, Leaving
  <2>3. \A q \in Procs \ {p} : stage'[q] = stage[q]
    BY <1>3, RegFrame DEF Load
  <2>4. CASE Atomic!NothingToSave(Current, call[p])
    <3>1. stage'[p] = "done"
      BY <1>3, <2>4, RegFrame DEF Load
    <3>2. Waiting' = [Waiting EXCEPT ![p] = Done]
      BY <2>1, <2>3, <3>1, WaitingStays
    <3>3. Waiting[p] = call[p]
      BY <1>w, <2>2
    <3>4. Atomic!Effect(Current, Waiting[p]) = Current
      BY <2>4, <3>3 DEF Atomic!Effect
    <3> QED BY <2>1, <2>2, <3>2, <3>3, <3>4 DEF Atomic!TakeEffect, Waiting
  <2>5. CASE ~Atomic!NothingToSave(Current, call[p])
    <3>1. stage'[p] = "backup"
      BY <1>3, <2>5, RegFrame DEF Load
    <3> QED BY <1>s, <2>1, <2>2, <2>3, <3>1
  <2> QED BY <2>4, <2>5
<1>4. ASSUME NEW p \in Procs, Backup(p)
      PROVE  Current' = Current /\ Waiting' = Waiting
  <2>1. /\ call' = call /\ stage[p] = "backup" /\ stage'[p] = "write"
        /\ \A q \in Procs \ {p} : stage'[q] = stage[q]
    BY <1>4, RegFrame DEF Backup
  <2> QED BY <1>4, <1>s, <2>1, BackupReads
<1>5. ASSUME NEW p \in Procs, Write(p)
      PROVE  Atomic!TakeEffect(p) \/ (Current' = Current /\ Waiting' = Waiting)
  <2>1. /\ stage[p] = "write" /\ call' = call /\ bak' = bak
        /\ \A q \in Procs \ {p} : stage'[q] = stage[q]
    BY <1>5, RegFrame DEF Write
  <2>2. /\ buf[p] = Current /\ call[p] \in Atomic!Edits
        /\ ~Atomic!NothingToSave(Current, call[p])
    BY <2>1 DEF RegInv, Fresh, Inside
  <2>3. CASE primary' = File(Atomic!Edited(buf[p], call[p])) /\ stage'[p] = "done"
    <3>1. Current' = Atomic!Edited(Current, call[p])
      BY <2>2, <2>3 DEF Current, File
    <3>2. Waiting[p] = call[p]
      BY <1>w, <2>1
    <3>3. Current' = Atomic!Effect(Current, Waiting[p])
      BY <2>2, <3>1, <3>2 DEF Atomic!Effect
    <3>4. Waiting' = [Waiting EXCEPT ![p] = Done]
      BY <2>1, <2>3, WaitingStays
    <3> QED BY <2>2, <3>2, <3>3, <3>4 DEF Atomic!TakeEffect, Waiting
  <2>4. CASE primary' = primary /\ stage'[p] = "failed"
    <3>1. Current' = Current
      BY <2>1, <2>4 DEF Current
    <3> QED BY <1>s, <2>1, <2>4, <3>1
  <2> QED BY <1>5, <2>3, <2>4, RegFrame DEF Write
<1>6. ASSUME NEW p \in Procs, Locking(p)
      PROVE  Atomic!Return(p) \/ (Current' = Current /\ Waiting' = Waiting)
  <2>1. Current' = Current
    BY <1>6 DEF Locking, Current
  <2>2. CASE at'[p] # "idle"
    BY <1>6, <2>1, <2>2 DEF Locking, Waiting
  <2>3. CASE at'[p] = "idle"
    <3>1. call' = [call EXCEPT ![p] = NoOp] /\ stage' = [stage EXCEPT ![p] = "none"]
      BY <1>6, <2>3 DEF Locking, Over
    <3>2. /\ call'[p] = NoOp /\ stage'[p] = "none"
          /\ \A q \in Procs \ {p} : stage'[q] = stage[q] /\ call'[q] = call[q]
      BY <3>1, RegFrame
    <3>3. Waiting' = [Waiting EXCEPT ![p] = NoOp]
      BY <3>2, WaitingStays
    <3>4. CASE Waiting[p] = NoOp
      <4>1. [Waiting EXCEPT ![p] = NoOp] = Waiting
        BY <3>4 DEF Waiting
      <4> QED BY <2>1, <3>3, <4>1
    <3>5. CASE Waiting[p] # NoOp
      BY <2>1, <3>3, <3>5 DEF Atomic!Return, Waiting
    <3> QED BY <3>4, <3>5
  <2> QED BY <2>2, <2>3
<1>7. ASSUME NEW p \in Procs, Return(p) PROVE FALSE
  BY <1>7 DEF Return, RegInv, Fresh
<1>8. ASSUME NEW p \in Procs, Reuse(p) PROVE FALSE
  BY <1>8 DEF Reuse, Rebirth, OnlyLocked, Pair
<1> QED BY <1>1, <1>2, <1>3, <1>4, <1>5, <1>6, <1>7, <1>8 DEF Next, Atomic!Next

\* "Every writer takes a lock so concurrent dag processes cannot lose each
\* other's edits": of the writers that do, two processes' calls of addProject
\* are atomic edits of one registry.
THEOREM LockedIsLinear == OnlyLocked => (Spec => Linear)
<1> SUFFICES ASSUME OnlyLocked PROVE Spec => Atomic!Spec
  BY DEF Linear
<1>1. Init => RegInv
  BY RegInit
<1>2. RegInv /\ [Next]_vars => RegInv'
  BY RegStep
<1>3. Init => Atomic!Init
  BY DEF Init, Atomic!Init, Current, NoFile
<1>4. RegInv /\ [Next]_vars => [Atomic!Next]_<<Current, Waiting>>
  BY RegRefines
<1> QED BY <1>1, <1>2, <1>3, <1>4, PTL DEF Spec, Atomic!Spec, Waiting

-----------------------------------------------------------------------------
\* Every process has a stage, in every world.
LEMMA StagesKept == ASSUME DOMAIN stage = Procs, [Next]_vars PROVE DOMAIN stage' = Procs
BY DEF Next, Begin, Load, Backup, Write, Locking, Over, Return, Reuse, vars, regVars

\* A step that is not a write that succeeds changes nothing a reader gets.
LEMMA OtherStepsRead ==
    ASSUME DOMAIN stage = Procs, [Next]_vars,
           \A p \in Procs : ~(stage[p] = "write" /\ stage'[p] = "done")
    PROVE  Current' = Current
<1>1. ASSUME NEW p \in Procs, Backup(p) PROVE Current' = Current
  BY <1>1, BackupReads
<1>2. ASSUME NEW p \in Procs, Write(p) PROVE Current' = Current
  <2>1. CASE stage' = [stage EXCEPT ![p] = "done"]
    BY <1>2, <2>1 DEF Write
  <2>2. CASE UNCHANGED primary
    BY <1>2, <2>2 DEF Write, Current
  <2> QED BY <1>2, <2>1, <2>2 DEF Write
<1>3. ASSUME NEW p \in Procs, Begin(p) \/ Load(p) \/ Locking(p) \/ Return(p) \/ Reuse(p)
      PROVE  Current' = Current
  BY <1>3 DEF Begin, Load, Locking, Return, Reuse, regVars, Current
<1>4. CASE UNCHANGED vars
  BY <1>4 DEF vars, regVars, Current
<1> QED BY <1>1, <1>2, <1>3, <1>4 DEF Next

\* "A crash mid-rename cannot lose both copies", for any processes, locked or
\* not, dying, stalled or reborn: a reader's view changes only when a new text
\* takes the path.
THEOREM EditsAreWhole == Spec => EditsLandWhole
<1>1. Init => DOMAIN stage = Procs
  BY DEF Init
<1>2. DOMAIN stage = Procs /\ [Next]_vars => (DOMAIN stage = Procs)'
  BY StagesKept
<1>3. DOMAIN stage = Procs /\ [Next]_vars =>
        [(\A p \in Procs : ~(stage[p] = "write" /\ stage'[p] = "done")) => Current' = Current]_vars
  BY OtherStepsRead
<1> QED BY <1>1, <1>2, <1>3, PTL DEF Spec, EditsLandWhole

---------------------------------------------------------------------------
(* What recursive queries compute.                                        *)

\* A set of naturals that is not empty has a least member.
LEMMA LeastNat ==
  ASSUME NEW S \in SUBSET Nat, S # {}
  PROVE  \E n \in S : \A k \in S : n <= k
<1> DEFINE R == OpToRel(<, Nat)
<1>1. IsWellFoundedOn(R, Nat)
  BY NatLessThanWellFounded
<1>2. \A n, k \in Nat : k < n => <<k, n>> \in R
  BY DEF OpToRel
<1> HIDE DEF R
<1>3. PICK n \in S : \A k \in S : ~ (<<k, n>> \in R)
  BY <1>1, WFMin
<1>4. \A k \in S : ~ (k < n)
  BY <1>2, <1>3
<1> QED BY <1>3, <1>4

\* The ids are finitely many, and so are those that a trail leaves.
LEMMA IdsLeft ==
  ASSUME NEW t \in SUBSET Ids
  PROVE  /\ Cardinality(Ids \ t) \in Nat
         /\ \A u \in SUBSET Ids : t \subseteq u /\ u # t =>
               Cardinality(Ids \ u) < Cardinality(Ids \ t)
<1>1. IsFiniteSet(Ids)
  BY GraphAssumption
<1>2. IsFiniteSet(Ids \ t)
  BY <1>1, FS_Subset, Ids \ t \in SUBSET Ids
<1>3. Cardinality(Ids \ t) \in Nat
  BY <1>2, FS_CardinalityType
<1>4. ASSUME NEW u \in SUBSET Ids, t \subseteq u, u # t
      PROVE  Cardinality(Ids \ u) < Cardinality(Ids \ t)
  <2>1. Ids \ u \in SUBSET (Ids \ t) /\ Ids \ u # Ids \ t
    BY <1>4
  <2>2. Cardinality(Ids \ u) <= Cardinality(Ids \ t) /\ Cardinality(Ids \ u) # Cardinality(Ids \ t)
    BY <1>2, <2>1, FS_Subset
  <2>3. Cardinality(Ids \ u) \in Nat
    BY <1>2, <2>1, FS_Subset, FS_CardinalityType
  <2> QED BY <1>3, <2>2, <2>3
<1> QED BY <1>3, <1>4

\* Among some trails there is one that none of the others extends.
LEMMA LongestTrail ==
  ASSUME NEW T \in SUBSET SUBSET Ids, T # {}
  PROVE  \E t \in T : \A u \in T : t \subseteq u => u = t
<1> DEFINE left(t) == Cardinality(Ids \ t)
           S == {left(t) : t \in T}
<1>1. \A t \in T : left(t) \in Nat
  BY IdsLeft
<1>2. S \in SUBSET Nat /\ S # {}
  BY <1>1
<1>3. PICK n \in S : \A k \in S : n <= k
  <2> HIDE DEF S
  <2> QED BY <1>2, LeastNat
<1>4. PICK t \in T : n = left(t)
  BY <1>3
<1>5. ASSUME NEW u \in T, t \subseteq u, u # t
      PROVE  FALSE
  <2>1. left(u) < left(t)
    BY <1>5, IdsLeft
  <2>2. left(u) \in S
    OBVIOUS
  <2>3. left(t) <= left(u)
    BY <1>3, <1>4, <2>2
  <2>4. left(u) \in Nat /\ left(t) \in Nat
    BY <1>1
  <2> HIDE DEF left
  <2> QED BY <2>1, <2>3, <2>4
<1> QED BY <1>4, <1>5

\* A function of the trail that looks only at longer trails exists.
LooksAhead(F, V) ==
    /\ F \in [[SUBSET Ids -> V] -> [SUBSET Ids -> V]]
    /\ \A f, g \in [SUBSET Ids -> V] : \A t \in SUBSET Ids :
          (\A u \in SUBSET Ids : t \subseteq u /\ u # t => f[u] = g[u]) => F[f][t] = F[g][t]

\* So a function of the trails defined from its longer trails exists: the
\* recursion of a search that keeps the trail it came by ends.
LEMMA TrailRecursion ==
  ASSUME NEW V, V # {}, NEW F, LooksAhead(F, V)
  PROVE  \E f : f \in [SUBSET Ids -> V] /\ f = F[f]
<1> USE DEF LooksAhead
<1>0. PICK start \in [SUBSET Ids -> V] : TRUE
  <2>1. PICK v \in V : TRUE
    OBVIOUS
  <2>2. [t \in SUBSET Ids |-> v] \in [SUBSET Ids -> V]
    OBVIOUS
  <2> QED BY <2>2
<1> DEFINE X == [SUBSET Ids -> V]
           left(t) == Cardinality(Ids \ t)
           Good(n) == \E f \in X : \A t \in SUBSET Ids : left(t) < n => f[t] = F[f][t]
           Bad == {n \in Nat : ~Good(n)}
<1>1. \A t \in SUBSET Ids : left(t) \in Nat
  BY IdsLeft
<1>2. Good(0)
  <2>1. \A t \in SUBSET Ids : ~ (left(t) < 0)
    <3> HIDE DEF left
    <3> QED BY <1>1
  <2>2. start \in X
    OBVIOUS
  <2> HIDE DEF left, X
  <2> QED BY <2>1, <2>2
<1>3. ASSUME NEW n \in Nat, Good(n)
      PROVE  Good(n + 1)
  <2>1. PICK f \in X : \A t \in SUBSET Ids : left(t) < n => f[t] = F[f][t]
    BY <1>3
  <2>2. PICK g \in X : g = F[f]
    OBVIOUS
  <2>3. ASSUME NEW t \in SUBSET Ids, left(t) < n + 1
        PROVE  g[t] = F[g][t]
    <3>1. ASSUME NEW u \in SUBSET Ids, t \subseteq u, u # t
          PROVE  f[u] = g[u]
      <4>1. left(u) < left(t)
        BY <3>1, IdsLeft
      <4>2. left(u) < n
        <5> HIDE DEF left
        <5> QED BY <4>1, <2>3, <1>1
      <4> QED BY <2>1, <2>2, <4>2
    <3>2. F[f][t] = F[g][t]
      BY <3>1
    <3> QED BY <2>2, <3>2
  <2> QED BY <2>3
<1>4. Bad = {}
  <2> SUFFICES ASSUME Bad # {} PROVE FALSE
    OBVIOUS
  <2>1. PICK n \in Bad : \A k \in Bad : n <= k
    <3>1. Bad \in SUBSET Nat
      OBVIOUS
    <3> HIDE DEF Bad
    <3> QED BY <3>1, LeastNat
  <2>2. n \in Nat /\ ~Good(n)
    BY <2>1
  <2> HIDE DEF Good
  <2>3. n # 0
    BY <1>2, <2>2
  <2>4. n - 1 \in Nat /\ n - 1 \notin Bad
    BY <2>1, <2>2, <2>3
  <2>5. Good(n - 1)
    BY <2>4
  <2>6. Good((n - 1) + 1)
    BY <1>3, <2>4, <2>5
  <2>7. (n - 1) + 1 = n
    BY <2>2
  <2> QED BY <2>2, <2>6, <2>7
<1>5. Good(left({}) + 1)
  <2>1. left({}) + 1 \in Nat
    <3>1. left({}) \in Nat
      BY <1>1
    <3> HIDE DEF left
    <3> QED BY <3>1
  <2> HIDE DEF Good
  <2> QED BY <1>4, <2>1
<1>6. PICK f \in X : \A t \in SUBSET Ids : left(t) < left({}) + 1 => f[t] = F[f][t]
  BY <1>5
<1>7. \A t \in SUBSET Ids : left(t) < left({}) + 1
  <2> SUFFICES ASSUME NEW t \in SUBSET Ids PROVE left(t) < left({}) + 1
    OBVIOUS
  <2>1. t = {} \/ left(t) < left({})
    BY IdsLeft
  <2>2. left(t) \in Nat /\ left({}) \in Nat
    BY <1>1
  <2>3. t = {} => left(t) = left({})
    OBVIOUS
  <2> HIDE DEF left
  <2> QED BY <2>1, <2>2, <2>3
<1>8. \A t \in SUBSET Ids : f[t] = F[f][t]
  BY <1>6, <1>7
<1>9. F[f] \in X
  BY <1>6
<1>10. f = F[f]
  <2> HIDE DEF left, Good, Bad
  <2> QED BY <1>6, <1>8, <1>9
<1> QED BY <1>6, <1>10

\* A finite set of integers that is not empty has a largest one.
LEMMA MaxIsLargest ==
  ASSUME NEW S \in SUBSET Int, IsFiniteSet(S), S # {}
  PROVE  Max(S) \in S /\ \A k \in S : Max(S) >= k
<1> DEFINE Good(n) == \A T \in SUBSET S : Cardinality(T) = n /\ T # {} =>
                         \E m \in T : \A k \in T : m >= k
           Bad == {n \in Nat : ~Good(n)}
<1>1. ASSUME NEW T \in SUBSET S
      PROVE  IsFiniteSet(T) /\ Cardinality(T) \in Nat
  BY FS_Subset, FS_CardinalityType
<1>2. ASSUME NEW n \in Nat, n > 0 => Good(n - 1)
      PROVE  Good(n)
  <2> SUFFICES ASSUME NEW T \in SUBSET S, Cardinality(T) = n, T # {}
               PROVE  \E m \in T : \A k \in T : m >= k
    OBVIOUS
  <2>1. PICK x \in T : TRUE
    OBVIOUS
  <2>2. CASE T \ {x} = {}
    BY <2>1, <2>2
  <2>3. CASE T \ {x} # {}
    <3>1. Cardinality(T \ {x}) = n - 1
      BY <1>1, <2>1, FS_RemoveElement
    <3>2. Cardinality(T \ {x}) \in Nat
      BY <1>1, T \ {x} \in SUBSET S
    <3>3. Good(n - 1)
      BY <1>2, <3>1, <3>2
    <3>4. PICK m \in T \ {x} : \A k \in T \ {x} : m >= k
      BY <2>3, <3>1, <3>3
    <3>5. x \in Int /\ m \in Int /\ T \subseteq Int
      OBVIOUS
    <3>6. CASE m >= x
      BY <3>4, <3>6
    <3>7. CASE ~(m >= x)
      BY <3>4, <3>5, <3>7
    <3> QED BY <3>6, <3>7
  <2> QED BY <2>2, <2>3
<1>3. Bad = {}
  <2> SUFFICES ASSUME Bad # {} PROVE FALSE
    OBVIOUS
  <2>1. PICK n \in Bad : \A k \in Bad : n <= k
    <3>1. Bad \in SUBSET Nat
      OBVIOUS
    <3> HIDE DEF Bad
    <3> QED BY <3>1, LeastNat
  <2>2. n \in Nat /\ ~Good(n)
    BY <2>1
  <2> HIDE DEF Good
  <2>3. n > 0 => n - 1 \in Nat /\ n - 1 \notin Bad
    BY <2>1, <2>2
  <2>4. n > 0 => Good(n - 1)
    BY <2>3
  <2> QED BY <1>2, <2>2, <2>4
<1>4. Good(Cardinality(S))
  <2>1. Cardinality(S) \in Nat
    BY <1>1
  <2> HIDE DEF Good
  <2> QED BY <1>3, <2>1
<1>5. \E m \in S : \A k \in S : m >= k
  BY <1>4
<1> QED BY <1>5, Zenon DEF Max

\* A function of the naturals defined from its value before exists.
Iterates(f, V, v0, step) ==
    f \in [Nat -> V] /\ f[0] = v0 /\ \A n \in Nat : f[n + 1] = step[n][f[n]]

\* Such a function exists whatever the steps are.
LEMMA NatRecursion ==
  ASSUME NEW V, NEW v0 \in V, NEW step \in [Nat -> [V -> V]]
  PROVE  \E f : Iterates(f, V, v0, step)
<1> DEFINE To(n, g) == /\ g \in [Nat -> V] /\ g[0] = v0
                       /\ \A k \in Nat : k < n => g[k + 1] = step[k][g[k]]
           Good(n) == \E g : To(n, g)
           Bad == {n \in Nat : ~Good(n)}
<1>1. Good(0)
  <2> DEFINE g == [k \in Nat |-> v0]
  <2>1. To(0, g)
    OBVIOUS
  <2> QED BY <2>1
<1>2. ASSUME NEW n \in Nat, Good(n)
      PROVE  Good(n + 1)
  <2>1. PICK g : To(n, g)
    BY <1>2
  <2> DEFINE h == [k \in Nat |-> IF k = n + 1 THEN step[n][g[n]] ELSE g[k]]
  <2>2. h \in [Nat -> V]
    BY <2>1
  <2>3. h[0] = v0
    BY <2>1
  <2>4. ASSUME NEW k \in Nat, k < n + 1
        PROVE  h[k + 1] = step[k][h[k]]
    BY <2>1, <2>4
  <2>5. To(n + 1, h)
    BY <2>2, <2>3, <2>4
  <2> QED BY <2>5
<1>3. Bad = {}
  <2> SUFFICES ASSUME Bad # {} PROVE FALSE
    OBVIOUS
  <2>1. PICK n \in Bad : \A k \in Bad : n <= k
    <3>1. Bad \in SUBSET Nat
      OBVIOUS
    <3> HIDE DEF Bad
    <3> QED BY <3>1, LeastNat
  <2>2. n \in Nat /\ ~Good(n)
    BY <2>1
  <2> HIDE DEF Good
  <2>3. n # 0
    BY <1>1, <2>2
  <2>4. n - 1 \in Nat /\ n - 1 \notin Bad
    BY <2>1, <2>2, <2>3
  <2>5. Good(n - 1)
    BY <2>4
  <2>6. Good((n - 1) + 1)
    BY <1>2, <2>4, <2>5
  <2>7. (n - 1) + 1 = n
    BY <2>2
  <2> QED BY <2>2, <2>6, <2>7
<1>4. ASSUME NEW n \in Nat, NEW m \in Nat, n <= m, NEW g, NEW h, To(n, g), To(m, h)
      PROVE  \A k \in 0..n : g[k] = h[k]
  <2> DEFINE Diff == {k \in 0..n : g[k] # h[k]}
  <2> SUFFICES ASSUME Diff # {} PROVE FALSE
    OBVIOUS
  <2>1. PICK k \in Diff : \A j \in Diff : k <= j
    <3>1. Diff \in SUBSET Nat
      OBVIOUS
    <3> HIDE DEF Diff
    <3> QED BY <3>1, LeastNat
  <2>2. k # 0
    BY <1>4, <2>1
  <2>3. k - 1 \in Nat /\ k - 1 < n /\ k - 1 < m /\ (k - 1) + 1 = k
    BY <1>4, <2>1, <2>2
  <2>4. g[k - 1] = h[k - 1]
    BY <2>1, <2>2
  <2>5. g[(k - 1) + 1] = step[k - 1][g[k - 1]] /\ h[(k - 1) + 1] = step[k - 1][h[k - 1]]
    BY <1>4, <2>3
  <2>6. g[k] = h[k]
    BY <2>3, <2>4, <2>5
  <2> QED BY <2>1, <2>6
<1> DEFINE tower == [n \in Nat |-> CHOOSE g : To(n, g)]
           f == [n \in Nat |-> tower[n][n]]
<1>5. ASSUME NEW n \in Nat
      PROVE  To(n, tower[n])
  <2>1. \E g : To(n, g)
    BY <1>3
  <2>2. To(n, CHOOSE g : To(n, g))
    <3> HIDE DEF To
    <3> QED BY <2>1
  <2> HIDE DEF To
  <2> QED BY <2>2
<1> HIDE DEF tower
<1>6. f \in [Nat -> V]
  <2>1. \A n \in Nat : tower[n] \in [Nat -> V]
    BY <1>5
  <2> QED BY <2>1
<1>7. f[0] = v0
  BY <1>5
<1>8. ASSUME NEW n \in Nat
      PROVE  f[n + 1] = step[n][f[n]]
  <2>1. To(n, tower[n]) /\ To(n + 1, tower[n + 1])
    BY <1>5
  <2>2. \A k \in 0..n : tower[n][k] = tower[n + 1][k]
    <3>1. n <= n + 1 /\ n + 1 \in Nat
      OBVIOUS
    <3> HIDE DEF To
    <3> QED BY <2>1, <3>1, <1>4
  <2>3. tower[n][n] = tower[n + 1][n]
    BY <2>2
  <2>4. tower[n + 1][n + 1] = step[n][tower[n + 1][n]]
    BY <2>1
  <2>5. f[n] = tower[n][n] /\ f[n + 1] = tower[n + 1][n + 1]
    OBVIOUS
  <2> QED BY <2>3, <2>4, <2>5
<1>9. Iterates(f, V, v0, step)
  <2> HIDE DEF f
  <2> QED BY <1>6, <1>7, <1>8 DEF Iterates
<1> QED BY <1>9

\* The dependencies of every task are tasks.
Closed(ts) == DOMAIN ts \subseteq Ids /\ \A i \in DOMAIN ts : ts[i].deps \subseteq DOMAIN ts

\* What Above is: the smallest set that holds the dependencies and, with a
\* task, its dependencies.
LEMMA AboveIsClosure ==
  ASSUME NEW ts, Closed(ts), NEW i \in DOMAIN ts
  PROVE  /\ Above(ts, i) \subseteq DOMAIN ts
         /\ ts[i].deps \subseteq Above(ts, i)
         /\ \A j \in Above(ts, i) : ts[j].deps \subseteq Above(ts, i)
         /\ \A C : (/\ ts[i].deps \subseteq C
                    /\ \A j \in C \cap DOMAIN ts : ts[j].deps \subseteq C)
                   => Above(ts, i) \subseteq C
<1> DEFINE V == SUBSET DOMAIN ts
           Step(S) == S \cup UNION {ts[j].deps : j \in S \cap DOMAIN ts}
           step == [n \in Nat |-> [S \in V |-> Step(S)]]
           Eq(g) == g = [n \in Nat |-> IF n = 0 THEN ts[i].deps
                           ELSE g[n - 1] \cup UNION {ts[j].deps : j \in g[n - 1] \cap DOMAIN ts}]
           above == CHOOSE g : Eq(g)
<1>1. step \in [Nat -> [V -> V]] /\ ts[i].deps \in V
  BY DEF Closed
<1>2. PICK f \in [Nat -> V] : f[0] = ts[i].deps /\ \A n \in Nat : f[n + 1] = step[n][f[n]]
  <2>1. PICK W, v, s : W = V /\ v = ts[i].deps /\ s = step
    OBVIOUS
  <2>2. v \in W /\ s \in [Nat -> [W -> W]]
    BY <1>1, <2>1
  <2>3. PICK f : Iterates(f, W, v, s)
    BY <2>2, NatRecursion
  <2> QED BY <2>1, <2>3 DEF Iterates
<1>3. Eq(f)
  <2>1. ASSUME NEW n \in Nat, n # 0
        PROVE  f[n] = Step(f[n - 1])
    <3>1. n - 1 \in Nat /\ (n - 1) + 1 = n
      BY <2>1
    <3>2. f[n - 1] \in V
      BY <3>1
    <3>3. f[(n - 1) + 1] = step[n - 1][f[n - 1]]
      BY <1>2, <3>1
    <3> HIDE DEF V
    <3> QED BY <3>1, <3>2, <3>3
  <2> DEFINE g == [n \in Nat |-> IF n = 0 THEN ts[i].deps ELSE Step(f[n - 1])]
  <2>2. \A n \in Nat : f[n] = g[n]
    <3> HIDE DEF Step
    <3> QED BY <1>2, <2>1
  <2>3. f = g
    <3>1. f = [n \in Nat |-> f[n]] /\ g = [n \in Nat |-> g[n]]
      BY <1>2
    <3> HIDE DEF g
    <3> QED BY <2>2, <3>1
  <2> QED BY <2>3
<1>4. Eq(above)
  <2>1. \E g : Eq(g)
    BY <1>3
  <2> HIDE DEF Eq
  <2> QED BY <2>1
<1>5. Above(ts, i) = above[Cardinality(Ids)]
  BY DEF Above
<1> HIDE DEF above
<1>6. above[0] = ts[i].deps /\ \A n \in Nat : above[n + 1] = Step(above[n])
  <2>1. above[0] = ts[i].deps
    BY <1>4
  <2>2. ASSUME NEW n \in Nat
        PROVE  above[n + 1] = Step(above[n])
    <3>1. n + 1 \in Nat /\ n + 1 # 0 /\ (n + 1) - 1 = n
      OBVIOUS
    <3> QED BY <1>4, <3>1
  <2> QED BY <2>1, <2>2
<1> HIDE DEF Eq
<1>7. \A n \in Nat : above[n] \in V
  <2> DEFINE Bad == {n \in Nat : above[n] \notin V}
  <2> SUFFICES ASSUME Bad # {} PROVE FALSE
    OBVIOUS
  <2>1. PICK n \in Bad : \A k \in Bad : n <= k
    <3>1. Bad \in SUBSET Nat
      OBVIOUS
    <3> HIDE DEF Bad
    <3> QED BY <3>1, LeastNat
  <2>2. n # 0
    BY <1>1, <1>6, <2>1
  <2>3. n - 1 \in Nat /\ (n - 1) + 1 = n /\ n - 1 \notin Bad
    BY <2>1, <2>2
  <2>4. above[n - 1] \in V
    BY <2>3
  <2>5. above[n] = Step(above[n - 1])
    BY <1>6, <2>3
  <2>6. Step(above[n - 1]) \in V
    BY <2>4 DEF Closed
  <2> QED BY <2>1, <2>5, <2>6
<1>8. IsFiniteSet(Ids) /\ Cardinality(Ids) \in Nat
  BY GraphAssumption, FS_CardinalityType
<1>9. \A n \in Nat : IsFiniteSet(above[n]) /\ Cardinality(above[n]) \in Nat /\ Cardinality(above[n]) <= Cardinality(Ids)
  <2> SUFFICES ASSUME NEW n \in Nat
               PROVE  IsFiniteSet(above[n]) /\ Cardinality(above[n]) \in Nat /\ Cardinality(above[n]) <= Cardinality(Ids)
    OBVIOUS
  <2>1. above[n] \in SUBSET Ids
    BY <1>7 DEF Closed
  <2> QED BY <1>8, <2>1, FS_Subset, FS_CardinalityType
<1> DEFINE Stable(n) == Step(above[n]) = above[n]
           Bad == {n \in Nat : ~Stable(n) /\ Cardinality(above[n]) < n}
\* Each round that changes something adds a task.
<1>10. Bad = {}
  <2> SUFFICES ASSUME Bad # {} PROVE FALSE
    OBVIOUS
  <2>1. PICK n \in Bad : \A k \in Bad : n <= k
    <3>1. Bad \in SUBSET Nat
      OBVIOUS
    <3> HIDE DEF Bad
    <3> QED BY <3>1, LeastNat
  <2>2. n \in Nat /\ ~Stable(n) /\ Cardinality(above[n]) < n
    BY <2>1
  <2>3. n # 0
    BY <1>9, <2>2
  <2>4. n - 1 \in Nat /\ (n - 1) + 1 = n /\ n - 1 \notin Bad
    <3> HIDE DEF Bad
    <3> QED BY <2>1, <2>2, <2>3
  <2>5. above[n] = Step(above[n - 1])
    BY <1>6, <2>4
  <2>6. ~Stable(n - 1)
    BY <2>2, <2>5
  <2>7. ~ (Cardinality(above[n - 1]) < n - 1)
    BY <2>4, <2>6
  <2>8. above[n - 1] \subseteq above[n] /\ above[n - 1] # above[n]
    BY <2>5, <2>6
  <2>9. Cardinality(above[n - 1]) <= Cardinality(above[n]) /\ Cardinality(above[n - 1]) # Cardinality(above[n])
    <3>1. above[n - 1] \in SUBSET above[n] /\ IsFiniteSet(above[n])
      BY <1>9, <2>2, <2>8
    <3> QED BY <2>8, <3>1, FS_Subset
  <2>10. Cardinality(above[n - 1]) \in Nat /\ Cardinality(above[n]) \in Nat
    BY <1>9, <2>2, <2>4
  <2> QED BY <2>2, <2>4, <2>7, <2>9, <2>10
<1> DEFINE N == Cardinality(Ids)
           A == above[N]
\* The rounds run out of tasks.
<1>11. Stable(N)
  <2> SUFFICES ASSUME ~Stable(N) PROVE FALSE
    OBVIOUS
  <2>1. N \in Nat /\ ~ (Cardinality(A) < N) /\ Cardinality(A) <= N /\ Cardinality(A) \in Nat
    BY <1>8, <1>9, <1>10
  <2>2. Cardinality(A) = N
    BY <2>1
  <2>3. A \in SUBSET Ids
    BY <1>7, <1>8 DEF Closed
  <2>4. A = Ids
    BY <1>8, <2>2, <2>3, FS_Subset
  <2>5. A \subseteq DOMAIN ts
    BY <1>7, <1>8
  <2>6. Step(A) = A
    BY <2>4, <2>5 DEF Closed
  <2> QED BY <2>6
<1>12. A \subseteq DOMAIN ts
  BY <1>7, <1>8
<1>13. ts[i].deps \subseteq A
  <2> DEFINE Bd == {n \in Nat : ~ (ts[i].deps \subseteq above[n])}
  <2>1. Bd = {}
    <3> SUFFICES ASSUME Bd # {} PROVE FALSE
      OBVIOUS
    <3>1. PICK n \in Bd : \A k \in Bd : n <= k
      <4>1. Bd \in SUBSET Nat
        OBVIOUS
      <4> HIDE DEF Bd
      <4> QED BY <4>1, LeastNat
    <3>2. n # 0
      BY <1>6, <3>1
    <3>3. n - 1 \in Nat /\ (n - 1) + 1 = n /\ n - 1 \notin Bd
      BY <3>1, <3>2
    <3>4. above[n] = Step(above[n - 1])
      BY <1>6, <3>3
    <3>5. above[n - 1] \subseteq above[n]
      BY <3>4
    <3> QED BY <3>1, <3>3, <3>5
  <2> QED BY <1>8, <2>1
<1>14. \A j \in A : ts[j].deps \subseteq A
  <2> SUFFICES ASSUME NEW j \in A PROVE ts[j].deps \subseteq A
    OBVIOUS
  <2>1. j \in A \cap DOMAIN ts
    BY <1>12
  <2>2. ts[j].deps \subseteq Step(A)
    BY <2>1
  <2>3. Step(A) = A
    BY <1>11
  <2> QED BY <2>2, <2>3
<1>15. ASSUME NEW C, ts[i].deps \subseteq C, \A j \in C \cap DOMAIN ts : ts[j].deps \subseteq C
       PROVE  A \subseteq C
  <2> DEFINE Bd == {n \in Nat : ~ (above[n] \subseteq C)}
  <2>1. Bd = {}
    <3> SUFFICES ASSUME Bd # {} PROVE FALSE
      OBVIOUS
    <3>1. PICK n \in Bd : \A k \in Bd : n <= k
      <4>1. Bd \in SUBSET Nat
        OBVIOUS
      <4> HIDE DEF Bd
      <4> QED BY <4>1, LeastNat
    <3>2. n # 0
      BY <1>6, <1>15, <3>1
    <3>3. n - 1 \in Nat /\ (n - 1) + 1 = n /\ n - 1 \notin Bd
      BY <3>1, <3>2
    <3>4. above[n] = Step(above[n - 1])
      BY <1>6, <3>3
    <3>5. above[n - 1] \subseteq C
      BY <3>3
    <3>6. Step(above[n - 1]) \subseteq C
      BY <1>15, <3>5
    <3> QED BY <3>1, <3>4, <3>6
  <2> QED BY <1>8, <2>1
<1>16. Above(ts, i) = A
  BY <1>5
<1> HIDE DEF A
<1> QED BY <1>12, <1>13, <1>14, <1>15, <1>16

\* Some task of any that are left depends on none of them: there is no cycle.
Rooted(ts) ==
    \A S \in SUBSET DOMAIN ts : S # {} => \E i \in S : ts[i].deps \cap S = {}

\* What is above a task above is above.
LEMMA AboveIsTransitive ==
  ASSUME NEW ts, Closed(ts), NEW i \in DOMAIN ts, NEW j \in Above(ts, i)
  PROVE  j \in DOMAIN ts /\ Above(ts, j) \subseteq Above(ts, i)
<1> PICK A : A = Above(ts, i)
  OBVIOUS
<1>1. A \subseteq DOMAIN ts /\ \A k \in A : ts[k].deps \subseteq A
  BY AboveIsClosure
<1>2. j \in DOMAIN ts /\ ts[j].deps \subseteq A /\ \A k \in A \cap DOMAIN ts : ts[k].deps \subseteq A
  BY <1>1
<1>3. Above(ts, j) \subseteq A
  BY <1>2, AboveIsClosure
<1> QED BY <1>2, <1>3

\* What is above a task is a dependency, or above a dependency.
LEMMA AboveByDependency ==
  ASSUME NEW ts, Closed(ts), NEW i \in DOMAIN ts, NEW a \in Above(ts, i)
  PROVE  a \in ts[i].deps \/ \E d \in ts[i].deps : a \in Above(ts, d)
<1> DEFINE C == {x \in DOMAIN ts : x \in ts[i].deps \/ \E d \in ts[i].deps : x \in Above(ts, d)}
<1>1. ts[i].deps \subseteq C
  BY DEF Closed
<1>2. ASSUME NEW j \in C
      PROVE  ts[j].deps \subseteq C
  <2>1. ts[j].deps \subseteq DOMAIN ts
    BY DEF Closed
  <2>2. CASE j \in ts[i].deps
    <3>1. ts[j].deps \subseteq Above(ts, j)
      BY AboveIsClosure
    <3> QED BY <2>1, <2>2, <3>1
  <2>3. CASE \E d \in ts[i].deps : j \in Above(ts, d)
    <3>1. PICK d \in ts[i].deps : j \in Above(ts, d)
      BY <2>3
    <3>2. d \in DOMAIN ts
      BY DEF Closed
    <3>3. ts[j].deps \subseteq Above(ts, d)
      BY <3>1, <3>2, AboveIsClosure
    <3> QED BY <2>1, <3>3
  <2> QED BY <2>2, <2>3
<1> HIDE DEF C
<1>3. Above(ts, i) \subseteq C
  BY <1>1, <1>2, AboveIsClosure
<1>4. a \in C
  BY <1>3
<1> QED BY <1>4 DEF C

\* Without a cycle no task is above itself.
LEMMA NoTaskAboveItself ==
  ASSUME NEW ts, Closed(ts), Rooted(ts), NEW i \in DOMAIN ts
  PROVE  i \notin Above(ts, i)
<1> DEFINE S == {x \in DOMAIN ts : x \in Above(ts, x)}
<1> SUFFICES ASSUME S # {} PROVE FALSE
  OBVIOUS
<1>1. PICK r \in S : ts[r].deps \cap S = {}
  BY DEF Rooted
<1>2. r \in DOMAIN ts /\ r \in Above(ts, r)
  BY <1>1
<1>3. PICK d \in ts[r].deps : r = d \/ r \in Above(ts, d)
  BY <1>2, AboveByDependency
<1>4. d \in DOMAIN ts
  BY <1>2, <1>3 DEF Closed
<1>5. CASE r = d
  BY <1>1, <1>3, <1>5
<1>6. CASE r \in Above(ts, d)
  <2>1. d \in Above(ts, r)
    BY <1>2, <1>3, AboveIsClosure
  <2>2. Above(ts, r) \subseteq Above(ts, d)
    BY <1>4, <1>6, AboveIsTransitive
  <2>3. d \in S
    BY <1>4, <2>1, <2>2
  <2> QED BY <1>1, <1>3, <2>3
<1> QED BY <1>3, <1>5, <1>6

\* Two graphs with the same edges.
SameEdges(ts, us) ==
    DOMAIN us = DOMAIN ts /\ \A i \in DOMAIN ts : us[i].deps = ts[i].deps

\* What is above depends on the edges only, and so do missing tasks and cycles.
LEMMA SameEdgesSameAbove ==
  ASSUME NEW ts, NEW us, Closed(ts), SameEdges(ts, us)
  PROVE  /\ Closed(us)
         /\ Rooted(ts) => Rooted(us)
         /\ \A i \in DOMAIN ts : Above(us, i) = Above(ts, i)
<1>1. Closed(us)
  BY DEF Closed, SameEdges
<1>2. Rooted(ts) => Rooted(us)
  <2> SUFFICES ASSUME Rooted(ts), NEW S \in SUBSET DOMAIN us, S # {}
               PROVE  \E i \in S : us[i].deps \cap S = {}
    BY DEF Rooted
  <2>1. S \in SUBSET DOMAIN ts
    BY DEF SameEdges
  <2>2. PICK i \in S : ts[i].deps \cap S = {}
    BY <2>1 DEF Rooted
  <2> QED BY <2>1, <2>2 DEF SameEdges
<1>3. ASSUME NEW i \in DOMAIN ts
      PROVE  Above(us, i) = Above(ts, i)
  <2> PICK A, B : A = Above(ts, i) /\ B = Above(us, i)
    OBVIOUS
  <2>1. i \in DOMAIN us /\ us[i].deps = ts[i].deps
    BY DEF SameEdges
  <2>2. /\ A \subseteq DOMAIN ts /\ ts[i].deps \subseteq A
        /\ \A j \in A : ts[j].deps \subseteq A
    BY AboveIsClosure
  <2>3. /\ B \subseteq DOMAIN us /\ us[i].deps \subseteq B
        /\ \A j \in B : us[j].deps \subseteq B
    BY <1>1, <2>1, AboveIsClosure
  <2>4. ts[i].deps \subseteq B /\ \A j \in B \cap DOMAIN ts : ts[j].deps \subseteq B
    BY <2>1, <2>3 DEF SameEdges
  <2>5. us[i].deps \subseteq A /\ \A j \in A \cap DOMAIN us : us[j].deps \subseteq A
    BY <2>1, <2>2 DEF SameEdges
  <2>6. A \subseteq B
    BY <2>4, AboveIsClosure
  <2>7. B \subseteq A
    BY <1>1, <2>1, <2>5, AboveIsClosure
  <2> QED BY <2>6, <2>7
<1> QED BY <1>1, <1>2, <1>3

---------------------------------------------------------------------------
\* What the recursion of TransitiveBlocked computes: those blocked, by trail.
BlockedRule(ts, f) ==
    f = [trail \in SUBSET Ids |->
            {i \in Ids \ trail :
                \/ i \notin DOMAIN ts
                \/ \E d \in ts[i].deps :
                      d \notin DOMAIN ts \/ ts[d].status \in Unusable \/ d \in f[trail \cup {i}]}]

\* The recursion of TransitiveBlocked has a solution, which the query reads.
LEMMA BlockedExists ==
  ASSUME NEW ts
  PROVE  \E f : BlockedRule(ts, f) /\ TransitiveBlocked(ts) = {i \in DOMAIN ts : i \in f[{}]}
<1> DEFINE X == [SUBSET Ids -> SUBSET Ids]
           Body(f, t) == {i \in Ids \ t :
                \/ i \notin DOMAIN ts
                \/ \E d \in ts[i].deps :
                      d \notin DOMAIN ts \/ ts[d].status \in Unusable \/ d \in f[t \cup {i}]}
           F == [f \in X |-> [t \in SUBSET Ids |-> Body(f, t)]]
<1>1. F \in [X -> X]
  OBVIOUS
<1>3. ASSUME NEW f \in X, NEW g \in X, NEW t \in SUBSET Ids,
             \A u \in SUBSET Ids : t \subseteq u /\ u # t => f[u] = g[u]
      PROVE  F[f][t] = F[g][t]
  <2>1. ASSUME NEW i \in Ids \ t
        PROVE  f[t \cup {i}] = g[t \cup {i}]
    <3>1. t \cup {i} \in SUBSET Ids /\ t \subseteq t \cup {i} /\ t \cup {i} # t
      OBVIOUS
    <3> QED BY <1>3, <3>1
  <2>2. Body(f, t) = Body(g, t)
    BY <2>1
  <2>3. F[f][t] = Body(f, t) /\ F[g][t] = Body(g, t)
    <3> HIDE DEF Body
    <3> QED OBVIOUS
  <2> HIDE DEF F, Body
  <2> QED BY <2>2, <2>3
<1>4. LooksAhead(F, SUBSET Ids)
  <2> HIDE DEF F
  <2> QED BY <1>1, <1>3 DEF LooksAhead
<1>5. PICK f : f \in X /\ f = F[f]
  <2> HIDE DEF F
  <2> QED BY <1>4, TrailRecursion
<1>6. BlockedRule(ts, f)
  BY <1>5 DEF BlockedRule
<1> DEFINE h == CHOOSE g : BlockedRule(ts, g)
<1>8. BlockedRule(ts, h)
  BY <1>6, Zenon
<1>9. TransitiveBlocked(ts) = {i \in DOMAIN ts : i \in h[{}]}
  BY DEF TransitiveBlocked, BlockedRule
<1> HIDE DEF h
<1> QED BY <1>8, <1>9

\* In a graph without cycles TransitiveBlocked is what it is for: the tasks with
\* a failure somewhere above.
THEOREM BlockedIsFailedAbove ==
  ASSUME NEW ts, Closed(ts), Rooted(ts), NEW i \in DOMAIN ts
  PROVE  i \in TransitiveBlocked(ts) <=> FailedAbove(ts, i)
<1> DEFINE Bad(a) == a \notin DOMAIN ts \/ ts[a].status \in Unusable
<1>1. PICK f : BlockedRule(ts, f) /\ TransitiveBlocked(ts) = {j \in DOMAIN ts : j \in f[{}]}
  BY BlockedExists
<1>2. ASSUME NEW t \in SUBSET Ids
      PROVE  f[t] = {j \in Ids \ t : \/ j \notin DOMAIN ts
                                     \/ \E d \in ts[j].deps : Bad(d) \/ d \in f[t \cup {j}]}
  BY <1>1 DEF BlockedRule
<1>3. DOMAIN ts \subseteq Ids
  BY DEF Closed
<1> DEFINE Under(j) == \E a \in Above(ts, j) : Bad(a)
\* Whatever the trail, a blocked task has a failure above.
<1>4. \A t \in SUBSET Ids : \A j \in DOMAIN ts : j \in f[t] => Under(j)
  <2> DEFINE T == {t \in SUBSET Ids : \E j \in DOMAIN ts : j \in f[t] /\ ~Under(j)}
  <2> SUFFICES ASSUME T # {} PROVE FALSE
    OBVIOUS
  <2>1. PICK t \in T : \A u \in T : t \subseteq u => u = t
    <3>1. T \in SUBSET SUBSET Ids
      OBVIOUS
    <3> HIDE DEF T
    <3> QED BY <3>1, LongestTrail
  <2>2. PICK j \in DOMAIN ts : j \in f[t] /\ ~Under(j)
    BY <2>1
  <2>3. t \in SUBSET Ids
    BY <2>1
  <2>4. j \notin t /\ \E d \in ts[j].deps : Bad(d) \/ d \in f[t \cup {j}]
    BY <1>2, <2>2, <2>3
  <2>5. PICK d \in ts[j].deps : Bad(d) \/ d \in f[t \cup {j}]
    BY <2>4
  <2>6. d \in Above(ts, j)
    BY AboveIsClosure
  <2>7. ~Bad(d) /\ d \in DOMAIN ts
    BY <2>2, <2>6
  <2>8. t \cup {j} \in SUBSET Ids /\ t \subseteq t \cup {j} /\ t \cup {j} # t
    BY <1>3, <2>3, <2>4
  <2>9. t \cup {j} \notin T
    <3> HIDE DEF T
    <3> QED BY <2>1, <2>8
  <2>10. Under(d)
    BY <2>5, <2>7, <2>8, <2>9
  <2>11. Above(ts, d) \subseteq Above(ts, j)
    BY <2>6, AboveIsTransitive
  <2> QED BY <2>2, <2>10, <2>11
\* On a trail that only has tasks below, a task with a failure above is blocked.
<1> DEFINE Away(t, j) == j \notin t /\ t \cap Above(ts, j) = {}
<1>5. \A t \in SUBSET Ids : \A j \in DOMAIN ts : Under(j) /\ Away(t, j) => j \in f[t]
  <2> DEFINE T == {t \in SUBSET Ids : \E j \in DOMAIN ts : Under(j) /\ Away(t, j) /\ j \notin f[t]}
  <2> SUFFICES ASSUME T # {} PROVE FALSE
    OBVIOUS
  <2>1. PICK t \in T : \A u \in T : t \subseteq u => u = t
    <3>1. T \in SUBSET SUBSET Ids
      OBVIOUS
    <3> HIDE DEF T
    <3> QED BY <3>1, LongestTrail
  <2>2. PICK j \in DOMAIN ts : Under(j) /\ Away(t, j) /\ j \notin f[t]
    BY <2>1
  <2>3. t \in SUBSET Ids /\ j \in Ids \ t
    BY <1>3, <2>1, <2>2
  <2>4. \A d \in ts[j].deps : ~Bad(d) /\ d \notin f[t \cup {j}]
    BY <1>2, <2>2, <2>3
  <2>5. PICK a \in Above(ts, j) : Bad(a)
    BY <2>2
  <2>6. PICK d \in ts[j].deps : a \in Above(ts, d)
    BY <2>4, <2>5, AboveByDependency
  <2>7. d \in DOMAIN ts /\ d \in Above(ts, j) /\ Above(ts, d) \subseteq Above(ts, j)
    <3>1. d \in Above(ts, j)
      BY AboveIsClosure
    <3> QED BY <3>1, AboveIsTransitive
  <2>8. j \notin Above(ts, j)
    BY NoTaskAboveItself
  <2>9. Away(t \cup {j}, d)
    BY <2>2, <2>7, <2>8
  <2>10. Under(d)
    BY <2>5, <2>6
  <2>11. t \cup {j} \in SUBSET Ids /\ t \subseteq t \cup {j} /\ t \cup {j} # t
    BY <2>3
  <2>12. t \cup {j} \notin T
    <3> HIDE DEF T
    <3> QED BY <2>1, <2>11
  <2>13. d \in f[t \cup {j}]
    BY <2>7, <2>9, <2>10, <2>11, <2>12
  <2> QED BY <2>4, <2>6, <2>13
<1>6. i \in f[{}] <=> Under(i)
  BY <1>4, <1>5
<1>7. FailedAbove(ts, i) <=> Under(i)
  BY DEF FailedAbove
<1> HIDE DEF Under
<1> QED BY <1>1, <1>6, <1>7

\* What the recursion of ComputeDepths computes: the depths, by trail.
DepthAt(ts, f, t, i) ==
    IF i \in t THEN Loop
    ELSE IF i \notin DOMAIN ts \/ ts[i].deps = {} THEN 0
    ELSE LET up == {f[t \cup {i}][d] : d \in ts[i].deps}
         IN  IF Loop \in up THEN Loop ELSE 1 + Max(up)
DepthRule(ts, f) == f = [t \in SUBSET Ids |-> [i \in Ids |-> DepthAt(ts, f, t, i)]]

\* The recursion of ComputeDepths has a solution, which the query reads.
LEMMA DepthExists ==
  ASSUME NEW ts, Closed(ts)
  PROVE  \E f : DepthRule(ts, f) /\ ComputeDepths(ts) = [i \in DOMAIN ts |-> f[{}][i]]
<1> DEFINE V == [Ids -> Int]
           X == [SUBSET Ids -> V]
           Up(f, t, i) == {f[t \cup {i}][d] : d \in ts[i].deps}
           Value(f, t, i) == IF i \in t THEN Loop
                             ELSE IF i \notin DOMAIN ts \/ ts[i].deps = {} THEN 0
                             ELSE IF Loop \in Up(f, t, i) THEN Loop ELSE 1 + Max(Up(f, t, i))
           F == [f \in X |-> [t \in SUBSET Ids |-> [i \in Ids |-> Value(f, t, i)]]]
<1>1. ASSUME NEW f \in X, NEW t \in SUBSET Ids, NEW i \in Ids
      PROVE  Value(f, t, i) \in Int
  <2>1. Loop \in Int /\ 0 \in Int
    BY DEF Loop
  <2>2. CASE i \notin t /\ i \in DOMAIN ts /\ ts[i].deps # {}
    <3>1. t \cup {i} \in SUBSET Ids /\ ts[i].deps \subseteq Ids
      BY <2>2 DEF Closed
    <3>2. PICK g \in V : g = f[t \cup {i}]
      BY <3>1
    <3>3. PICK D : D = ts[i].deps
      OBVIOUS
    <3>4. D \in SUBSET Ids /\ D # {} /\ IsFiniteSet(D)
      BY <2>2, <3>1, <3>3, GraphAssumption, FS_Subset
    <3>5. Up(f, t, i) = {g[d] : d \in D}
      BY <3>2, <3>3
    <3>6. PICK S : S = {g[d] : d \in D}
      OBVIOUS
    <3>7. S \in SUBSET Int /\ S # {} /\ IsFiniteSet(S)
      <4>1. S \in SUBSET Int /\ S # {}
        BY <3>2, <3>4, <3>6
      <4>2. [d \in D |-> g[d]] \in Surjection(D, S)
        BY <3>6 DEF Surjection
      <4>3. IsFiniteSet(S)
        BY <3>4, <4>2, FS_Surjection
      <4> QED BY <4>1, <4>3
    <3>8. Max(S) \in Int
      BY <3>7, MaxIsLargest
    <3>9. Value(f, t, i) = IF Loop \in S THEN Loop ELSE 1 + Max(S)
      BY <2>2, <3>5, <3>6
    <3> HIDE DEF Value
    <3> QED BY <2>1, <3>8, <3>9
  <2> HIDE DEF Up
  <2> QED BY <2>1, <2>2
<1>2. F \in [X -> X]
  <2> HIDE DEF Value
  <2> QED BY <1>1
<1>3. ASSUME NEW f \in X, NEW g \in X, NEW t \in SUBSET Ids,
             \A u \in SUBSET Ids : t \subseteq u /\ u # t => f[u] = g[u]
      PROVE  F[f][t] = F[g][t]
  <2>1. ASSUME NEW i \in Ids
        PROVE  Value(f, t, i) = Value(g, t, i)
    <3>1. CASE i \in t
      <4> HIDE DEF Up
      <4> QED BY <3>1
    <3>2. CASE i \notin t
      <4>1. t \cup {i} \in SUBSET Ids /\ t \subseteq t \cup {i} /\ t \cup {i} # t
        BY <3>2
      <4>2. f[t \cup {i}] = g[t \cup {i}]
        BY <1>3, <4>1
      <4>3. Up(f, t, i) = Up(g, t, i)
        BY <4>2
      <4> HIDE DEF Up
      <4> QED BY <4>3
    <3> QED BY <3>1, <3>2
  <2>2. F[f][t] = [i \in Ids |-> Value(f, t, i)] /\ F[g][t] = [i \in Ids |-> Value(g, t, i)]
    <3> HIDE DEF Value
    <3> QED OBVIOUS
  <2> HIDE DEF F, Value
  <2> QED BY <2>1, <2>2
<1>4. LooksAhead(F, V)
  <2> HIDE DEF F, V
  <2> QED BY <1>2, <1>3 DEF LooksAhead
<1>5. V # {}
  <2>1. [i \in Ids |-> 0] \in V
    OBVIOUS
  <2> QED BY <2>1
<1>6. PICK f : f \in X /\ f = F[f]
  <2> HIDE DEF F, V
  <2> QED BY <1>4, <1>5, TrailRecursion
<1>7. DepthRule(ts, f)
  <2>1. f = [t \in SUBSET Ids |-> [i \in Ids |-> Value(f, t, i)]]
    <3> HIDE DEF Value
    <3> QED BY <1>6
  <2> QED BY <2>1, Zenon DEF DepthRule, DepthAt
<1> DEFINE h == CHOOSE g : DepthRule(ts, g)
<1>8. DepthRule(ts, h)
  BY <1>7, Zenon
<1>9. ComputeDepths(ts) = [i \in DOMAIN ts |-> h[{}][i]]
  BY DEF ComputeDepths, DepthRule, DepthAt
<1> HIDE DEF h
<1> QED BY <1>8, <1>9

\* A graph that assertNoCycle accepts has no cycle.
THEOREM NoCycleIsRooted ==
  ASSUME NEW ts, Closed(ts), AssertNoCycle(ts)
  PROVE  Rooted(ts)
<1>1. PICK f : DepthRule(ts, f) /\ ComputeDepths(ts) = [i \in DOMAIN ts |-> f[{}][i]]
  BY DepthExists
<1>2. ASSUME NEW t \in SUBSET Ids, NEW i \in DOMAIN ts, i \notin t, ts[i].deps # {},
             \E d \in ts[i].deps : f[t \cup {i}][d] = Loop
      PROVE  f[t][i] = Loop
  <2>1. i \in Ids
    BY DEF Closed
  <2>2. f[t][i] = DepthAt(ts, f, t, i)
    BY <1>1, <2>1 DEF DepthRule
  <2> QED BY <1>2, <2>2 DEF DepthAt
<1>3. ASSUME NEW t \in SUBSET Ids, NEW i \in Ids, i \in t
      PROVE  f[t][i] = Loop
  <2>1. f[t][i] = DepthAt(ts, f, t, i)
    BY <1>1 DEF DepthRule
  <2> QED BY <1>3, <2>1 DEF DepthAt
<1> SUFFICES ASSUME NEW S \in SUBSET DOMAIN ts, S # {}, \A i \in S : ts[i].deps \cap S # {}
             PROVE  FALSE
  BY DEF Rooted
<1>4. \A t \in SUBSET Ids : \A i \in S : f[t][i] = Loop
  <2> DEFINE T == {t \in SUBSET Ids : \E i \in S : f[t][i] # Loop}
  <2> SUFFICES ASSUME T # {} PROVE FALSE
    OBVIOUS
  <2>1. PICK t \in T : \A u \in T : t \subseteq u => u = t
    <3>1. T \in SUBSET SUBSET Ids
      OBVIOUS
    <3> HIDE DEF T
    <3> QED BY <3>1, LongestTrail
  <2>2. PICK i \in S : f[t][i] # Loop
    BY <2>1
  <2>3. t \in SUBSET Ids /\ i \in DOMAIN ts /\ i \in Ids
    BY <2>1 DEF Closed
  <2>4. i \notin t
    BY <1>3, <2>2, <2>3
  <2>5. PICK d \in ts[i].deps : d \in S
    OBVIOUS
  <2>6. t \cup {i} \in SUBSET Ids /\ t \subseteq t \cup {i} /\ t \cup {i} # t
    BY <2>3, <2>4
  <2>7. t \cup {i} \notin T
    <3> HIDE DEF T
    <3> QED BY <2>1, <2>6
  <2>8. f[t \cup {i}][d] = Loop
    BY <2>5, <2>6, <2>7
  <2> QED BY <1>2, <2>2, <2>3, <2>4, <2>5, <2>8
<1>5. PICK i \in S : TRUE
  OBVIOUS
<1>6. f[{}][i] = Loop
  BY <1>4
<1>7. ComputeDepths(ts)[i] = Loop
  BY <1>1, <1>5, <1>6
<1> QED BY <1>5, <1>7 DEF AssertNoCycle

\* The depth of the deepest dependency.
Deepest(ts, depths, i) == Max({depths[d] : d \in ts[i].deps})

\* In a graph without cycles computeDepths is the longest way up to a root: 0 for
\* a root, and one more than the deepest of its dependencies for another task.
THEOREM DepthIsLongest ==
  ASSUME NEW ts, Closed(ts), Rooted(ts)
  PROVE  /\ ComputeDepths(ts) \in [DOMAIN ts -> Nat]
         /\ \A i \in DOMAIN ts :
               ComputeDepths(ts)[i] = IF ts[i].deps = {} THEN 0
                                      ELSE 1 + Deepest(ts, ComputeDepths(ts), i)
<1>1. PICK f : DepthRule(ts, f) /\ ComputeDepths(ts) = [i \in DOMAIN ts |-> f[{}][i]]
  BY DepthExists
<1> DEFINE Up(t, i) == {f[t \cup {i}][d] : d \in ts[i].deps}
<1>2. ASSUME NEW t \in SUBSET Ids, NEW i \in DOMAIN ts, i \notin t
      PROVE  f[t][i] = IF ts[i].deps = {} THEN 0
                       ELSE IF Loop \in Up(t, i) THEN Loop ELSE 1 + Max(Up(t, i))
  <2>1. i \in Ids
    BY DEF Closed
  <2>2. f[t][i] = DepthAt(ts, f, t, i)
    BY <1>1, <2>1 DEF DepthRule
  <2> QED BY <1>2, <2>2, Zenon DEF DepthAt
<1> DEFINE Away(t, i) == i \notin t /\ t \cap Above(ts, i) = {}
           Fine(t, i) == f[t][i] = f[{}][i] /\ f[t][i] \in Nat
           B == {i \in DOMAIN ts : \E t \in SUBSET Ids : Away(t, i) /\ ~Fine(t, i)}
           Known(i) == {f[{}][d] : d \in ts[i].deps}
           Rule(i) == IF ts[i].deps = {} THEN 0 ELSE 1 + Max(Known(i))
\* Where the dependencies are fine, so is the task.
<1>3. ASSUME NEW i \in DOMAIN ts, \A d \in ts[i].deps : d \notin B,
             NEW t \in SUBSET Ids, Away(t, i)
      PROVE  f[t][i] = Rule(i) /\ Rule(i) \in Nat
  <2>1. i \in Ids /\ ts[i].deps \subseteq DOMAIN ts /\ DOMAIN ts \subseteq Ids
    BY DEF Closed
  <2>2. ASSUME NEW d \in ts[i].deps
        PROVE  f[t \cup {i}][d] = f[{}][d] /\ f[{}][d] \in Nat
    <3>1. d \in Above(ts, i)
      BY AboveIsClosure
    <3>2. d \in DOMAIN ts /\ Above(ts, d) \subseteq Above(ts, i)
      BY <3>1, AboveIsTransitive
    <3>3. i \notin Above(ts, i)
      BY NoTaskAboveItself
    <3>4. Away(t \cup {i}, d)
      BY <1>3, <3>1, <3>2, <3>3
    <3>5. d \notin B /\ t \cup {i} \in SUBSET Ids
      BY <1>3, <2>1
    <3> HIDE DEF Away
    <3> QED BY <3>2, <3>4, <3>5
  <2>3. Up(t, i) = Known(i)
    BY <2>2
  <2>4. CASE ts[i].deps = {}
    <3> HIDE DEF Up, Known
    <3> QED BY <1>2, <1>3, <2>4
  <2>5. CASE ts[i].deps # {}
    <3>1. PICK D, g : D = ts[i].deps /\ g = f[{}]
      OBVIOUS
    <3>2. PICK S : S = {g[d] : d \in D}
      OBVIOUS
    <3>3. D \in SUBSET Ids /\ D # {} /\ IsFiniteSet(D)
      BY <2>1, <2>5, <3>1, GraphAssumption, FS_Subset
    <3>4. \A d \in D : g[d] \in Nat
      BY <2>2, <3>1
    <3>5. S \in SUBSET Nat /\ S # {} /\ IsFiniteSet(S)
      <4>1. S \in SUBSET Nat /\ S # {}
        BY <3>2, <3>3, <3>4
      <4>2. [d \in D |-> g[d]] \in Surjection(D, S)
        BY <3>2 DEF Surjection
      <4>3. IsFiniteSet(S)
        BY <3>3, <4>2, FS_Surjection
      <4> QED BY <4>1, <4>3
    <3>6. Max(S) \in Nat
      <4>1. S \in SUBSET Int
        BY <3>5
      <4>2. Max(S) \in S
        BY <3>5, <4>1, MaxIsLargest
      <4> QED BY <3>5, <4>2
    <3>7. Loop \notin S
      BY <3>5 DEF Loop
    <3>8. Known(i) = S
      BY <3>1, <3>2
    <3>9. f[t][i] = 1 + Max(S) /\ Rule(i) = 1 + Max(S)
      <4>1. Rule(i) = 1 + Max(S)
        BY <2>5, <3>8
      <4>2. f[t][i] = IF Loop \in S THEN Loop ELSE 1 + Max(S)
        <5> HIDE DEF Up, Known
        <5> QED BY <1>2, <1>3, <2>3, <2>5, <3>8
      <4> HIDE DEF Rule
      <4> QED BY <3>7, <4>1, <4>2
    <3> HIDE DEF Rule
    <3> QED BY <3>6, <3>9
  <2> QED BY <2>4, <2>5
<1>4. B = {}
  <2> SUFFICES ASSUME B # {} PROVE FALSE
    OBVIOUS
  <2>1. PICK i \in B : ts[i].deps \cap B = {}
    <3>1. B \in SUBSET DOMAIN ts
      OBVIOUS
    <3> HIDE DEF B
    <3> QED BY <3>1 DEF Rooted
  <2>2. i \in DOMAIN ts /\ \A d \in ts[i].deps : d \notin B
    BY <2>1
  <2>3. PICK t \in SUBSET Ids : Away(t, i) /\ ~Fine(t, i)
    BY <2>1
  <2>4. Away({}, i)
    OBVIOUS
  <2> HIDE DEF Away, Rule, B
  <2>5. f[t][i] = Rule(i) /\ f[{}][i] = Rule(i) /\ Rule(i) \in Nat
    BY <1>3, <2>2, <2>3, <2>4
  <2> QED BY <2>3, <2>5
<1>5. ASSUME NEW i \in DOMAIN ts
      PROVE  f[{}][i] = Rule(i) /\ Rule(i) \in Nat
  <2>1. Away({}, i)
    OBVIOUS
  <2> HIDE DEF Away, Rule, B
  <2> QED BY <1>3, <1>4, <2>1
<1>6. PICK h : h = ComputeDepths(ts)
  OBVIOUS
<1>7. h \in [DOMAIN ts -> Nat] /\ \A i \in DOMAIN ts : h[i] = f[{}][i]
  <2>1. h = [i \in DOMAIN ts |-> f[{}][i]]
    BY <1>1, <1>6
  <2>2. \A i \in DOMAIN ts : f[{}][i] \in Nat
    BY <1>5
  <2> HIDE DEF Rule
  <2> QED BY <2>1, <2>2
<1>8. ASSUME NEW i \in DOMAIN ts
      PROVE  h[i] = IF ts[i].deps = {} THEN 0 ELSE 1 + Deepest(ts, h, i)
  <2>1. Known(i) = {h[d] : d \in ts[i].deps}
    <3>1. ts[i].deps \subseteq DOMAIN ts
      BY DEF Closed
    <3> QED BY <1>7, <3>1
  <2>2. h[i] = Rule(i)
    BY <1>5, <1>7
  <2> HIDE DEF Known
  <2> QED BY <2>1, <2>2 DEF Deepest
<1> QED BY <1>6, <1>7, <1>8

\* assertNoCycle accepts exactly the graphs without cycles.
THEOREM NoCycleExactly ==
  ASSUME NEW ts, Closed(ts)
  PROVE  AssertNoCycle(ts) <=> Rooted(ts)
<1>1. ASSUME Rooted(ts)
      PROVE  AssertNoCycle(ts)
  <2>1. \A i \in DOMAIN ts : ComputeDepths(ts)[i] \in Nat
    BY <1>1, DepthIsLongest
  <2> QED BY <2>1 DEF AssertNoCycle, Loop
<1> QED BY <1>1, NoCycleIsRooted

---------------------------------------------------------------------------
\* What the recursion of TransitiveDepSet computes: what is found, by what was seen.
UpAt(ts, f, t, j) ==
    IF j \notin DOMAIN ts THEN t
    ELSE LET new == ts[j].deps \ t
         IN  t \cup new \cup UNION {f[t \cup new][d] : d \in new}
UpRule(ts, f) == f = [t \in SUBSET Ids |-> [j \in Ids |-> UpAt(ts, f, t, j)]]

\* The recursion of TransitiveDepSet has a solution, which the query reads.
LEMMA UpExists ==
  ASSUME NEW ts, Closed(ts)
  PROVE  \E f : UpRule(ts, f) /\ \A i : TransitiveDepSet(ts, i) = f[{}][i]
<1> DEFINE V == [Ids -> SUBSET Ids]
           X == [SUBSET Ids -> V]
           Unseen(t, j) == ts[j].deps \ t
           Below(f, t, j) == UNION {f[t \cup Unseen(t, j)][d] : d \in Unseen(t, j)}
           Value(f, t, j) == IF j \notin DOMAIN ts THEN t
                             ELSE t \cup Unseen(t, j) \cup Below(f, t, j)
           F == [f \in X |-> [t \in SUBSET Ids |-> [j \in Ids |-> Value(f, t, j)]]]
<1>1. ASSUME NEW f \in X, NEW t \in SUBSET Ids, NEW j \in Ids
      PROVE  Value(f, t, j) \in SUBSET Ids
  <2>1. CASE j \in DOMAIN ts
    <3>1. Unseen(t, j) \subseteq Ids
      BY <2>1 DEF Closed
    <3>2. t \cup Unseen(t, j) \in SUBSET Ids
      BY <3>1
    <3>3. PICK g \in V : g = f[t \cup Unseen(t, j)]
      <4> HIDE DEF Unseen
      <4> QED BY <3>2
    <3>4. \A d \in Unseen(t, j) : g[d] \subseteq Ids
      BY <3>1, <3>3
    <3>5. Below(f, t, j) \subseteq Ids
      <4>1. Below(f, t, j) = UNION {g[d] : d \in Unseen(t, j)}
        BY <3>3, Zenon
      <4> HIDE DEF Unseen, Below
      <4> QED BY <3>4, <4>1
    <3> HIDE DEF Unseen, Below
    <3> QED BY <3>2, <3>5
  <2>2. CASE j \notin DOMAIN ts
    BY <2>2
  <2> QED BY <2>1, <2>2
<1>2. F \in [X -> X]
  <2> HIDE DEF Value
  <2> QED BY <1>1
<1>3. ASSUME NEW f \in X, NEW g \in X, NEW t \in SUBSET Ids,
             \A u \in SUBSET Ids : t \subseteq u /\ u # t => f[u] = g[u]
      PROVE  F[f][t] = F[g][t]
  <2>1. ASSUME NEW j \in Ids
        PROVE  Value(f, t, j) = Value(g, t, j)
    <3>1. CASE j \notin DOMAIN ts
      <4> HIDE DEF Unseen, Below
      <4> QED BY <3>1
    <3>2. CASE j \in DOMAIN ts
      <4>1. Unseen(t, j) = {} \/ (t \cup Unseen(t, j) \in SUBSET Ids /\ t \cup Unseen(t, j) # t)
        BY <3>2 DEF Closed
      <4>2. Unseen(t, j) = {} \/ f[t \cup Unseen(t, j)] = g[t \cup Unseen(t, j)]
        <5> HIDE DEF Unseen
        <5> QED BY <1>3, <4>1
      <4>3. Below(f, t, j) = Below(g, t, j)
        <5> HIDE DEF Unseen
        <5> QED BY <4>2
      <4> HIDE DEF Unseen, Below
      <4> QED BY <4>3
    <3> QED BY <3>1, <3>2
  <2>2. F[f][t] = [j \in Ids |-> Value(f, t, j)] /\ F[g][t] = [j \in Ids |-> Value(g, t, j)]
    <3> HIDE DEF Value
    <3> QED OBVIOUS
  <2> HIDE DEF F, Value
  <2> QED BY <2>1, <2>2
<1>4. LooksAhead(F, V)
  <2> HIDE DEF F, V
  <2> QED BY <1>2, <1>3 DEF LooksAhead
<1>5. V # {}
  <2>1. [i \in Ids |-> {}] \in V
    OBVIOUS
  <2> QED BY <2>1
<1>6. PICK f : f \in X /\ f = F[f]
  <2> HIDE DEF F, V
  <2> QED BY <1>4, <1>5, TrailRecursion
<1>7. UpRule(ts, f)
  <2>1. f = [t \in SUBSET Ids |-> [j \in Ids |-> Value(f, t, j)]]
    <3> HIDE DEF Value
    <3> QED BY <1>6
  <2> QED BY <2>1, Zenon DEF UpRule, UpAt
<1> DEFINE h == CHOOSE g : UpRule(ts, g)
<1>8. UpRule(ts, h)
  BY <1>7, Zenon
<1>9. \A i : TransitiveDepSet(ts, i) = h[{}][i]
  BY DEF TransitiveDepSet, UpRule, UpAt
<1> HIDE DEF h
<1> QED BY <1>8, <1>9

\* transitiveDepSet finds all that is above a task and nothing else, although
\* a branch of its search does not enter what another has seen.
THEOREM DepSetIsAbove ==
  ASSUME NEW ts, Closed(ts), NEW i \in DOMAIN ts
  PROVE  TransitiveDepSet(ts, i) = Above(ts, i)
<1>1. PICK f : UpRule(ts, f) /\ \A j : TransitiveDepSet(ts, j) = f[{}][j]
  BY UpExists
<1>2. DOMAIN ts \subseteq Ids /\ \A j \in DOMAIN ts : ts[j].deps \subseteq DOMAIN ts
  BY DEF Closed
<1> DEFINE Unseen(t, j) == ts[j].deps \ t
<1>3. ASSUME NEW t \in SUBSET Ids, NEW j \in DOMAIN ts
      PROVE  f[t][j] = t \cup Unseen(t, j) \cup UNION {f[t \cup Unseen(t, j)][d] : d \in Unseen(t, j)}
  <2>1. j \in Ids
    BY <1>2
  <2>2. f[t][j] = UpAt(ts, f, t, j)
    BY <1>1, <2>1 DEF UpRule
  <2> QED BY <2>2, Zenon DEF UpAt
\* It finds what was seen, the dependencies, and those of all else it finds.
<1> DEFINE Whole(t, j) == /\ ts[j].deps \subseteq f[t][j] /\ t \subseteq f[t][j]
                          /\ f[t][j] \subseteq t \cup Above(ts, j)
                          /\ \A x \in f[t][j] \ t : ts[x].deps \subseteq f[t][j]
<1>4. \A t \in SUBSET Ids : \A j \in DOMAIN ts : Whole(t, j)
  <2> DEFINE T == {t \in SUBSET Ids : \E j \in DOMAIN ts : ~Whole(t, j)}
  <2> SUFFICES ASSUME T # {} PROVE FALSE
    OBVIOUS
  <2>1. PICK t \in T : \A u \in T : t \subseteq u => u = t
    <3>1. T \in SUBSET SUBSET Ids
      OBVIOUS
    <3> HIDE DEF T
    <3> QED BY <3>1, LongestTrail
  <2>2. PICK j \in DOMAIN ts : ~Whole(t, j)
    BY <2>1
  <2>3. PICK N, A, R : N = Unseen(t, j) /\ A = Above(ts, j) /\ R = f[t][j]
    OBVIOUS
  <2>4. t \in SUBSET Ids /\ N \subseteq DOMAIN ts /\ N \cap t = {} /\ ts[j].deps \subseteq t \cup N
    BY <1>2, <2>1, <2>3
  <2>5. N \subseteq A
    BY <2>3, AboveIsClosure
  <2>6. PICK u : u = t \cup N
    OBVIOUS
  <2>7. R = u \cup UNION {f[u][d] : d \in N}
    <3>1. R = t \cup N \cup UNION {f[t \cup N][d] : d \in N}
      <4> HIDE DEF Unseen
      <4> QED BY <1>3, <2>3, <2>4
    <3> QED BY <2>6, <3>1
  <2>8. u \in SUBSET Ids /\ t \subseteq u
    BY <1>2, <2>4, <2>6
  <2>9. ASSUME NEW d \in N
        PROVE  Whole(u, d) /\ d \in DOMAIN ts /\ Above(ts, d) \subseteq A
    <3>1. u # t
      BY <2>4, <2>6
    <3>2. u \notin T
      <4> HIDE DEF T
      <4> QED BY <2>1, <2>8, <3>1
    <3>3. d \in DOMAIN ts
      BY <2>4
    <3>4. Whole(u, d)
      <4> HIDE DEF Whole
      <4> QED BY <2>8, <3>2, <3>3
    <3>5. Above(ts, d) \subseteq A
      BY <2>3, <2>5, AboveIsTransitive
    <3> QED BY <3>3, <3>4, <3>5
  <2>10. ts[j].deps \subseteq R /\ t \subseteq R
    BY <2>4, <2>6, <2>7
  <2>11. R \subseteq t \cup A
    <3> SUFFICES ASSUME NEW x \in R PROVE x \in t \cup A
      OBVIOUS
    <3>1. CASE x \in u
      BY <2>5, <2>6, <3>1
    <3>2. CASE x \notin u
      <4>1. PICK d \in N : x \in f[u][d]
        BY <2>7, <3>2
      <4>2. x \in u \cup Above(ts, d)
        BY <2>9, <4>1
      <4> QED BY <2>9, <3>2, <4>2
    <3> QED BY <3>1, <3>2
  <2>12. ASSUME NEW x \in R \ t
         PROVE  ts[x].deps \subseteq R
    <3>1. CASE x \in N
      <4>1. ts[x].deps \subseteq f[u][x]
        BY <2>9, <3>1
      <4> QED BY <2>7, <3>1, <4>1
    <3>2. CASE x \notin N
      <4>1. x \notin u
        BY <2>6, <3>2
      <4>2. PICK d \in N : x \in f[u][d]
        BY <2>7, <4>1
      <4>3. ts[x].deps \subseteq f[u][d]
        BY <2>9, <4>1, <4>2
      <4> QED BY <2>7, <4>3
    <3> QED BY <3>1, <3>2
  <2> QED BY <2>2, <2>3, <2>10, <2>11, <2>12
<1>5. PICK U : U = f[{}][i]
  OBVIOUS
<1>6. ts[i].deps \subseteq U /\ U \subseteq Above(ts, i) /\ \A x \in U : ts[x].deps \subseteq U
  <2>1. Whole({}, i)
    <3> HIDE DEF Whole
    <3> QED BY <1>4
  <2> QED BY <1>5, <2>1
<1>7. Above(ts, i) \subseteq U
  BY <1>6, AboveIsClosure
<1>8. TransitiveDepSet(ts, i) = U
  BY <1>1, <1>5
<1> QED BY <1>6, <1>7, <1>8

---------------------------------------------------------------------------
(* The invariant of the graph, and what it explains.                       *)

\* The types of what a task records: its approval, how it failed, and all of it.
Gates == {"none", "asked", "approved", "rejected"}
FailKinds == {"none", "interrupted", "landing", "worker"}
Task == [seq : Nat, deps : SUBSET Ids, status : Statuses, gate : Gates, kind : FailKinds,
         cand : BOOLEAN, manual : BOOLEAN, covers : SUBSET Ids]
\* The tasks were added one after the other.
Numbered(ts) ==
    \A i \in DOMAIN ts : ts[i].seq > 0 /\ \A j \in DOMAIN ts : ts[i].seq = ts[j].seq => i = j
\* A graph with ids for names, whose edges lead to its tasks and never back.
Sound(ts) ==
    /\ DOMAIN ts \subseteq Ids /\ ts \in [DOMAIN ts -> Task]
    /\ Closed(ts) /\ Rooted(ts) /\ Numbered(ts)
\* The inductive invariant of the task graph.
GraphInv ==
    Sound(tasks) /\ kit \in Kits /\ live \in BOOLEAN /\ ops \in Nat

\* A sound graph explains itself.
LEMMA SoundIsExplained ==
  ASSUME Sound(tasks)
  PROVE  Explained
<1> PICK ts : ts = tasks
  OBVIOUS
<1>1. Sound(ts) /\ Closed(ts) /\ Rooted(ts)
  BY DEF Sound
<1>2. ASSUME NEW i \in DOMAIN ts
      PROVE  ts[i] \in Task /\ ts[i].status \in Statuses /\ ts[i].deps \subseteq DOMAIN ts
  BY <1>1 DEF Sound, Task, Closed
<1> PICK stuck : stuck = DescribeStuck(ts)
  OBVIOUS
<1> DEFINE Reason(i) == IF ts[i].deps \ DOMAIN ts # {} THEN "missing"
                        ELSE IF DepUnusable(ts, i) \/ i \in TransitiveBlocked(ts) THEN "blocked"
                        ELSE IF GateBlocks(ts, i) /\ DepsMet(ts, i) THEN "approval"
                        ELSE IF DepsMet(ts, i) THEN "none" ELSE "waiting"
           open == {i \in DOMAIN ts : IsOpen(ts, i)}
<1>3. /\ DOMAIN stuck = {i \in open : Reason(i) # "none"}
      /\ \A i \in DOMAIN stuck : stuck[i] = Reason(i)
  <2>1. stuck = [i \in {j \in open : Reason(j) # "none"} |-> Reason(i)]
    BY DEF DescribeStuck
  <2> HIDE DEF Reason, open
  <2> QED BY <2>1
\* What is unusable next to a task is above it.
<1>4. ASSUME NEW i \in DOMAIN ts
      PROVE  DepUnusable(ts, i) \/ i \in TransitiveBlocked(ts) <=> FailedAbove(ts, i)
  <2>1. i \in TransitiveBlocked(ts) <=> FailedAbove(ts, i)
    BY <1>1, BlockedIsFailedAbove
  <2>2. ts[i].deps \subseteq Above(ts, i)
    BY <1>1, AboveIsClosure
  <2>3. DepUnusable(ts, i) => FailedAbove(ts, i)
    BY <2>2 DEF DepUnusable, FailedAbove
  <2> QED BY <2>1, <2>3
<1>5. ASSUME NEW i \in DOMAIN ts
      PROVE  Reason(i) = IF FailedAbove(ts, i) THEN "blocked"
                         ELSE IF GateBlocks(ts, i) /\ DepsMet(ts, i) THEN "approval"
                         ELSE IF DepsMet(ts, i) THEN "none" ELSE "waiting"
  <2>1. ts[i].deps \ DOMAIN ts = {}
    BY <1>2
  <2> QED BY <1>4, <2>1
<1>6. \A i \in DOMAIN ts : ts[i].deps \subseteq DOMAIN ts /\ i \notin Above(ts, i)
  BY <1>1, <1>2, NoTaskAboveItself
<1> HIDE DEF Reason
<1>7. open \ DOMAIN stuck \subseteq GetReady(ts)
  <2> SUFFICES ASSUME NEW i \in open, i \notin DOMAIN stuck
               PROVE  i \in GetReady(ts)
    OBVIOUS
  <2>1. i \in DOMAIN ts /\ IsOpen(ts, i) /\ Reason(i) = "none"
    BY <1>3
  <2>2. ~FailedAbove(ts, i) /\ DepsMet(ts, i) /\ ~GateBlocks(ts, i)
    BY <1>5, <2>1
  <2>3. ~DepUnusable(ts, i)
    BY <1>4, <2>1, <2>2
  <2> QED BY <2>1, <2>2, <2>3 DEF GetReady
<1>8. ASSUME NEW i \in DOMAIN stuck
      PROVE  /\ stuck[i] # "missing"
             /\ stuck[i] = "blocked" <=> FailedAbove(ts, i)
             /\ stuck[i] = "approval" => ~FailedAbove(ts, i) /\ ts[i].gate # "none"
             /\ stuck[i] = "waiting" => \E d \in ts[i].deps : ~IsTerminal(ts, d)
  <2>1. i \in DOMAIN ts /\ stuck[i] = Reason(i) /\ Reason(i) # "none"
    BY <1>3
  <2>2. stuck[i] = "approval" => ~FailedAbove(ts, i) /\ GateBlocks(ts, i)
    BY <1>5, <2>1
  <2>3. stuck[i] = "approval" => ~FailedAbove(ts, i) /\ ts[i].gate # "none"
    BY <2>2 DEF GateBlocks
  <2>4. ASSUME stuck[i] = "waiting"
        PROVE  \E d \in ts[i].deps : ~IsTerminal(ts, d)
    <3>1. ~FailedAbove(ts, i) /\ ~DepsMet(ts, i)
      BY <1>5, <2>1, <2>4
    <3>2. PICK d \in ts[i].deps : d \notin DOMAIN ts \/ ts[d].status # "completed"
      BY <3>1 DEF DepsMet
    <3>3. d \in DOMAIN ts /\ ts[d].status \notin Unusable
      BY <1>2, <1>4, <2>1, <3>1 DEF DepUnusable
    <3> QED BY <3>2, <3>3 DEF IsTerminal, Terminals, Unusable
  <2>5. stuck[i] # "missing" /\ (stuck[i] = "blocked" <=> FailedAbove(ts, i))
    BY <1>5, <2>1
  <2> QED BY <2>3, <2>4, <2>5
\* Where nothing launches and nothing runs, an open task that depends on no
\* other open one is blocked, or waits for an approval.
<1>9. ASSUME GetReady(ts) = {}, \A i \in DOMAIN ts : ts[i].status # "running", open # {}
      PROVE  \E i \in open : DeriveStatus(ts, i) \in {"blocked", "gated"}
  <2>1. PICK i \in open : ts[i].deps \cap open = {}
    <3>1. open \in SUBSET DOMAIN ts
      OBVIOUS
    <3> HIDE DEF open
    <3> QED BY <1>1, <1>9, <3>1 DEF Rooted
  <2>2. i \in DOMAIN ts /\ IsOpen(ts, i) /\ ts[i].status # "running" /\ ~IsTerminal(ts, i)
    BY <2>1 DEF IsOpen, IsTerminal, Terminals
  <2>3. CASE i \in TransitiveBlocked(ts)
    <3>1. DeriveStatus(ts, i) = "blocked"
      BY <2>2, <2>3 DEF DeriveStatus
    <3> QED BY <2>1, <3>1
  <2>4. CASE i \notin TransitiveBlocked(ts)
    <3>1. ~DepUnusable(ts, i)
      BY <1>1, <1>4, <2>2, <2>4, BlockedIsFailedAbove
    <3>2. ASSUME NEW d \in ts[i].deps
          PROVE  d \in DOMAIN ts /\ ts[d].status = "completed"
      <4>1. d \in DOMAIN ts /\ ts[d].status \notin Unusable
        BY <3>1 DEF DepUnusable
      <4>2. ~IsOpen(ts, d) /\ ts[d].status # "running" /\ ts[d].status \in Statuses
        BY <1>2, <1>9, <2>1, <4>1
      <4> QED BY <4>1, <4>2 DEF IsOpen, Statuses, Unusable
    <3>3. DepsMet(ts, i)
      BY <3>2 DEF DepsMet
    <3>4. GateBlocks(ts, i)
      BY <1>9, <2>2, <3>1, <3>3 DEF GetReady
    <3>5. DeriveStatus(ts, i) = "gated"
      BY <2>2, <2>4, <3>3, <3>4 DEF DeriveStatus
    <3> QED BY <2>1, <3>5
  <2> QED BY <2>3, <2>4
<1> QED BY <1>6, <1>7, <1>8, <1>9 DEF Explained

\* An operation that leaves the edges and the numbers alone keeps a graph sound.
LEMMA SameEdgesSound ==
  ASSUME NEW ts, Sound(ts), NEW us, us \in [DOMAIN ts -> Task],
         \A i \in DOMAIN ts : us[i].deps = ts[i].deps /\ us[i].seq = ts[i].seq
  PROVE  Sound(us) /\ SameEdges(ts, us)
<1>1. DOMAIN us = DOMAIN ts /\ SameEdges(ts, us)
  BY DEF SameEdges
<1>2. Closed(us) /\ Rooted(us)
  BY <1>1, SameEdgesSameAbove DEF Sound
<1>3. Numbered(us)
  BY <1>1 DEF Sound, Numbered
<1> QED BY <1>1, <1>2, <1>3 DEF Sound

\* Each task of a sound graph has its type.
LEMMA SoundTask ==
  ASSUME NEW ts, Sound(ts), NEW i \in DOMAIN ts
  PROVE  ts[i] \in Task /\ i \in Ids
BY DEF Sound

\* One task changed in place.
LEMMA OneTaskSound ==
  ASSUME NEW ts, Sound(ts), NEW i \in DOMAIN ts, NEW t \in Task,
         t.deps = ts[i].deps, t.seq = ts[i].seq
  PROVE  Sound([ts EXCEPT ![i] = t])
<1> DEFINE us == [ts EXCEPT ![i] = t]
<1>1. us \in [DOMAIN ts -> Task]
  BY DEF Sound
<1>2. \A j \in DOMAIN ts : us[j].deps = ts[j].deps /\ us[j].seq = ts[j].seq
  BY DEF Sound
<1> HIDE DEF us
<1>3. Sound(us)
  BY <1>1, <1>2, SameEdgesSound
<1> QED BY <1>3 DEF us

\* So has the task that addTask makes.
LEMMA NewTaskType ==
  ASSUME NEW n \in Nat, NEW deps \in SUBSET Ids, NEW manual \in BOOLEAN, NEW covers \in SUBSET Ids
  PROVE  NewTask(n, deps, manual, covers) \in Task
BY DEF NewTask, Task, Statuses, Gates, FailKinds

\* The graphs that a behaviour starts from are sound: each task depends on
\* earlier ones.
LEMMA InitSound ==
  ASSUME GraphInit
  PROVE  GraphInv
<1>1. PICK d \in [kit.first -> SUBSET kit.first] :
         /\ \A i \in kit.first : \A j \in d[i] : j < i
         /\ tasks = [i \in kit.first |-> NewTask(i, d[i], FALSE, {})]
  BY DEF GraphInit
<1>2. kit \in Kits /\ kit.first \subseteq Ids /\ kit.first \subseteq Nat \ {0}
  BY GraphAssumption DEF GraphInit
<1> PICK K : K = kit.first
  OBVIOUS
<1>3. DOMAIN tasks = K /\ \A i \in K : tasks[i] = NewTask(i, d[i], FALSE, {})
  BY <1>1
<1>4. \A i \in K : tasks[i] \in Task /\ tasks[i].deps = d[i] /\ tasks[i].seq = i
  <2> SUFFICES ASSUME NEW i \in K PROVE tasks[i] \in Task /\ tasks[i].deps = d[i] /\ tasks[i].seq = i
    OBVIOUS
  <2>1. i \in Nat /\ d[i] \in SUBSET Ids
    BY <1>1, <1>2
  <2>2. NewTask(i, d[i], FALSE, {}) \in Task
    BY <2>1, NewTaskType
  <2> QED BY <1>3, <2>2 DEF NewTask
<1>5. tasks \in [K -> Task]
  BY <1>1, <1>3, <1>4
<1>6. Closed(tasks)
  <2>1. \A i \in K : d[i] \in SUBSET K
    BY <1>1
  <2>2. K \subseteq Ids /\ \A i \in K : tasks[i].deps \subseteq K
    BY <1>2, <1>4, <2>1
  <2> QED BY <1>3, <2>2 DEF Closed
<1>7. Rooted(tasks)
  <2> SUFFICES ASSUME NEW S \in SUBSET K, S # {} PROVE \E i \in S : tasks[i].deps \cap S = {}
    BY <1>3 DEF Rooted
  <2>1. PICK i \in S : \A j \in S : i <= j
    BY <1>2, LeastNat
  <2>2. \A j \in d[i] : j < i /\ j \in Nat /\ i \in Nat
    BY <1>1, <1>2
  <2>3. \A j \in d[i] : j \notin S
    BY <2>1, <2>2
  <2> QED BY <1>4, <2>1, <2>3
<1>8. Numbered(tasks)
  <2> SUFFICES ASSUME NEW i \in K
               PROVE  tasks[i].seq > 0 /\ \A j \in K : tasks[i].seq = tasks[j].seq => i = j
    BY <1>3 DEF Numbered
  <2>1. i \in Nat /\ i # 0
    BY <1>2
  <2> QED BY <1>4, <2>1
<1>9. live \in BOOLEAN /\ ops \in Nat
  BY DEF GraphInit
<1> QED BY <1>2, <1>3, <1>5, <1>6, <1>7, <1>8, <1>9 DEF GraphInv, Sound

\* The next number is a new one.
LEMMA NextSeqIsNew ==
  ASSUME NEW ts, Sound(ts)
  PROVE  NextSeq(ts) \in Nat /\ \A i \in DOMAIN ts : ts[i].seq < NextSeq(ts)
<1> PICK D, S : D = DOMAIN ts /\ S = {ts[i].seq : i \in D}
  OBVIOUS
<1>1. D \in SUBSET Ids /\ IsFiniteSet(D)
  BY GraphAssumption, FS_Subset DEF Sound
<1>2. \A i \in D : ts[i].seq \in Nat
  BY SoundTask DEF Task
<1>3. S \in SUBSET Nat
  BY <1>2
<1>4. IsFiniteSet(S)
  <2>1. [i \in D |-> ts[i].seq] \in Surjection(D, S)
    BY DEF Surjection
  <2> QED BY <1>1, <2>1, FS_Surjection
<1>5. PICK R : R = {0} \cup S
  OBVIOUS
<1>6. R \in SUBSET Int /\ R # {} /\ IsFiniteSet(R) /\ R \subseteq Nat
  <2>1. IsFiniteSet(S \cup {0})
    BY <1>4, FS_AddElement
  <2>2. R = S \cup {0}
    BY <1>5
  <2> QED BY <1>3, <2>1, <2>2
<1>7. Max(R) \in R /\ \A k \in R : Max(R) >= k
  BY <1>6, MaxIsLargest
<1>8. NextSeq(ts) = Max(R) + 1
  BY <1>5 DEF NextSeq
<1>9. \A i \in D : ts[i].seq \in R
  BY <1>5
<1> PICK m : m = Max(R)
  OBVIOUS
<1>10. m \in Nat /\ \A k \in R : k \in Nat /\ k <= m
  BY <1>6, <1>7
<1>11. NextSeq(ts) = m + 1 /\ NextSeq(ts) \in Nat
  BY <1>8, <1>10
<1>12. \A i \in D : ts[i].seq \in Nat /\ ts[i].seq <= m
  BY <1>9, <1>10
<1>13. \A i \in D : ts[i].seq < m + 1
  BY <1>10, <1>12
<1> QED BY <1>11, <1>13

\* A task that comes last is depended on by nothing.
LEMMA WithTaskSound ==
  ASSUME NEW ts, Sound(ts), NEW i \in Ids, i \notin DOMAIN ts,
         NEW deps \in SUBSET DOMAIN ts, NEW manual \in BOOLEAN, NEW covers \in SUBSET Ids
  PROVE  Sound(WithTask(ts, i, deps, manual, covers))
<1> PICK us : us = WithTask(ts, i, deps, manual, covers)
  OBVIOUS
<1> PICK D, t : D = DOMAIN ts /\ t = NewTask(NextSeq(ts), deps, manual, covers)
  OBVIOUS
<1>1. us = [j \in D \cup {i} |-> IF j = i THEN t ELSE ts[j]]
  BY DEF WithTask
<1>2. DOMAIN us = D \cup {i} /\ us[i] = t /\ \A j \in D : us[j] = ts[j]
  BY <1>1
<1>3. D \subseteq Ids /\ (\A j \in D : ts[j].deps \subseteq D) /\ Rooted(ts) /\ Numbered(ts)
  BY DEF Sound, Closed
<1>4. t \in Task /\ t.deps = deps /\ t.seq = NextSeq(ts)
  <2>1. NextSeq(ts) \in Nat /\ deps \in SUBSET Ids
    BY <1>3, NextSeqIsNew
  <2>2. t \in Task
    BY <2>1, NewTaskType
  <2> QED BY <2>2 DEF NewTask
<1>5. \A j \in D \cup {i} : us[j] \in Task
  BY <1>2, <1>4, SoundTask
<1>6. us \in [D \cup {i} -> Task]
  BY <1>1, <1>2, <1>5
<1>7. Closed(us)
  BY <1>2, <1>3, <1>4 DEF Closed
<1>8. Rooted(us)
  <2> SUFFICES ASSUME NEW S \in SUBSET (D \cup {i}), S # {} PROVE \E j \in S : us[j].deps \cap S = {}
    BY <1>2 DEF Rooted
  <2>1. CASE S \subseteq {i}
    <3>1. S = {i}
      BY <2>1
    <3> QED BY <1>2, <1>4, <3>1
  <2>2. CASE ~ (S \subseteq {i})
    <3>1. S \ {i} \in SUBSET D /\ S \ {i} # {}
      BY <2>2
    <3>2. PICK j \in S \ {i} : ts[j].deps \cap (S \ {i}) = {}
      BY <1>3, <3>1 DEF Rooted
    <3>3. j \in D /\ i \notin ts[j].deps
      BY <1>3, <3>1
    <3> QED BY <1>2, <3>2, <3>3
  <2> QED BY <2>1, <2>2
<1>9. Numbered(us)
  <2>1. \A j \in D : ts[j].seq > 0 /\ ts[j].seq < NextSeq(ts) /\ ts[j].seq \in Nat
    BY <1>3, NextSeqIsNew, SoundTask DEF Numbered, Task
  <2>2. NextSeq(ts) \in Nat /\ NextSeq(ts) > 0
    <3>1. NextSeq(ts) \in Nat
      BY NextSeqIsNew
    <3>2. CASE D = {}
      <4>1. NextSeq(ts) = Max({0}) + 1
        <5>1. {ts[j].seq : j \in DOMAIN ts} = {}
          BY <3>2
        <5> QED BY <5>1 DEF NextSeq
      <4>2. IsFiniteSet({0})
        BY FS_EmptySet, FS_AddElement, {} \cup {0} = {0}
      <4>3. Max({0}) \in {0}
        BY <4>2, MaxIsLargest
      <4> QED BY <4>1, <4>3
    <3>3. CASE D # {}
      BY <2>1, <3>1, <3>3
    <3> QED BY <3>1, <3>2, <3>3
  <2>3. ASSUME NEW j \in D \cup {i}, NEW k \in D \cup {i}
        PROVE  us[j].seq > 0 /\ (us[j].seq = us[k].seq => j = k)
    <3>1. CASE j \in D /\ k \in D
      <4>1. ts[j].seq = ts[k].seq => j = k
        BY <1>3, <3>1 DEF Numbered
      <4> QED BY <1>2, <2>1, <3>1, <4>1
    <3>2. CASE j \in D /\ k = i
      BY <1>2, <1>4, <2>1, <2>2, <3>2
    <3>3. CASE j = i /\ k \in D
      BY <1>2, <1>4, <2>1, <2>2, <3>3
    <3>4. CASE j = i /\ k = i
      BY <1>2, <1>4, <2>2, <3>4
    <3> QED BY <3>1, <3>2, <3>3, <3>4
  <2> QED BY <1>2, <2>3 DEF Numbered
<1> QED BY <1>2, <1>3, <1>6, <1>7, <1>8, <1>9 DEF Sound

\* New dependencies that would close a cycle are rolled back.
LEMMA EditedSound ==
  ASSUME NEW ts, Sound(ts), NEW i \in DOMAIN ts, NEW deps \in SUBSET DOMAIN ts
  PROVE  Sound(Edited(ts, i, deps))
<1> PICK new : new = [ts EXCEPT ![i].deps = deps, ![i].cand = FALSE]
  OBVIOUS
<1>1. Edited(ts, i, deps) = IF AssertNoCycle(new) THEN new ELSE ts
  BY DEF Edited
<1>2. new = [ts EXCEPT ![i] = [[@ EXCEPT !.deps = deps] EXCEPT !.cand = FALSE]]
  BY DEF Sound, Task
<1>3. /\ DOMAIN new = DOMAIN ts /\ new[i].deps = deps /\ new[i].seq = ts[i].seq
      /\ new[i] \in Task /\ \A j \in DOMAIN ts : j # i => new[j] = ts[j]
  <2>1. ts[i] \in Task /\ deps \subseteq Ids
    BY DEF Sound
  <2>2. DOMAIN new = DOMAIN ts /\ \A j \in DOMAIN ts : j # i => new[j] = ts[j]
    BY <1>2 DEF Sound
  <2>3. new[i] = [[ts[i] EXCEPT !.deps = deps] EXCEPT !.cand = FALSE]
    BY <1>2 DEF Sound
  <2>4. new[i] \in Task /\ new[i].deps = deps /\ new[i].seq = ts[i].seq
    BY <2>1, <2>3 DEF Task
  <2> QED BY <2>2, <2>4
<1>4. new \in [DOMAIN ts -> Task]
  BY <1>2, <1>3, SoundTask DEF Sound
<1>5. Closed(new)
  BY <1>3 DEF Sound, Closed
<1>6. Numbered(new)
  <2>1. \A j \in DOMAIN ts : new[j].seq = ts[j].seq
    BY <1>3
  <2> QED BY <1>3, <2>1 DEF Sound, Numbered
<1>7. AssertNoCycle(new) => Rooted(new)
  BY <1>5, NoCycleIsRooted
<1>8. AssertNoCycle(new) => Sound(new)
  BY <1>3, <1>4, <1>5, <1>6, <1>7 DEF Sound
<1> QED BY <1>1, <1>8

\* A removed task goes from the dependencies of the others too.
LEMMA WithoutSound ==
  ASSUME NEW ts, Sound(ts), NEW i \in DOMAIN ts
  PROVE  Sound(Without(ts, i))
<1> PICK us, D : us = Without(ts, i) /\ D = DOMAIN ts \ {i}
  OBVIOUS
<1>1. us = [j \in D |-> [ts[j] EXCEPT !.deps = @ \ {i}]]
  BY DEF Without
<1>2. D \subseteq Ids /\ D \subseteq DOMAIN ts /\ DOMAIN us = D
  BY <1>1 DEF Sound
<1>3. \A j \in D : us[j] \in Task /\ us[j].deps = ts[j].deps \ {i} /\ us[j].seq = ts[j].seq
  <2> SUFFICES ASSUME NEW j \in D
               PROVE  us[j] \in Task /\ us[j].deps = ts[j].deps \ {i} /\ us[j].seq = ts[j].seq
    OBVIOUS
  <2>1. ts[j] \in Task
    BY <1>2, SoundTask
  <2>2. us[j] = [ts[j] EXCEPT !.deps = ts[j].deps \ {i}]
    BY <1>1
  <2> QED BY <2>1, <2>2 DEF Task
<1>4. us \in [D -> Task]
  BY <1>1, <1>2, <1>3
<1>5. Closed(us)
  BY <1>2, <1>3 DEF Sound, Closed
<1>6. Rooted(us)
  <2> SUFFICES ASSUME NEW S \in SUBSET D, S # {} PROVE \E j \in S : us[j].deps \cap S = {}
    BY <1>2 DEF Rooted
  <2>1. S \in SUBSET DOMAIN ts
    BY <1>2
  <2>2. PICK j \in S : ts[j].deps \cap S = {}
    BY <2>1 DEF Sound, Rooted
  <2> QED BY <1>3, <2>1, <2>2
<1>7. Numbered(us)
  BY <1>2, <1>3 DEF Sound, Numbered
<1> QED BY <1>2, <1>4, <1>5, <1>6, <1>7 DEF Sound

\* A retry of a task keeps its type, edges and number.
LEMMA RequeuedTask ==
  ASSUME NEW t \in Task
  PROVE  /\ Requeued(t) \in Task /\ Requeued(t).deps = t.deps /\ Requeued(t).seq = t.seq
         /\ Requeued(t).status = "pending"
BY DEF Requeued, Task, Statuses, FailKinds

\* So does a change of its status, with or without the kind of its failure.
LEMMA SkippedTask ==
  ASSUME NEW t \in Task
  PROVE  /\ \A s \in Statuses : /\ [t EXCEPT !.status = s] \in Task
                                /\ [t EXCEPT !.status = s].deps = t.deps
                                /\ [t EXCEPT !.status = s].seq = t.seq
                                /\ [t EXCEPT !.status = s].status = s
                                /\ [t EXCEPT !.status = s].gate = t.gate
         /\ \A s \in Statuses, k \in FailKinds :
               /\ [t EXCEPT !.status = s, !.kind = k] \in Task
               /\ [t EXCEPT !.status = s, !.kind = k].deps = t.deps
               /\ [t EXCEPT !.status = s, !.kind = k].seq = t.seq
               /\ [t EXCEPT !.status = s, !.kind = k].status = s
               /\ [t EXCEPT !.status = s, !.kind = k].gate = t.gate
BY DEF Task

\* skipBlocked.
LEMMA SkipBlockedSound ==
  ASSUME NEW ts, Sound(ts), NEW only
  PROVE  /\ Sound(SkipBlocked(ts, only)) /\ SameEdges(ts, SkipBlocked(ts, only))
         /\ \A i \in DOMAIN ts :
               /\ SkipBlocked(ts, only)[i].gate = ts[i].gate
               /\ SkipBlocked(ts, only)[i].status =
                     IF i \in only \cap GetBlocked(ts) THEN "skipped" ELSE ts[i].status
<1> PICK us : us = SkipBlocked(ts, only)
  OBVIOUS
<1> DEFINE Skipped(t) == [t EXCEPT !.status = "skipped", !.kind = "none"]
<1>1. us = [i \in DOMAIN ts |-> IF i \in only \cap GetBlocked(ts) THEN Skipped(ts[i]) ELSE ts[i]]
  BY DEF SkipBlocked
<1>2. \A t \in Task : /\ Skipped(t) \in Task /\ Skipped(t).deps = t.deps /\ Skipped(t).seq = t.seq
                      /\ Skipped(t).status = "skipped" /\ Skipped(t).gate = t.gate
  BY DEF Task, Statuses, FailKinds
<1> HIDE DEF Skipped
<1>3. ASSUME NEW i \in DOMAIN ts
      PROVE  /\ us[i] \in Task /\ us[i].deps = ts[i].deps /\ us[i].seq = ts[i].seq
             /\ us[i].gate = ts[i].gate
             /\ us[i].status = IF i \in only \cap GetBlocked(ts) THEN "skipped" ELSE ts[i].status
  <2>1. ts[i] \in Task
    BY SoundTask
  <2>2. us[i] = IF i \in only \cap GetBlocked(ts) THEN Skipped(ts[i]) ELSE ts[i]
    BY <1>1
  <2> QED BY <1>2, <2>1, <2>2
<1>4. us \in [DOMAIN ts -> Task]
  BY <1>1, <1>3
<1>5. Sound(us) /\ SameEdges(ts, us)
  BY <1>3, <1>4, SameEdgesSound
<1> QED BY <1>3, <1>5

\* skipGated.
LEMMA SkipGatedSound ==
  ASSUME NEW ts, Sound(ts), NEW only
  PROVE  /\ Sound(SkipGated(ts, only)) /\ SameEdges(ts, SkipGated(ts, only))
         /\ \A i \in DOMAIN ts :
               SkipGated(ts, only)[i].status =
                  IF i \in only /\ IsOpen(ts, i) /\ GateBlocks(ts, i) /\ DepsMet(ts, i)
                  THEN "skipped" ELSE ts[i].status
<1> PICK us : us = SkipGated(ts, only)
  OBVIOUS
<1> DEFINE Skipped(t) == [t EXCEPT !.status = "skipped"]
           Gate(i) == i \in only /\ IsOpen(ts, i) /\ GateBlocks(ts, i) /\ DepsMet(ts, i)
<1>1. us = [i \in DOMAIN ts |-> IF Gate(i) THEN Skipped(ts[i]) ELSE ts[i]]
  BY DEF SkipGated
<1>2. \A t \in Task : /\ Skipped(t) \in Task /\ Skipped(t).deps = t.deps /\ Skipped(t).seq = t.seq
                      /\ Skipped(t).status = "skipped"
  BY SkippedTask DEF Statuses
<1> HIDE DEF Skipped, Gate
<1>3. ASSUME NEW i \in DOMAIN ts
      PROVE  /\ us[i] \in Task /\ us[i].deps = ts[i].deps /\ us[i].seq = ts[i].seq
             /\ us[i].status = IF Gate(i) THEN "skipped" ELSE ts[i].status
  <2>1. ts[i] \in Task
    BY SoundTask
  <2>2. us[i] = IF Gate(i) THEN Skipped(ts[i]) ELSE ts[i]
    BY <1>1
  <2> QED BY <1>2, <2>1, <2>2
<1>4. us \in [DOMAIN ts -> Task]
  BY <1>1, <1>3
<1>5. Sound(us) /\ SameEdges(ts, us)
  BY <1>3, <1>4, SameEdgesSound
<1> QED BY <1>3, <1>5 DEF Gate

\* What one retry does: to the task and, with the cascade, to what failed below.
LEMMA RetriedSound ==
  ASSUME NEW ts, Sound(ts), NEW i \in DOMAIN ts, NEW cascade \in BOOLEAN
  PROVE  /\ Sound(Retried(ts, i, cascade)) /\ SameEdges(ts, Retried(ts, i, cascade))
         /\ Retried(ts, i, cascade) \in [DOMAIN ts -> Task]
         /\ Retried(ts, i, cascade)[i].status = "pending"
         /\ \A j \in DOMAIN ts :
               /\ Retried(ts, i, cascade)[j].seq = ts[j].seq
               /\ Retried(ts, i, cascade)[j].status \in {ts[j].status, "pending"}
               /\ cascade /\ ts[j].status \in Unusable /\ i \in Above(ts, j) =>
                     Retried(ts, i, cascade)[j].status = "pending"
<1> PICK us : us = Retried(ts, i, cascade)
  OBVIOUS
<1> DEFINE Hit(j) == j = i \/ (cascade /\ ts[j].status \in Unusable /\ IsDescendant(ts, j, i))
<1>1. us = [j \in DOMAIN ts |-> IF Hit(j) THEN Requeued(ts[j]) ELSE ts[j]]
  BY DEF Retried
<1>2. ASSUME NEW j \in DOMAIN ts
      PROVE  IsDescendant(ts, j, i) <=> i \in Above(ts, j)
  <2>1. TransitiveDepSet(ts, j) = Above(ts, j)
    BY DepSetIsAbove DEF Sound
  <2> QED BY <2>1 DEF IsDescendant
<1>3. \A j \in DOMAIN ts : cascade /\ ts[j].status \in Unusable /\ i \in Above(ts, j) => Hit(j)
  BY <1>2
<1>4. Hit(i)
  OBVIOUS
<1> HIDE DEF Hit
<1>5. ASSUME NEW j \in DOMAIN ts
      PROVE  /\ us[j] \in Task /\ us[j].deps = ts[j].deps /\ us[j].seq = ts[j].seq
             /\ us[j].status = IF Hit(j) THEN "pending" ELSE ts[j].status
  <2>1. ts[j] \in Task
    BY SoundTask
  <2>2. us[j] = IF Hit(j) THEN Requeued(ts[j]) ELSE ts[j]
    BY <1>1
  <2> QED BY <2>1, <2>2, RequeuedTask
<1>6. us \in [DOMAIN ts -> Task]
  BY <1>1, <1>5
<1>7. Sound(us) /\ SameEdges(ts, us)
  BY <1>5, <1>6, SameEdgesSound
<1> QED BY <1>3, <1>4, <1>5, <1>6, <1>7

\* What the recursion of RetriedFailed computes: the graph after each round.
PassAt(ts, cascade, f, n) ==
    IF n = 0 THEN ts
    ELSE LET failed == {i \in DOMAIN ts : ts[i].seq = n /\ ts[i].status \in Unusable}
         IN  IF failed = {} THEN f[n - 1]
             ELSE Retried(f[n - 1], CHOOSE i \in failed : TRUE, cascade)
PassRule(ts, cascade, f) == f = [n \in Nat |-> PassAt(ts, cascade, f, n)]

\* The rounds of retry-failed exist, and the last one is its result.
LEMMA PassExists ==
  ASSUME NEW ts, Sound(ts), NEW cascade \in BOOLEAN
  PROVE  \E f : PassRule(ts, cascade, f) /\ RetriedFailed(ts, cascade) = f[NextSeq(ts)]
<1> DEFINE failed(n) == {i \in DOMAIN ts : ts[i].seq = n /\ ts[i].status \in Unusable}
           V == [DOMAIN ts -> Task]
           Step(n, us) == IF failed(n) = {} THEN us
                          ELSE Retried(us, CHOOSE i \in failed(n) : TRUE, cascade)
           step == [n \in Nat |-> [us \in V |-> Step(n + 1, us)]]
<1>1. ASSUME NEW n \in Nat, NEW us \in V
      PROVE  Step(n + 1, us) \in V
  <2>1. CASE failed(n + 1) = {}
    BY <2>1
  <2>2. CASE failed(n + 1) # {}
    <3>1. PICK i : i = CHOOSE j \in failed(n + 1) : TRUE
      OBVIOUS
    <3>2. Step(n + 1, us) = Retried(us, i, cascade)
      BY <2>2, <3>1
    <3> DEFINE Hit(j) == j = i \/ (cascade /\ us[j].status \in Unusable /\ IsDescendant(us, j, i))
    <3>3. Retried(us, i, cascade) = [j \in DOMAIN ts |-> IF Hit(j) THEN Requeued(us[j]) ELSE us[j]]
      BY DEF Retried
    <3> HIDE DEF Hit
    <3>4. \A j \in DOMAIN ts : us[j] \in Task /\ Requeued(us[j]) \in Task
      BY RequeuedTask
    <3> QED BY <3>2, <3>3, <3>4
  <2> QED BY <2>1, <2>2
<1>2. step \in [Nat -> [V -> V]]
  <2> HIDE DEF Step, V
  <2> QED BY <1>1
<1>3. ts \in V
  BY DEF Sound
<1>4. PICK f : Iterates(f, V, ts, step)
  <2> HIDE DEF step, V
  <2> QED BY <1>2, <1>3, NatRecursion
<1>5. f \in [Nat -> V] /\ f[0] = ts /\ \A n \in Nat : f[n + 1] = Step(n + 1, f[n])
  <2>1. f \in [Nat -> V] /\ f[0] = ts /\ \A n \in Nat : f[n + 1] = step[n][f[n]]
    BY <1>4 DEF Iterates
  <2>2. \A n \in Nat : f[n] \in V
    BY <2>1
  <2>3. \A n \in Nat : step[n][f[n]] = Step(n + 1, f[n])
    <3> HIDE DEF Step, V
    <3> QED BY <2>2
  <2> HIDE DEF Step, V, step
  <2> QED BY <2>1, <2>3
<1>6. \A n \in Nat : f[n] = PassAt(ts, cascade, f, n)
  <2> SUFFICES ASSUME NEW n \in Nat PROVE f[n] = PassAt(ts, cascade, f, n)
    OBVIOUS
  <2>1. CASE n = 0
    BY <1>5, <2>1 DEF PassAt
  <2>2. CASE n # 0
    <3>1. n - 1 \in Nat /\ (n - 1) + 1 = n
      BY <2>2
    <3>2. f[(n - 1) + 1] = Step((n - 1) + 1, f[n - 1])
      <4> HIDE DEF Step, V
      <4> QED BY <1>5, <3>1
    <3>3. f[n] = Step(n, f[n - 1])
      <4> HIDE DEF Step
      <4> QED BY <3>1, <3>2
    <3>4. PassAt(ts, cascade, f, n) = Step(n, f[n - 1])
      BY <2>2, Zenon DEF PassAt
    <3> HIDE DEF Step
    <3> QED BY <3>3, <3>4
  <2> QED BY <2>1, <2>2
<1>7. PassRule(ts, cascade, f)
  <2>1. f = [n \in Nat |-> f[n]]
    BY <1>5
  <2> HIDE DEF V, Step
  <2> QED BY <1>6, <2>1 DEF PassRule
<1> DEFINE h == CHOOSE g : PassRule(ts, cascade, g)
<1>8. PassRule(ts, cascade, h)
  BY <1>7, Zenon
<1>9. RetriedFailed(ts, cascade) = h[NextSeq(ts)]
  BY DEF RetriedFailed, PassRule, PassAt
<1> HIDE DEF h
<1> QED BY <1>8, <1>9

\* Every task that was failed or skipped is pending after retry-failed.
LEMMA RetriedFailedSound ==
  ASSUME NEW ts, Sound(ts), NEW cascade \in BOOLEAN
  PROVE  /\ Sound(RetriedFailed(ts, cascade)) /\ SameEdges(ts, RetriedFailed(ts, cascade))
         /\ \A i \in DOMAIN ts : RetriedFailed(ts, cascade)[i].status \notin Unusable
<1>1. PICK f : PassRule(ts, cascade, f) /\ RetriedFailed(ts, cascade) = f[NextSeq(ts)]
  BY PassExists
<1>2. \A n \in Nat : f[n] = PassAt(ts, cascade, f, n)
  BY <1>1 DEF PassRule
<1> DEFINE failed(n) == {i \in DOMAIN ts : ts[i].seq = n /\ ts[i].status \in Unusable}
           Good(n) == /\ Sound(f[n]) /\ SameEdges(ts, f[n])
                      /\ \A i \in DOMAIN ts :
                            /\ f[n][i].status \in {ts[i].status, "pending"}
                            /\ ts[i].seq <= n => f[n][i].status \notin Unusable
           Bad == {n \in Nat : ~Good(n)}
<1>3. Good(0)
  <2>1. f[0] = ts
    BY <1>2 DEF PassAt
  <2>2. \A i \in DOMAIN ts : ts[i].seq \in Nat /\ ts[i].seq > 0
    BY SoundTask DEF Task, Sound, Numbered
  <2> QED BY <2>1, <2>2 DEF SameEdges
<1>4. ASSUME NEW n \in Nat, n # 0, Good(n - 1)
      PROVE  Good(n)
  <2>1. PICK us, vs : us = f[n - 1] /\ vs = f[n]
    OBVIOUS
  <2>2. n - 1 \in Nat /\ Sound(us) /\ SameEdges(ts, us) /\ DOMAIN us = DOMAIN ts
    BY <1>4, <2>1 DEF SameEdges
  <2>3. \A i \in DOMAIN ts : ts[i].seq \in Nat
    BY SoundTask DEF Task
  <2>4. CASE failed(n) = {}
    <3>1. vs = us
      BY <1>2, <1>4, <2>1, <2>4 DEF PassAt
    <3>2. ASSUME NEW i \in DOMAIN ts
          PROVE  /\ vs[i].status \in {ts[i].status, "pending"}
                 /\ ts[i].seq <= n => vs[i].status \notin Unusable
      <4>1. us[i].status \in {ts[i].status, "pending"} /\ (ts[i].seq <= n - 1 => us[i].status \notin Unusable)
        BY <1>4, <2>1
      <4>2. ts[i].seq = n => ts[i].status \notin Unusable
        BY <2>4
      <4>3. ts[i].seq <= n => ts[i].seq <= n - 1 \/ ts[i].seq = n
        BY <2>3
      <4> QED BY <3>1, <4>1, <4>2, <4>3 DEF Unusable
    <3> QED BY <2>1, <2>2, <3>1, <3>2
  <2>5. CASE failed(n) # {}
    <3>1. PICK k : k = CHOOSE i \in failed(n) : TRUE
      OBVIOUS
    <3>2. k \in failed(n)
      BY <2>5, <3>1
    <3>3. vs = Retried(us, k, cascade)
      BY <1>2, <1>4, <2>1, <2>5, <3>1, Zenon DEF PassAt
    <3>4. k \in DOMAIN us
      BY <2>2, <3>2
    <3>5. /\ Sound(vs) /\ SameEdges(us, vs) /\ vs[k].status = "pending"
          /\ \A j \in DOMAIN us : vs[j].status \in {us[j].status, "pending"}
      BY <2>2, <3>3, <3>4, RetriedSound
    <3>6. SameEdges(ts, vs)
      BY <2>2, <3>5 DEF SameEdges
    <3>7. ASSUME NEW i \in DOMAIN ts
          PROVE  /\ vs[i].status \in {ts[i].status, "pending"}
                 /\ ts[i].seq <= n => vs[i].status \notin Unusable
      <4>1. us[i].status \in {ts[i].status, "pending"} /\ (ts[i].seq <= n - 1 => us[i].status \notin Unusable)
        BY <1>4, <2>1
      <4>2. ts[i].seq = n => i = k
        BY <3>2 DEF Sound, Numbered
      <4>3. ts[i].seq <= n => ts[i].seq <= n - 1 \/ ts[i].seq = n
        BY <2>3
      <4>4. vs[i].status \in {us[i].status, "pending"}
        BY <2>2, <3>5
      <4> QED BY <3>5, <4>1, <4>2, <4>3, <4>4 DEF Unusable
    <3> QED BY <2>1, <3>5, <3>6, <3>7
  <2> QED BY <2>4, <2>5
<1>5. Bad = {}
  <2> SUFFICES ASSUME Bad # {} PROVE FALSE
    OBVIOUS
  <2>1. PICK n \in Bad : \A k \in Bad : n <= k
    <3>1. Bad \in SUBSET Nat
      OBVIOUS
    <3> HIDE DEF Bad
    <3> QED BY <3>1, LeastNat
  <2>2. n \in Nat /\ ~Good(n)
    BY <2>1
  <2> HIDE DEF Good
  <2>3. n # 0
    BY <1>3, <2>2
  <2>4. n - 1 \in Nat /\ n - 1 \notin Bad
    BY <2>1, <2>2, <2>3
  <2>5. Good(n - 1)
    BY <2>4
  <2> QED BY <1>4, <2>2, <2>3, <2>5
<1>6. PICK N : N = NextSeq(ts)
  OBVIOUS
<1>7. N \in Nat /\ \A i \in DOMAIN ts : ts[i].seq < N /\ ts[i].seq \in Nat
  BY <1>6, NextSeqIsNew, SoundTask DEF Task
<1>8. Good(N)
  <2> HIDE DEF Good
  <2> QED BY <1>5, <1>7
<1>9. \A i \in DOMAIN ts : ts[i].seq <= N
  BY <1>7
<1> QED BY <1>1, <1>6, <1>8, <1>9

\* recoverInterrupted.
LEMMA RecoveredSound ==
  ASSUME NEW ts, Sound(ts)
  PROVE  Sound(Recovered(ts))
<1> PICK us : us = Recovered(ts)
  OBVIOUS
<1> DEFINE Back(t) == [t EXCEPT !.status = "pending", !.kind = "interrupted"]
<1>1. us = [i \in DOMAIN ts |-> IF ts[i].status = "running" THEN Back(ts[i]) ELSE ts[i]]
  BY DEF Recovered
<1>2. \A t \in Task : Back(t) \in Task /\ Back(t).deps = t.deps /\ Back(t).seq = t.seq
  BY DEF Task, Statuses, FailKinds
<1> HIDE DEF Back
<1>3. \A i \in DOMAIN ts : us[i] \in Task /\ us[i].deps = ts[i].deps /\ us[i].seq = ts[i].seq
  BY <1>1, <1>2, SoundTask
<1>4. us \in [DOMAIN ts -> Task]
  BY <1>1, <1>3
<1> QED BY <1>3, <1>4, SameEdgesSound

\* The completed tasks of a selection are tasks.
LEMMA SelectionsAreTasks ==
  ASSUME Sound(tasks), NEW S \in Selections
  PROVE  S \subseteq DOMAIN tasks
<1>1. ASSUME NEW i \in DOMAIN tasks
      PROVE  TransitiveDepSet(tasks, i) \subseteq DOMAIN tasks
  BY DepSetIsAbove, AboveIsClosure DEF Sound
<1>2. \/ S \subseteq DOMAIN tasks
      \/ \E i \in DOMAIN tasks : S = {i} \cup TransitiveDepSet(tasks, i)
  BY DEF Selections
<1> QED BY <1>1, <1>2

\* One field of one task.
LEMMA OneFieldSound ==
  ASSUME NEW ts, Sound(ts), NEW i \in DOMAIN ts
  PROVE  /\ \A s \in Statuses : Sound([ts EXCEPT ![i].status = s])
         /\ \A g \in Gates : Sound([ts EXCEPT ![i].gate = g])
<1>1. ts[i] \in Task
  BY SoundTask
<1>2. ASSUME NEW s \in Statuses
      PROVE  Sound([ts EXCEPT ![i].status = s])
  <2>1. PICK t : t = [ts[i] EXCEPT !.status = s]
    OBVIOUS
  <2>2. t \in Task /\ t.deps = ts[i].deps /\ t.seq = ts[i].seq
    BY <1>1, <2>1 DEF Task
  <2>3. [ts EXCEPT ![i].status = s] = [ts EXCEPT ![i] = t]
    BY <2>1 DEF Sound
  <2> QED BY <2>2, <2>3, OneTaskSound
<1>3. ASSUME NEW g \in Gates
      PROVE  Sound([ts EXCEPT ![i].gate = g])
  <2>1. PICK t : t = [ts[i] EXCEPT !.gate = g]
    OBVIOUS
  <2>2. t \in Task /\ t.deps = ts[i].deps /\ t.seq = ts[i].seq
    BY <1>1, <2>1 DEF Task
  <2>3. [ts EXCEPT ![i].gate = g] = [ts EXCEPT ![i] = t]
    BY <2>1 DEF Sound
  <2> QED BY <2>2, <2>3, OneTaskSound
<1> QED BY <1>2, <1>3

\* setGate.
LEMMA GatedSound ==
  ASSUME NEW ts, Sound(ts), NEW i \in DOMAIN ts
  PROVE  Sound(Gated(ts, i))
<1> PICK us : us = Gated(ts, i)
  OBVIOUS
<1>1. PICK t : t = [[ts[i] EXCEPT !.gate = "asked"] EXCEPT !.status = IF @ = "pending" THEN "ready" ELSE @]
  OBVIOUS
<1>2. ts[i] \in Task
  BY SoundTask
<1>3. t \in Task /\ t.deps = ts[i].deps /\ t.seq = ts[i].seq
  BY <1>1, <1>2 DEF Task, Statuses, Gates
<1>4. us = [ts EXCEPT ![i] = t]
  BY <1>1, <1>2 DEF Gated, Sound, Task
<1>5. Sound([ts EXCEPT ![i] = t])
  BY <1>3, OneTaskSound
<1> QED BY <1>4, <1>5

\* What a task ends as.
LEMMA FinishedSound ==
  ASSUME NEW ts, Sound(ts), NEW i \in DOMAIN ts,
         NEW t \in {[ts[i] EXCEPT !.status = "completed", !.kind = "none", !.cand = TRUE],
                    [ts[i] EXCEPT !.status = "failed", !.kind = "landing", !.cand = TRUE],
                    [ts[i] EXCEPT !.status = "failed", !.kind = "worker"]}
  PROVE  Sound([ts EXCEPT ![i] = t])
<1>1. ts[i] \in Task
  BY SoundTask
<1>2. t \in Task /\ t.deps = ts[i].deps /\ t.seq = ts[i].seq
  BY <1>1 DEF Task, Statuses, FailKinds
<1> QED BY <1>2, OneTaskSound

\* The set command, on any selection.
LEMMA SetSound ==
  ASSUME NEW ts, Sound(ts), NEW S, NEW manual \in BOOLEAN
  PROVE  Sound([i \in DOMAIN ts |-> IF i \in S /\ ts[i].status # "running"
                                    THEN [ts[i] EXCEPT !.manual = manual] ELSE ts[i]])
<1> DEFINE Set(t) == [t EXCEPT !.manual = manual]
           Hit(i) == i \in S /\ ts[i].status # "running"
<1> PICK us : us = [i \in DOMAIN ts |-> IF Hit(i) THEN Set(ts[i]) ELSE ts[i]]
  OBVIOUS
<1>1. \A t \in Task : Set(t) \in Task /\ Set(t).deps = t.deps /\ Set(t).seq = t.seq
  BY DEF Task
<1>2. Sound(us)
  <2> HIDE DEF Set, Hit
  <2>1. \A i \in DOMAIN ts : us[i] \in Task /\ us[i].deps = ts[i].deps /\ us[i].seq = ts[i].seq
    BY <1>1, SoundTask
  <2>2. us \in [DOMAIN ts -> Task]
    BY <2>1
  <2> QED BY <2>1, <2>2, SameEdgesSound
<1> QED BY <1>2

\* No command and no runner makes a cycle, or leaves an edge to what is not there.
LEMMA GraphStep ==
  ASSUME GraphInv, [GraphNext]_graphVars
  PROVE  GraphInv'
<1> USE DEF GraphInv
<1>0. Sound(tasks) /\ DOMAIN tasks \subseteq Ids
  BY DEF Sound
<1>1. CASE UNCHANGED graphVars
  BY <1>1 DEF graphVars
<1>2. ASSUME NEW c, Command(c)
      PROVE  kit' \in Kits /\ live' \in BOOLEAN /\ ops' \in Nat
  BY <1>2 DEF Command
<1>3. ASSUME NEW i \in Ids, AddCmd(i)
      PROVE  GraphInv'
  <2>1. Command("add") /\ i \notin DOMAIN tasks
    BY <1>3 DEF AddCmd, Free
  <2>2. PICK deps \in SUBSET DOMAIN tasks, manual \in BOOLEAN : tasks' = WithTask(tasks, i, deps, manual, {})
    BY <1>3 DEF AddCmd
  <2>3. Sound(tasks')
    <3>1. {} \in SUBSET Ids
      OBVIOUS
    <3>2. Sound(WithTask(tasks, i, deps, manual, {}))
      BY <1>0, <2>1, <3>1, WithTaskSound
    <3> QED BY <2>2, <3>2
  <2> QED BY <1>2, <2>1, <2>3
<1>4. ASSUME NEW i \in Ids, ChainReviewCmd(i)
      PROVE  GraphInv'
  <2>1. Command("chain") /\ i \notin DOMAIN tasks
    BY <1>4 DEF ChainReviewCmd, Free
  <2>2. PICK S \in Selections : \E done \in SUBSET S : tasks' = WithTask(tasks, i, done, FALSE, done)
    <3>1. PICK S \in Selections :
             \E done \in {{j \in S : tasks[j].status = "completed" /\ tasks[j].covers = {}}} :
                tasks' = WithTask(tasks, i, done, FALSE, done)
      BY <1>4 DEF ChainReviewCmd
    <3> QED BY <3>1
  <2> PICK done \in SUBSET S : tasks' = WithTask(tasks, i, done, FALSE, done)
    BY <2>2
  <2>3. done \in SUBSET DOMAIN tasks /\ done \in SUBSET Ids /\ FALSE \in BOOLEAN
    BY <1>0, SelectionsAreTasks
  <2>4. Sound(tasks')
    <3>1. Sound(WithTask(tasks, i, done, FALSE, done))
      BY <1>0, <2>1, <2>3, WithTaskSound
    <3> QED BY <3>1
  <2> QED BY <1>2, <2>1, <2>4
<1>5. ASSUME NEW i \in DOMAIN tasks, EditCmd(i)
      PROVE  GraphInv'
  <2>1. PICK deps \in SUBSET DOMAIN tasks : tasks' = Edited(tasks, i, deps)
    BY <1>5 DEF EditCmd
  <2>2. Sound(tasks')
    BY <1>0, <2>1, EditedSound
  <2> QED BY <1>2, <1>5, <2>2 DEF EditCmd
<1>6. ASSUME NEW i \in DOMAIN tasks, EditStatusCmd(i)
      PROVE  GraphInv'
  <2>1. PICK s \in Statuses : tasks' = [tasks EXCEPT ![i].status = s]
    BY <1>6 DEF EditStatusCmd, Statuses
  <2>2. Sound(tasks')
    BY <1>0, <2>1, OneFieldSound
  <2> QED BY <1>2, <1>6, <2>2 DEF EditStatusCmd
<1>7. ASSUME NEW i \in DOMAIN tasks, RmCmd(i)
      PROVE  GraphInv'
  <2>1. Sound(tasks')
    BY <1>0, <1>7, WithoutSound DEF RmCmd
  <2> QED BY <1>2, <1>7, <2>1 DEF RmCmd
<1>8. ASSUME SetCmd
      PROVE  GraphInv'
  <2>1. PICK S \in {DOMAIN tasks} \cup {{i} : i \in DOMAIN tasks}, manual \in BOOLEAN :
           tasks' = [i \in DOMAIN tasks |-> IF i \in S /\ tasks[i].status # "running"
                                            THEN [tasks[i] EXCEPT !.manual = manual] ELSE tasks[i]]
    BY <1>8 DEF SetCmd
  <2>2. Sound(tasks')
    BY <1>0, <2>1, SetSound
  <2> QED BY <1>2, <1>8, <2>2 DEF SetCmd
<1>9. ASSUME NEW i \in DOMAIN tasks, GateCmd(i)
      PROVE  GraphInv'
  <2>1. Sound(tasks')
    BY <1>0, <1>9, GatedSound DEF GateCmd
  <2> QED BY <1>2, <1>9, <2>1 DEF GateCmd
<1>10. ASSUME NEW i \in DOMAIN tasks, ApproveCmd(i)
       PROVE  GraphInv'
  <2>1. PICK g \in Gates : tasks' = [tasks EXCEPT ![i].gate = g]
    BY <1>10 DEF ApproveCmd, Gates
  <2>2. Sound(tasks')
    BY <1>0, <2>1, OneFieldSound
  <2> QED BY <1>2, <1>10, <2>2 DEF ApproveCmd
<1>11. ASSUME SkipCmd
       PROVE  GraphInv'
  <2>1. Sound(SkipBlocked(tasks, DOMAIN tasks))
    BY <1>0, SkipBlockedSound
  <2>2. Sound(tasks')
    BY <1>11, <2>1, SkipGatedSound DEF SkipCmd
  <2> QED BY <1>2, <1>11, <2>2 DEF SkipCmd
<1>12. ASSUME NEW i \in DOMAIN tasks, NEW cascade \in BOOLEAN, RetryCmd(i, cascade)
       PROVE  GraphInv'
  <2>1. Sound(tasks')
    BY <1>0, <1>12, RetriedSound DEF RetryCmd
  <2> QED BY <1>2, <1>12, <2>1 DEF RetryCmd
<1>13. ASSUME NEW cascade \in BOOLEAN, RetryFailedCmd(cascade)
       PROVE  GraphInv'
  <2>1. Sound(tasks')
    BY <1>0, <1>13, RetriedFailedSound DEF RetryFailedCmd
  <2> QED BY <1>2, <1>13, <2>1 DEF RetryFailedCmd
<1>14. ASSUME RunBegins \/ ResumeCmd
       PROVE  GraphInv'
  <2>1. Sound(tasks')
    BY <1>0, <1>14, RecoveredSound DEF RunBegins, ResumeCmd
  <2> QED BY <1>14, <2>1 DEF RunBegins, ResumeCmd
<1>15. ASSUME NEW i \in DOMAIN tasks, Launch(i)
       PROVE  GraphInv'
  <2>1. PICK s \in Statuses : tasks' = [tasks EXCEPT ![i].status = s]
    BY <1>15 DEF Launch, Statuses
  <2>2. Sound(tasks')
    BY <1>0, <2>1, OneFieldSound
  <2> QED BY <1>15, <2>2 DEF Launch
<1>16. ASSUME NEW i \in DOMAIN tasks, Finish(i)
       PROVE  GraphInv'
  <2>1. PICK t \in {[tasks[i] EXCEPT !.status = "completed", !.kind = "none", !.cand = TRUE],
                    [tasks[i] EXCEPT !.status = "failed", !.kind = "landing", !.cand = TRUE],
                    [tasks[i] EXCEPT !.status = "failed", !.kind = "worker"]} :
           tasks' = [tasks EXCEPT ![i] = t]
    BY <1>16 DEF Finish
  <2>2. Sound(tasks')
    BY <1>0, <2>1, FinishedSound
  <2> QED BY <1>16, <2>2 DEF Finish
<1>17. ASSUME PolicySkip
       PROVE  GraphInv'
  <2>1. PICK only \in {DOMAIN tasks} \cup {{i} : i \in DOMAIN tasks}, dep \in BOOLEAN, gate \in BOOLEAN :
           \E one \in {IF dep THEN SkipBlocked(tasks, only) ELSE tasks} :
              tasks' = IF gate THEN SkipGated(one, only) ELSE one
    BY <1>17 DEF PolicySkip
  <2> PICK one : /\ one = IF dep THEN SkipBlocked(tasks, only) ELSE tasks
                 /\ tasks' = IF gate THEN SkipGated(one, only) ELSE one
    BY <2>1
  <2>2. Sound(one)
    BY <1>0, SkipBlockedSound
  <2>3. Sound(tasks')
    BY <2>2, SkipGatedSound
  <2> QED BY <1>17, <2>3 DEF PolicySkip
<1>18. ASSUME RunEnds
       PROVE  GraphInv'
  BY <1>0, <1>18 DEF RunEnds
<1>19. ASSUME NEW i \in DOMAIN tasks, LiveEdit(i)
       PROVE  GraphInv'
  <2>1. \/ \E s \in Statuses : tasks' = [tasks EXCEPT ![i].status = s]
        \/ \E g \in Gates : tasks' = [tasks EXCEPT ![i].gate = g]
    BY <1>19 DEF LiveEdit, Statuses, Gates
  <2>2. Sound(tasks')
    BY <1>0, <2>1, OneFieldSound
  <2> QED BY <1>19, <2>2 DEF LiveEdit
<1> HIDE DEF GraphInv
<1>20. CASE GraphNext
  <2>1. \/ \E i \in Ids : AddCmd(i) \/ ChainReviewCmd(i)
        \/ \E i \in DOMAIN tasks :
              \/ EditCmd(i) \/ EditStatusCmd(i) \/ RmCmd(i) \/ GateCmd(i) \/ ApproveCmd(i)
              \/ Launch(i) \/ Finish(i) \/ LiveEdit(i)
              \/ \E cascade \in BOOLEAN : RetryCmd(i, cascade)
        \/ \E cascade \in BOOLEAN : RetryFailedCmd(cascade)
        \/ SetCmd \/ SkipCmd \/ ResumeCmd \/ RunBegins \/ PolicySkip \/ RunEnds
    BY <1>20, Zenon DEF GraphNext
  <2>2. ASSUME NEW i \in Ids, AddCmd(i) \/ ChainReviewCmd(i)
        PROVE  GraphInv'
    BY <1>3, <1>4, <2>2, Zenon
  <2>3. ASSUME NEW i \in DOMAIN tasks,
               \/ EditCmd(i) \/ EditStatusCmd(i) \/ RmCmd(i) \/ GateCmd(i) \/ ApproveCmd(i)
               \/ Launch(i) \/ Finish(i) \/ LiveEdit(i)
               \/ \E cascade \in BOOLEAN : RetryCmd(i, cascade)
        PROVE  GraphInv'
    BY <1>5, <1>6, <1>7, <1>9, <1>10, <1>12, <1>15, <1>16, <1>19, <2>3, Zenon
  <2> QED BY <1>8, <1>11, <1>13, <1>14, <1>17, <1>18, <2>1, <2>2, <2>3, Zenon
<1> QED BY <1>1, <1>20

\* Every graph that commands, runners and the viewer make of the first one is
\* sound: no cycle, no edge to what is not there, no number given twice.
THEOREM GraphInvariant == GraphSpec => []GraphInv
<1>1. GraphInit => GraphInv
  BY InitSound
<1>2. GraphInv /\ [GraphNext]_graphVars => GraphInv'
  BY GraphStep
<1> QED BY <1>1, <1>2, PTL DEF GraphSpec

\* So in every state a task that cannot launch has the one true reason, and a run
\* in which nothing moves has one that only a person takes away.
THEOREM GraphExplained == GraphSpec => []Explained
<1>1. GraphInv => Explained
  BY SoundIsExplained DEF GraphInv
<1> QED BY <1>1, GraphInvariant, PTL

\* One skip-blocked does what SkipsExact says.
LEMMA SkipsExactStep ==
  ASSUME GraphInv, SkipCmd
  PROVE  LET skipped == {i \in DOMAIN tasks : tasks'[i].status # tasks[i].status}
             gated == {i \in skipped : ~FailedAbove(tasks, i)}
         IN  /\ \A i \in skipped : IsOpen(tasks, i)
             /\ \A i \in gated : DepsMet(tasks, i) /\ GateBlocks(tasks, i)
             /\ \A i \in DOMAIN tasks :
                   IsOpen(tasks', i) /\ FailedAbove(tasks', i) => gated \cap Above(tasks, i) # {}
<1> PICK ts, us, vs : ts = tasks /\ us = SkipBlocked(tasks, DOMAIN tasks) /\ vs = tasks'
  OBVIOUS
<1>1. us = SkipBlocked(ts, DOMAIN ts) /\ vs = SkipGated(us, DOMAIN ts)
  BY DEF SkipCmd
<1>2. Sound(ts) /\ Closed(ts) /\ Rooted(ts)
  BY DEF GraphInv, Sound
<1>3. /\ Sound(us) /\ SameEdges(ts, us) /\ DOMAIN us = DOMAIN ts
      /\ \A i \in DOMAIN ts : us[i].gate = ts[i].gate
      /\ \A i \in DOMAIN ts : us[i].status = IF i \in GetBlocked(ts) THEN "skipped" ELSE ts[i].status
  <2>1. DOMAIN ts \cap GetBlocked(ts) = GetBlocked(ts)
    BY DEF GetBlocked, TransitiveBlocked
  <2> QED BY <1>1, <1>2, <2>1, SkipBlockedSound DEF SameEdges
<1>4. /\ SameEdges(us, vs)
      /\ \A i \in DOMAIN ts :
            vs[i].status = IF IsOpen(us, i) /\ GateBlocks(us, i) /\ DepsMet(us, i)
                           THEN "skipped" ELSE us[i].status
  BY <1>1, <1>3, SkipGatedSound
<1>5. SameEdges(ts, vs)
  BY <1>3, <1>4 DEF SameEdges
<1>6. ASSUME NEW i \in DOMAIN ts
      PROVE  i \in GetBlocked(ts) <=> FailedAbove(ts, i) /\ IsOpen(ts, i)
  BY <1>2, BlockedIsFailedAbove DEF GetBlocked
\* What is true of the graph between the two, of what is skipped for its gate.
<1>7. ASSUME NEW i \in DOMAIN ts, IsOpen(us, i), GateBlocks(us, i), DepsMet(us, i)
      PROVE  IsOpen(ts, i) /\ GateBlocks(ts, i) /\ DepsMet(ts, i)
  <2>1. IsOpen(ts, i) /\ GateBlocks(ts, i)
    BY <1>3, <1>7 DEF IsOpen, GateBlocks
  <2>2. \A d \in us[i].deps : d \in DOMAIN us /\ us[d].status = "completed"
    BY <1>7 DEF DepsMet
  <2>3. \A d \in ts[i].deps : d \in DOMAIN ts /\ ts[d].status = "completed"
    BY <1>3, <2>2 DEF SameEdges
  <2> QED BY <2>1, <2>3 DEF DepsMet
<1> DEFINE skipped == {i \in DOMAIN ts : vs[i].status # ts[i].status}
           gated == {i \in skipped : ~FailedAbove(ts, i)}
<1>8. ASSUME NEW i \in skipped
      PROVE  /\ vs[i].status = "skipped" /\ IsOpen(ts, i)
             /\ ~FailedAbove(ts, i) => DepsMet(ts, i) /\ GateBlocks(ts, i)
  <2>1. CASE i \in GetBlocked(ts)
    BY <1>3, <1>4, <1>6, <2>1 DEF IsOpen
  <2>2. CASE i \notin GetBlocked(ts)
    <3>1. us[i].status = ts[i].status
      BY <1>3, <2>2
    <3>2. IsOpen(us, i) /\ GateBlocks(us, i) /\ DepsMet(us, i) /\ vs[i].status = "skipped"
      BY <1>4, <3>1
    <3> QED BY <1>7, <3>2
  <2> QED BY <2>1, <2>2
<1>9. ASSUME NEW i \in DOMAIN ts, IsOpen(vs, i), FailedAbove(vs, i)
      PROVE  gated \cap Above(ts, i) # {}
  <2>1. i \notin skipped
    BY <1>8, <1>9 DEF IsOpen
  <2>2. IsOpen(ts, i)
    BY <1>9, <2>1 DEF IsOpen
  <2>3. ~FailedAbove(ts, i)
    <3>1. i \notin GetBlocked(ts)
      <4> SUFFICES ASSUME i \in GetBlocked(ts) PROVE FALSE
        OBVIOUS
      <4>1. us[i].status = "skipped"
        BY <1>3
      <4>2. vs[i].status = "skipped"
        BY <1>4, <4>1
      <4> QED BY <1>9, <4>2 DEF IsOpen
    <3> QED BY <1>6, <2>2, <3>1
  <2>4. PICK A : A = Above(ts, i)
    OBVIOUS
  <2>5. Above(vs, i) = A /\ A \subseteq DOMAIN ts /\ DOMAIN vs = DOMAIN ts
    BY <1>2, <1>5, <2>4, SameEdgesSameAbove, AboveIsClosure DEF SameEdges
  <2>6. PICK a \in A : vs[a].status \in Unusable
    BY <1>9, <2>5 DEF FailedAbove
  <2>7. a \in DOMAIN ts /\ ts[a].status \notin Unusable
    BY <2>3, <2>4, <2>5 DEF FailedAbove
  <2>8. a \in skipped
    BY <2>6, <2>7
  <2>9. Above(ts, a) \subseteq A
    BY <1>2, <2>4, AboveIsTransitive
  <2>10. ~FailedAbove(ts, a)
    BY <2>3, <2>4, <2>9 DEF FailedAbove
  <2> QED BY <2>4, <2>8, <2>10
<1> HIDE DEF skipped
<1>10. /\ \A i \in skipped : IsOpen(ts, i)
       /\ \A i \in gated : DepsMet(ts, i) /\ GateBlocks(ts, i)
       /\ \A i \in DOMAIN ts : IsOpen(vs, i) /\ FailedAbove(vs, i) => gated \cap Above(ts, i) # {}
  BY <1>8, <1>9
<1> QED BY <1>10, Zenon DEF skipped

\* One retry with its cascade does what RetryReaches says.
LEMMA RetryReachesStep ==
  ASSUME GraphInv, NEW i \in DOMAIN tasks, RetryCmd(i, TRUE)
  PROVE  /\ \A j \in DOMAIN tasks : i \in Above(tasks, j) => tasks'[j].status \notin Unusable
         /\ \A j \in GetBlocked(tasks') : \E a \in Above(tasks, j) \ {i} :
               tasks'[a].status \in Unusable /\ i \notin Above(tasks, a)
<1> PICK ts, us : ts = tasks /\ us = tasks'
  OBVIOUS
<1>1. Sound(ts) /\ Closed(ts) /\ us = Retried(ts, i, TRUE)
  BY DEF GraphInv, Sound, RetryCmd
<1>2. /\ Sound(us) /\ SameEdges(ts, us) /\ us[i].status = "pending"
      /\ \A j \in DOMAIN ts :
            /\ us[j].status \in {ts[j].status, "pending"}
            /\ ts[j].status \in Unusable /\ i \in Above(ts, j) => us[j].status = "pending"
  <2>1. i \in DOMAIN ts /\ TRUE \in BOOLEAN
    OBVIOUS
  <2>2. PICK vs : vs = Retried(ts, i, TRUE)
    OBVIOUS
  <2>3. /\ Sound(vs) /\ SameEdges(ts, vs) /\ vs[i].status = "pending"
        /\ \A j \in DOMAIN ts :
              /\ vs[j].status \in {ts[j].status, "pending"}
              /\ ts[j].status \in Unusable /\ i \in Above(ts, j) => vs[j].status = "pending"
    BY <1>1, <2>1, <2>2, RetriedSound
  <2> QED BY <1>1, <2>2, <2>3
<1>3. ASSUME NEW j \in DOMAIN ts, i \in Above(ts, j)
      PROVE  us[j].status \notin Unusable
  BY <1>2, <1>3 DEF Unusable
<1>4. ASSUME NEW j \in GetBlocked(us)
      PROVE  \E a \in Above(ts, j) \ {i} : us[a].status \in Unusable /\ i \notin Above(ts, a)
  <2>1. j \in DOMAIN us /\ j \in TransitiveBlocked(us) /\ DOMAIN us = DOMAIN ts
    BY <1>2, <1>4 DEF GetBlocked, TransitiveBlocked, SameEdges
  <2>2. FailedAbove(us, j)
    BY <1>2, <2>1, BlockedIsFailedAbove DEF Sound
  <2>3. PICK A : A = Above(ts, j)
    OBVIOUS
  <2>4. Above(us, j) = A /\ A \subseteq DOMAIN ts
    <3>1. j \in DOMAIN ts
      BY <2>1
    <3>2. Above(us, j) = Above(ts, j)
      BY <1>1, <1>2, <3>1, SameEdgesSameAbove
    <3>3. Above(ts, j) \subseteq DOMAIN ts
      BY <1>1, <3>1, AboveIsClosure
    <3> QED BY <2>3, <3>2, <3>3
  <2>5. PICK a \in A : us[a].status \in Unusable
    BY <2>1, <2>2, <2>4 DEF FailedAbove
  <2>6. a # i /\ i \notin Above(ts, a)
    BY <1>2, <1>3, <2>4, <2>5 DEF Unusable
  <2> QED BY <2>3, <2>5, <2>6
<1> QED BY <1>3, <1>4

\* And for retry-failed, with and without.
LEMMA RetryFailedStep ==
  ASSUME GraphInv, NEW cascade \in BOOLEAN, RetryFailedCmd(cascade)
  PROVE  GetBlocked(tasks') = {}
<1> PICK ts, us : ts = tasks /\ us = tasks'
  OBVIOUS
<1>1. Sound(ts) /\ us = RetriedFailed(ts, cascade)
  BY DEF GraphInv, RetryFailedCmd
<1>2. Sound(us) /\ DOMAIN us = DOMAIN ts /\ \A i \in DOMAIN ts : us[i].status \notin Unusable
  BY <1>1, RetriedFailedSound DEF SameEdges
<1> SUFFICES ASSUME NEW j \in GetBlocked(us) PROVE FALSE
  OBVIOUS
<1>3. j \in DOMAIN us /\ j \in TransitiveBlocked(us)
  BY DEF GetBlocked, TransitiveBlocked
<1>4. FailedAbove(us, j) /\ Above(us, j) \subseteq DOMAIN us
  BY <1>2, <1>3, BlockedIsFailedAbove, AboveIsClosure DEF Sound
<1> QED BY <1>2, <1>4 DEF FailedAbove

\* Of skip-blocked: what it skips is what a failure above blocks and what only an
\* approval holds, and what stays blocked is below the latter.
THEOREM GraphSkipsExact == GraphSpec => SkipsExact
<1>1. GraphInv /\ [GraphNext]_graphVars =>
        [SkipCmd =>
          LET skipped == {i \in DOMAIN tasks : tasks'[i].status # tasks[i].status}
              gated == {i \in skipped : ~FailedAbove(tasks, i)}
          IN  /\ \A i \in skipped : IsOpen(tasks, i)
              /\ \A i \in gated : DepsMet(tasks, i) /\ GateBlocks(tasks, i)
              /\ \A i \in DOMAIN tasks :
                    IsOpen(tasks', i) /\ FailedAbove(tasks', i) => gated \cap Above(tasks, i) # {}]_graphVars
  BY SkipsExactStep
<1> QED BY <1>1, GraphInvariant, PTL DEF GraphSpec, SkipsExact

\* Of retry: nothing below the task stays failed or skipped for its sake, and
\* after retry-failed nothing is blocked.
THEOREM GraphRetryReaches == GraphSpec => RetryReaches
<1>1. GraphInv /\ [GraphNext]_graphVars =>
        [/\ \A i \in DOMAIN tasks : RetryCmd(i, TRUE) =>
              /\ \A j \in DOMAIN tasks : i \in Above(tasks, j) => tasks'[j].status \notin Unusable
              /\ \A j \in GetBlocked(tasks') : \E a \in Above(tasks, j) \ {i} :
                    tasks'[a].status \in Unusable /\ i \notin Above(tasks, a)
         /\ \A cascade \in BOOLEAN : RetryFailedCmd(cascade) => GetBlocked(tasks') = {}]_graphVars
  BY RetryReachesStep, RetryFailedStep
<1> QED BY <1>1, GraphInvariant, PTL DEF GraphSpec, RetryReaches

---------------------------------------------------------------------------
(* The shape of a graph.                                                   *)

\* The deepest dependency of a task is one level above it, the others not below.
LEMMA DepthOfDependency ==
  ASSUME NEW ts, Closed(ts), Rooted(ts), NEW i \in DOMAIN ts
  PROVE  /\ ComputeDepths(ts)[i] \in Nat
         /\ ts[i].deps = {} => ComputeDepths(ts)[i] = 0
         /\ \A d \in ts[i].deps : ComputeDepths(ts)[d] < ComputeDepths(ts)[i]
         /\ ts[i].deps # {} =>
               \E d \in ts[i].deps : ComputeDepths(ts)[i] = 1 + ComputeDepths(ts)[d]
<1> PICK h, D : h = ComputeDepths(ts) /\ D = ts[i].deps
  OBVIOUS
<1>1. h \in [DOMAIN ts -> Nat] /\ h[i] = IF D = {} THEN 0 ELSE 1 + Deepest(ts, h, i)
  BY DepthIsLongest
<1>2. CASE D = {}
  BY <1>1, <1>2
<1>3. CASE D # {}
  <2>1. PICK S : S = {h[d] : d \in D}
    OBVIOUS
  <2>2. D \in SUBSET Ids /\ IsFiniteSet(D) /\ D \subseteq DOMAIN ts
    BY GraphAssumption, FS_Subset DEF Closed
  <2>3. S \in SUBSET Int /\ S # {} /\ IsFiniteSet(S) /\ S \subseteq Nat
    <3>1. S \subseteq Nat /\ S # {}
      BY <1>1, <1>3, <2>1, <2>2
    <3>2. [d \in D |-> h[d]] \in Surjection(D, S)
      BY <2>1 DEF Surjection
    <3>3. IsFiniteSet(S)
      BY <2>2, <3>2, FS_Surjection
    <3> QED BY <3>1, <3>3
  <2>4. Max(S) \in S /\ \A k \in S : Max(S) >= k
    BY <2>3, MaxIsLargest
  <2>5. Deepest(ts, h, i) = Max(S)
    BY <2>1 DEF Deepest
  <2>6. PICK d \in D : Max(S) = h[d]
    BY <2>1, <2>4
  <2>7. h[i] = 1 + h[d] /\ h[d] \in Nat
    BY <1>1, <1>3, <2>2, <2>5, <2>6
  <2>8. \A e \in D : h[e] \in Nat /\ h[d] >= h[e]
    BY <1>1, <2>1, <2>2, <2>4, <2>6
  <2> QED BY <1>3, <2>7, <2>8
<1> QED BY <1>2, <1>3

\* What is above a task is less deep.
LEMMA AboveIsLessDeep ==
  ASSUME NEW ts, Closed(ts), Rooted(ts), NEW i \in DOMAIN ts, NEW a \in Above(ts, i)
  PROVE  a \in DOMAIN ts /\ ComputeDepths(ts)[a] < ComputeDepths(ts)[i]
<1> PICK h : h = ComputeDepths(ts)
  OBVIOUS
<1>1. /\ \A j \in DOMAIN ts : h[j] \in Nat
      /\ \A j \in DOMAIN ts : \A d \in ts[j].deps : d \in DOMAIN ts /\ h[d] < h[j]
  BY DepthOfDependency DEF Closed
<1> DEFINE C == {x \in DOMAIN ts : h[x] < h[i]}
<1>2. ts[i].deps \subseteq C
  BY <1>1
<1>3. ASSUME NEW j \in C
      PROVE  ts[j].deps \subseteq C
  <2> SUFFICES ASSUME NEW d \in ts[j].deps PROVE d \in C
    OBVIOUS
  <2>1. h[d] \in Nat /\ h[j] \in Nat /\ h[i] \in Nat /\ h[d] < h[j] /\ h[j] < h[i] /\ d \in DOMAIN ts
    BY <1>1
  <2> QED BY <2>1
<1> HIDE DEF C
<1>4. Above(ts, i) \subseteq C
  BY <1>2, <1>3, AboveIsClosure
<1> QED BY <1>4 DEF C

\* Every level above a task has something that is above it.
LEMMA EveryLevelAbove ==
  ASSUME NEW ts, Closed(ts), Rooted(ts)
  PROVE  \A i \in DOMAIN ts : \A n \in Nat :
            n < ComputeDepths(ts)[i] => \E a \in Above(ts, i) : ComputeDepths(ts)[a] = n
<1> PICK h : h = ComputeDepths(ts)
  OBVIOUS
<1> DEFINE Bad == {i \in DOMAIN ts : \E n \in Nat : n < h[i] /\ ~ \E a \in Above(ts, i) : h[a] = n}
<1> SUFFICES ASSUME Bad # {} PROVE FALSE
  OBVIOUS
<1>1. PICK i \in Bad : ts[i].deps \cap Bad = {}
  <2>1. Bad \in SUBSET DOMAIN ts
    OBVIOUS
  <2> HIDE DEF Bad
  <2> QED BY <2>1 DEF Rooted
<1>2. PICK n \in Nat : n < h[i] /\ ~ \E a \in Above(ts, i) : h[a] = n
  BY <1>1
<1>3. i \in DOMAIN ts /\ h[i] \in Nat /\ (ts[i].deps = {} => h[i] = 0)
  BY <1>1, DepthOfDependency
<1>4. ts[i].deps # {}
  BY <1>2, <1>3
<1>5. PICK d \in ts[i].deps : h[i] = 1 + h[d]
  BY <1>3, <1>4, DepthOfDependency
<1>6. d \in DOMAIN ts /\ d \in Above(ts, i) /\ Above(ts, d) \subseteq Above(ts, i)
  <2>1. d \in Above(ts, i)
    BY <1>3, AboveIsClosure
  <2> QED BY <1>3, <2>1, AboveIsTransitive
<1>7. h[d] \in Nat
  BY <1>6, DepthOfDependency
<1>8. n # h[d]
  BY <1>2, <1>6
<1>9. n < h[d]
  BY <1>2, <1>5, <1>7, <1>8
<1>10. d \notin Bad
  BY <1>1
<1>11. \E a \in Above(ts, d) : h[a] = n
  BY <1>6, <1>9, <1>10
<1> QED BY <1>2, <1>6, <1>11

---------------------------------------------------------------------------
\* What transitiveDependentIds computes in its passes, without the start.
PassesRule(ts, i, f) ==
    f = [n \in 0..Cardinality(DOMAIN ts) |->
            IF n = 0 THEN {i} ELSE f[n - 1] \cup {j \in DOMAIN ts : ts[j].deps \cap f[n - 1] # {}}]

\* The passes exist, and the last one is the query's answer.
LEMMA PassesExist ==
  ASSUME NEW ts, Closed(ts), NEW i \in DOMAIN ts
  PROVE  \E f : /\ PassesRule(ts, i, f)
                /\ TransitiveDependentIds(ts, i) = f[Cardinality(DOMAIN ts)] \ {i}
<1> DEFINE V == SUBSET DOMAIN ts
           Step(S) == S \cup {j \in DOMAIN ts : ts[j].deps \cap S # {}}
           step == [n \in Nat |-> [S \in V |-> Step(S)]]
           N == Cardinality(DOMAIN ts)
<1>1. {i} \in V /\ step \in [Nat -> [V -> V]]
  OBVIOUS
<1>2. PICK g : Iterates(g, V, {i}, step)
  <2> HIDE DEF step, V
  <2> QED BY <1>1, NatRecursion
<1>3. /\ g \in [Nat -> V] /\ g[0] = {i}
      /\ \A n \in Nat : g[n + 1] = step[n][g[n]]
  BY <1>2 DEF Iterates
<1>4. N \in Nat
  BY GraphAssumption, FS_Subset, FS_CardinalityType DEF Closed
<1>5. ASSUME NEW n \in 0..N, n # 0
      PROVE  g[n] = Step(g[n - 1]) /\ n - 1 \in 0..N
  <2>1. n - 1 \in Nat /\ (n - 1) + 1 = n /\ n - 1 \in 0..N
    BY <1>4, <1>5
  <2>2. g[n - 1] \in V /\ g[(n - 1) + 1] = step[n - 1][g[n - 1]]
    BY <1>3, <2>1
  <2> HIDE DEF V, Step
  <2> QED BY <2>1, <2>2
<1> DEFINE f == [n \in 0..N |-> g[n]]
<1>6. PassesRule(ts, i, f)
  <2>1. ASSUME NEW n \in 0..N
        PROVE  f[n] = IF n = 0 THEN {i} ELSE Step(f[n - 1])
    <3>1. CASE n = 0
      BY <1>3, <3>1
    <3>2. CASE n # 0
      <4>1. g[n] = Step(g[n - 1]) /\ n - 1 \in 0..N
        BY <1>5, <3>2
      <4>2. f[n] = g[n] /\ f[n - 1] = g[n - 1]
        BY <4>1
      <4> HIDE DEF f, Step
      <4> QED BY <3>2, <4>1, <4>2
    <3> QED BY <3>1, <3>2
  <2>2. f = [n \in 0..N |-> f[n]]
    OBVIOUS
  <2> HIDE DEF f
  <2>3. f = [n \in 0..N |-> IF n = 0 THEN {i} ELSE Step(f[n - 1])]
    <3> HIDE DEF Step
    <3> QED BY <2>1, <2>2
  <2> QED BY <2>3 DEF PassesRule
<1> DEFINE e == CHOOSE p : PassesRule(ts, i, p)
<1>7. PassesRule(ts, i, e)
  BY <1>6, Zenon
<1>8. TransitiveDependentIds(ts, i) = e[N] \ {i}
  BY DEF TransitiveDependentIds, PassesRule
<1> HIDE DEF e
<1> QED BY <1>7, <1>8

\* transitiveDependentIds finds exactly the tasks that a task is above, in as many
\* passes as there are tasks, whatever order they are in.
THEOREM DependentsAreBelow ==
  ASSUME NEW ts, Closed(ts), Rooted(ts), NEW i \in DOMAIN ts
  PROVE  TransitiveDependentIds(ts, i) = {j \in DOMAIN ts : i \in Above(ts, j)}
<1> PICK T, N : T = DOMAIN ts /\ N = Cardinality(T)
  OBVIOUS
<1>0. /\ T \subseteq Ids /\ IsFiniteSet(T) /\ N \in Nat
      /\ \A j \in T : ts[j].deps \subseteq T
  BY GraphAssumption, FS_Subset, FS_CardinalityType DEF Closed
<1>1. PICK f : PassesRule(ts, i, f) /\ TransitiveDependentIds(ts, i) = f[N] \ {i}
  BY PassesExist
<1> DEFINE Step(S) == S \cup {j \in T : ts[j].deps \cap S # {}}
           Below == {j \in T : i \in Above(ts, j)}
<1>2. f[0] = {i} /\ \A n \in 0..N : n # 0 => f[n] = Step(f[n - 1])
  <2>1. f = [n \in 0..N |-> IF n = 0 THEN {i} ELSE Step(f[n - 1])]
    BY <1>1 DEF PassesRule
  <2> HIDE DEF Step
  <2>2. 0 \in 0..N
    BY <1>0
  <2>3. f[0] = {i}
    BY <2>1, <2>2
  <2>4. ASSUME NEW n \in 0..N, n # 0
        PROVE  f[n] = Step(f[n - 1])
    BY <2>1, <2>4
  <2> QED BY <2>3, <2>4
\* Whatever a pass adds is below.
<1>3. \A n \in 0..N : i \in f[n] /\ f[n] \subseteq {i} \cup Below
  <2> DEFINE Ok(S) == i \in S /\ S \subseteq {i} \cup Below
             Bad == {n \in 0..N : ~Ok(f[n])}
  <2> SUFFICES ASSUME Bad # {} PROVE FALSE
    OBVIOUS
  <2>1. PICK n \in Bad : \A k \in Bad : n <= k
    <3>1. Bad \in SUBSET Nat
      OBVIOUS
    <3> HIDE DEF Bad
    <3> QED BY <3>1, LeastNat
  <2>2. n \in 0..N /\ ~Ok(f[n])
    BY <2>1
  <2>3. n # 0
    BY <1>2, <2>2
  <2>4. n - 1 \in 0..N /\ n - 1 \notin Bad
    <3>1. n - 1 \in 0..N /\ ~ (n <= n - 1)
      BY <1>0, <2>2, <2>3
    <3> HIDE DEF Bad
    <3> QED BY <2>1, <3>1
  <2>5. PICK S : S = f[n - 1] /\ Ok(S)
    BY <2>4
  <2>6. f[n] = Step(S)
    BY <1>2, <2>2, <2>3, <2>5
  <2>7. ASSUME NEW j \in T, ts[j].deps \cap S # {}
        PROVE  j \in Below
    <3>1. PICK d \in ts[j].deps : d \in S
      BY <2>7
    <3>2. d \in Above(ts, j) /\ j \in DOMAIN ts
      BY AboveIsClosure
    <3>3. Above(ts, d) \subseteq Above(ts, j)
      BY <3>2, AboveIsTransitive
    <3>4. d = i \/ i \in Above(ts, d)
      BY <2>5, <3>1
    <3> QED BY <3>2, <3>3, <3>4
  <2>8. Ok(Step(S))
    <3> HIDE DEF Below
    <3> QED BY <2>5, <2>7
  <2> QED BY <2>2, <2>6, <2>8
\* A pass that adds nothing ends it, and the others add one each.
<1>4. \A n \in 0..N : Step(f[n]) = f[n] \/ Cardinality(f[n]) > n
  <2> DEFINE Ok(n) == Step(f[n]) = f[n] \/ Cardinality(f[n]) > n
             Bad == {n \in 0..N : ~Ok(n)}
  <2> SUFFICES ASSUME Bad # {} PROVE FALSE
    OBVIOUS
  <2>1. PICK n \in Bad : \A k \in Bad : n <= k
    <3>1. Bad \in SUBSET Nat
      OBVIOUS
    <3> HIDE DEF Bad
    <3> QED BY <3>1, LeastNat
  <2>2. n \in 0..N /\ ~Ok(n)
    BY <2>1
  <2>3. n # 0
    <3>1. Cardinality({i}) = 1
      BY FS_Singleton
    <3>2. Cardinality(f[0]) > 0
      BY <1>2, <3>1
    <3>3. Ok(0)
      BY <3>2
    <3> HIDE DEF Ok
    <3> QED BY <2>2, <3>3
  <2>4. n - 1 \in 0..N /\ n - 1 \notin Bad
    <3>1. n - 1 \in 0..N /\ ~ (n <= n - 1)
      BY <1>0, <2>2, <2>3
    <3> HIDE DEF Bad
    <3> QED BY <2>1, <3>1
  <2>5. PICK R, S : R = f[n - 1] /\ S = f[n]
    OBVIOUS
  <2>6. S = Step(R)
    BY <1>2, <2>2, <2>3, <2>5
  <2>7. Step(R) # R
    BY <2>2, <2>5, <2>6
  <2>8. Cardinality(R) > n - 1
    BY <2>4, <2>5, <2>7
  <2>9. S \subseteq T
    BY <1>3, <2>2, <2>5
  <2>10. R \in SUBSET S /\ R # S /\ IsFiniteSet(S)
    BY <1>0, <2>6, <2>7, <2>9, FS_Subset
  <2>11. Cardinality(R) <= Cardinality(S) /\ Cardinality(R) # Cardinality(S)
    BY <2>10, FS_Subset
  <2>12. Cardinality(R) \in Nat /\ Cardinality(S) \in Nat
    BY <2>10, FS_Subset, FS_CardinalityType
  <2> QED BY <2>2, <2>5, <2>8, <2>11, <2>12
<1>5. PICK A : A = f[N]
  OBVIOUS
<1>6. i \in A /\ A \subseteq {i} \cup Below /\ A \subseteq T /\ Step(A) = A
  <2>1. N \in 0..N
    BY <1>0
  <2>2. i \in A /\ A \subseteq {i} \cup Below
    BY <1>3, <1>5, <2>1
  <2>3. A \in SUBSET T
    BY <2>2
  <2>4. Cardinality(A) <= N /\ Cardinality(A) \in Nat
    BY <1>0, <2>3, FS_Subset, FS_CardinalityType
  <2>5. Step(A) = A \/ Cardinality(A) > N
    BY <1>4, <1>5, <2>1
  <2> HIDE DEF Step
  <2> QED BY <1>0, <2>2, <2>3, <2>4, <2>5
<1>7. Below \subseteq A
  <2> DEFINE Bad == {j \in Below : j \notin A}
  <2> SUFFICES ASSUME Bad # {} PROVE FALSE
    OBVIOUS
  <2>1. PICK j \in Bad : ts[j].deps \cap Bad = {}
    <3>1. Bad \in SUBSET DOMAIN ts
      OBVIOUS
    <3> HIDE DEF Bad
    <3> QED BY <3>1 DEF Rooted
  <2>2. j \in DOMAIN ts /\ i \in Above(ts, j) /\ j \notin A
    BY <2>1
  <2>3. PICK d \in ts[j].deps : d = i \/ i \in Above(ts, d)
    BY <2>2, AboveByDependency
  <2>4. d \in A
    <3>1. CASE d = i
      BY <1>6, <3>1
    <3>2. CASE i \in Above(ts, d)
      <4>1. d \in T
        BY <1>0, <2>2
      <4>2. d \in Below
        BY <3>2, <4>1
      <4> QED BY <2>1, <4>2
    <3> QED BY <2>3, <3>1, <3>2
  <2>5. j \in Step(A)
    BY <2>2, <2>4
  <2> QED BY <1>6, <2>2, <2>5
<1>8. i \notin Below
  BY NoTaskAboveItself
<1>9. A \ {i} = Below
  BY <1>6, <1>7, <1>8
<1>10. TransitiveDependentIds(ts, i) = A \ {i}
  BY <1>1, <1>5
<1> QED BY <1>9, <1>10

\* A redundant dependency is one that another dependency has above it.
LEMMA RedundantIsImplied ==
  ASSUME NEW ts, Closed(ts), NEW i \in DOMAIN ts, NEW d
  PROVE  <<i, d>> \in FindRedundantDeps(ts) <=>
            d \in ts[i].deps /\ \E o \in ts[i].deps \ {d} : d \in Above(ts, o)
<1>1. ts[i].deps \subseteq DOMAIN ts /\ DOMAIN ts \subseteq Ids
  BY DEF Closed
<1>2. \A o \in ts[i].deps : TransitiveDepSet(ts, o) = Above(ts, o)
  BY <1>1, DepSetIsAbove
<1>3. <<i, d>> \in FindRedundantDeps(ts) <=>
         d \in ts[i].deps /\ \E o \in ts[i].deps \ {d} : d \in TransitiveDepSet(ts, o)
  BY <1>1 DEF FindRedundantDeps
<1> QED BY <1>2, <1>3

\* The graph without them has the same tasks and the other edges.
LEMMA LeanEdges ==
  ASSUME NEW ts, Sound(ts)
  PROVE  /\ DOMAIN Lean(ts) = DOMAIN ts
         /\ \A i \in DOMAIN ts :
               Lean(ts)[i].deps = {d \in ts[i].deps : <<i, d>> \notin FindRedundantDeps(ts)}
<1> PICK us, R : us = Lean(ts) /\ R = FindRedundantDeps(ts)
  OBVIOUS
<1>1. us = [i \in DOMAIN ts |-> [ts[i] EXCEPT !.deps = {d \in @ : <<i, d>> \notin R}]]
  BY Zenon DEF Lean
<1>2. ASSUME NEW i \in DOMAIN ts
      PROVE  us[i].deps = {d \in ts[i].deps : <<i, d>> \notin R}
  <2>1. ts[i] \in Task
    BY SoundTask
  <2>2. us[i] = [ts[i] EXCEPT !.deps = {d \in ts[i].deps : <<i, d>> \notin R}]
    BY <1>1
  <2> QED BY <2>1, <2>2 DEF Task
<1> QED BY <1>1, <1>2

\* All redundant edges can go at once: what is above a task stays above it, and
\* no edge that is left is redundant.
THEOREM LeanKeepsOrder ==
  ASSUME NEW ts, Sound(ts)
  PROVE  /\ Closed(Lean(ts)) /\ Rooted(Lean(ts))
         /\ \A i \in DOMAIN ts : Above(Lean(ts), i) = Above(ts, i)
         /\ FindRedundantDeps(Lean(ts)) = {}
<1> PICK us, T : us = Lean(ts) /\ T = DOMAIN ts
  OBVIOUS
<1>0. Closed(ts) /\ Rooted(ts) /\ T \subseteq Ids /\ \A j \in T : ts[j].deps \subseteq T
  BY DEF Sound, Closed
<1>1. /\ DOMAIN us = T
      /\ \A i \in T : us[i].deps = {d \in ts[i].deps : <<i, d>> \notin FindRedundantDeps(ts)}
  BY LeanEdges
<1>2. \A i \in T : us[i].deps \subseteq ts[i].deps
  BY <1>1
<1>3. Closed(us)
  BY <1>0, <1>1, <1>2 DEF Closed
<1>4. Rooted(us)
  <2> SUFFICES ASSUME NEW S \in SUBSET T, S # {}
               PROVE  \E i \in S : us[i].deps \cap S = {}
    BY <1>1 DEF Rooted
  <2>1. PICK i \in S : ts[i].deps \cap S = {}
    BY <1>0 DEF Rooted
  <2> QED BY <1>2, <2>1
<1>5. ASSUME NEW i \in T
      PROVE  Above(us, i) \subseteq Above(ts, i)
  <2> PICK A : A = Above(ts, i)
    OBVIOUS
  <2>1. A \subseteq T /\ ts[i].deps \subseteq A /\ \A j \in A : ts[j].deps \subseteq A
    BY <1>0, AboveIsClosure
  <2>2. us[i].deps \subseteq A /\ \A j \in A \cap DOMAIN us : us[j].deps \subseteq A
    BY <1>1, <1>2, <2>1
  <2>3. i \in DOMAIN us
    BY <1>1
  <2> QED BY <1>3, <2>2, <2>3, AboveIsClosure
\* Of the dependencies a redundant one is implied by, take one with the most above
\* it: no other implies that one, so it stays.
<1>6. ASSUME NEW i \in T, NEW d \in ts[i].deps
      PROVE  \E o \in us[i].deps : d = o \/ d \in Above(ts, o)
  <2> DEFINE S == {o \in ts[i].deps : d = o \/ d \in Above(ts, o)}
             size(o) == Cardinality(Above(ts, o))
             Sizes == {size(o) : o \in S}
  <2>1. \A o \in T : IsFiniteSet(Above(ts, o)) /\ size(o) \in Nat
    <3> SUFFICES ASSUME NEW o \in T
                 PROVE  IsFiniteSet(Above(ts, o)) /\ Cardinality(Above(ts, o)) \in Nat
      OBVIOUS
    <3>1. Above(ts, o) \in SUBSET Ids
      BY <1>0, AboveIsClosure
    <3> QED BY <3>1, GraphAssumption, FS_Subset, FS_CardinalityType
  <2>2. S \subseteq T /\ d \in S /\ IsFiniteSet(S)
    BY <1>0, GraphAssumption, FS_Subset
  <2>3. Sizes \in SUBSET Int /\ Sizes # {}
    <3> HIDE DEF S, size
    <3> QED BY <2>1, <2>2
  <2>4. IsFiniteSet(Sizes)
    <3>1. [o \in S |-> size(o)] \in Surjection(S, Sizes)
      <4> HIDE DEF S, size
      <4> QED BY DEF Surjection
    <3> HIDE DEF Sizes, S, size
    <3> QED BY <2>2, <3>1, FS_Surjection
  <2>5. PICK m : m \in Sizes /\ \A k \in Sizes : m >= k
    <3> HIDE DEF Sizes
    <3> QED BY <2>3, <2>4, MaxIsLargest
  <2>6. PICK o \in S : m = size(o)
    BY <2>5
  <2>7. o \in T /\ o \in ts[i].deps /\ (d = o \/ d \in Above(ts, o))
    BY <2>2, <2>6
  <2>8. ASSUME NEW q \in ts[i].deps, o \in Above(ts, q)
        PROVE  FALSE
    <3>1. q \in T
      BY <1>0
    <3>2. PICK A, B : A = Above(ts, o) /\ B = Above(ts, q)
      OBVIOUS
    <3>3. A \subseteq B
      BY <1>0, <2>8, <3>1, <3>2, AboveIsTransitive
    <3>4. o \notin A
      BY <1>0, <2>7, <3>2, NoTaskAboveItself
    <3>5. q \in S
      BY <2>7, <2>8, <3>2, <3>3
    <3>6. A \in SUBSET B /\ A # B /\ IsFiniteSet(B)
      BY <2>1, <2>8, <3>1, <3>2, <3>3, <3>4
    <3>7. Cardinality(A) <= Cardinality(B) /\ Cardinality(A) # Cardinality(B)
      BY <3>6, FS_Subset
    <3>8. Cardinality(A) \in Nat /\ Cardinality(B) \in Nat
      BY <2>1, <2>7, <3>1, <3>2
    <3>9. Cardinality(B) \in Sizes
      BY <3>2, <3>5
    <3>10. m >= Cardinality(B) /\ m = Cardinality(A)
      <4> HIDE DEF Sizes
      <4> QED BY <2>5, <2>6, <3>2, <3>9
    <3> QED BY <3>7, <3>8, <3>10
  <2>9. <<i, o>> \notin FindRedundantDeps(ts)
    BY <1>0, <2>8, RedundantIsImplied
  <2>10. o \in us[i].deps
    BY <1>1, <2>7, <2>9
  <2> QED BY <2>7, <2>10
<1>7. ASSUME NEW i \in T
      PROVE  Above(ts, i) \subseteq Above(us, i)
  <2> DEFINE Bad == {j \in T : ~ (Above(ts, j) \subseteq Above(us, j))}
  <2> SUFFICES ASSUME Bad # {} PROVE FALSE
    OBVIOUS
  <2>1. PICK j \in Bad : ts[j].deps \cap Bad = {}
    <3>1. Bad \in SUBSET DOMAIN ts
      OBVIOUS
    <3> HIDE DEF Bad
    <3> QED BY <1>0, <3>1 DEF Rooted
  <2>2. j \in T /\ j \in DOMAIN us
    BY <1>1, <2>1
  <2>3. PICK a \in Above(ts, j) : a \notin Above(us, j)
    BY <2>1
  <2>4. PICK B : B = Above(us, j)
    OBVIOUS
  <2>5. us[j].deps \subseteq B
    BY <1>3, <2>2, <2>4, AboveIsClosure
  <2>6. PICK d \in ts[j].deps : a = d \/ a \in Above(ts, d)
    BY <1>0, <2>2, <2>3, AboveByDependency
  <2>7. PICK o \in us[j].deps : d = o \/ d \in Above(ts, o)
    BY <1>6, <2>2
  <2>8. o \in ts[j].deps /\ o \in T
    BY <1>0, <1>2, <2>2
  <2>9. a = o \/ a \in Above(ts, o)
    <3>1. CASE d = o
      BY <2>6, <3>1
    <3>2. CASE d \in Above(ts, o)
      <4>1. Above(ts, d) \subseteq Above(ts, o)
        BY <1>0, <2>8, <3>2, AboveIsTransitive
      <4> QED BY <2>6, <3>2, <4>1
    <3> QED BY <2>7, <3>1, <3>2
  <2>10. Above(ts, o) \subseteq Above(us, o)
    BY <2>1, <2>8
  <2>11. Above(us, o) \subseteq B
    BY <1>3, <2>2, <2>4, <2>5, AboveIsTransitive
  <2> QED BY <2>3, <2>4, <2>5, <2>9, <2>10, <2>11
<1>8. \A i \in T : Above(us, i) = Above(ts, i)
  BY <1>5, <1>7
<1>9. FindRedundantDeps(us) = {}
  <2> SUFFICES ASSUME NEW e \in FindRedundantDeps(us) PROVE FALSE
    OBVIOUS
  <2>1. PICK i \in T, d \in Ids : e = <<i, d>>
    BY <1>1 DEF FindRedundantDeps
  <2>2. d \in us[i].deps /\ \E o \in us[i].deps \ {d} : d \in Above(us, o)
    BY <1>1, <1>3, <2>1, RedundantIsImplied
  <2>3. PICK o \in us[i].deps \ {d} : d \in Above(us, o)
    BY <2>2
  <2>4. o \in ts[i].deps \ {d} /\ o \in T
    BY <1>0, <1>2, <2>3
  <2>5. d \in Above(ts, o)
    BY <1>8, <2>3, <2>4
  <2>6. <<i, d>> \in FindRedundantDeps(ts)
    BY <1>0, <1>2, <2>2, <2>4, <2>5, RedundantIsImplied
  <2> QED BY <1>1, <2>2, <2>6
<1> QED BY <1>3, <1>4, <1>8, <1>9

\* The task longestChain goes on with: a deepest of some.
DeepestOf(ts, S) ==
    CHOOSE i \in S : \A j \in S : ComputeDepths(ts)[j] <= ComputeDepths(ts)[i]

\* There is one, and above a task it is one level up.
LEMMA DeepestExists ==
  ASSUME NEW ts, Closed(ts), Rooted(ts)
  PROVE  /\ \A S \in SUBSET DOMAIN ts : S # {} =>
               /\ DeepestOf(ts, S) \in S
               /\ \A j \in S : ComputeDepths(ts)[j] <= ComputeDepths(ts)[DeepestOf(ts, S)]
         /\ \A i \in DOMAIN ts : ts[i].deps # {} =>
               /\ DeepestOf(ts, ts[i].deps) \in ts[i].deps
               /\ ComputeDepths(ts)[i] = 1 + ComputeDepths(ts)[DeepestOf(ts, ts[i].deps)]
<1> PICK h : h = ComputeDepths(ts)
  OBVIOUS
<1>1. h \in [DOMAIN ts -> Nat] /\ DOMAIN ts \subseteq Ids
  BY DepthIsLongest DEF Closed
<1>2. ASSUME NEW S \in SUBSET DOMAIN ts, S # {}
      PROVE  /\ DeepestOf(ts, S) \in S
             /\ \A j \in S : h[j] <= h[DeepestOf(ts, S)]
  <2>1. PICK D : D = {h[j] : j \in S}
    OBVIOUS
  <2>2. D \in SUBSET Int /\ D # {} /\ D \subseteq Nat
    BY <1>1, <1>2, <2>1
  <2>3. IsFiniteSet(D)
    <3>1. [j \in S |-> h[j]] \in Surjection(S, D)
      BY <2>1 DEF Surjection
    <3>2. S \in SUBSET Ids /\ IsFiniteSet(S)
      BY <1>1, GraphAssumption, FS_Subset
    <3> QED BY <3>1, <3>2, FS_Surjection
  <2>4. Max(D) \in D /\ \A k \in D : Max(D) >= k
    BY <2>2, <2>3, MaxIsLargest
  <2>5. PICK i \in S : Max(D) = h[i]
    BY <2>1, <2>4
  <2>6. \A j \in S : h[j] <= h[i]
    <3> SUFFICES ASSUME NEW j \in S PROVE h[j] <= h[i]
      OBVIOUS
    <3>1. h[j] \in D /\ h[j] \in Nat /\ h[i] \in Nat
      BY <1>1, <2>1
    <3> QED BY <2>4, <2>5, <3>1
  <2>7. DeepestOf(ts, S) = CHOOSE k \in S : \A j \in S : h[j] <= h[k]
    BY Zenon DEF DeepestOf
  <2> QED BY <2>6, <2>7
<1>3. ASSUME NEW i \in DOMAIN ts, ts[i].deps # {}
      PROVE  /\ DeepestOf(ts, ts[i].deps) \in ts[i].deps
             /\ h[i] = 1 + h[DeepestOf(ts, ts[i].deps)]
  <2>1. PICK S, d : S = ts[i].deps /\ d = DeepestOf(ts, S)
    OBVIOUS
  <2>2. S \in SUBSET DOMAIN ts /\ S # {}
    BY <1>3, <2>1 DEF Closed
  <2>3. d \in S /\ \A j \in S : h[j] <= h[d]
    BY <1>2, <2>1, <2>2
  <2>4. /\ h[i] \in Nat /\ \A e \in S : h[e] < h[i]
        /\ \E e \in S : h[i] = 1 + h[e]
    BY <1>3, <2>1, DepthOfDependency
  <2>5. \A e \in S : h[e] \in Nat
    BY <1>1, <2>2
  <2> QED BY <2>1, <2>3, <2>4, <2>5
<1> QED BY <1>2, <1>3

\* What the recursion of longestChain computes: a chain by task.
ChainRule(ts, f) ==
    f = [i \in DOMAIN ts |-> IF ts[i].deps = {} THEN <<i>>
                             ELSE Append(f[DeepestOf(ts, ts[i].deps)], i)]

\* Such chains exist, and the query reads that of a deepest task.
LEMMA ChainExists ==
  ASSUME NEW ts, Closed(ts), Rooted(ts)
  PROVE  \E f : /\ ChainRule(ts, f)
                /\ DOMAIN ts # {} => LongestChain(ts) = f[DeepestOf(ts, DOMAIN ts)]
<1> PICK T, h : T = DOMAIN ts /\ h = ComputeDepths(ts)
  OBVIOUS
<1> DEFINE next(i) == DeepestOf(ts, ts[i].deps)
           V == [T -> Seq(T)]
           Longer(g) == [i \in T |-> IF ts[i].deps = {} THEN <<i>> ELSE Append(g[next(i)], i)]
           start == [i \in T |-> <<i>>]
           step == [n \in Nat |-> [g \in V |-> Longer(g)]]
<1>1. ASSUME NEW i \in T
      PROVE  /\ h[i] \in Nat
             /\ ts[i].deps # {} => next(i) \in T /\ h[i] = 1 + h[next(i)] /\ h[next(i)] \in Nat
  <2>1. h[i] \in Nat
    BY DepthOfDependency
  <2>2. ASSUME ts[i].deps # {}
        PROVE  next(i) \in ts[i].deps /\ h[i] = 1 + h[next(i)]
    BY <2>2, DeepestExists
  <2>3. \A d \in ts[i].deps : d \in T /\ h[d] \in Nat
    BY DepthOfDependency DEF Closed
  <2> HIDE DEF next
  <2> QED BY <2>1, <2>2, <2>3
<1> HIDE DEF next
<1>2. start \in V
  OBVIOUS
<1>3. ASSUME NEW g \in V
      PROVE  Longer(g) \in V
  <2>1. \A i \in T : ts[i].deps # {} => g[next(i)] \in Seq(T)
    BY <1>1
  <2>2. ASSUME NEW i \in T
        PROVE  (IF ts[i].deps = {} THEN <<i>> ELSE Append(g[next(i)], i)) \in Seq(T)
    <3>1. CASE ts[i].deps = {}
      BY <3>1
    <3>2. CASE ts[i].deps # {}
      <4>1. PICK c \in Seq(T) : c = g[next(i)]
        BY <2>1, <3>2
      <4>2. Append(c, i) \in Seq(T)
        OBVIOUS
      <4> QED BY <3>2, <4>1, <4>2
    <3> QED BY <3>1, <3>2
  <2> QED BY <2>2
<1>4. step \in [Nat -> [V -> V]]
  <2> HIDE DEF V, Longer
  <2> QED BY <1>3
<1>5. PICK g : Iterates(g, V, start, step)
  <2> HIDE DEF step, start, V
  <2> QED BY <1>2, <1>4, NatRecursion
<1>6. ASSUME NEW n \in Nat
      PROVE  g[n] \in V /\ g[n + 1] = Longer(g[n])
  <2>1. g \in [Nat -> V] /\ g[n + 1] = step[n][g[n]]
    BY <1>5 DEF Iterates
  <2> HIDE DEF V, Longer
  <2> QED BY <2>1
<1> DEFINE f == [i \in T |-> g[h[i] + 1][i]]
<1>7. ASSUME NEW i \in T
      PROVE  f[i] = IF ts[i].deps = {} THEN <<i>> ELSE Append(f[next(i)], i)
  <2>1. f[i] = Longer(g[h[i]])[i]
    <3>1. f[i] = g[h[i] + 1][i]
      OBVIOUS
    <3> HIDE DEF f, Longer
    <3> QED BY <1>1, <1>6, <3>1
  <2>2. f[i] = IF ts[i].deps = {} THEN <<i>> ELSE Append(g[h[i]][next(i)], i)
    <3> HIDE DEF f
    <3> QED BY <2>1
  <2>3. ASSUME ts[i].deps # {}
        PROVE  g[h[i]][next(i)] = f[next(i)]
    <3>1. next(i) \in T /\ h[i] = h[next(i)] + 1
      BY <1>1, <2>3
    <3> QED BY <3>1
  <2> HIDE DEF f
  <2> QED BY <2>2, <2>3
<1>8. ChainRule(ts, f)
  <2>1. f = [i \in T |-> f[i]]
    OBVIOUS
  <2> HIDE DEF f
  <2>2. f = [i \in T |-> IF ts[i].deps = {} THEN <<i>> ELSE Append(f[next(i)], i)]
    BY <1>7, <2>1
  <2> QED BY <2>2 DEF ChainRule, next
<1> DEFINE e == CHOOSE p : ChainRule(ts, p)
<1>9. ChainRule(ts, e)
  <2> HIDE DEF f
  <2> QED BY <1>8
<1>10. T # {} => LongestChain(ts) = e[DeepestOf(ts, DOMAIN ts)]
  BY DEF LongestChain, ChainRule, DeepestOf
<1> HIDE DEF e
<1> QED BY <1>9, <1>10

\* Each of them is a way down to its task through dependencies, as long as deep.
LEMMA ChainsDescend ==
  ASSUME NEW ts, Closed(ts), Rooted(ts), NEW f, ChainRule(ts, f)
  PROVE  \A i \in DOMAIN ts :
            /\ f[i] \in Seq(DOMAIN ts)
            /\ Len(f[i]) = ComputeDepths(ts)[i] + 1
            /\ f[i][Len(f[i])] = i
            /\ \A n \in 1..Len(f[i]) - 1 : f[i][n] \in ts[f[i][n + 1]].deps
<1> PICK T, h : T = DOMAIN ts /\ h = ComputeDepths(ts)
  OBVIOUS
<1> DEFINE Good(c, i) == /\ c \in Seq(T) /\ Len(c) = h[i] + 1 /\ c[Len(c)] = i
                         /\ \A n \in 1..Len(c) - 1 : c[n] \in ts[c[n + 1]].deps
           Bad == {i \in T : ~Good(f[i], i)}
<1> SUFFICES ASSUME Bad # {} PROVE FALSE
  OBVIOUS
<1>1. PICK i \in Bad : ts[i].deps \cap Bad = {}
  <2>1. Bad \in SUBSET DOMAIN ts
    OBVIOUS
  <2> HIDE DEF Bad
  <2> QED BY <2>1 DEF Rooted
<1>2. i \in T /\ ~Good(f[i], i) /\ h[i] \in Nat
  BY <1>1, DepthOfDependency
<1>3. CASE ts[i].deps = {}
  <2>1. f[i] = <<i>>
    BY <1>2, <1>3 DEF ChainRule
  <2>2. h[i] = 0
    BY <1>2, <1>3, DepthOfDependency
  <2>3. Good(<<i>>, i)
    BY <1>2, <2>2
  <2> HIDE DEF Good
  <2> QED BY <1>2, <2>1, <2>3
<1>4. CASE ts[i].deps # {}
  <2>1. PICK d, c : d = DeepestOf(ts, ts[i].deps) /\ c = f[d]
    OBVIOUS
  <2>2. d \in ts[i].deps /\ h[i] = 1 + h[d]
    BY <1>2, <1>4, <2>1, DeepestExists
  <2>3. d \in T /\ h[d] \in Nat
    BY <1>2, <2>2, DepthOfDependency DEF Closed
  <2>4. f[i] = Append(c, i)
    BY <1>2, <1>4, <2>1 DEF ChainRule
  <2>5. Good(c, d)
    BY <1>1, <2>1, <2>2, <2>3
  <2>6. PICK b : b = Append(c, i)
    OBVIOUS
  <2>7. /\ b \in Seq(T) /\ Len(b) = Len(c) + 1 /\ b[Len(c) + 1] = i /\ Len(c) \in Nat
        /\ \A n \in 1..Len(c) : b[n] = c[n]
    BY <1>2, <2>5, <2>6
  <2>8. ASSUME NEW n \in 1..Len(b) - 1
        PROVE  b[n] \in ts[b[n + 1]].deps
    <3>1. CASE n = Len(c)
      <4>1. c[Len(c)] = d /\ n \in 1..Len(c)
        BY <2>5, <2>7, <3>1
      <4>2. b[n] = d /\ b[n + 1] = i
        BY <2>7, <3>1, <4>1
      <4> HIDE DEF Good
      <4> QED BY <2>2, <4>2
    <3>2. CASE n # Len(c)
      <4>1. n \in 1..Len(c) - 1 /\ n \in 1..Len(c) /\ n + 1 \in 1..Len(c)
        BY <2>7, <3>2
      <4> QED BY <2>5, <2>7, <4>1
    <3> QED BY <3>1, <3>2
  <2>9. Good(b, i)
    BY <2>2, <2>3, <2>5, <2>7, <2>8
  <2> HIDE DEF Good
  <2> QED BY <1>2, <2>4, <2>6, <2>9
<1> QED BY <1>3, <1>4

\* No task is as deep as there are ids: the levels above it hold a task each.
LEMMA DepthIsBounded ==
  ASSUME NEW ts, Closed(ts), Rooted(ts), NEW i \in DOMAIN ts
  PROVE  Cardinality(Ids) \in Nat /\ ComputeDepths(ts)[i] < Cardinality(Ids)
<1> PICK T, h : T = DOMAIN ts /\ h = ComputeDepths(ts)
  OBVIOUS
<1>1. T \subseteq Ids /\ h \in [T -> Nat]
  BY DepthIsLongest DEF Closed
<1>2. \A n \in 0..h[i] : \E a \in T : h[a] = n
  <2> SUFFICES ASSUME NEW n \in 0..h[i] PROVE \E a \in T : h[a] = n
    OBVIOUS
  <2>1. CASE n = h[i]
    BY <2>1
  <2>2. CASE n # h[i]
    <3>1. n \in Nat /\ n < h[i]
      BY <1>1, <2>2
    <3>2. PICK a \in Above(ts, i) : h[a] = n
      BY <3>1, EveryLevelAbove
    <3>3. a \in T
      BY AboveIsLessDeep
    <3> QED BY <3>2, <3>3
  <2> QED BY <2>1, <2>2
<1> DEFINE at1 == [n \in 0..h[i] |-> CHOOSE a \in T : h[a] = n]
<1>3. \A n \in 0..h[i] : at1[n] \in Ids /\ h[at1[n]] = n
  BY <1>1, <1>2
<1>4. at1 \in Injection(0..h[i], Ids)
  <2>1. at1 = [n \in 0..h[i] |-> at1[n]]
    OBVIOUS
  <2> HIDE DEF at1
  <2> QED BY <1>3, <2>1 DEF Injection, IsInjective
<1>5. IsFiniteSet(Ids) /\ Cardinality(Ids) \in Nat
  BY GraphAssumption, FS_CardinalityType
<1>6. Cardinality(0..h[i]) <= Cardinality(Ids)
  <2> HIDE DEF at1
  <2> QED BY <1>4, <1>5, FS_Injection
<1>7. Cardinality(0..h[i]) = h[i] + 1
  <2>1. h[i] \in Nat
    BY <1>1
  <2> QED BY <2>1, FS_Interval
<1> QED BY <1>1, <1>5, <1>6, <1>7

\* What is left after each round of Rounds.
RoundsRule(ts, f) ==
    f = [n \in 0..Cardinality(Ids) |->
            IF n = 0 THEN {} ELSE {i \in DOMAIN ts : ts[i].deps \subseteq f[n - 1]}]

\* A round takes one level away, so there are as many as the deepest task is deep,
\* and one.
LEMMA RoundsAreLevels ==
  ASSUME NEW ts, Closed(ts), Rooted(ts)
  PROVE  Rounds(ts) = IF DOMAIN ts = {} THEN 0
                      ELSE ComputeDepths(ts)[DeepestOf(ts, DOMAIN ts)] + 1
<1> PICK T, h, N : T = DOMAIN ts /\ h = ComputeDepths(ts) /\ N = Cardinality(Ids)
  OBVIOUS
<1>1. /\ N \in Nat
      /\ \A i \in T : /\ h[i] \in Nat /\ h[i] < N
                      /\ \A d \in ts[i].deps : d \in T /\ h[d] < h[i] /\ h[d] \in Nat
                      /\ ts[i].deps = {} => h[i] = 0
                      /\ ts[i].deps # {} => \E d \in ts[i].deps : h[i] = 1 + h[d]
  <2>1. N \in Nat
    BY GraphAssumption, FS_CardinalityType
  <2>2. \A i \in T : h[i] \in Nat /\ ts[i].deps \subseteq T
    BY DepthOfDependency DEF Closed
  <2> QED BY <2>1, <2>2, DepthOfDependency, DepthIsBounded
<1> DEFINE upTo(n) == {i \in T : h[i] < n}
           Rule(f) == f = [n \in 0..N |-> IF n = 0 THEN {} ELSE {i \in T : ts[i].deps \subseteq f[n - 1]}]
<1>2. ASSUME NEW n \in 1..N
      PROVE  {i \in T : ts[i].deps \subseteq upTo(n - 1)} = upTo(n)
  <2> SUFFICES ASSUME NEW i \in T
               PROVE  ts[i].deps \subseteq upTo(n - 1) <=> h[i] < n
    OBVIOUS
  <2>1. n \in Nat /\ h[i] \in Nat /\ \A d \in ts[i].deps : d \in T /\ h[d] < h[i] /\ h[d] \in Nat
    BY <1>1
  <2>2. ASSUME h[i] < n, NEW d \in ts[i].deps
        PROVE  d \in upTo(n - 1)
    <3>1. h[d] < n - 1
      BY <2>1, <2>2
    <3> QED BY <2>1, <3>1
  <2>3. ASSUME ts[i].deps \subseteq upTo(n - 1)
        PROVE  h[i] < n
    <3>1. CASE ts[i].deps = {}
      BY <1>1, <3>1
    <3>2. CASE ts[i].deps # {}
      <4>1. PICK d \in ts[i].deps : h[i] = 1 + h[d]
        BY <1>1, <3>2
      <4>2. h[d] < n - 1
        BY <2>3
      <4> QED BY <2>1, <4>1, <4>2
    <3> QED BY <3>1, <3>2
  <2> QED BY <2>2, <2>3
<1>3. Rule([n \in 0..N |-> upTo(n)])
  <2> DEFINE f == [n \in 0..N |-> upTo(n)]
  <2>1. ASSUME NEW n \in 0..N
        PROVE  upTo(n) = IF n = 0 THEN {} ELSE {i \in T : ts[i].deps \subseteq f[n - 1]}
    <3>1. CASE n = 0
      BY <1>1, <3>1
    <3>2. CASE n # 0
      <4>1. n \in 1..N /\ n - 1 \in 0..N
        BY <1>1, <3>2
      <4>2. f[n - 1] = upTo(n - 1)
        BY <4>1
      <4> HIDE DEF f, upTo
      <4> QED BY <1>2, <3>2, <4>1, <4>2
    <3> QED BY <3>1, <3>2
  <2> QED BY <2>1
<1> DEFINE e == CHOOSE f : Rule(f)
<1>4. Rule(e)
  <2> HIDE DEF upTo
  <2> QED BY <1>3
<1>5. Rounds(ts) = Cardinality({n \in 1..N : e[n] # e[n - 1]})
  BY DEF Rounds
<1> HIDE DEF e
<1>6. \A n \in 0..N : e[n] = upTo(n)
  <2> DEFINE Bad == {n \in 0..N : e[n] # upTo(n)}
  <2> SUFFICES ASSUME Bad # {} PROVE FALSE
    OBVIOUS
  <2>1. PICK n \in Bad : \A k \in Bad : n <= k
    <3>1. Bad \in SUBSET Nat
      OBVIOUS
    <3> HIDE DEF Bad
    <3> QED BY <3>1, LeastNat
  <2>2. n \in 0..N /\ e[n] # upTo(n)
    BY <2>1
  <2>3. n # 0
    BY <1>1, <1>4, <2>2
  <2>4. n \in 1..N /\ n - 1 \in 0..N /\ ~ (n <= n - 1)
    BY <1>1, <2>2, <2>3
  <2>5. e[n - 1] = upTo(n - 1)
    BY <2>1, <2>4
  <2>6. e[n] = {i \in T : ts[i].deps \subseteq e[n - 1]}
    BY <1>4, <2>2, <2>3
  <2> HIDE DEF upTo, Bad
  <2> QED BY <1>2, <2>2, <2>4, <2>5, <2>6
<1>7. \A n \in 1..N : e[n] # e[n - 1] <=> \E i \in T : h[i] = n - 1
  <2> SUFFICES ASSUME NEW n \in 1..N
               PROVE  upTo(n) # upTo(n - 1) <=> \E i \in T : h[i] = n - 1
    <3>1. \A n \in 1..N : n \in 0..N /\ n - 1 \in 0..N
      BY <1>1
    <3> HIDE DEF upTo
    <3> QED BY <1>6, <3>1
  <2>1. \A i \in T : h[i] < n <=> h[i] < n - 1 \/ h[i] = n - 1
    BY <1>1
  <2>2. \A i \in T : h[i] = n - 1 => ~ (h[i] < n - 1)
    BY <1>1
  <2> QED BY <2>1, <2>2
<1>8. CASE T = {}
  <2>1. {n \in 1..N : e[n] # e[n - 1]} = {}
    BY <1>7, <1>8
  <2> QED BY <1>5, <1>8, <2>1, FS_EmptySet
<1>9. CASE T # {}
  <2>1. PICK m : m = DeepestOf(ts, T)
    OBVIOUS
  <2>2. m \in T /\ \A j \in T : h[j] <= h[m]
    BY <1>9, <2>1, DeepestExists
  <2>3. h[m] \in Nat /\ h[m] < N
    BY <1>1, <2>2
  <2>4. ASSUME NEW n \in 1..N
        PROVE  (\E i \in T : h[i] = n - 1) <=> n <= h[m] + 1
    <3>1. ASSUME n <= h[m] + 1
          PROVE  \E i \in T : h[i] = n - 1
      <4>1. CASE n = h[m] + 1
        <5>1. n - 1 = h[m]
          BY <2>3, <4>1
        <5> QED BY <2>2, <5>1
      <4>2. CASE n # h[m] + 1
        <5>1. n - 1 \in Nat /\ n - 1 < h[m]
          BY <2>3, <3>1, <4>2
        <5>2. PICK a \in Above(ts, m) : h[a] = n - 1
          BY <2>2, <5>1, EveryLevelAbove
        <5>3. a \in T
          BY <2>2, AboveIsLessDeep
        <5> QED BY <5>2, <5>3
      <4> QED BY <4>1, <4>2
    <3>2. ASSUME NEW i \in T, h[i] = n - 1
          PROVE  n <= h[m] + 1
      BY <2>2, <2>3, <3>2
    <3> QED BY <3>1, <3>2
  <2>5. {n \in 1..N : e[n] # e[n - 1]} = 1..h[m] + 1
    BY <1>1, <1>7, <2>3, <2>4
  <2>6. Cardinality(1..h[m] + 1) = h[m] + 1
    <3>1. h[m] + 1 \in Int /\ ~ (1 > h[m] + 1) /\ (h[m] + 1) - 1 + 1 = h[m] + 1
      BY <2>3
    <3> QED BY <3>1, FS_Interval
  <2> QED BY <1>5, <1>9, <2>1, <2>5, <2>6
<1> QED BY <1>8, <1>9

\* The warning of a serial graph: no two tasks share a level exactly if any two
\* are ordered.
LEMMA NarrowIsOrdered ==
  ASSUME NEW ts, Closed(ts), Rooted(ts)
  PROVE  AnalyzeShape(ts).narrow <=>
            /\ Cardinality(DOMAIN ts) >= 4
            /\ \A i, j \in DOMAIN ts : i = j \/ i \in Above(ts, j) \/ j \in Above(ts, i)
<1> PICK T, h, N : T = DOMAIN ts /\ h = ComputeDepths(ts) /\ N = Cardinality(Ids)
  OBVIOUS
<1>1. T \subseteq Ids /\ N \in Nat /\ \A i \in T : h[i] \in 0..N
  <2>1. T \subseteq Ids /\ N \in Nat
    BY GraphAssumption, FS_CardinalityType DEF Closed
  <2>2. \A i \in T : h[i] \in Nat /\ h[i] < N
    BY DepthOfDependency, DepthIsBounded
  <2> QED BY <2>1, <2>2
<1> DEFINE wave(d) == {i \in T : h[i] = d}
           sizes == {Cardinality(wave(d)) : d \in 0..N}
           W == {0} \cup sizes
<1>2. ASSUME NEW d
      PROVE  IsFiniteSet(wave(d)) /\ Cardinality(wave(d)) \in Nat
  <2>1. wave(d) \in SUBSET Ids
    BY <1>1
  <2> QED BY <2>1, GraphAssumption, FS_Subset, FS_CardinalityType
<1>3. W \in SUBSET Int /\ IsFiniteSet(W) /\ 0 \in W /\ W \subseteq Nat
  <2>1. sizes \subseteq Nat
    <3> HIDE DEF wave
    <3> QED BY <1>2
  <2>2. [d \in 0..N |-> Cardinality(wave(d))] \in Surjection(0..N, sizes)
    <3> HIDE DEF wave
    <3> QED BY DEF Surjection
  <2>3. IsFiniteSet(0..N)
    BY <1>1, FS_Interval
  <2>4. IsFiniteSet(sizes)
    <3> HIDE DEF sizes, wave
    <3> QED BY <2>2, <2>3, FS_Surjection
  <2>5. IsFiniteSet(W)
    <3>1. W = sizes \cup {0}
      OBVIOUS
    <3> HIDE DEF W, sizes
    <3> QED BY <2>4, <3>1, FS_AddElement
  <2> HIDE DEF sizes
  <2> QED BY <2>1, <2>5
<1>4. Max(W) \in W /\ \A k \in W : Max(W) >= k
  <2>1. W # {}
    OBVIOUS
  <2> HIDE DEF W
  <2> QED BY <1>3, <2>1, MaxIsLargest
<1>5. Max(W) <= 1 <=> \A d \in 0..N : Cardinality(wave(d)) <= 1
  <2>1. ASSUME Max(W) <= 1, NEW d \in 0..N
        PROVE  Cardinality(wave(d)) <= 1
    <3>1. Cardinality(wave(d)) \in W
      OBVIOUS
    <3>2. Max(W) >= Cardinality(wave(d)) /\ Max(W) \in Nat /\ Cardinality(wave(d)) \in Nat
      <4> HIDE DEF W
      <4> QED BY <1>3, <1>4, <3>1
    <3> HIDE DEF W, wave
    <3> QED BY <2>1, <3>2
  <2>2. ASSUME \A d \in 0..N : Cardinality(wave(d)) <= 1
        PROVE  Max(W) <= 1
    <3>1. \A k \in W : k <= 1
      <4> HIDE DEF wave
      <4> QED BY <2>2
    <3> HIDE DEF W
    <3> QED BY <1>4, <3>1
  <2> QED BY <2>1, <2>2
<1>6. ASSUME NEW d
      PROVE  Cardinality(wave(d)) <= 1 <=> \A i, j \in wave(d) : i = j
  <2> PICK S : S = wave(d)
    OBVIOUS
  <2>1. IsFiniteSet(S) /\ Cardinality(S) \in Nat
    BY <1>2
  <2>2. ASSUME Cardinality(S) <= 1, NEW i \in S, NEW j \in S
        PROVE  i = j
    <3>1. S # {} /\ Cardinality(S) # 0
      BY <2>1, FS_EmptySet
    <3>2. Cardinality(S) = 1
      BY <2>1, <2>2, <3>1
    <3>3. PICK x : S = {x}
      BY <2>1, <3>2, FS_Singleton
    <3> QED BY <3>3
  <2>3. ASSUME \A i, j \in S : i = j
        PROVE  Cardinality(S) <= 1
    <3>1. CASE S = {}
      BY <3>1, FS_EmptySet
    <3>2. CASE S # {}
      <4>1. PICK x \in S : S = {x}
        BY <2>3, <3>2
      <4>2. Cardinality(S) = 1
        BY <4>1, FS_Singleton
      <4> QED BY <4>2
    <3> QED BY <3>1, <3>2
  <2> HIDE DEF wave
  <2> QED BY <2>2, <2>3
<1>7. Max(W) <= 1 <=> \A i, j \in T : h[i] = h[j] => i = j
  <2>1. ASSUME \A d \in 0..N : \A i, j \in wave(d) : i = j, NEW i \in T, NEW j \in T, h[i] = h[j]
        PROVE  i = j
    <3>1. h[i] \in 0..N /\ i \in wave(h[i]) /\ j \in wave(h[i])
      BY <1>1, <2>1
    <3> HIDE DEF wave
    <3> QED BY <2>1, <3>1
  <2>2. ASSUME \A i, j \in T : h[i] = h[j] => i = j
        PROVE  \A d \in 0..N : \A i, j \in wave(d) : i = j
    BY <2>2
  <2> HIDE DEF W, wave
  <2> QED BY <1>5, <1>6, <2>1, <2>2
\* Two tasks of which one is deeper, with one task a level, are ordered.
<1>8. ASSUME \A i, j \in T : h[i] = h[j] => i = j, NEW i \in T, NEW j \in T, h[i] < h[j]
      PROVE  i \in Above(ts, j)
  <2>1. h[i] \in Nat
    BY <1>1
  <2>2. PICK a \in Above(ts, j) : h[a] = h[i]
    BY <1>8, <2>1, EveryLevelAbove
  <2>3. a \in T
    BY AboveIsLessDeep
  <2>4. a = i
    BY <1>8, <2>2, <2>3
  <2> QED BY <2>4
<1>9. (\A i, j \in T : h[i] = h[j] => i = j) <=>
         \A i, j \in T : i = j \/ i \in Above(ts, j) \/ j \in Above(ts, i)
  <2>1. ASSUME \A i, j \in T : h[i] = h[j] => i = j, NEW i \in T, NEW j \in T
        PROVE  i = j \/ i \in Above(ts, j) \/ j \in Above(ts, i)
    <3>1. h[i] = h[j] \/ h[i] < h[j] \/ h[j] < h[i]
      BY <1>1
    <3> QED BY <1>8, <2>1, <3>1
  <2>2. ASSUME \A i, j \in T : i = j \/ i \in Above(ts, j) \/ j \in Above(ts, i),
               NEW i \in T, NEW j \in T, h[i] = h[j], i # j
        PROVE  FALSE
    <3>1. h[i] < h[j] \/ h[j] < h[i]
      BY <2>2, AboveIsLessDeep
    <3> QED BY <1>1, <2>2, <3>1
  <2> QED BY <2>1, <2>2
<1>10. AnalyzeShape(ts).narrow <=> Cardinality(T) >= 4 /\ Max(W) <= 1
  <2> DEFINE M == Max({0} \cup {Cardinality({i \in DOMAIN ts : ComputeDepths(ts)[i] = d}) :
                                   d \in 0..Cardinality(Ids)})
  <2>1. AnalyzeShape(ts).narrow = (Cardinality(DOMAIN ts) >= 4 /\ M <= 1)
    BY Zenon DEF AnalyzeShape
  <2>2. M = Max(W)
    OBVIOUS
  <2> HIDE DEF W, M
  <2> QED BY <2>1, <2>2
<1> HIDE DEF W
<1> QED BY <1>7, <1>9, <1>10

\* The order of topoSort, and the rank of a task in it.
Before(ts, a, b) ==
    \/ ComputeDepths(ts)[a] < ComputeDepths(ts)[b]
    \/ ComputeDepths(ts)[a] = ComputeDepths(ts)[b] /\ ts[a].seq < ts[b].seq
Rank(ts, i) == Cardinality({j \in DOMAIN ts : Before(ts, j, i)})

\* The ranks are those of a total order: no two tasks share one, none is left out.
LEMMA RanksAreNumbers ==
  ASSUME NEW ts, Sound(ts)
  PROVE  /\ Cardinality(DOMAIN ts) \in Nat
         /\ \A i \in DOMAIN ts : Rank(ts, i) \in 0..Cardinality(DOMAIN ts) - 1
         /\ \A i, j \in DOMAIN ts : Before(ts, i, j) => Rank(ts, i) < Rank(ts, j)
         /\ \A i, j \in DOMAIN ts : Rank(ts, i) = Rank(ts, j) => i = j
         /\ \A n \in 0..Cardinality(DOMAIN ts) - 1 : \E i \in DOMAIN ts : Rank(ts, i) = n
<1> PICK T, h, N : T = DOMAIN ts /\ h = ComputeDepths(ts) /\ N = Cardinality(T)
  OBVIOUS
<1>1. /\ T \subseteq Ids /\ IsFiniteSet(T) /\ N \in Nat
      /\ \A i \in T : h[i] \in Nat /\ ts[i].seq \in Nat
      /\ \A i, j \in T : ts[i].seq = ts[j].seq => i = j
  <2>1. T \subseteq Ids
    BY DEF Sound
  <2>2. IsFiniteSet(T) /\ N \in Nat
    BY <2>1, GraphAssumption, FS_Subset, FS_CardinalityType
  <2>3. \A i \in T : h[i] \in Nat
    BY DepthOfDependency DEF Sound
  <2>4. \A i \in T : ts[i].seq \in Nat
    BY SoundTask DEF Task
  <2>5. \A i, j \in T : ts[i].seq = ts[j].seq => i = j
    BY DEF Sound, Numbered
  <2> QED BY <2>1, <2>2, <2>3, <2>4, <2>5
<1> DEFINE under(i) == {j \in T : Before(ts, j, i)}
<1>2. \A i, j \in T : Before(ts, i, j) \/ Before(ts, j, i) \/ i = j
  BY <1>1 DEF Before
<1>3. \A i, j, k \in T : Before(ts, i, j) /\ Before(ts, j, k) => Before(ts, i, k)
  BY <1>1 DEF Before
<1>4. \A i \in T : ~Before(ts, i, i)
  BY <1>1 DEF Before
<1>5. ASSUME NEW i \in T
      PROVE  /\ Rank(ts, i) = Cardinality(under(i)) /\ IsFiniteSet(under(i))
             /\ Rank(ts, i) \in 0..N - 1
  <2>1. under(i) \in SUBSET T /\ under(i) # T
    BY <1>4
  <2>2. /\ IsFiniteSet(under(i)) /\ Cardinality(under(i)) \in Nat
        /\ Cardinality(under(i)) <= N /\ Cardinality(under(i)) # N
    <3> HIDE DEF under
    <3> QED BY <1>1, <2>1, FS_Subset, FS_CardinalityType
  <2>3. Rank(ts, i) = Cardinality(under(i))
    BY DEF Rank
  <2> HIDE DEF under
  <2> QED BY <1>1, <2>2, <2>3
<1>6. ASSUME NEW i \in T, NEW j \in T, Before(ts, i, j)
      PROVE  Rank(ts, i) < Rank(ts, j)
  <2>1. under(i) \in SUBSET under(j) /\ under(i) # under(j)
    <3>1. \A k \in T : Before(ts, k, i) => Before(ts, k, j)
      BY <1>3, <1>6
    <3>2. i \in under(j) /\ i \notin under(i)
      BY <1>4, <1>6
    <3> QED BY <3>1, <3>2
  <2>2. Cardinality(under(i)) <= Cardinality(under(j)) /\ Cardinality(under(i)) # Cardinality(under(j))
    <3>1. IsFiniteSet(under(j))
      BY <1>5
    <3> HIDE DEF under
    <3> QED BY <2>1, <3>1, FS_Subset
  <2> HIDE DEF under
  <2> QED BY <1>1, <1>5, <2>2
<1>7. ASSUME NEW i \in T, NEW j \in T, Rank(ts, i) = Rank(ts, j)
      PROVE  i = j
  <2>1. Rank(ts, i) \in Nat
    <3>1. Rank(ts, i) \in 0..N - 1
      BY <1>5
    <3> QED BY <1>1, <3>1
  <2> QED BY <1>2, <1>6, <1>7, <2>1
<1>8. ASSUME NEW n \in 0..N - 1
      PROVE  \E i \in T : Rank(ts, i) = n
  <2> DEFINE rank == [i \in T |-> Rank(ts, i)]
  <2>1. rank \in Injection(T, 0..N - 1)
    BY <1>5, <1>7 DEF Injection, IsInjective
  <2>2. IsFiniteSet(0..N - 1) /\ Cardinality(0..N - 1) = N
    <3>1. 0 \in Int /\ N - 1 \in Int
      BY <1>1
    <3>2. /\ IsFiniteSet(0..N - 1)
          /\ Cardinality(0..N - 1) = IF 0 > N - 1 THEN 0 ELSE (N - 1) - 0 + 1
      BY <3>1, FS_Interval
    <3> QED BY <1>1, <3>2
  <2>3. rank \in Surjection(T, 0..N - 1)
    <3> HIDE DEF rank
    <3> QED BY <2>1, <2>2, FS_Injection
  <2> QED BY <2>3 DEF Surjection
<1> QED BY <1>1, <1>5, <1>6, <1>7, <1>8

\* topoSort lists every task once, after all that it depends on.
THEOREM TopoSortIsOrder ==
  ASSUME NEW ts, Sound(ts)
  PROVE  /\ TopoSort(ts) \in [1..Cardinality(DOMAIN ts) -> DOMAIN ts]
         /\ {TopoSort(ts)[n] : n \in DOMAIN TopoSort(ts)} = DOMAIN ts
         /\ \A m, n \in DOMAIN TopoSort(ts) :
               TopoSort(ts)[n] \in Above(ts, TopoSort(ts)[m]) => n < m
<1> PICK T, N, o : T = DOMAIN ts /\ N = Cardinality(T) /\ o = TopoSort(ts)
  OBVIOUS
<1>1. o = [n \in 1..Cardinality(DOMAIN ts) |->
              CHOOSE i \in DOMAIN ts : Rank(ts, i) = n - 1]
  BY Zenon DEF TopoSort, Rank, Before
<1>2. /\ N \in Nat
      /\ \A i \in T : Rank(ts, i) \in 0..N - 1
      /\ \A i, j \in T : Before(ts, i, j) => Rank(ts, i) < Rank(ts, j)
      /\ \A i, j \in T : Rank(ts, i) = Rank(ts, j) => i = j
      /\ \A n \in 0..N - 1 : \E i \in T : Rank(ts, i) = n
  BY RanksAreNumbers
<1>3. ASSUME NEW n \in 1..N
      PROVE  o[n] \in T /\ Rank(ts, o[n]) = n - 1
  <2>1. n - 1 \in 0..N - 1
    BY <1>2
  <2>2. \E i \in T : Rank(ts, i) = n - 1
    BY <1>2, <2>1
  <2>3. o[n] = CHOOSE i \in T : Rank(ts, i) = n - 1
    BY <1>1
  <2> QED BY <2>2, <2>3
<1>4. o \in [1..N -> T] /\ DOMAIN o = 1..N
  BY <1>1, <1>3
<1>5. ASSUME NEW i \in T
      PROVE  \E n \in 1..N : o[n] = i
  <2>1. PICK n : n = Rank(ts, i) + 1
    OBVIOUS
  <2>2. n \in 1..N /\ n - 1 = Rank(ts, i)
    BY <1>2, <2>1
  <2>3. o[n] = i
    BY <1>2, <1>3, <2>2
  <2> QED BY <2>2, <2>3
<1>6. {o[n] : n \in DOMAIN o} = T
  <2>1. ASSUME NEW i \in T
        PROVE  i \in {o[n] : n \in DOMAIN o}
    <3>1. PICK n \in 1..N : o[n] = i
      BY <1>5
    <3> QED BY <1>4, <3>1
  <2>2. \A n \in DOMAIN o : o[n] \in T
    BY <1>4
  <2> QED BY <2>1, <2>2
<1>7. ASSUME NEW m \in 1..N, NEW n \in 1..N, o[n] \in Above(ts, o[m])
      PROVE  n < m
  <2>1. o[m] \in T /\ o[n] \in T
    BY <1>3
  <2>2. ComputeDepths(ts)[o[n]] < ComputeDepths(ts)[o[m]]
    BY <1>7, <2>1, AboveIsLessDeep DEF Sound
  <2>3. Rank(ts, o[n]) < Rank(ts, o[m])
    BY <1>2, <2>1, <2>2 DEF Before
  <2>4. n - 1 < m - 1
    BY <1>3, <2>3
  <2> QED BY <1>2, <2>4
<1> QED BY <1>4, <1>6, <1>7

\* longestChain is a way through dependencies, and there is no longer one: it has
\* a task for each round of taking away what depends on nothing that is left.
THEOREM LongestChainIsLongest ==
  ASSUME NEW ts, Closed(ts), Rooted(ts)
  PROVE  /\ LongestChain(ts) \in Seq(DOMAIN ts)
         /\ \A n \in 1..Len(LongestChain(ts)) - 1 :
               LongestChain(ts)[n] \in ts[LongestChain(ts)[n + 1]].deps
         /\ Len(LongestChain(ts)) = Rounds(ts)
<1> PICK c, T : c = LongestChain(ts) /\ T = DOMAIN ts
  OBVIOUS
<1>1. CASE T = {}
  <2>1. c = << >>
    BY <1>1 DEF LongestChain
  <2>2. Rounds(ts) = 0
    BY <1>1, RoundsAreLevels
  <2>3. c \in Seq(T) /\ Len(c) = 0
    BY <2>1
  <2>4. 1..Len(c) - 1 = {}
    BY <2>3
  <2> QED BY <2>2, <2>3, <2>4
<1>2. CASE T # {}
  <2>1. PICK f : ChainRule(ts, f) /\ (T # {} => c = f[DeepestOf(ts, T)])
    BY ChainExists
  <2>2. PICK m : m = DeepestOf(ts, T)
    OBVIOUS
  <2>3. m \in T
    BY <1>2, <2>2, DeepestExists
  <2>4. Rounds(ts) = ComputeDepths(ts)[m] + 1
    BY <1>2, <2>2, RoundsAreLevels
  <2>5. /\ f[m] \in Seq(T) /\ Len(f[m]) = ComputeDepths(ts)[m] + 1
        /\ \A n \in 1..Len(f[m]) - 1 : f[m][n] \in ts[f[m][n + 1]].deps
    BY <2>1, <2>3, ChainsDescend
  <2> QED BY <1>2, <2>1, <2>2, <2>4, <2>5
<1> QED BY <1>1, <1>2

\* A sound graph has the shape that lint and layers report.
LEMMA SoundIsShaped ==
  ASSUME NEW ts, Sound(ts)
  PROVE  Shaped(ts)
<1> DEFINE shape == AnalyzeShape(ts)
           order == TopoSort(ts)
           chain == LongestChain(ts)
           lean == Lean(ts)
           above == [i \in DOMAIN ts |-> Above(ts, i)]
<1>1. Closed(ts) /\ Rooted(ts)
  BY DEF Sound
<1>2. \A i \in DOMAIN ts : above[i] = Above(ts, i)
  OBVIOUS
<1> HIDE DEF above
<1>3. /\ {order[n] : n \in DOMAIN order} = DOMAIN ts
      /\ \A m, n \in DOMAIN order : order[n] \in above[order[m]] => n < m
  <2>1. /\ order \in [1..Cardinality(DOMAIN ts) -> DOMAIN ts]
        /\ {order[n] : n \in DOMAIN order} = DOMAIN ts
        /\ \A m, n \in DOMAIN order : order[n] \in Above(ts, order[m]) => n < m
    BY TopoSortIsOrder
  <2>2. \A m \in DOMAIN order : above[order[m]] = Above(ts, order[m])
    BY <1>2, <2>1
  <2> QED BY <2>1, <2>2
<1>4. /\ \A n \in 1..Len(chain) - 1 : chain[n] \in ts[chain[n + 1]].deps
      /\ Len(chain) = Rounds(ts)
  BY <1>1, LongestChainIsLongest
<1>5. /\ \A i \in DOMAIN ts : Above(lean, i) = above[i]
      /\ FindRedundantDeps(lean) = {}
  BY <1>2, LeanKeepsOrder
<1>6. ASSUME NEW i \in DOMAIN ts
      PROVE  shape.blastRadius[i] = Cardinality({j \in DOMAIN ts : i \in above[j]})
  <2>1. AnalyzeShape(ts).blastRadius = [k \in DOMAIN ts |-> Cardinality(TransitiveDependentIds(ts, k))]
    BY Zenon DEF AnalyzeShape
  <2>2. shape.blastRadius[i] = Cardinality(TransitiveDependentIds(ts, i))
    BY <2>1
  <2>3. TransitiveDependentIds(ts, i) = {j \in DOMAIN ts : i \in Above(ts, j)}
    BY <1>1, DependentsAreBelow
  <2>4. {j \in DOMAIN ts : i \in Above(ts, j)} = {j \in DOMAIN ts : i \in above[j]}
    BY <1>2
  <2> QED BY <2>2, <2>3, <2>4
<1>7. Cardinality(DOMAIN ts) >= 4 =>
         (shape.narrow <=> \A i, j \in DOMAIN ts : i = j \/ i \in above[j] \/ j \in above[i])
  BY <1>1, <1>2, NarrowIsOrdered
<1> HIDE DEF shape, order, chain, lean
<1>8. ShapeFits(ts, shape, order, chain, lean, above)
  BY <1>3, <1>4, <1>5, <1>6, <1>7, Zenon DEF ShapeFits
<1> QED BY <1>8, Zenon DEF Shaped, shape, order, chain, lean, above

\* So after every step that changes an edge the order, the chain, the redundant
\* edges, the blast radius and the warning of a serial graph are right.
THEOREM GraphShapeRight == GraphSpec => ShapeRight
<1>1. GraphInv' => \E ts \in {tasks'} : Shaped(ts)
  <2> SUFFICES ASSUME GraphInv' PROVE \E ts \in {tasks'} : Shaped(ts)
    OBVIOUS
  <2> PICK us : us = tasks'
    OBVIOUS
  <2>1. Sound(us)
    BY DEF GraphInv
  <2> QED BY <2>1, SoundIsShaped
<1>2. GraphInv' => [Edges(tasks') # Edges(tasks) => \E ts \in {tasks'} : Shaped(ts)]_graphVars
  BY <1>1
<1> QED BY <1>2, GraphInvariant, PTL DEF GraphSpec, ShapeRight
=============================================================================
