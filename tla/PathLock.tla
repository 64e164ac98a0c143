------------------------------ MODULE PathLock ------------------------------
(***************************************************************************)
(* The PID lock file every writer of shared state takes: acquirePathLock   *)
(* and acquireLock in store.ts run the same loop on two paths, the         *)
(* registry's (or the follow-up ledger's) and a run's.                     *)
(*                                                                         *)
(* A lock is a file.  Creating it with the "wx" flag is exclusive, but     *)
(* its text is written by a second system call, so a rival can see it      *)
(* empty; and the loop reads the file, asks whether the pid it read is     *)
(* alive and removes the PATH in three separate steps, so what it removes  *)
(* need not be what it judged.  Every such step is an action here.         *)
(*                                                                         *)
(* A process is a (host, pid) pair.  A process that starts with the pid    *)
(* of a dead one on the same host is the same element of Procs, reborn.    *)
(***************************************************************************)
EXTENDS Integers, FiniteSets

CONSTANTS
    Procs,      \* the dag processes that share the path
    Host,       \* the host each one runs on
    Mortal,     \* those that may exit or be killed
    Reborn,     \* those whose pid the system may hand out again
    Forcers,    \* those that may be called with --force
    Stall,      \* may rivals read nothing from a live owner's file for a second?
    Patience,   \* waits of 25 ms that make up that second (40 in the code)
    MaxTries,   \* attempts of the loop (60 in the code)
    NoProc

ASSUME ProcsAssumption ==
    /\ NoProc \notin Procs
    /\ Mortal \subseteq Procs /\ Reborn \subseteq Mortal /\ Forcers \subseteq Procs
ASSUME HostAssumption == DOMAIN Host = Procs
ASSUME LoopAssumption ==
    Stall \in BOOLEAN /\ Patience \in Nat /\ MaxTries \in Nat \ {0}

VARIABLES
    lock,       \* the lock file: who created it, and whether its text is there
    alive,      \* what process.kill(pid, 0) answers on the owner's host
    at,         \* where each process is in the loop
    tries,      \* attempts made
    empties,    \* reads of nothing in a row (emptySince)
    seen,       \* the owner read and not judged yet
    forced,     \* called with --force
    evicted     \* history: those whose file a rival removed under them

lockVars == <<lock, alive, at, tries, empties, seen, forced, evicted>>

-----------------------------------------------------------------------------
NoLock == [by |-> NoProc, full |-> FALSE]
Empty(p) == [by |-> p, full |-> FALSE]
Full(p) == [by |-> p, full |-> TRUE]

Steps == {"idle", "create", "fill", "read", "judge", "remove", "reclaim",
          "held", "drop"}

\* acquireLock has returned the release function, and it has not run yet.
Owner(p) == at[p] = "held"

\* The file on the path is one p created and still answers for.
Claims(p) == at[p] \in {"fill", "held", "drop"}

\* Mutants for the runs: an empty lock is given up on at once, or never.
GivesUpAtOnce(p) == lock # NoLock
\* The second of reading nothing is over.  The code trusts that a live
\* process needs less to write its text: Stall says it may need more.
MayGiveUp(p) ==
    /\ empties[p] = Patience
    /\ Stall \/ (lock # NoLock /\ ~alive[lock.by])

\* The removal of the path by p takes the file from under a live claimant.
Evict(p) == IF lock # NoLock /\ lock.by # p /\ Claims(lock.by)
            THEN {lock.by} ELSE {}

InitLock ==
    /\ lock = NoLock
    /\ alive = [p \in Procs |-> TRUE]
    /\ at = [p \in Procs |-> "idle"]
    /\ tries = [p \in Procs |-> 0]
    /\ empties = [p \in Procs |-> 0]
    /\ seen = [p \in Procs |-> NoProc]
    /\ forced = [p \in Procs |-> FALSE]
    /\ evicted = {}

-----------------------------------------------------------------------------
Start(p, f) ==
    /\ alive[p] /\ at[p] = "idle"
    /\ f => p \in Forcers
    /\ at' = [at EXCEPT ![p] = "create"]
    /\ forced' = [forced EXCEPT ![p] = f]
    /\ UNCHANGED <<lock, alive, tries, empties, seen, evicted>>

\* A mutant of the code for the runs: the open is not exclusive.
CreatesAnyway(p) ==
    /\ alive[p] /\ at[p] = "create" /\ tries[p] < MaxTries
    /\ lock' = Empty(p)
    /\ at' = [at EXCEPT ![p] = "fill"]
    /\ UNCHANGED <<alive, tries, empties, seen, forced, evicted>>

\* writeFileSync(path, ..., {flag: 'wx'}): the open either creates the file
\* or fails with EEXIST.
Create(p) ==
    /\ alive[p] /\ at[p] = "create" /\ tries[p] < MaxTries
    /\ \/ /\ lock = NoLock
          /\ lock' = Empty(p)
          /\ at' = [at EXCEPT ![p] = "fill"]
       \/ /\ lock # NoLock
          /\ at' = [at EXCEPT ![p] = "read"]
          /\ UNCHANGED lock
    /\ UNCHANGED <<alive, tries, empties, seen, forced, evicted>>

\* The write of its text.  It goes to the file p opened, which may be on the
\* path no longer.
Fill(p) ==
    /\ alive[p] /\ at[p] = "fill"
    /\ lock' = IF lock = Empty(p) THEN Full(p) ELSE lock
    /\ at' = [at EXCEPT ![p] = "held"]
    /\ tries' = [tries EXCEPT ![p] = 0]
    /\ empties' = [empties EXCEPT ![p] = 0]
    /\ forced' = [forced EXCEPT ![p] = FALSE]
    /\ UNCHANGED <<alive, seen, evicted>>

\* Gone again, or created and not written: wait, or take it for garbage.
ReadNothing(p) ==
    /\ alive[p] /\ at[p] = "read" /\ ~lock.full
    /\ \/ /\ MayGiveUp(p)
          /\ at' = [at EXCEPT ![p] = "remove"]
          /\ UNCHANGED <<tries, empties>>
       \/ /\ ~MayGiveUp(p)
          /\ at' = [at EXCEPT ![p] = "create"]
          /\ tries' = [tries EXCEPT ![p] = tries[p] + 1]
          /\ empties' = [empties EXCEPT ![p] =
                            IF empties[p] < Patience THEN empties[p] + 1 ELSE Patience]
    /\ UNCHANGED <<lock, alive, seen, forced, evicted>>

ReadOwner(p) ==
    /\ alive[p] /\ at[p] = "read" /\ lock.full
    /\ empties' = [empties EXCEPT ![p] = 0]
    /\ \/ /\ lock.by = p
          /\ at' = [at EXCEPT ![p] = "reclaim"]
          /\ UNCHANGED seen
       \/ /\ lock.by # p
          /\ at' = [at EXCEPT ![p] = "judge"]
          /\ seen' = [seen EXCEPT ![p] = lock.by]
    /\ UNCHANGED <<lock, alive, tries, forced, evicted>>

\* The pid is this process's own: the file is opened with "w", which creates
\* or truncates whatever is on the path by now.
Reclaim(p) ==
    /\ alive[p] /\ at[p] = "reclaim"
    /\ lock' = Empty(p)
    /\ at' = [at EXCEPT ![p] = "fill"]
    /\ evicted' = evicted \cup Evict(p)
    /\ UNCHANGED <<alive, tries, empties, seen, forced>>

\* The call is over for p, by a throw or by its release.
Leave(p) ==
    /\ at' = [at EXCEPT ![p] = "idle"]
    /\ tries' = [tries EXCEPT ![p] = 0]
    /\ empties' = [empties EXCEPT ![p] = 0]
    /\ forced' = [forced EXCEPT ![p] = FALSE]

\* const stale = cur.host === hostname() && !isProcessAlive(cur.pid)
Stale(p, q) == Host[q] = Host[p] /\ ~alive[q]

Judge(p) ==
    /\ alive[p] /\ at[p] = "judge"
    /\ seen' = [seen EXCEPT ![p] = NoProc]
    /\ \/ /\ Stale(p, seen[p]) \/ forced[p]
          /\ at' = [at EXCEPT ![p] = "remove"]
          /\ UNCHANGED <<tries, empties, forced>>
       \/ /\ ~Stale(p, seen[p]) /\ ~forced[p]
          /\ Leave(p)
    /\ UNCHANGED <<lock, alive, evicted>>

\* rmSync(path, {force: true}), whoever's file is there now.
Remove(p) ==
    /\ alive[p] /\ at[p] = "remove"
    /\ lock' = NoLock
    /\ evicted' = evicted \cup Evict(p)
    /\ at' = [at EXCEPT ![p] = "create"]
    /\ tries' = [tries EXCEPT ![p] = tries[p] + 1]
    /\ UNCHANGED <<alive, empties, seen, forced>>

Contended(p) ==
    /\ alive[p] /\ at[p] = "create" /\ tries[p] = MaxTries
    /\ Leave(p)
    /\ UNCHANGED <<lock, alive, seen, evicted>>

\* The release function: read the file, and remove the path if the pid is mine.
Release(p) ==
    /\ alive[p] /\ at[p] = "held"
    /\ \/ /\ lock = Full(p)
          /\ at' = [at EXCEPT ![p] = "drop"]
          /\ UNCHANGED <<tries, empties, forced, evicted>>
       \/ /\ lock # Full(p)
          /\ Leave(p)
          /\ evicted' = evicted \ {p}
    /\ UNCHANGED <<lock, alive, seen>>

Drop(p) ==
    /\ alive[p] /\ at[p] = "drop"
    /\ lock' = NoLock
    /\ evicted' = (evicted \cup Evict(p)) \ {p}
    /\ Leave(p)
    /\ UNCHANGED <<alive, seen>>

\* An exit or a kill, wherever the process is; its file stays.
Die(p) ==
    /\ p \in Mortal /\ alive[p]
    /\ alive' = [alive EXCEPT ![p] = FALSE]
    /\ Leave(p)
    /\ seen' = [seen EXCEPT ![p] = NoProc]
    /\ evicted' = evicted \ {p}
    /\ UNCHANGED lock

\* Another dag process gets the pid.
Rebirth(p) ==
    /\ p \in Reborn /\ ~alive[p]
    /\ alive' = [alive EXCEPT ![p] = TRUE]
    /\ UNCHANGED <<lock, at, tries, empties, seen, forced, evicted>>

\* The loop of acquireLock, between its call and its return.
Acquiring(p) ==
    \/ Create(p) \/ Fill(p) \/ ReadNothing(p) \/ ReadOwner(p) \/ Reclaim(p)
    \/ Judge(p) \/ Remove(p) \/ Contended(p)

Releasing(p) == Release(p) \/ Drop(p)

NextLock ==
    \E p \in Procs :
        \/ \E f \in BOOLEAN : Start(p, f)
        \/ Acquiring(p)
        \/ Releasing(p)
        \/ Die(p)
        \/ Rebirth(p)

SpecLock == InitLock /\ [][NextLock]_lockVars

-----------------------------------------------------------------------------
\* Every variable has its type; the dead are idle and nobody claims two files.
LockTypeOK ==
    /\ lock \in {NoLock} \cup [by : Procs, full : BOOLEAN]
    /\ alive \in [Procs -> BOOLEAN]
    /\ at \in [Procs -> Steps]
    /\ tries \in [Procs -> 0 .. MaxTries]
    /\ empties \in [Procs -> 0 .. Patience]
    /\ seen \in [Procs -> Procs \cup {NoProc}]
    /\ forced \in [Procs -> BOOLEAN]
    /\ evicted \subseteq Procs

\* What ownership rests on: a claimant no rival evicted is the one whose file
\* is on the path, and the text is there once it owns the lock; the dead claim
\* nothing; only a claimant can be evicted; a verdict is passed on a process.
ClaimSound(p) ==
    /\ Claims(p) /\ p \notin evicted =>
          lock = IF at[p] = "fill" THEN Empty(p) ELSE Full(p)
    /\ ~alive[p] => at[p] = "idle"
    /\ p \in evicted => Claims(p)
    /\ at[p] = "judge" => seen[p] \in Procs \ {p}
    /\ at[p] \in {"remove", "reclaim"} => tries[p] < MaxTries
    /\ at[p] \in {"read", "judge"} => tries[p] < MaxTries

LockInv == LockTypeOK /\ \A p \in Procs : ClaimSound(p)

\* Whatever dies, is reborn, stalls or forces: when two processes both believe
\* they own the lock, a rival's removal of the path took the file of one of
\* them.  Neither the create, nor the late text of a file, nor a refusal can.
OwnersDifferByEviction ==
    \A p, q \in Procs :
        p # q /\ Owner(p) /\ Owner(q) => p \in evicted \/ q \in evicted

\* "One writer per run": acquireLock has returned to one process at a time.
OneOwner ==
    \A p, q \in Procs : Owner(p) /\ Owner(q) => p = q

=============================================================================
