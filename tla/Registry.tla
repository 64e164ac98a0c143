------------------------------ MODULE Registry ------------------------------
(***************************************************************************)
(* The project registry, one JSON file every dag process of a user edits:  *)
(* registry.ts over the lock of PathLock and over atomicWrite and          *)
(* readJsonWithBackup of store.ts.                                         *)
(*                                                                         *)
(* An edit loads the whole registry, changes its copy and writes the whole *)
(* copy back.  addProject does so under withRegistryLock; removeProject    *)
(* and setProjectPort take no lock.  A write moves the old file to .bak    *)
(* and renames the new one into its place, so for a moment there is no     *)
(* primary file; a reader then takes the backup.                           *)
(***************************************************************************)
EXTENDS PathLock, TLC

CONSTANTS Files, Names, Ports, NoName, NoPort, NoOp, Done,
    Kinds       \* the calls of this instance: "add", "remove", "port"

ASSUME KindsAssumption == Kinds \subseteq {"add", "remove", "port"} /\ Done # NoOp

VARIABLES
    primary,    \* projects.json
    bak,        \* projects.json.bak
    call,       \* the edit each process was asked for
    stage,      \* how far it is
    buf         \* the registry it loaded

regVars == <<primary, bak, call, stage, buf>>
vars == <<lockVars, regVars>>

-----------------------------------------------------------------------------
NoFile == [there |-> FALSE, text |-> <<>>]
File(registry) == [there |-> TRUE, text |-> registry]

\* readJsonWithBackup, with the empty registry of loadRegistry for no file.
Current == IF primary.there THEN primary.text
           ELSE IF bak.there THEN bak.text ELSE <<>>

Atomic == INSTANCE AtomicRegistry WITH
    projects <- Current,
    pending <- [p \in Procs |-> IF stage[p] = "done" THEN Done ELSE call[p]]

ASSUME NoOpAssumption == NoOp \notin Atomic!Edits

\* A mutant for the runs: addProject takes no lock either.
NeverLocked(o) == o.kind = "nothing"

Locked(o) == o.kind = "add"

Init ==
    /\ InitLock
    /\ primary = NoFile /\ bak = NoFile
    /\ call = [p \in Procs |-> NoOp]
    /\ stage = [p \in Procs |-> "none"]
    /\ buf = [p \in Procs |-> <<>>]

-----------------------------------------------------------------------------
Begin(p) ==
    /\ alive[p] /\ call[p] = NoOp
    /\ \E o \in {e \in Atomic!Edits : e.kind \in Kinds} :
          /\ call' = [call EXCEPT ![p] = o]
          /\ \/ /\ Locked(o)
                /\ Start(p, FALSE)
                /\ stage' = [stage EXCEPT ![p] = "lock"]
             \/ /\ ~Locked(o)
                /\ stage' = [stage EXCEPT ![p] = "load"]
                /\ UNCHANGED lockVars
    /\ UNCHANGED <<primary, bak, buf>>

Load(p) ==
    /\ alive[p]
    /\ stage[p] = "load" \/ (stage[p] = "lock" /\ Owner(p))
    /\ \/ /\ Atomic!NothingToSave(Current, call[p])
          /\ stage' = [stage EXCEPT ![p] = "done"]
          /\ UNCHANGED buf
       \/ /\ ~Atomic!NothingToSave(Current, call[p])
          /\ stage' = [stage EXCEPT ![p] = "backup"]
          /\ buf' = [buf EXCEPT ![p] = Current]
    /\ UNCHANGED <<lockVars, primary, bak, call>>

\* A mutant for the runs: the old file is deleted, not kept as the backup.
BackupForgotten(p) ==
    /\ alive[p] /\ stage[p] = "backup"
    /\ primary' = NoFile
    /\ stage' = [stage EXCEPT ![p] = "write"]
    /\ UNCHANGED <<lockVars, bak, call, buf>>

\* atomicWrite, its first rename: the file, if there is one, becomes the
\* backup; a rename that fails is ignored.
Backup(p) ==
    /\ alive[p] /\ stage[p] = "backup"
    /\ \/ /\ primary.there
          /\ bak' = primary
          /\ primary' = NoFile
       \/ UNCHANGED <<primary, bak>>
    /\ stage' = [stage EXCEPT ![p] = "write"]
    /\ UNCHANGED <<lockVars, call, buf>>

\* Its second: the new text takes the path, or the call throws.
Write(p) ==
    /\ alive[p] /\ stage[p] = "write"
    /\ \/ /\ primary' = File(Atomic!Edited(buf[p], call[p]))
          /\ stage' = [stage EXCEPT ![p] = "done"]
       \/ /\ stage' = [stage EXCEPT ![p] = "failed"]
          /\ UNCHANGED primary
    /\ buf' = [buf EXCEPT ![p] = <<>>]
    /\ UNCHANGED <<lockVars, bak, call>>

Over(p) ==
    /\ call' = [call EXCEPT ![p] = NoOp]
    /\ stage' = [stage EXCEPT ![p] = "none"]
    /\ buf' = [buf EXCEPT ![p] = <<>>]

\* The steps of the lock: taken before the load, released in the finally.  A
\* process that is idle again has been refused, has released or has died.
Locking(p) ==
    /\ \/ stage[p] = "lock" /\ Acquiring(p)
       \/ stage[p] \in {"done", "failed"} /\ Releasing(p)
       \/ Die(p)
    /\ IF at'[p] = "idle" THEN Over(p) ELSE UNCHANGED <<call, stage, buf>>
    /\ UNCHANGED <<primary, bak>>

\* The return of a call that took no lock.
Return(p) ==
    /\ alive[p] /\ stage[p] \in {"done", "failed"} /\ ~Locked(call[p])
    /\ Over(p)
    /\ UNCHANGED <<lockVars, primary, bak>>

Reuse(p) == Rebirth(p) /\ UNCHANGED regVars

Next == \E p \in Procs :
    Begin(p) \/ Load(p) \/ Backup(p) \/ Write(p) \/ Locking(p) \/ Return(p) \/ Reuse(p)

Spec == Init /\ [][Next]_vars

\* A call is synchronous code from its first step to its last, unless p dies.
Working(p) ==
    Load(p) \/ Backup(p) \/ Write(p) \/ Return(p) \/ (Locking(p) /\ alive'[p])

FairSpec == Spec /\ \A p \in Procs : WF_vars(Working(p))

-----------------------------------------------------------------------------
\* Every variable has its type.
Registries == UNION {[F -> [name : Names \cup {NoName}, port : Ports \cup {NoPort}]] :
                     F \in SUBSET Files}

TypeOK ==
    /\ LockInv
    /\ {primary, bak} \subseteq {NoFile} \cup {File(r) : r \in Registries}
    /\ call \in [Procs -> Atomic!Edits \cup {NoOp}]
    /\ stage \in [Procs -> {"none", "lock", "load", "backup", "write", "done", "failed"}]
    /\ buf \in [Procs -> Registries]

\* "Every writer takes a lock so concurrent dag processes cannot lose each
\* other's edits": each call is one atomic edit of the registry there is.
Linear == Atomic!Spec

\* "A crash mid-rename cannot lose both copies": what a reader gets changes
\* only when a new text takes the path, never at the first rename, a failed
\* second one, a death between them, or any step of a rival.
EditsLandWhole ==
    [][(\A p \in Procs : ~(stage[p] = "write" /\ stage'[p] = "done"))
          => Current' = Current]_vars

=============================================================================
