-------------------------------- MODULE Hub --------------------------------
(* One project under two hands: the viewer's hub (server.ts), a process     *)
(* that keeps a runtime per run id and drives runs itself, and the command  *)
(* line, whose mutating commands hold the run lock until they exit.  Both   *)
(* work on the active slot, dag.run.json with its sidecar, and move runs    *)
(* to the archive under dag.runs (runs.ts).  A save is two atomic writes,   *)
(* a move a row of renames; `todo' holds what a process has still to do of  *)
(* the file operations it decided on, and either may die between two.       *)
(* How the lock is taken is PathLock's subject: here it is one step, and    *)
(* the lock of a dead process is free.                                      *)
EXTENDS Integers, Sequences, FiniteSets

CONSTANTS
    Runs, NoRun, First,  \* run ids; the one in the slot at the start
    Habits,              \* what the two hands may do to each other: see below
    MaxEdits, MaxFaults  \* bounds: edits and progress; deaths

\* "slow": between the headers of a request and its body the hub may do other work.
\* "alias": a request may name a run its runtime knows at the slot while the
\*     slot holds another.
\* "unlocked": the hub archives and makes new runs, which it does with no lock,
\*     while a command is running.
ASSUME HubAssumption ==
    /\ First \in Runs /\ NoRun \notin Runs
    /\ Habits \subseteq {"slow", "alias", "unlocked"}
    /\ MaxEdits \in Nat /\ MaxFaults \in Nat

VARIABLES
    slot,   \* the active run: definition and state, each with its .bak
    arch,   \* dag.runs/<id>, by id
    lock,   \* dag.run.json.lock: the process it names
    hub,    \* the hub's memory
    cli,    \* the command that runs, and the run it drives
    todo,   \* per process: file operations still to do
    past    \* edits so far and those acknowledged; deaths; whether one cut a file operation

vars == <<slot, arch, lock, hub, cli, todo, past>>

Procs == {"hub", "cli"}
NoDef == [run |-> NoRun, tasks |-> {}, set |-> {}]
NoSt == [there |-> FALSE, tasks |-> {}, marks |-> {}]
Fresh(r) == [def |-> [NoDef EXCEPT !.run = r], st |-> [NoSt EXCEPT !.there = TRUE]]
NoCopy == [def |-> NoDef, st |-> NoSt]
Empty == [def |-> NoDef, defBak |-> NoDef, st |-> NoSt, stBak |-> NoSt]
NoArchive == [dir |-> FALSE, files |-> Empty]
NoRt == [at |-> "none", starting |-> FALSE, live |-> FALSE]
NoReq == [kind |-> "none", run |-> NoRun, active |-> FALSE, at |-> "none"]
Off == [up |-> FALSE, rts |-> [r \in Runs |-> NoRt], driver |-> NoRun, mem |-> NoCopy, req |-> NoReq]

\* The first run has one task, number 0.
Init ==
    /\ LET c == [Fresh(First) EXCEPT !.def.tasks = {0}, !.st.tasks = {0}]
       IN  slot = [Empty EXCEPT !.def = c.def, !.st = c.st]
    /\ arch = [r \in Runs |-> NoArchive]
    /\ lock = "none"
    /\ hub = Off
    /\ cli = [cmd |-> "none", mem |-> NoCopy]
    /\ todo = [p \in Procs |-> <<>>]
    /\ past = [edits |-> 0, kept |-> {}, faults |-> 0, cut |-> FALSE]

---------------------------------------------------------------------------
(* Files.                                                                  *)

There(f) == f.def # NoDef
\* readJsonWithBackup: a missing file is read from its backup.
Read(main, bak, none) == IF main # none THEN main ELSE bak
Content(f) == [def |-> Read(f.def, f.defBak, NoDef), st |-> Read(f.st, f.stBak, NoSt)]
\* loadRun throws on a definition without the state of every one of its tasks.
Loads(f) ==
    LET c == Content(f)
    IN  c.def # NoDef /\ c.st.there /\ c.def.tasks \subseteq c.st.tasks

Op(f, v) == [f |-> f, v |-> v]
\* atomicWrite: the old file becomes the backup, the new one takes the path.
WriteDef(d) == <<Op("asideDef", NoRun), Op("putDef", d)>>
WriteSt(s) == <<Op("asideSt", NoRun), Op("putSt", s)>>
\* saveRun: nothing if nothing changed, the definition only if it changed.
Save(old, new) ==
    IF new = old THEN <<>>
    ELSE (IF new.def = old.def THEN <<>> ELSE WriteDef(new.def)) \o WriteSt(new.st)
Unlock == <<Op("unlock", NoRun)>>

\* archiveRun, and the archive that is there already.
AlreadyArchived(r) == arch[r].dir
Move(r) ==
    IF AlreadyArchived(r) THEN <<>>
    ELSE [i \in 1..5 |-> Op(<<"mkdir", "mvDef", "mvDir", "mvBak", "dropLock">>[i], r)]
Clear == <<Op("rmDef", NoRun), Op("rmDir", NoRun), Op("dropLock", NoRun)>>

\* startNewRun: history is archived, an empty run replaced, an unreadable one
\* written over.
StartNew(r) ==
    LET c == Content(slot)
    IN  (IF ~(There(slot) /\ Loads(slot)) THEN <<>>
         ELSE IF c.def.tasks # {} THEN Move(c.def.run) ELSE Clear)
        \o Save(NoCopy, Fresh(r))

Used == {r \in Runs : \/ arch[r].dir \/ r \in {slot.def.run, slot.defBak.run}
                      \/ hub.rts[r].at # "none" \/ \E k \in past.kept : k[1] = r}

\* One file operation of p; what it acknowledges is kept.
Write(p) ==
    /\ todo[p] # <<>>
    /\ todo' = [todo EXCEPT ![p] = Tail(@)]
    /\ LET o == Head(todo[p])
           v == o.v
       IN  /\ slot' = CASE o.f = "asideDef" /\ There(slot) ->
                              [slot EXCEPT !.defBak = slot.def, !.def = NoDef]
                        [] o.f = "putDef" -> [slot EXCEPT !.def = v]
                        [] o.f = "asideSt" /\ slot.st.there ->
                              [slot EXCEPT !.stBak = slot.st, !.st = NoSt]
                        [] o.f = "putSt" -> [slot EXCEPT !.st = v]
                        [] o.f \in {"mvDef", "rmDef"} -> [slot EXCEPT !.def = NoDef]
                        [] o.f \in {"mvDir", "rmDir"} -> [slot EXCEPT !.st = NoSt, !.stBak = NoSt]
                        [] o.f = "mvBak" -> [slot EXCEPT !.defBak = NoDef]
                        [] OTHER -> slot
           /\ arch' = CASE o.f = "mkdir" -> [arch EXCEPT ![v].dir = TRUE]
                        [] o.f = "mvDef" -> [arch EXCEPT ![v].files.def = slot.def]
                        [] o.f = "mvDir" -> [arch EXCEPT ![v].files.st = slot.st,
                                                         ![v].files.stBak = slot.stBak]
                        [] o.f = "mvBak" -> [arch EXCEPT ![v].files.defBak = slot.defBak]
                        [] o.f = "putArch" -> [arch EXCEPT ![v.def.run].files.st = v.st]
                        [] OTHER -> arch
           /\ lock' = IF o.f = "dropLock" \/ (o.f = "unlock" /\ lock = p) THEN "none" ELSE lock
           /\ past' = IF o.f = "ack" THEN [past EXCEPT !.kept = @ \cup {v}] ELSE past
    /\ UNCHANGED <<hub, cli>>

\* An edit: a task added, a setting, or something of the execution state.
CanEdit == past.edits < MaxEdits
Edited(c, kind) ==
    LET e == past.edits + 1
    IN  CASE kind = "add" -> [c EXCEPT !.def.tasks = @ \cup {e}, !.st.tasks = @ \cup {e}]
          [] kind = "set" -> [c EXCEPT !.def.set = @ \cup {e}]
          [] kind = "mark" -> [c EXCEPT !.st.marks = @ \cup {e}]
Saving(old, kind) ==
    Save(old, Edited(old, kind)) \o <<Op("ack", <<old.def.run, kind, past.edits + 1>>)>>
Counted == past' = [past EXCEPT !.edits = @ + 1]

---------------------------------------------------------------------------
(* The command line.                                                       *)

\* guard: a command takes the lock before it reads and keeps it until it exits.
Idle == cli.cmd = "none" /\ todo["cli"] = <<>>
MayBegin == Idle /\ lock = "none" /\ ("unlocked" \in Habits \/ todo["hub"] = <<>>)
Begins(cmd, c, ops) ==
    /\ MayBegin
    /\ lock' = "cli"
    /\ cli' = [cmd |-> cmd, mem |-> c]
    /\ todo' = [todo EXCEPT !["cli"] = ops]
    /\ UNCHANGED <<slot, arch, hub>>

CliEdit(kind) ==
    /\ Loads(slot) /\ CanEdit
    /\ Begins("edit", NoCopy, Saving(Content(slot), kind))
    /\ Counted

CliNewRun(r) ==
    /\ r \notin Used
    /\ Begins("new-run", NoCopy, StartNew(r))
    /\ UNCHANGED past

CliArchive ==
    /\ There(slot) /\ Loads(slot)
    /\ Begins("archive", NoCopy, Move(Content(slot).def.run))
    /\ UNCHANGED past

\* dag run: a runner in the command's own process.
CliRun == Loads(slot) /\ Begins("run", Content(slot), <<>>) /\ UNCHANGED past

CliRunSaves ==
    /\ cli.cmd = "run" /\ todo["cli"] = <<>> /\ CanEdit
    /\ cli' = [cli EXCEPT !.mem = Edited(@, "mark")]
    /\ todo' = [todo EXCEPT !["cli"] = Saving(cli.mem, "mark")]
    /\ Counted
    /\ UNCHANGED <<slot, arch, lock, hub>>

CliExits ==
    /\ cli.cmd # "none" /\ todo["cli"] = <<>>
    /\ cli' = [cmd |-> "none", mem |-> NoCopy]
    /\ lock' = IF lock = "cli" THEN "none" ELSE lock
    /\ UNCHANGED <<slot, arch, hub, todo, past>>

---------------------------------------------------------------------------
(* The hub: runtimes.                                                      *)

\* findRun: the slot if it holds the run and can be read, else the archive.
Found(r) ==
    IF There(slot) /\ Loads(slot) /\ Content(slot).def.run = r THEN "slot"
    ELSE IF There(arch[r].files) THEN "archive" ELSE "none"
\* runtimeFor: the cached runtime while there is a file where it points.
Rt(r) ==
    LET rt == hub.rts[r]
        file == IF rt.at = "slot" THEN slot ELSE arch[r].files
    IN  IF rt.at # "none" /\ There(file) THEN rt ELSE [NoRt EXCEPT !.at = Found(r)]

Ready == hub.up /\ todo["hub"] = <<>>
Undivided == hub.req = NoReq \/ "slow" \in Habits
\* A request about r is served: r has a runtime, and no other request is open.
Serves(r) ==
    /\ Ready /\ Undivided
    /\ Rt(r).at # "none"
    /\ "alias" \in Habits \/ Rt(r).at = "archive" \/ Content(slot).def.run = r
Undisturbed == "unlocked" \in Habits \/ Idle

Running(r) == Rt(r).live
WrittenToo(r) == FALSE  \* a mutant: an archived run is edited as any other
Archived(r) == Rt(r).at = "archive"
StartedTwice(r) == FALSE  \* a mutant: nothing says a run is in progress
\* activeRuntimeForFile, and the runtime itself.
InProgress(r) ==
    \E o \in Runs :
        /\ o = r \/ hub.rts[o].at = "slot"
        /\ LET rt == IF o = r THEN Rt(r) ELSE hub.rts[o] IN rt.live \/ rt.starting

Boot ==
    /\ ~hub.up
    /\ hub' = [Off EXCEPT !.up = TRUE]
    /\ UNCHANGED <<slot, arch, lock, cli, todo, past>>

\* Any page about r: only its runtime is cached.
Look(r) ==
    /\ Serves(r) /\ Rt(r) # hub.rts[r]
    /\ hub' = [hub EXCEPT !.rts[r] = Rt(r)]
    /\ UNCHANGED <<slot, arch, lock, cli, todo, past>>

\* mutate: under the lock, load, change, save, release.  A lock of the own
\* process is entered again, and released all the same.
Mutates(r, at, kind) ==
    /\ lock # "cli"
    /\ LET f == IF at = "slot" THEN slot ELSE arch[r].files
           c == Content(f)
       IN  \/ /\ Loads(f) /\ CanEdit
              /\ lock' = IF at = "slot" THEN "hub" ELSE lock
              /\ todo' = [todo EXCEPT !["hub"] =
                     IF at = "slot" THEN Saving(c, kind) \o Unlock
                     ELSE <<Op("putArch", Edited(c, kind))>>]
              /\ Counted
           \/ /\ ~Loads(f)
              /\ lock' = "none"
              /\ UNCHANGED <<todo, past>>
    /\ UNCHANGED <<slot, arch, cli>>

---------------------------------------------------------------------------
(* The hub: routes.                                                        *)

NotIdle(r, kind) == FALSE  \* a mutant: edits do not mind a live run
\* guardIdle: retries are refused while the run runs; an edit of a task goes to
\* the runner's own copy then.
Refused(r, kind) == kind = "retry" /\ Running(r)

\* retry, skip-blocked, kill-orphans; an edit of a task.  The guards are looked
\* at when the request comes, the rest happens when its body is there.
Ask(r, kind) ==
    /\ Serves(r) /\ hub.req = NoReq
    /\ ~Archived(r) /\ ~Refused(r, kind)
    /\ hub' = [hub EXCEPT !.rts[r] = Rt(r),
                          !.req = [kind |-> kind, run |-> r,
                                   at |-> Rt(r).at,
                                   active |-> kind = "task" /\ Running(r)]]
    /\ UNCHANGED <<slot, arch, lock, cli, todo, past>>

AnswerOnDisk ==
    LET r == hub.req.run
    IN  /\ Ready /\ hub.req # NoReq /\ ~hub.req.active
        /\ Mutates(r, hub.req.at, "mark")
        /\ hub' = [hub EXCEPT !.req = NoReq]

\* guardForeignLock: another process holds the run.
AnswerRefused ==
    /\ Ready /\ hub.req # NoReq /\ ~hub.req.active /\ lock = "cli"
    /\ hub' = [hub EXCEPT !.req = NoReq]
    /\ UNCHANGED <<slot, arch, lock, cli, todo, past>>

\* The runner that was live when the request came has the edit, and saves it.
AnswerInMemory ==
    /\ Ready /\ hub.req.active /\ CanEdit
    /\ hub' = [hub EXCEPT !.req = NoReq, !.mem = Edited(@, "mark")]
    /\ todo' = [todo EXCEPT !["hub"] = Saving(hub.mem, "mark")]
    /\ Counted
    /\ UNCHANGED <<slot, arch, lock, cli>>

\* patchSettings reads its body before it looks at anything.
Settings(r) ==
    /\ Serves(r)
    /\ ~Archived(r) /\ ~Running(r)
    /\ Mutates(r, Rt(r).at, "set")
    /\ hub' = [hub EXCEPT !.rts[r] = Rt(r)]

\* startRun.  The options it was given are saved under the lock.  A selection
\* with nothing to run gives it back, and so does the end of a runner that
\* refuses because another one of this process owns the file.
LockForgotten == <<>>  \* a mutant
NothingToRun == Unlock
Start(r) ==
    /\ Serves(r) /\ ~Archived(r) /\ ~InProgress(r)
    /\ lock # "cli"
    /\ \/ /\ Loads(slot)
          /\ lock' = "hub"
          /\ \E ops \in {<<>>, Saving(Content(slot), "set")}, something \in BOOLEAN :
                LET c == IF ops = <<>> THEN Content(slot) ELSE Edited(Content(slot), "set")
                    runs == something /\ hub.driver = NoRun
                    drives == [Rt(r) EXCEPT !.live = TRUE, !.starting = TRUE]
                IN  /\ IF ops = <<>> THEN UNCHANGED past ELSE CanEdit /\ Counted
                    /\ todo' = [todo EXCEPT !["hub"] = ops \o (IF runs THEN <<>> ELSE NothingToRun)]
                    /\ hub' = IF runs
                              THEN [hub EXCEPT !.driver = r, !.mem = c, !.rts[r] = drives]
                              ELSE [hub EXCEPT !.rts[r] = Rt(r)]
       \/ /\ ~Loads(slot)
          /\ lock' = "none"
          /\ hub' = [hub EXCEPT !.rts[r] = Rt(r)]
          /\ UNCHANGED <<todo, past>>
    /\ UNCHANGED <<slot, arch, cli>>

\* 60 ms later startRun looks at the runner once and answers.
Started(r) ==
    /\ Ready /\ Undivided /\ hub.rts[r].starting
    /\ hub' = [hub EXCEPT !.rts[r].starting = FALSE]
    /\ UNCHANGED <<slot, arch, lock, cli, todo, past>>

RunnerSaves ==
    /\ Ready /\ Undivided /\ hub.driver # NoRun /\ CanEdit
    /\ hub' = [hub EXCEPT !.mem = Edited(@, "mark")]
    /\ todo' = [todo EXCEPT !["hub"] = Saving(hub.mem, "mark")]
    /\ Counted
    /\ UNCHANGED <<slot, arch, lock, cli>>

\* The run settles or is stopped: its last save is made by now.
RunnerEnds ==
    /\ Ready /\ Undivided /\ hub.driver # NoRun
    /\ hub' = [hub EXCEPT !.driver = NoRun, !.rts[hub.driver].live = FALSE,
                          !.mem = IF hub.req.active THEN @ ELSE NoCopy]
    /\ todo' = [todo EXCEPT !["hub"] = Unlock]
    /\ UNCHANGED <<slot, arch, lock, cli, past>>

Archive(r) ==
    /\ Serves(r) /\ Undisturbed
    /\ ~Running(r)
    /\ Archived(r) \/ Loads(slot)
    /\ hub' = [hub EXCEPT !.rts[r] = NoRt]
    /\ todo' = [todo EXCEPT !["hub"] =
           IF Archived(r) THEN <<>> ELSE Move(Content(slot).def.run)]
    /\ UNCHANGED <<slot, arch, lock, cli, past>>

\* newRunRoute, and createProjectRoute where there is no run.
NewRun(r) ==
    /\ Ready /\ Undivided /\ Undisturbed
    /\ r \notin Used
    /\ There(slot) => lock # "cli" /\ ~\E o \in Runs :
           hub.rts[o].at = "slot" /\ (hub.rts[o].live \/ hub.rts[o].starting)
    /\ todo' = [todo EXCEPT !["hub"] = StartNew(r)]
    /\ hub' = [hub EXCEPT !.rts = [o \in Runs |->
                  IF o = r THEN [NoRt EXCEPT !.at = "slot"]
                  ELSE IF hub.rts[o].at = "slot" THEN NoRt ELSE hub.rts[o]]]
    /\ UNCHANGED <<slot, arch, lock, cli, past>>

\* SIGTERM: every runner is stopped and its lock given back, then the hub exits.
Shutdown ==
    /\ Ready /\ Undivided /\ hub.driver = NoRun
    /\ hub' = Off
    /\ UNCHANGED <<slot, arch, lock, cli, todo, past>>

Dies(p) ==
    /\ past.faults < MaxFaults
    /\ todo' = [todo EXCEPT ![p] = <<>>]
    /\ lock' = IF lock = p THEN "none" ELSE lock
    /\ past' = [past EXCEPT !.faults = @ + 1,
                            !.cut = @ \/ \E i \in DOMAIN todo[p] : todo[p][i].f \notin {"unlock", "ack"}]
    /\ UNCHANGED <<slot, arch>>
HubDies == hub.up /\ Dies("hub") /\ hub' = Off /\ UNCHANGED cli
CliDies ==
    /\ cli.cmd # "none" /\ Dies("cli")
    /\ cli' = [cmd |-> "none", mem |-> NoCopy]
    /\ UNCHANGED hub

Next ==
    \/ \E p \in Procs : Write(p)
    \/ \E k \in {"add", "set", "mark"} : CliEdit(k)
    \/ \E r \in Runs : CliNewRun(r) \/ NewRun(r)
    \/ CliArchive \/ CliRun \/ CliRunSaves \/ CliExits
    \/ Boot \/ Shutdown \/ HubDies \/ CliDies
    \/ \E r \in Runs : Look(r) \/ Settings(r) \/ Start(r) \/ Started(r) \/ Archive(r)
    \/ \E r \in Runs, k \in {"retry", "task"} : Ask(r, k)
    \/ AnswerOnDisk \/ AnswerRefused \/ AnswerInMemory
    \/ RunnerSaves \/ RunnerEnds

Spec == Init /\ [][Next]_vars

---------------------------------------------------------------------------
\* "One runner owns one file": while the hub drives a run no command drives
\* one or has anything left to do on the file, and the hub's lock is on it.
OneDriver == hub.driver # NoRun => cli.cmd # "run" /\ todo["cli"] = <<>> /\ lock = "hub"

\* The lock is held for as long as somebody works under it and no longer.
LockFreed ==
    /\ lock = "hub" => (hub.driver # NoRun \/ todo["hub"] # <<>>)
    /\ lock = "cli" => cli.cmd # "none"

Quiet == \A p \in Procs : todo[p] = <<>>
Home(r) == IF Found(r) = "archive" THEN arch[r].files ELSE slot
Holds(c, k) ==
    CASE k[2] = "add" -> k[3] \in c.def.tasks
      [] k[2] = "set" -> k[3] \in c.def.set
      [] k[2] = "mark" -> k[3] \in c.st.marks
HasTasks(r) == r = First \/ \E k \in past.kept : k[1] = r /\ k[2] = "add"
\* What was acknowledged stays: every edit of a run that is history is found
\* where the run is found, in the slot or in the archive, and the run loads,
\* unless a death cut a save or a move.
EditsKept ==
    Quiet /\ ~past.cut =>
        \A k \in past.kept : HasTasks(k[1]) =>
            /\ Found(k[1]) # "none" /\ Loads(Home(k[1]))
            /\ Holds(Content(Home(k[1])), k)

\* "Archived runs are read-only history": a file of an archive never changes
\* and never goes, whoever dies in the middle of archiving it.
HistoryFixed ==
    [][\A r \in Runs :
          /\ arch[r].files.def # NoDef => arch'[r].files.def = arch[r].files.def
          /\ arch[r].files.st.there => arch'[r].files.st = arch[r].files.st]_vars
=============================================================================
