----------------------------- MODULE Scheduler -----------------------------
(***************************************************************************)
(* The cross-run scheduler (scheduler.ts, commands/schedule.ts): a job     *)
(* list in schedule.json, `dag scheduler`, which drains it one `dag run`   *)
(* process at a time, and the `dag schedule` commands, which edit the list *)
(* from other processes while it works.                                    *)
(*                                                                         *)
(* No one locks schedule.json.  Whoever changes it loads all of it, works  *)
(* on that copy and saves the copy, in two steps between which others may  *)
(* do the same.  Overlap = FALSE is the world in which they happen not to. *)
(*                                                                         *)
(* Jobs are numbered in the order of the list.  --after takes an id or a   *)
(* name and nobody checks that it exists, so it may be any job, itself     *)
(* and later ones included.                                                *)
(***************************************************************************)
EXTENDS Integers, Sequences, FiniteSets

CONSTANTS
    MaxJobs,    \* jobs ever added
    MaxEdits,   \* edits ever made, the additions included
    MaxSpawns,  \* `dag run` processes ever started
    MaxDeaths,  \* times the scheduler is killed
    Editors,    \* the processes of `dag schedule`
    Sched,      \* the scheduler
    Commands,   \* what the editors do: "add", "remove", "retry", "clear"
    Afters,     \* the values of --after in this instance, 0 for none
    Clocks,     \* the jobs of this instance: with --at (TRUE), without (FALSE)
    Mode,       \* "plain", "watch", "drain" or "once"
    Failures,   \* may a `dag run` fail?
    Overlap,    \* may a load-save of one process contain another's?
    NoView

ASSUME SchedulerAssumption ==
    /\ {MaxJobs, MaxEdits, MaxSpawns, MaxDeaths} \subseteq Nat
    /\ Sched \notin Editors
    /\ Commands \subseteq {"add", "remove", "retry", "clear"}
    /\ Afters \subseteq 0 .. MaxJobs
    /\ Mode \in {"plain", "watch", "drain", "once"}
    /\ Clocks \subseteq BOOLEAN /\ Failures \in BOOLEAN /\ Overlap \in BOOLEAN

VARIABLES
    jobs,       \* schedule.json
    added,      \* jobs added so far
    edits,      \* edits so far
    op,         \* the edit each editor is making
    view,       \* the copy each process has loaded and not saved
    come,       \* the jobs whose --at is over
    procs,      \* the `dag run` processes, in the order they were started
    pc,         \* where the scheduler is
    child,      \* its child process, 0 for none
    runningId,  \* the job of that child
    deaths

vars == <<jobs, added, edits, op, view, come, procs, pc, child, runningId, deaths>>
editVars == <<added, edits, op>>
schedVars == <<pc, child, runningId, deaths>>

-----------------------------------------------------------------------------
Ids == 1 .. MaxJobs
Actors == Editors \cup {Sched}
Statuses == {"pending", "running", "done", "failed", "blocked", "cancelled"}
Job == [status : Statuses, after : 0 .. MaxJobs, timed : BOOLEAN, pid : 0 .. MaxSpawns]

\* What stands for no copy is no copy of a list.
ASSUME NoViewAssumption == \A S \in SUBSET Ids : NoView \notin [S -> Job]

Live(pid) == pid # 0 /\ procs[pid].exit = "none"

First(S) == CHOOSE j \in S : \A k \in S : j <= k

NoOp == [kind |-> "none", id |-> 0]
Ops == {NoOp} \cup {[kind |-> k, id |-> j] : k \in {"remove", "retry"}, j \in Ids}
       \cup {[kind |-> "clear", id |-> 0]}
       \cup {[kind |-> "add", id |-> j] : j \in Ids}

Init ==
    /\ jobs = <<>> /\ added = 0 /\ edits = 0
    /\ op = [e \in Editors |-> NoOp]
    /\ view = [x \in Actors |-> NoView]
    /\ come = {}
    /\ procs = <<>>
    /\ pc = "off" /\ child = 0 /\ runningId = 0 /\ deaths = 0

\* loadSchedule by x, and the saveSchedule of what x made of its copy.
MayLoad == Overlap \/ \A x \in Actors : view[x] = NoView
LoadBy(x) == MayLoad /\ view' = [view EXCEPT ![x] = jobs]
SaveBy(x, list) ==
    /\ jobs' = list
    /\ view' = [view EXCEPT ![x] = NoView]

-----------------------------------------------------------------------------
(* dag schedule *)

\* The job of "add" comes in at the end of the list, whatever was removed.
EditBegins(e) ==
    /\ view[e] = NoView /\ edits < MaxEdits
    /\ LoadBy(e)
    /\ edits' = edits + 1
    /\ \E kind \in Commands :
          \/ /\ kind = "add" /\ added < MaxJobs
             /\ added' = added + 1
             /\ op' = [op EXCEPT ![e] = [kind |-> kind, id |-> added + 1]]
          \/ /\ kind \in {"remove", "retry"}
             /\ \E j \in DOMAIN jobs : op' = [op EXCEPT ![e] = [kind |-> kind, id |-> j]]
             /\ UNCHANGED added
          \/ /\ kind = "clear"
             /\ op' = [op EXCEPT ![e] = [kind |-> kind, id |-> 0]]
             /\ UNCHANGED added
    /\ UNCHANGED <<jobs, come, procs, schedVars>>

Without(list, S) == [j \in DOMAIN list \ S |-> list[j]]

Added(list, id, after, timed) ==
    [j \in DOMAIN list \cup {id} |->
        IF j = id THEN [status |-> "pending", after |-> after, timed |-> timed, pid |-> 0]
                  ELSE list[j]]

Finished(list) == {j \in DOMAIN list : list[j].status \notin {"pending", "running"}}

EditSaves(e) ==
    /\ view[e] # NoView
    /\ \/ /\ op[e].kind = "add"
          /\ \E after \in Afters, timed \in Clocks :
                SaveBy(e, Added(view[e], op[e].id, after, timed))
       \/ /\ op[e].kind = "remove"
          /\ SaveBy(e, Without(view[e], {op[e].id}))
       \/ /\ op[e].kind = "retry"
          /\ SaveBy(e, [view[e] EXCEPT ![op[e].id].status = "pending"])
       \/ /\ op[e].kind = "clear"
          /\ SaveBy(e, Without(view[e], Finished(view[e])))
    /\ op' = [op EXCEPT ![e] = NoOp]
    /\ UNCHANGED <<added, edits, come, procs, schedVars>>

-----------------------------------------------------------------------------
(* decideDue *)

Failing == {"failed", "blocked", "cancelled"}

\* Mutants of the code for the runs: an unfinished predecessor blocks, an
\* unknown one does not, and a job is due whatever its predecessor does.
BlockedUntilDone(list, j) ==
    /\ ~list[j].timed \/ j \in come
    /\ list[j].after # 0
    /\ \/ list[j].after \notin DOMAIN list
       \/ list[list[j].after].status # "done"

BlockedIfListed(list, j) ==
    /\ ~list[j].timed \/ j \in come
    /\ list[j].after \in DOMAIN list
    /\ list[list[j].after].status \in Failing

DueByTheClock(list, j) == ~list[j].timed \/ j \in come

\* decision.blocked
Blocked(list, j) ==
    /\ ~list[j].timed \/ j \in come
    /\ list[j].after # 0
    /\ \/ list[j].after \notin DOMAIN list
       \/ list[list[j].after].status \in Failing

Due(list, j) ==
    /\ ~list[j].timed \/ j \in come
    /\ \/ list[j].after = 0
       \/ list[j].after \in DOMAIN list /\ list[list[j].after].status = "done"

\* The pass over the list that blocks dependents and unblocks them: each job
\* is decided on the list as the jobs before it left it.
Decided(list, j) ==
    IF j \notin DOMAIN list THEN list
    ELSE IF list[j].status = "pending" /\ Blocked(list, j)
         THEN [list EXCEPT ![j].status = "blocked"]
    ELSE IF /\ list[j].status = "blocked" /\ list[j].after \in DOMAIN list
            /\ list[list[j].after].status \in {"pending", "running"}
         THEN [list EXCEPT ![j].status = "pending"]
    ELSE list

BlockPass(list) ==
    LET upTo[n \in 0 .. MaxJobs] ==
            IF n = 0 THEN list ELSE Decided(upTo[n - 1], n)
    IN  upTo[MaxJobs]

-----------------------------------------------------------------------------
(* runScheduler.  Its turns are synchronous but the list is shared, so each *)
(* of its load-save pairs is two steps; it is interruptible where it waits. *)

Goto(s) == pc' = s

Boot ==
    /\ pc = "off" /\ LoadBy(Sched) /\ Goto("boot")
    /\ UNCHANGED <<jobs, editVars, come, procs, child, runningId, deaths>>

\* A job left running whose process is gone is failed; one whose process is
\* alive is left as it is.
BootSaves ==
    /\ pc = "boot"
    /\ LET list == view[Sched]
           gone == {j \in DOMAIN list : list[j].status = "running" /\ ~Live(list[j].pid)}
       IN  SaveBy(Sched, IF gone = {} THEN jobs
                         ELSE [j \in DOMAIN list |->
                                  IF j \in gone
                                  THEN [list[j] EXCEPT !.status = "failed", !.pid = 0]
                                  ELSE list[j]])
    /\ Goto("reap")
    /\ UNCHANGED <<editVars, come, procs, child, runningId, deaths>>

\* A mutant for the runs: the child is taken as reaped before its exit.
ReapEarly ==
    /\ pc = "reap"
    /\ IF child = 0 THEN Goto("block") /\ UNCHANGED view
                    ELSE LoadBy(Sched) /\ Goto("reaped")
    /\ UNCHANGED <<jobs, editVars, come, procs, child, runningId, deaths>>

\* The top of the loop: with a child, wait for its exit.
Reap ==
    /\ pc = "reap"
    /\ \/ /\ child = 0
          /\ Goto("block")
          /\ UNCHANGED view
       \/ /\ child # 0 /\ ~Live(child)
          /\ LoadBy(Sched)
          /\ Goto("reaped")
    /\ UNCHANGED <<jobs, editVars, come, procs, child, runningId, deaths>>

ReapSaves ==
    /\ pc = "reaped"
    /\ LET list == view[Sched]
           verdict == IF procs[child].exit = "ok" THEN "done" ELSE "failed"
       IN  SaveBy(Sched, IF runningId \in DOMAIN list
                         THEN [list EXCEPT ![runningId].status = verdict]
                         ELSE jobs)
    /\ child' = 0 /\ runningId' = 0
    /\ Goto(IF Mode = "once" THEN "over" ELSE "block")
    /\ UNCHANGED <<editVars, come, procs, deaths>>

Block ==
    /\ pc = "block" /\ LoadBy(Sched) /\ Goto("blocked")
    /\ UNCHANGED <<jobs, editVars, come, procs, child, runningId, deaths>>

BlockSaves ==
    /\ pc = "blocked"
    /\ LET list == view[Sched]
       IN  SaveBy(Sched, IF BlockPass(list) # list THEN BlockPass(list) ELSE jobs)
    /\ Goto("pick")
    /\ UNCHANGED <<editVars, come, procs, child, runningId, deaths>>

Pending == {j \in DOMAIN jobs : jobs[j].status = "pending"}
Startable == {j \in Pending : Due(jobs, j)}

Pick ==
    /\ pc = "pick" /\ MayLoad
    /\ \/ /\ Startable # {} /\ Len(procs) < MaxSpawns
          /\ runningId' = First(Startable)
          /\ procs' = Append(procs, [job |-> First(Startable), exit |-> "none"])
          /\ child' = Len(procs) + 1
          /\ Goto("spawned")
       \/ /\ Startable = {}
          /\ Goto(IF \/ Mode = "watch" \/ (Mode = "plain" /\ Pending # {})
                  THEN "poll" ELSE "over")
          /\ UNCHANGED <<procs, child, runningId>>
    /\ UNCHANGED <<jobs, editVars, view, come, deaths>>

Mark ==
    /\ pc = "spawned" /\ LoadBy(Sched) /\ Goto("mark")
    /\ UNCHANGED <<jobs, editVars, come, procs, child, runningId, deaths>>

MarkSaves ==
    /\ pc = "mark"
    /\ LET list == view[Sched]
       IN  SaveBy(Sched, IF runningId \in DOMAIN list
                         THEN [list EXCEPT ![runningId].status = "running",
                                           ![runningId].pid = child]
                         ELSE jobs)
    /\ Goto("reap")
    /\ UNCHANGED <<editVars, come, procs, child, runningId, deaths>>

Poll ==
    /\ pc = "poll" /\ Goto("reap")
    /\ UNCHANGED <<jobs, editVars, view, come, procs, child, runningId, deaths>>

\* SIGINT, where the scheduler awaits: the child is killed, its job cancelled.
Interrupted ==
    /\ deaths < MaxDeaths
    /\ pc = "poll" \/ (pc = "reap" /\ child # 0)
    /\ deaths' = deaths + 1
    /\ procs' = IF Live(child) THEN [procs EXCEPT ![child].exit = "bad"] ELSE procs
    /\ LoadBy(Sched)
    /\ Goto("interrupted")
    /\ UNCHANGED <<jobs, editVars, come, child, runningId>>

InterruptSaves ==
    /\ pc = "interrupted"
    /\ LET list == view[Sched]
       IN  SaveBy(Sched, IF runningId \in DOMAIN list
                         THEN [list EXCEPT ![runningId].status = "cancelled"]
                         ELSE jobs)
    /\ child' = 0 /\ runningId' = 0
    /\ Goto("off")
    /\ UNCHANGED <<editVars, come, procs, deaths>>

\* The scheduler is killed anywhere; its child, if it has one, runs on.
Killed ==
    /\ deaths < MaxDeaths /\ pc \notin {"off", "over"}
    /\ deaths' = deaths + 1
    /\ view' = [view EXCEPT ![Sched] = NoView]
    /\ child' = 0 /\ runningId' = 0
    /\ Goto("off")
    /\ UNCHANGED <<jobs, editVars, come, procs>>

\* runScheduler has returned; someone calls it again.
Again ==
    /\ pc = "over" /\ Goto("off")
    /\ UNCHANGED <<jobs, editVars, view, come, procs, child, runningId, deaths>>

-----------------------------------------------------------------------------
Exit(i) ==
    /\ procs[i].exit = "none"
    /\ \E code \in {"ok"} \cup (IF Failures THEN {"bad"} ELSE {}) :
          procs' = [procs EXCEPT ![i].exit = code]
    /\ UNCHANGED <<jobs, editVars, view, come, schedVars>>

TimeComes(j) ==
    /\ j \in DOMAIN jobs /\ jobs[j].timed /\ j \notin come
    /\ come' = come \cup {j}
    /\ UNCHANGED <<jobs, editVars, view, procs, schedVars>>

Working == Boot \/ BootSaves \/ Reap \/ ReapSaves \/ Block \/ BlockSaves
           \/ Pick \/ Mark \/ MarkSaves \/ Poll \/ InterruptSaves \/ Again

Next ==
    \/ \E e \in Editors : EditBegins(e) \/ EditSaves(e)
    \/ Working \/ Interrupted \/ Killed
    \/ \E i \in DOMAIN procs : Exit(i)
    \/ \E j \in Ids : TimeComes(j)

Spec == Init /\ [][Next]_vars

\* The scheduler takes its steps and is started again when it stops, every
\* `dag run` exits, every edit ends and every time comes.
FairSpec ==
    /\ Spec
    /\ WF_vars(Working)
    /\ \A e \in Editors : WF_vars(EditSaves(e))
    /\ \A i \in 1 .. MaxSpawns : WF_vars(i \in DOMAIN procs /\ Exit(i))
    /\ \A j \in Ids : WF_vars(TimeComes(j))

-----------------------------------------------------------------------------
\* Every variable has its type.
IsList(list) == DOMAIN list \subseteq Ids /\ list \in [DOMAIN list -> Job]

TypeOK ==
    /\ IsList(jobs)
    /\ added \in 0 .. MaxJobs /\ edits \in 0 .. MaxEdits
    /\ op \in [Editors -> Ops]
    /\ DOMAIN view = Actors /\ \A x \in Actors : view[x] = NoView \/ IsList(view[x])
    /\ come \subseteq Ids
    /\ procs \in Seq([job : Ids, exit : {"none", "ok", "bad"}])
    /\ Len(procs) <= MaxSpawns
    /\ pc \in {"off", "boot", "reap", "reaped", "block", "blocked", "pick", "spawned",
               "mark", "poll", "interrupted", "over"}
    /\ child \in 0 .. Len(procs) /\ runningId \in 0 .. MaxJobs
    /\ deaths \in 0 .. MaxDeaths

Runs(j) == {i \in DOMAIN procs : procs[i].job = j}
LastRun(j) == CHOOSE i \in Runs(j) : \A k \in Runs(j) : k <= i

\* "Never more than one job in flight": until the scheduler is killed or
\* interrupted, at most one `dag run` is alive, whatever is added, removed,
\* retried or lost while it runs.
OneInFlight ==
    deaths = 0 => \A i, k \in DOMAIN procs : Live(i) /\ Live(k) => i = k

\* A job with a predecessor starts only when the last run of the predecessor
\* exited with 0: never beside it, never after its failure, its cancellation
\* or the death of the scheduler that ran it.
StartsAfterSuccess ==
    [][\A i \in DOMAIN procs' \ DOMAIN procs :
          LET j == procs'[i].job
              k == jobs[j].after
          IN  k # 0 => Runs(k) # {} /\ procs[LastRun(k)].exit = "ok"]_vars

\* What a job waits for, through its predecessors.
Ancestors(j) ==
    LET upTo[n \in 0 .. MaxJobs] ==
            IF n = 0 THEN {j}
            ELSE LET S == upTo[n - 1]
                 IN  S \cup {jobs[k].after : k \in S \cap DOMAIN jobs}
    IN  upTo[MaxJobs] \ {j, 0}

\* Nothing j waits for comes after its dependent in the list: no --after
\* named a job that did not exist yet, and no jobs wait for each other.
InOrder(j) ==
    \A k \in (Ancestors(j) \cup {j}) \cap DOMAIN jobs : jobs[k].after < k

\* decideDue blocks "rather than letting it run": under a scheduler that never
\* died, a job whose predecessors are all still listed is blocked only when
\* something it waits for, directly or not, was run and did not end well.
BlockedForAFailure ==
    \A j \in DOMAIN jobs :
        /\ jobs[j].status = "blocked" /\ deaths = 0
        /\ InOrder(j) /\ Ancestors(j) \subseteq DOMAIN jobs
        => \E i \in DOMAIN procs : procs[i].job \in Ancestors(j) /\ procs[i].exit # "ok"

\* A pending job whose predecessors all come before it in the list is decided:
\* it is started, blocked or removed, unless the scheduler is killed (a child
\* that survives it holds its dependents back for ever).
PendingEnds ==
    \A j \in Ids :
        (j \in DOMAIN jobs /\ jobs[j].status = "pending" /\ InOrder(j))
        ~> (deaths > 0 \/ ~(j \in DOMAIN jobs /\ jobs[j].status = "pending"))

=============================================================================
