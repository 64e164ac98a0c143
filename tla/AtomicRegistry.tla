--------------------------- MODULE AtomicRegistry ---------------------------
(***************************************************************************)
(* What the project registry promises its callers (registry.ts): every     *)
(* call that edits it takes effect at one instant between its start and    *)
(* its return, on the registry as it is at that instant, or not at all     *)
(* when the caller is refused or killed.                                   *)
(***************************************************************************)
EXTENDS TLC

CONSTANTS Procs, Files, Names, Ports, NoName, NoPort, NoOp, Done

\* The edits callers ask for: addProject, removeProject, setProjectPort.
Adds == [kind : {"add"}, file : Files, name : Names \cup {NoName}]
Removes == [kind : {"remove"}, file : Files]
PortEdits == [kind : {"port"}, file : Files, port : Ports]
Edits == Adds \cup Removes \cup PortEdits

\* The call returns before saveRegistry: no project matches.
NothingToSave(r, o) == o.kind # "add" /\ o.file \notin DOMAIN r

\* A second add of a file is a rename, when it names it.
Edited(r, o) ==
    CASE o.kind = "add" /\ o.file \in DOMAIN r ->
            IF o.name = NoName THEN r ELSE [r EXCEPT ![o.file].name = o.name]
      [] o.kind = "add" /\ o.file \notin DOMAIN r ->
            r @@ (o.file :> [name |-> o.name, port |-> NoPort])
      [] o.kind = "remove" -> [f \in DOMAIN r \ {o.file} |-> r[f]]
      [] o.kind = "port" -> [r EXCEPT ![o.file].port = o.port]

Effect(r, o) == IF NothingToSave(r, o) THEN r ELSE Edited(r, o)

VARIABLES
    projects,   \* the registry
    pending     \* each process's call: none, one that has had no effect yet, or done

Init == projects = <<>> /\ pending = [p \in Procs |-> NoOp]

Call(p) ==
    /\ pending[p] = NoOp
    /\ \E o \in Edits : pending' = [pending EXCEPT ![p] = o]
    /\ UNCHANGED projects

TakeEffect(p) ==
    /\ pending[p] \in Edits
    /\ projects' = Effect(projects, pending[p])
    /\ pending' = [pending EXCEPT ![p] = Done]

\* It returns, or it is refused or killed with or without its effect.
Return(p) ==
    /\ pending[p] # NoOp
    /\ pending' = [pending EXCEPT ![p] = NoOp]
    /\ UNCHANGED projects

Next == \E p \in Procs : Call(p) \/ TakeEffect(p) \/ Return(p)

Spec == Init /\ [][Next]_<<projects, pending>>

=============================================================================
