----------------------------- MODULE ProxmoxVE -----------------------------
(***************************************************************************)
(* One Proxmox VE node as proxkube sees it through the ProxmoxAPI          *)
(* interface (pkg/controller/pod.go, pkg/proxmox/client.go).  The server   *)
(* is not part of the repository: what it does is modelled from what the   *)
(* client code relies on and from the errors it handles.                   *)
(*                                                                         *)
(* Every mutating request (create, start, stop, destroy) is an             *)
(* asynchronous task.  A task holds the lock of its container until it     *)
(* ends, and it ends whether or not anybody still polls it.                *)
(*                                                                         *)
(* Simplification: one node, and only containers managed by proxkube;      *)
(* resources, network and tags of a container are left out.                *)
(***************************************************************************)
EXTENDS Naturals

CONSTANTS
  Clients,    \* processes that call the API: CLI runs, operators, scripts
  Names,      \* host names of containers
  VMIDs,      \* container identifiers of the cluster
  None,       \* no client, no name
  Faults      \* what may go wrong, a subset of FaultKinds

(* "reject"  a request fails without effect (HTTP error, refused socket)   *)
(* "lost"    a mutating request takes effect, its reply does not arrive    *)
(* "task"    a task ends with an exit status other than OK                 *)
(* "abandon" the wait for a task ends before the task (deadline, poll error) *)
(* "output" a finished "pct create" has printed something, which is then   *)
(*          polled as if it were a task, in vain                           *)
(* "crash"   a client process dies in the middle of an operation           *)
(* "halt"    a container stops by itself                                   *)
FaultKinds == {"reject", "lost", "task", "abandon", "output", "crash", "halt"}

ASSUME VEAssumption ==
  /\ VMIDs \subseteq Nat \ {0}
  /\ None \notin Clients \cup Names
  /\ Faults \subseteq FaultKinds

VARIABLES
  name,       \* name[v]: host name of container v, or of the one being created
  state,      \* state[v]: "absent", "stopped" or "running"
  job,        \* job[v]: the task that holds the lock of v and who waits for it
  outcome     \* outcome[c]: exit status of the last task c waits for

pve == <<name, state, job, outcome>>

TaskKinds == {"create", "start", "stop", "destroy"}
NoJob == [kind |-> "none", by |-> None]

(* The state a task of each kind needs, and the one it leaves.             *)
Needs(kind) ==
  CASE kind = "create" -> "absent"
    [] kind \in {"start", "destroy"} -> "stopped"
    [] kind = "stop" -> "running"

Leaves(kind) ==
  CASE kind \in {"create", "stop"} -> "stopped"
    [] kind = "start" -> "running"
    [] kind = "destroy" -> "absent"

VETypeOK ==
  /\ name \in [VMIDs -> Names \cup {None}]
  /\ state \in [VMIDs -> {"absent", "stopped", "running"}]
  /\ job \in [VMIDs -> [kind : TaskKinds \cup {"none"}, by : Clients \cup {None}]]
  /\ outcome \in [Clients -> {"none", "OK", "failed"}]

VEInit ==
  /\ name = [v \in VMIDs |-> None]
  /\ state = [v \in VMIDs |-> "absent"]
  /\ job = [v \in VMIDs |-> NoJob]
  /\ outcome = [c \in Clients |-> "none"]

Exists(v) == state[v] # "absent"
Locked(v) == job[v].kind # "none"

(* GET .../lxc, the containers findByName can match: one that is still     *)
(* being created does not carry its host name yet and is left out.         *)
ListLXC == {v \in VMIDs : Exists(v)}

(* GET .../status/current: "absent" stands for the error reply.            *)
GetLXCStatus(v) == IF job[v].kind = "create" THEN "stopped" ELSE state[v]

(* GET /cluster/nextid: the lowest identifier that is not in use.          *)
FreeIDs == {v \in VMIDs : ~Exists(v) /\ ~Locked(v)}
NextIDs == {v \in FreeIDs : \A w \in FreeIDs : v <= w}

Accepts(kind, v) == ~Locked(v) /\ state[v] = Needs(kind)

(* An accepted request: the task starts; c polls it unless the reply is    *)
(* lost (by = None).  h is the host name given to a new container.         *)
Submit(c, by, kind, v, h) ==
  /\ Accepts(kind, v)
  /\ job' = [job EXCEPT ![v] = [kind |-> kind, by |-> by]]
  /\ name' = IF kind = "create" THEN [name EXCEPT ![v] = h] ELSE name
  /\ outcome' = [outcome EXCEPT ![c] = "none"]
  /\ UNCHANGED state

(* A task ends: OK, and the container is in its new state, or failed.      *)
EndTask(v, exit) ==
  LET left == IF exit = "OK" THEN Leaves(job[v].kind) ELSE state[v] IN
  /\ Locked(v)
  /\ state' = [state EXCEPT ![v] = left]
  /\ name' = IF left = "absent" THEN [name EXCEPT ![v] = None] ELSE name
  /\ outcome' = [c \in Clients |-> IF c = job[v].by THEN exit ELSE outcome[c]]
  /\ job' = [job EXCEPT ![v] = NoJob]

TaskDone(v) == EndTask(v, "OK")
TaskFailed(v) == "task" \in Faults /\ EndTask(v, "failed")

(* c stops polling: its task, if it still runs, goes on.                   *)
Orphan(c) ==
  /\ job' = [v \in VMIDs |-> IF job[v].by = c THEN [job[v] EXCEPT !.by = None] ELSE job[v]]
  /\ UNCHANGED <<name, state, outcome>>

(* The container's init exits (poweroff inside the guest, a failing        *)
(* service of an OCI image).                                               *)
Halt(v) ==
  /\ "halt" \in Faults
  /\ state[v] = "running"
  /\ state' = [state EXCEPT ![v] = "stopped"]
  /\ UNCHANGED <<name, job, outcome>>
=============================================================================
