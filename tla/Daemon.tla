------------------------------- MODULE Daemon -------------------------------
(***************************************************************************)
(* The monitoring daemon (pkg/daemon/daemon.go) and the process around it  *)
(* (runDaemon in cmd/proxkube/main.go, proxkube-daemon.service).  The      *)
(* daemon polls the container list of every configured node, compares it   *)
(* with the list it kept, and passes the differences to OnChange one event *)
(* at a time.  Its consumer is modelled as well, as somebody who knows     *)
(* only what the events say, and so are the callers of Snapshot, who share *)
(* the mutex with the poll.                                                *)
(*                                                                         *)
(* Simplification: time stamps, tags and log lines are left out; a VMID is *)
(* on one node at a time, as in every Proxmox VE cluster.                  *)
(***************************************************************************)
EXTENDS Naturals, Sequences, SequencesExt

CONSTANTS
  NodeList,   \* cfg.Nodes
  VMIDs,      \* container identifiers
  Names,      \* container names
  None,       \* no name
  Home,       \* Home[v]: the nodes container v may be created on or migrated to
  Reachable,  \* nodes whose list request keeps succeeding now and then
  Readers     \* goroutines that call Snapshot

Nodes == Range(NodeList)
Absent == [name |-> None, status |-> "absent"]
Containers == [name : Names, status : {"stopped", "running"}]
Lists == [VMIDs -> Containers \cup {Absent}]
Empty == [v \in VMIDs |-> Absent]

ASSUME DaemonAssumption ==
  /\ NodeList \in Seq(Nodes)
  /\ None \notin Names
  /\ Home \in [VMIDs -> SUBSET Nodes]
  /\ Reachable \subseteq Nodes

VARIABLES
  actual,     \* actual[n]: the containers of node n
  quiet,      \* nothing changes any more, and nobody kills or stops the daemon
  process,    \* how far the process has come, see Processes
  cancelled,  \* the context of Run has been cancelled
  known,      \* known[n]: d.state[n], the list of the last poll that succeeded
  at,         \* index of the node being polled, 0 while waiting for the ticker
  stage,      \* the poll asks for a list, waits for the mutex, or emits
  current,    \* the list that has arrived
  pending,    \* events of this reconcile that have not been emitted yet
  mirror,     \* mirror[n]: what the consumer of the events believes
  reader,     \* reader[r]: whether a call of Snapshot holds the mutex and copies
  copy        \* copy[r]: the part of its result that Snapshot has copied

env == <<actual, quiet>>
memory == <<known, at, stage, current, pending, mirror>>
snapshots == <<reader, copy>>
vars == <<env, process, cancelled, memory, snapshots>>

Types == {"added", "status", "removed"}
Events == [type : Types, vmid : VMIDs, new : Containers \cup {Absent}, old : Containers \cup {Absent}]

(* "starting": the API client is being made; "manifests", "monitor": the   *)
(* two calls of kubectl; "initial": the poll before the ticker exists;     *)
(* "on": the loop; "ended", "failed": exit status zero, or another one.    *)
Processes == {"starting", "manifests", "monitor", "initial", "on", "ended", "failed"}
Running == process \in {"initial", "on"}

TypeOK ==
  /\ actual \in [Nodes -> Lists]
  /\ quiet \in BOOLEAN
  /\ process \in Processes
  /\ cancelled \in BOOLEAN
  /\ known \in [Nodes -> Lists]
  /\ at \in 0..Len(NodeList)
  /\ stage \in {"ask", "lock", "emit"}
  /\ current \in Lists
  /\ pending \subseteq Events
  /\ mirror \in [Nodes -> Lists]
  /\ reader \in [Readers -> {"idle", "copying"}]
  /\ copy \in [Readers -> UNION {[S -> Lists] : S \in SUBSET Nodes}]

(* Seeded bug: the node after the last one.                                *)
AfterOffByOne(i) == IF i > Len(NodeList) THEN 0 ELSE i + 1

After(i) == IF i >= Len(NodeList) THEN 0 ELSE i + 1

(* The memory of a daemon that New has made, as Run's first poll begins.   *)
Fresh(k, i, s, c, p, m) ==
  /\ k = [n \in Nodes |-> Empty]
  /\ i = After(0)
  /\ s = "ask"
  /\ c = Empty
  /\ p = {}
  /\ m = [n \in Nodes |-> Empty]

NoCopy == [n \in {} |-> Empty]
NoSnapshots(r, c) == r = [x \in Readers |-> "idle"] /\ c = [x \in Readers |-> NoCopy]

(* Every container is on one node, one of its Home.                        *)
Placed(l) ==
  \A v \in VMIDs : \A m, n \in Nodes :
    l[m][v] # Absent => m \in Home[v] /\ (l[n][v] # Absent => m = n)

Init ==
  /\ actual \in {l \in [Nodes -> Lists] : Placed(l)}
  /\ quiet = FALSE
  /\ process = "starting"
  /\ cancelled = FALSE
  /\ Fresh(known, at, stage, current, pending, mirror)
  /\ NoSnapshots(reader, copy)

-----------------------------------------------------------------------------
(* The cluster: containers are created, started, stopped, renamed,         *)
(* migrated and destroyed by anybody, until it becomes quiet.              *)
Successors(ct) ==
  IF ct = Absent THEN {[name |-> a, status |-> "stopped"] : a \in Names}
  ELSE [name : Names, status : {ct.status}]
       \cup [name : {ct.name}, status : {"stopped", "running"}]
       \cup (IF ct.status = "stopped" THEN {Absent} ELSE {})

Change(n, v) ==
  /\ ~quiet
  /\ n \in Home[v]
  /\ \A m \in Nodes \ {n} : actual[m][v] = Absent
  /\ \E ct \in Successors(actual[n][v]) : actual' = [actual EXCEPT ![n][v] = ct]
  /\ UNCHANGED <<quiet, process, cancelled, memory, snapshots>>

Migrate(m, n, v) ==
  /\ ~quiet
  /\ m # n /\ n \in Home[v] /\ actual[m][v] # Absent
  /\ actual' = [actual EXCEPT ![m][v] = Absent, ![n][v] = actual[m][v]]
  /\ UNCHANGED <<quiet, process, cancelled, memory, snapshots>>

Quiet ==
  /\ quiet' = TRUE
  /\ UNCHANGED <<actual, process, cancelled, memory, snapshots>>

-----------------------------------------------------------------------------
(* The process.                                                            *)
Loses ==
  /\ cancelled' = FALSE
  /\ Fresh(known', at', stage', current', pending', mirror')
  /\ NoSnapshots(reader', copy')
  /\ UNCHANGED env

(* The client is made: with a user name and a password that needs an       *)
(* answer of the cluster.  The monitoring stack is set up when asked for.  *)
Connect ==
  /\ process = "starting"
  /\ process' \in {"manifests", "initial"}
  /\ UNCHANGED <<env, cancelled, memory, snapshots>>

ConnectFails ==
  /\ process = "starting"
  /\ process' = "failed"
  /\ UNCHANGED <<env, cancelled, memory, snapshots>>

(* kubectl applies the manifests, or not: an error is only a warning.      *)
SetupMonitoring ==
  \/ /\ process = "manifests" /\ process' = "monitor"
     /\ UNCHANGED <<env, cancelled, memory, snapshots>>
  \/ /\ process = "monitor" /\ process' = "initial"
     /\ UNCHANGED <<env, cancelled, memory, snapshots>>

(* The first poll is over and the ticker starts.                           *)
NewTicker ==
  /\ process = "initial" /\ at = 0
  /\ process' = "on"
  /\ UNCHANGED <<env, cancelled, memory, snapshots>>

(* SIGINT or SIGTERM: the handler cancels the context; before the handler  *)
(* is installed the signal ends the process.                               *)
Signal ==
  /\ ~quiet
  /\ \/ Running /\ ~cancelled /\ cancelled' = TRUE /\ UNCHANGED process
     \/ process \in {"starting", "manifests", "monitor"} /\ process' = "ended" /\ UNCHANGED cancelled
  /\ UNCHANGED <<env, memory, snapshots>>

(* Seeded bug: the context is looked at only before the loop.              *)
DoneOnce ==
  /\ process = "initial" /\ at = 0 /\ cancelled
  /\ process' = "ended"
  /\ Loses

(* Run returns: its select has taken ctx.Done, and not a tick.             *)
Done ==
  /\ process = "on" /\ at = 0 /\ cancelled
  /\ process' = "ended"
  /\ Loses

(* The process dies at any moment; its state, and the consumer's, is in    *)
(* memory only.  systemd starts it again unless it has been stopped.       *)
Crash ==
  /\ ~quiet
  /\ Running
  /\ process' = "failed"
  /\ Loses

SystemdRestarts ==
  /\ process = "failed"
  /\ process' = "starting"
  /\ UNCHANGED <<env, cancelled, memory, snapshots>>

AdminStarts ==
  /\ ~quiet
  /\ process = "ended"
  /\ process' = "starting"
  /\ UNCHANGED <<env, cancelled, memory, snapshots>>

-----------------------------------------------------------------------------
(* The poll.                                                               *)
MutexFree == stage # "emit" /\ \A r \in Readers : reader[r] # "copying"

Tick ==
  /\ process = "on" /\ at = 0
  /\ at' = After(0)
  /\ UNCHANGED <<env, process, cancelled, known, stage, current, pending, mirror, snapshots>>

(* Seeded bug: removals go unnoticed.                                      *)
DifferencesNoRemoval(prev, cur) ==
  {[type |-> "added", vmid |-> v, new |-> cur[v], old |-> Absent] :
      v \in {w \in VMIDs : prev[w] = Absent /\ cur[w] # Absent}}
  \cup {[type |-> "status", vmid |-> v, new |-> cur[v], old |-> prev[v]] :
      v \in {w \in VMIDs : prev[w] # Absent /\ cur[w] # Absent /\ prev[w].status # cur[w].status}}

(* What reconcile finds when it compares the previous list with the        *)
(* current one: only presence and status are compared.                     *)
Differences(prev, cur) ==
  {[type |-> "added", vmid |-> v, new |-> cur[v], old |-> Absent] :
      v \in {w \in VMIDs : prev[w] = Absent /\ cur[w] # Absent}}
  \cup {[type |-> "status", vmid |-> v, new |-> cur[v], old |-> prev[v]] :
      v \in {w \in VMIDs : prev[w] # Absent /\ cur[w] # Absent /\ prev[w].status # cur[w].status}}
  \cup {[type |-> "removed", vmid |-> v, new |-> Absent, old |-> prev[v]] :
      v \in {w \in VMIDs : prev[w] # Absent /\ cur[w] = Absent}}

(* The list arrives: it is as old as the answer, whenever it is used.      *)
List ==
  /\ Running /\ at # 0 /\ stage = "ask"
  /\ current' = actual[NodeList[at]]
  /\ stage' = "lock"
  /\ UNCHANGED <<env, process, cancelled, known, at, pending, mirror, snapshots>>

(* Seeded bug: an error ends the whole poll.                               *)
ListErrorStops ==
  /\ Running /\ at # 0 /\ stage = "ask"
  /\ at' = 0
  /\ UNCHANGED <<env, process, cancelled, known, stage, current, pending, mirror, snapshots>>

(* Seeded bug: a node that gives an error is taken to have no containers.  *)
ListErrorEmpty ==
  /\ Running /\ at # 0 /\ stage = "ask"
  /\ current' = Empty
  /\ stage' = "lock"
  /\ UNCHANGED <<env, process, cancelled, known, at, pending, mirror, snapshots>>

(* An error of the list request: go on with the next node.                 *)
ListError ==
  /\ Running /\ at # 0 /\ stage = "ask"
  /\ at' = After(at)
  /\ UNCHANGED <<env, process, cancelled, known, stage, current, pending, mirror, snapshots>>

(* reconcile has the mutex and compares.                                   *)
Lock ==
  /\ stage = "lock"
  /\ MutexFree
  /\ stage' = "emit"
  /\ pending' = Differences(known[NodeList[at]], current)
  /\ UNCHANGED <<env, process, cancelled, known, at, current, mirror, snapshots>>

(* OnChange tells the consumer of one event.                               *)
Tell(e) ==
  /\ mirror' = [mirror EXCEPT ![NodeList[at]][e.vmid] = e.new]
  /\ pending' = pending \ {e}
  /\ UNCHANGED <<env, process, cancelled, known, at, stage, current, snapshots>>

(* Additions and status changes come in the order of a Go map, removals    *)
(* after them.                                                             *)
Due(e) == e.type = "removed" => \A d \in pending : d.type = "removed"

(* Seeded bug: the callback takes a snapshot, and so waits for the mutex.  *)
EmitTakesSnapshot(e) == stage = "emit" /\ MutexFree /\ e \in pending /\ Due(e) /\ Tell(e)

Emit(e) == stage = "emit" /\ e \in pending /\ Due(e) /\ Tell(e)

(* Seeded bug: the list is not kept for the next comparison.               *)
ReconciledForgets ==
  /\ stage = "emit" /\ pending = {}
  /\ stage' = "ask"
  /\ current' = Empty
  /\ at' = After(at)
  /\ UNCHANGED <<env, process, cancelled, known, pending, mirror, snapshots>>

(* The list is kept, the mutex released.                                   *)
Reconciled ==
  /\ stage = "emit" /\ pending = {}
  /\ known' = [known EXCEPT ![NodeList[at]] = current]
  /\ stage' = "ask"
  /\ current' = Empty
  /\ at' = After(at)
  /\ UNCHANGED <<env, process, cancelled, pending, mirror, snapshots>>

-----------------------------------------------------------------------------
(* Snapshot, called by any goroutine of the program the daemon is part of. *)
Kept(r, n) == [copy EXCEPT ![r] = [m \in DOMAIN copy[r] \cup {n} |-> IF m = n THEN known[n] ELSE copy[r][m]]]

(* Seeded bug: Snapshot reads the lists without the mutex.                 *)
SnapshotUnlocked(r, n) ==
  /\ Running
  /\ reader[r] = "idle"
  /\ reader' = [reader EXCEPT ![r] = "copying"]
  /\ copy' = Kept(r, n)
  /\ UNCHANGED <<env, process, cancelled, memory>>

(* Snapshot has the mutex and copies node by node, in the order of a map.  *)
SnapshotLock(r, n) ==
  /\ Running
  /\ reader[r] = "idle"
  /\ MutexFree
  /\ reader' = [reader EXCEPT ![r] = "copying"]
  /\ copy' = Kept(r, n)
  /\ UNCHANGED <<env, process, cancelled, memory>>

SnapshotCopy(r, n) ==
  /\ reader[r] = "copying"
  /\ n \notin DOMAIN copy[r]
  /\ copy' = Kept(r, n)
  /\ UNCHANGED <<env, process, cancelled, memory, reader>>

Copied(r) == reader[r] = "copying" /\ DOMAIN copy[r] = Nodes

SnapshotReturn(r) ==
  /\ Copied(r)
  /\ reader' = [reader EXCEPT ![r] = "idle"]
  /\ copy' = [copy EXCEPT ![r] = NoCopy]
  /\ UNCHANGED <<env, process, cancelled, memory>>

-----------------------------------------------------------------------------
Poll == NewTicker \/ Tick \/ List \/ ListError \/ Lock \/ (\E e \in pending : Emit(e)) \/ Reconciled
Work == Connect \/ SetupMonitoring \/ SystemdRestarts \/ Poll
Copies(r) == (\E n \in Nodes : SnapshotCopy(r, n)) \/ SnapshotReturn(r)

Next ==
  \/ \E n \in Nodes : \E v \in VMIDs : Change(n, v)
  \/ \E m, n \in Nodes : \E v \in VMIDs : Migrate(m, n, v)
  \/ Quiet
  \/ Work
  \/ ConnectFails \/ Signal \/ Done \/ Crash \/ AdminStarts
  \/ \E r \in Readers : (\E n \in Nodes : SnapshotLock(r, n)) \/ Copies(r)

Spec == Init /\ [][Next]_vars

(* The loop of Run goes on; a Go mutex is given to everybody who waits for *)
(* it, and a select takes each of its ready cases now and then; a          *)
(* reachable node answers sooner or later, and so does the cluster when    *)
(* the daemon logs in.  kubectl is taken to end.                           *)
FairSpec ==
  /\ Spec
  /\ WF_vars(Work) /\ SF_vars(Connect) /\ SF_vars(Lock) /\ SF_vars(Done)
  /\ \A n \in Reachable : SF_vars(List /\ NodeList[at] = n)
  /\ \A r \in Readers : WF_vars(Copies(r))
-----------------------------------------------------------------------------
SameStatus(l, m) == \A v \in VMIDs : l[v].status = m[v].status

(* Between two reconciles the events emitted so far say of every container *)
(* exactly what the daemon's own list says: nothing was lost, repeated or  *)
(* attributed to a wrong node.                                             *)
EventsTellState == stage # "emit" => \A n \in Nodes : SameStatus(mirror[n], known[n])

(* When Snapshot is about to return, its copy of all nodes tells the same  *)
(* as the events so far: no half of a reconcile shows in it.               *)
SnapshotAgrees ==
  \A r \in Readers : Copied(r) => \A n \in Nodes : SameStatus(copy[r][n], mirror[n])

(* Every event makes sense to the consumer at the moment it arrives: only  *)
(* an unknown container is added, only a known one is removed, and a       *)
(* status change starts from the status the consumer last heard of.        *)
EventsApply ==
  [][\A n \in Nodes : \A v \in VMIDs : \A e \in pending :
       pending' = pending \ {e} /\ n = NodeList[at] /\ v = e.vmid
         => mirror[n][v].status = e.old.status /\ e.new.status # e.old.status]_vars

(* The cluster is quiet, nobody has stopped the daemon, and of node n      *)
(* everything the consumer, the daemon and its present poll hold is right. *)
CaughtUp(n) ==
  /\ quiet /\ ~cancelled
  /\ SameStatus(mirror[n], actual[n]) /\ SameStatus(known[n], actual[n])
  /\ stage # "ask" /\ NodeList[at] = n => SameStatus(current, actual[n])

(* A consumer that has caught up with a node is not told anything wrong of *)
(* it again, whether the node answers later polls or not.                  *)
StaysCaughtUp == [][\A n \in Nodes : CaughtUp(n) => CaughtUp(n)']_vars

(* Once the cluster is quiet, a daemon that nobody has stopped, even one   *)
(* that fails to start at first, tells its consumer the presence and the   *)
(* status of every container of a reachable node for good, although other  *)
(* nodes may never answer.                                                 *)
ConsumerConverges ==
  \A n \in Reachable :
    quiet /\ ~cancelled /\ process # "ended" ~> [](SameStatus(mirror[n], actual[n]))

(* A daemon that is asked to stop stops, also in the middle of a poll or   *)
(* before its first one is over.                                           *)
StopsWhenAsked == cancelled ~> process \in {"ended", "failed"}
=============================================================================
