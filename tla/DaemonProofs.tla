---------------------------- MODULE DaemonProofs ----------------------------
(***************************************************************************)
(* What the consumer of the daemon's events and the callers of Snapshot    *)
(* are told, for any nodes, containers and callers, whatever fails.        *)
(***************************************************************************)
EXTENDS Daemon, TLAPS

(* A node is being polled unless the daemon waits for the ticker.          *)
Polling == stage # "ask" => at \in 1..Len(NodeList)

(* What waits to be emitted is a part of what the reconcile has found.     *)
PendingIs ==
  /\ stage = "emit" => pending \subseteq Differences(known[NodeList[at]], current)
  /\ stage # "emit" => pending = {}

(* The consumer knows the daemon's list, except that of the node being     *)
(* reconciled it knows the new list already where no event is pending.     *)
Renewed(n, v) == stage = "emit" /\ n = NodeList[at] /\ \A e \in pending : e.vmid # v
Told ==
  \A n \in Nodes : \A v \in VMIDs :
    mirror[n][v].status = IF Renewed(n, v) THEN current[v].status ELSE known[n][v].status

(* No list changes while a caller of Snapshot copies them.                 *)
Guarded ==
  \A r \in Readers :
    /\ reader[r] = "idle" => DOMAIN copy[r] = {}
    /\ reader[r] = "copying" => stage # "emit"
    /\ \A n \in DOMAIN copy[r] : copy[r][n] = known[n]

DaemonInv == TypeOK /\ Polling /\ PendingIs /\ Told /\ Guarded

-----------------------------------------------------------------------------
(* A status tells whether there is a container.                            *)
LEMMA StatusTells ==
  ASSUME NEW x \in Containers \cup {Absent}
  PROVE  /\ x = Absent <=> x.status = "absent"
         /\ Absent \in Containers \cup {Absent}
  BY DEF Containers, Absent

(* An event of a comparison is about one container, and says what the two  *)
(* lists say of it.                                                        *)
LEMMA DifferenceSays ==
  ASSUME NEW prev \in Lists, NEW cur \in Lists, NEW e \in Differences(prev, cur)
  PROVE  /\ e \in Events
         /\ e.old = prev[e.vmid] /\ e.new = cur[e.vmid]
         /\ e.old.status # e.new.status
         /\ e.type = IF prev[e.vmid] = Absent THEN "added" ELSE IF cur[e.vmid] = Absent THEN "removed" ELSE "status"
         /\ e = [type |-> e.type, vmid |-> e.vmid, new |-> e.new, old |-> e.old]
  <1>1. \A v \in VMIDs : prev[v] \in Containers \cup {Absent} /\ cur[v] \in Containers \cup {Absent}
    BY DEF Lists
  <1>2. \A v \in VMIDs : (prev[v] = Absent <=> prev[v].status = "absent") /\ (cur[v] = Absent <=> cur[v].status = "absent")
    BY <1>1, StatusTells
  <1>3. CASE \E v \in VMIDs : prev[v] = Absent /\ cur[v] # Absent
                              /\ e = [type |-> "added", vmid |-> v, new |-> cur[v], old |-> Absent]
    BY <1>1, <1>2, <1>3, StatusTells DEF Events, Types
  <1>4. CASE \E v \in VMIDs : prev[v] # Absent /\ cur[v] # Absent /\ prev[v].status # cur[v].status
                              /\ e = [type |-> "status", vmid |-> v, new |-> cur[v], old |-> prev[v]]
    BY <1>1, <1>2, <1>4, StatusTells DEF Events, Types
  <1>5. CASE \E v \in VMIDs : prev[v] # Absent /\ cur[v] = Absent
                              /\ e = [type |-> "removed", vmid |-> v, new |-> Absent, old |-> prev[v]]
    BY <1>1, <1>2, <1>5, StatusTells DEF Events, Types
  <1> QED BY <1>3, <1>4, <1>5 DEF Differences

(* A comparison has an event about every container whose status differs.   *)
LEMMA DifferenceComplete ==
  ASSUME NEW prev \in Lists, NEW cur \in Lists, NEW v \in VMIDs, prev[v].status # cur[v].status
  PROVE  \E e \in Differences(prev, cur) : e.vmid = v
  <1>1. prev[v] \in Containers \cup {Absent} /\ cur[v] \in Containers \cup {Absent}
    BY DEF Lists
  <1>2. CASE prev[v] = Absent
    <2> DEFINE e == [type |-> "added", vmid |-> v, new |-> cur[v], old |-> Absent]
    <2>1. e \in Differences(prev, cur)
      BY <1>2 DEF Differences
    <2> QED BY <2>1
  <1>3. CASE prev[v] # Absent /\ cur[v] = Absent
    <2> DEFINE e == [type |-> "removed", vmid |-> v, new |-> Absent, old |-> prev[v]]
    <2>1. e \in Differences(prev, cur)
      BY <1>3 DEF Differences
    <2> QED BY <2>1
  <1>4. CASE prev[v] # Absent /\ cur[v] # Absent
    <2> DEFINE e == [type |-> "status", vmid |-> v, new |-> cur[v], old |-> prev[v]]
    <2>1. e \in Differences(prev, cur)
      BY <1>4 DEF Differences
    <2> QED BY <2>1
  <1> QED BY <1>2, <1>3, <1>4

(* No two events of a comparison are about one container.                  *)
LEMMA DifferenceOnce ==
  ASSUME NEW prev \in Lists, NEW cur \in Lists,
         NEW d \in Differences(prev, cur), NEW e \in Differences(prev, cur), d.vmid = e.vmid
  PROVE  d = e
  BY DifferenceSays

-----------------------------------------------------------------------------
(* The poll's steps stay among the nodes of the list.                      *)
LEMMA Indices ==
  /\ Len(NodeList) \in Nat
  /\ \A i \in 1..Len(NodeList) : NodeList[i] \in Nodes
  /\ \A i \in 0..Len(NodeList) : After(i) \in 0..Len(NodeList)
  BY DaemonAssumption DEF After

(* A daemon that begins keeps everything DaemonInv says of its memory.     *)
Begun == Fresh(known, at, stage, current, pending, mirror) /\ NoSnapshots(reader, copy)
MemoryInv ==
  /\ known \in [Nodes -> Lists] /\ mirror \in [Nodes -> Lists]
  /\ at \in 0..Len(NodeList) /\ stage = "ask" /\ current \in Lists /\ pending = {}
  /\ reader \in [Readers -> {"idle", "copying"}]
  /\ copy \in [Readers -> UNION {[S -> Lists] : S \in SUBSET Nodes}]
  /\ Polling /\ PendingIs /\ Told /\ Guarded

(* A process that has just begun has an empty memory: nothing is pending,  *)
(* no callback has been told, no reader copies.                            *)
LEMMA FreshInv == Begun => MemoryInv
  <1> SUFFICES ASSUME Begun PROVE MemoryInv
    OBVIOUS
  <1> USE DEF Begun
  <1>1. Empty \in Lists
    BY DEF Empty, Lists
  <1>2. NoCopy \in UNION {[S -> Lists] : S \in SUBSET Nodes}
    <2>1. NoCopy \in [{} -> Lists]
      BY DEF NoCopy
    <2> QED BY <2>1
  <1>3. known \in [Nodes -> Lists] /\ mirror \in [Nodes -> Lists] /\ current \in Lists
    BY <1>1 DEF Fresh
  <1>4. at \in 0..Len(NodeList)
    BY Indices DEF Fresh
  <1>5. copy \in [Readers -> UNION {[S -> Lists] : S \in SUBSET Nodes}]
    BY <1>2 DEF NoSnapshots
  <1>6. reader \in [Readers -> {"idle", "copying"}] /\ Guarded
    BY DEF NoSnapshots, Guarded, NoCopy
  <1>7. Polling /\ PendingIs /\ Told
    BY DEF Fresh, Polling, PendingIs, Told, Renewed
  <1> QED BY <1>3, <1>4, <1>5, <1>6, <1>7 DEF Fresh, MemoryInv

-----------------------------------------------------------------------------
(* The steps that leave the daemon's memory and its callers alone.         *)
Aside ==
  \/ \E n \in Nodes : \E v \in VMIDs : Change(n, v)
  \/ \E m, n \in Nodes : \E v \in VMIDs : Migrate(m, n, v)
  \/ Quiet \/ Connect \/ ConnectFails \/ SetupMonitoring \/ NewTicker \/ Signal \/ SystemdRestarts \/ AdminStarts

(* What the cluster, the administrator and systemd do beside the poll      *)
(* leaves the memory of the daemon alone.                                  *)
LEMMA AsideInv ==
  ASSUME DaemonInv, Aside
  PROVE  DaemonInv'
  <1> USE DEF DaemonInv
  <1>1. UNCHANGED <<memory, snapshots>>
    BY DEF Aside, Change, Migrate, Quiet, Connect, ConnectFails, SetupMonitoring, NewTicker, Signal, SystemdRestarts, AdminStarts
  <1>2. Polling' /\ PendingIs' /\ Told' /\ Guarded'
    BY <1>1 DEF memory, snapshots, Polling, PendingIs, Told, Renewed, Guarded
  <1>3. actual' \in [Nodes -> Lists]
    <2>1. ASSUME NEW n \in Nodes, NEW v \in VMIDs, Change(n, v)
          PROVE  actual' \in [Nodes -> Lists]
      <3>1. PICK ct \in Successors(actual[n][v]) : actual' = [actual EXCEPT ![n][v] = ct]
        BY <2>1 DEF Change
      <3>2. actual[n][v] \in Containers \cup {Absent}
        BY DEF TypeOK, Lists
      <3>3. ct \in Containers \cup {Absent}
        <4>1. CASE actual[n][v] = Absent
          BY <3>1, <4>1 DEF Successors, Containers
        <4>2. CASE actual[n][v] # Absent
          <5>1. actual[n][v].name \in Names /\ actual[n][v].status \in {"stopped", "running"}
            BY <3>2, <4>2 DEF Containers
          <5> QED BY <3>1, <4>2, <5>1 DEF Successors, Containers
        <4> QED BY <4>1, <4>2
      <3> QED BY <3>1, <3>3 DEF TypeOK, Lists
    <2>2. ASSUME NEW m \in Nodes, NEW n \in Nodes, NEW v \in VMIDs, Migrate(m, n, v)
          PROVE  actual' \in [Nodes -> Lists]
      <3>1. actual[m][v] \in Containers \cup {Absent}
        BY DEF TypeOK, Lists
      <3> QED BY <2>2, <3>1 DEF Migrate, TypeOK, Lists
    <2>3. CASE UNCHANGED actual
      BY <2>3 DEF TypeOK
    <2> QED
      BY <2>1, <2>2, <2>3 DEF Aside, Quiet, Connect, ConnectFails, SetupMonitoring, NewTicker, Signal, SystemdRestarts, AdminStarts, env
  <1>4. quiet' \in BOOLEAN /\ cancelled' \in BOOLEAN
    BY DEF TypeOK, Aside, Change, Migrate, Quiet, Connect, ConnectFails, SetupMonitoring, NewTicker, Signal, SystemdRestarts, AdminStarts, env
  <1>5. process' \in Processes
    BY DEF TypeOK, Aside, Change, Migrate, Quiet, Connect, ConnectFails, SetupMonitoring, NewTicker, Signal, SystemdRestarts, AdminStarts, env, Processes
  <1>6. TypeOK'
    BY <1>1, <1>3, <1>4, <1>5 DEF TypeOK, memory, snapshots
  <1> QED BY <1>2, <1>6

(* When the process ends its memory is gone.                               *)
LEMMA LosesInv ==
  ASSUME DaemonInv, Done \/ Crash
  PROVE  DaemonInv'
  <1> USE DEF DaemonInv
  <1>1. Begun'
    BY DEF Done, Crash, Loses, Fresh, NoSnapshots, Begun
  <1>2. MemoryInv'
    BY <1>1, FreshInv, PTL
  <1>3. process' \in Processes /\ cancelled' \in BOOLEAN /\ UNCHANGED env
    BY DEF Done, Crash, Loses, Processes
  <1> QED BY <1>2, <1>3 DEF TypeOK, env, MemoryInv

-----------------------------------------------------------------------------
(* The poll.                                                               *)
LEMMA PollInv ==
  ASSUME DaemonInv, Tick \/ ListError \/ List
  PROVE  DaemonInv'
  <1> USE DEF DaemonInv
  <1>1. UNCHANGED <<env, process, cancelled, known, pending, mirror, snapshots>> /\ stage # "emit" /\ stage' # "emit"
    <2>1. CASE Tick
      <3>1. stage = "ask"
        BY <2>1, Indices DEF Polling, Tick
      <3> QED BY <2>1, <3>1 DEF Tick
    <2>2. CASE ListError \/ List
      BY <2>2 DEF ListError, List
    <2> QED BY <2>1, <2>2
  <1>2. at' \in 0..Len(NodeList) /\ stage' \in {"ask", "lock"} /\ current' \in Lists /\ Polling'
    <2>1. at \in 0..Len(NodeList) /\ (at # 0 => at \in 1..Len(NodeList))
      BY Indices DEF TypeOK
    <2>2. CASE Tick
      BY <1>1, <2>1, <2>2, Indices DEF Tick, TypeOK, Polling
    <2>3. CASE ListError
      BY <2>1, <2>3, Indices DEF ListError, TypeOK, Polling
    <2>4. CASE List
      BY <2>1, <2>4, Indices DEF List, TypeOK, Polling
    <2> QED BY <2>2, <2>3, <2>4
  <1>3. TypeOK'
    BY <1>1, <1>2 DEF TypeOK, env, snapshots
  <1>4. PendingIs' /\ Told' /\ Guarded'
    BY <1>1 DEF PendingIs, Told, Renewed, Guarded, snapshots
  <1> QED BY <1>2, <1>3, <1>4

(* The list is compared: what differs is pending, the rest agrees already. *)
LEMMA LockInv ==
  ASSUME DaemonInv, Lock
  PROVE  DaemonInv'
  <1> USE DEF DaemonInv
  <1> DEFINE n == NodeList[at]
  <1>1. at \in 1..Len(NodeList) /\ n \in Nodes /\ known[n] \in Lists /\ current \in Lists
    BY Indices DEF Lock, Polling, TypeOK
  <1>2. Polling' /\ PendingIs'
    BY <1>1 DEF Lock, Polling, PendingIs
  <1>3. pending' \subseteq Events
    BY <1>1, DifferenceSays DEF Lock
  <1>4. TypeOK'
    BY <1>3 DEF Lock, TypeOK, env, snapshots
  <1>5. Guarded'
    BY DEF Lock, MutexFree, Guarded, snapshots
  <1>6. Told'
    <2>1. ASSUME NEW v \in VMIDs, Renewed(n, v)'
          PROVE  current[v].status = known[n][v].status
      <3>1. \A e \in Differences(known[n], current) : e.vmid # v
        BY <2>1 DEF Lock, Renewed
      <3> QED BY <1>1, <3>1, DifferenceComplete
    <2>2. \A m \in Nodes : \A v \in VMIDs : mirror[m][v].status = known[m][v].status
      BY DEF Told, Renewed, Lock
    <2>3. \A m \in Nodes : \A v \in VMIDs : Renewed(m, v)' => m = n
      BY DEF Lock, Renewed
    <2> QED BY <2>1, <2>2, <2>3 DEF Told, Lock
  <1> QED BY <1>2, <1>4, <1>5, <1>6

(* An event that is emitted tells the consumer the new status of its       *)
(* container, about which nothing is pending any more.                     *)
LEMMA EmitInv ==
  ASSUME DaemonInv, NEW e \in pending, Emit(e)
  PROVE  DaemonInv'
  <1> USE DEF DaemonInv
  <1> DEFINE n == NodeList[at]
  <1>1. stage = "emit" /\ n \in Nodes /\ known[n] \in Lists /\ current \in Lists
    BY Indices DEF Emit, Polling, TypeOK
  <1>2. /\ e \in Differences(known[n], current)
        /\ \A d \in pending : d \in Differences(known[n], current)
    BY <1>1 DEF PendingIs
  <1>3. e \in Events /\ e.vmid \in VMIDs /\ e.new = current[e.vmid]
    BY <1>1, <1>2, DifferenceSays DEF Events
  <1>4. \A d \in pending' : d \in pending /\ d.vmid # e.vmid
    BY <1>1, <1>2, DifferenceOnce DEF Emit, Tell
  <1>5. \A m \in Nodes : \A v \in VMIDs :
          mirror'[m][v] = IF m = n /\ v = e.vmid THEN current[v] ELSE mirror[m][v]
    BY <1>1, <1>3 DEF Emit, Tell, TypeOK, Lists
  <1>6. mirror' \in [Nodes -> Lists]
    <2>1. e.new \in Containers \cup {Absent}
      BY <1>3 DEF Events
    <2> QED BY <1>1, <1>3, <2>1 DEF Emit, Tell, TypeOK, Lists
  <1>7. Polling' /\ PendingIs' /\ Guarded'
    BY <1>1, <1>4 DEF Emit, Tell, Polling, PendingIs, Guarded, snapshots
  <1>8. TypeOK'
    BY <1>4, <1>6 DEF Emit, Tell, TypeOK, env, snapshots
  <1>9. Told'
    <2>1. UNCHANGED <<known, at, stage, current>>
      BY DEF Emit, Tell
    <2>2. ASSUME NEW m \in Nodes, NEW v \in VMIDs
          PROVE  mirror'[m][v].status = IF Renewed(m, v)' THEN current[v].status ELSE known[m][v].status
      <3>1. CASE m = n /\ v = e.vmid
        <4>1. Renewed(m, v)'
          BY <1>1, <1>4, <2>1, <3>1 DEF Renewed
        <4> QED BY <1>5, <3>1, <4>1
      <3>2. CASE ~(m = n /\ v = e.vmid)
        <4>1. Renewed(m, v)' <=> Renewed(m, v)
          BY <1>4, <2>1, <3>2 DEF Renewed, Emit, Tell
        <4> QED BY <1>5, <3>2, <4>1 DEF Told
      <3> QED BY <3>1, <3>2
    <2> QED BY <2>1, <2>2 DEF Told
  <1> QED BY <1>7, <1>8, <1>9

(* The new list is kept when nothing is pending: everybody knows it.       *)
LEMMA ReconciledInv ==
  ASSUME DaemonInv, Reconciled
  PROVE  DaemonInv'
  <1> USE DEF DaemonInv
  <1> DEFINE n == NodeList[at]
  <1>1. stage = "emit" /\ at \in 1..Len(NodeList) /\ n \in Nodes /\ current \in Lists /\ pending = {}
    BY Indices DEF Reconciled, Polling, TypeOK
  <1>2. known' \in [Nodes -> Lists] /\ \A m \in Nodes : known'[m] = IF m = n THEN current ELSE known[m]
    BY <1>1 DEF Reconciled, TypeOK
  <1>3. current' \in Lists /\ at' \in 0..Len(NodeList)
    BY <1>1, Indices DEF Reconciled, Empty, Lists
  <1>4. Polling' /\ PendingIs' /\ Guarded'
    <2>1. \A r \in Readers : reader[r] = "idle" /\ DOMAIN copy[r] = {}
      BY <1>1 DEF TypeOK, Guarded
    <2>2. UNCHANGED <<reader, copy>> /\ stage' = "ask" /\ pending' = {}
      BY <1>1 DEF Reconciled, snapshots
    <2> QED BY <2>1, <2>2 DEF Polling, PendingIs, Guarded
  <1>5. TypeOK'
    BY <1>1, <1>2, <1>3 DEF Reconciled, TypeOK, env, snapshots
  <1>6. Told'
    <2>1. \A m \in Nodes : \A v \in VMIDs : Renewed(m, v) <=> m = n
      BY <1>1 DEF Renewed
    <2>2. \A m \in Nodes : \A v \in VMIDs : ~Renewed(m, v)'
      BY DEF Reconciled, Renewed
    <2> QED BY <1>2, <2>1, <2>2 DEF Told, Reconciled
  <1> QED BY <1>4, <1>5, <1>6

-----------------------------------------------------------------------------
(* Snapshot.                                                               *)
LEMMA CopyKept ==
  ASSUME TypeOK, Guarded, NEW r \in Readers, NEW n \in Nodes, stage # "emit",
         copy' = Kept(r, n), UNCHANGED known
  PROVE  /\ copy' \in [Readers -> UNION {[S -> Lists] : S \in SUBSET Nodes}]
         /\ \A m \in DOMAIN copy'[r] : copy'[r][m] = known[m]
         /\ \A q \in Readers \ {r} : copy'[q] = copy[q]
  <1> DEFINE new == [m \in DOMAIN copy[r] \cup {n} |-> IF m = n THEN known[n] ELSE copy[r][m]]
  <1>1. PICK S \in SUBSET Nodes : copy[r] \in [S -> Lists]
    BY DEF TypeOK
  <1>2. new \in [S \cup {n} -> Lists] /\ S \cup {n} \in SUBSET Nodes
    BY <1>1 DEF TypeOK
  <1>3. new \in UNION {[Q -> Lists] : Q \in SUBSET Nodes}
    BY <1>2
  <1>4. copy' = [copy EXCEPT ![r] = new]
    BY DEF Kept
  <1>5. \A m \in DOMAIN new : new[m] = known[m]
    BY DEF Guarded
  <1>6. copy'[r] = new /\ \A q \in Readers \ {r} : copy'[q] = copy[q]
    BY <1>4 DEF TypeOK
  <1>7. copy' \in [Readers -> UNION {[Q -> Lists] : Q \in SUBSET Nodes}]
    BY <1>3, <1>4 DEF TypeOK
  <1> QED BY <1>5, <1>6, <1>7

(* A reader of Snapshot changes its own copy only.                         *)
LEMMA SnapshotInv ==
  ASSUME DaemonInv, NEW r \in Readers,
         (\E n \in Nodes : SnapshotLock(r, n) \/ SnapshotCopy(r, n)) \/ SnapshotReturn(r)
  PROVE  DaemonInv'
  <1> USE DEF DaemonInv
  <1>1. UNCHANGED <<env, process, cancelled, memory>>
    BY DEF SnapshotLock, SnapshotCopy, SnapshotReturn
  <1>2. Polling' /\ PendingIs' /\ Told'
    BY <1>1 DEF memory, Polling, PendingIs, Told, Renewed
  <1>3. reader' \in [Readers -> {"idle", "copying"}]
    BY DEF SnapshotLock, SnapshotCopy, SnapshotReturn, TypeOK
  <1>4. copy' \in [Readers -> UNION {[S -> Lists] : S \in SUBSET Nodes}] /\ Guarded'
    <2>1. ASSUME NEW n \in Nodes, SnapshotLock(r, n)
          PROVE  copy' \in [Readers -> UNION {[S -> Lists] : S \in SUBSET Nodes}] /\ Guarded'
      <3>1. stage # "emit" /\ DOMAIN copy[r] = {} /\ UNCHANGED <<known, stage>>
        BY <2>1 DEF SnapshotLock, MutexFree, memory, Guarded
      <3>2. copy' = Kept(r, n) /\ reader'[r] = "copying" /\ \A q \in Readers \ {r} : reader'[q] = reader[q]
        BY <2>1 DEF SnapshotLock, TypeOK
      <3>3. /\ copy' \in [Readers -> UNION {[S -> Lists] : S \in SUBSET Nodes}]
            /\ \A m \in DOMAIN copy'[r] : copy'[r][m] = known[m]
            /\ \A q \in Readers \ {r} : copy'[q] = copy[q]
        BY <3>1, <3>2, CopyKept
      <3> QED BY <3>1, <3>2, <3>3 DEF Guarded
    <2>2. ASSUME NEW n \in Nodes, SnapshotCopy(r, n)
          PROVE  copy' \in [Readers -> UNION {[S -> Lists] : S \in SUBSET Nodes}] /\ Guarded'
      <3>1. stage # "emit" /\ reader[r] = "copying" /\ UNCHANGED <<known, stage, reader>> /\ copy' = Kept(r, n)
        BY <2>2 DEF SnapshotCopy, memory, Guarded
      <3>2. /\ copy' \in [Readers -> UNION {[S -> Lists] : S \in SUBSET Nodes}]
            /\ \A m \in DOMAIN copy'[r] : copy'[r][m] = known[m]
            /\ \A q \in Readers \ {r} : copy'[q] = copy[q]
        BY <3>1, CopyKept
      <3> QED BY <3>1, <3>2 DEF Guarded
    <2>3. ASSUME SnapshotReturn(r)
          PROVE  copy' \in [Readers -> UNION {[S -> Lists] : S \in SUBSET Nodes}] /\ Guarded'
      <3>1. NoCopy \in [{} -> Lists]
        BY DEF NoCopy
      <3>2. copy' \in [Readers -> UNION {[S -> Lists] : S \in SUBSET Nodes}]
        BY <2>3, <3>1 DEF SnapshotReturn, TypeOK
      <3>3. \A q \in Readers \ {r} : reader'[q] = reader[q] /\ copy'[q] = copy[q]
        BY <2>3 DEF SnapshotReturn, TypeOK
      <3>4. reader'[r] = "idle" /\ DOMAIN copy'[r] = {}
        BY <2>3 DEF SnapshotReturn, TypeOK, NoCopy
      <3> QED BY <1>1, <3>2, <3>3, <3>4 DEF Guarded, memory
    <2> QED BY <2>1, <2>2, <2>3
  <1>6. TypeOK'
    BY <1>1, <1>3, <1>4 DEF TypeOK, env, memory
  <1> QED BY <1>2, <1>4, <1>6

-----------------------------------------------------------------------------
(* DaemonInv holds when the service is first started.                      *)
LEMMA InitInv == Init => DaemonInv
  <1> SUFFICES ASSUME Init PROVE DaemonInv
    OBVIOUS
  <1>1. MemoryInv
    BY FreshInv DEF Init, Begun
  <1>2. actual \in [Nodes -> Lists] /\ quiet \in BOOLEAN /\ process \in Processes /\ cancelled \in BOOLEAN
    BY DEF Init, Processes
  <1> QED BY <1>1, <1>2 DEF MemoryInv, DaemonInv, TypeOK

(* DaemonInv is inductive.                                                 *)
LEMMA NextInv == DaemonInv /\ [Next]_vars => DaemonInv'
  <1> SUFFICES ASSUME DaemonInv, [Next]_vars
               PROVE  DaemonInv'
    OBVIOUS
  <1>1. CASE Aside
    BY <1>1, AsideInv
  <1>2. CASE Done \/ Crash
    BY <1>2, LosesInv
  <1>3. CASE Tick \/ ListError \/ List
    BY <1>3, PollInv
  <1>4. CASE Lock
    BY <1>4, LockInv
  <1>5. CASE \E e \in pending : Emit(e)
    BY <1>5, EmitInv
  <1>6. CASE Reconciled
    BY <1>6, ReconciledInv
  <1>7. CASE \E r \in Readers : (\E n \in Nodes : SnapshotLock(r, n)) \/ Copies(r)
    BY <1>7, SnapshotInv DEF Copies
  <1>8. CASE UNCHANGED vars
    BY <1>8 DEF vars, env, memory, snapshots, DaemonInv, TypeOK, Polling, PendingIs, Told, Renewed, Guarded
  <1> QED BY <1>1, <1>2, <1>3, <1>4, <1>5, <1>6, <1>7, <1>8 DEF Next, Work, Poll, Aside

(* Every state of the daemon is as DaemonInv says.                         *)
LEMMA Invariance == Spec => []DaemonInv
  BY InitInv, NextInv, PTL DEF Spec

(* Every variable of the daemon keeps its type, for any nodes, containers  *)
(* and callers of Snapshot.                                                *)
THEOREM TypeCorrect == Spec => []TypeOK
  <1>1. DaemonInv => TypeOK
    BY DEF DaemonInv
  <1> QED BY <1>1, Invariance, PTL

(* Between two reconciles the events emitted so far say of every container *)
(* what the daemon's own list says: reconcile loses, repeats and           *)
(* misattributes nothing.                                                  *)
THEOREM EventsTellStateAlways == Spec => []EventsTellState
  <1>1. DaemonInv => EventsTellState
    BY DEF DaemonInv, Told, Renewed, EventsTellState, SameStatus
  <1> QED BY <1>1, Invariance, PTL

(* What Snapshot returns for all nodes tells the same as the events so     *)
(* far: under the mutex no half of a reconcile shows in the copy.          *)
THEOREM SnapshotsAgree == Spec => []SnapshotAgrees
  <1>1. DaemonInv => SnapshotAgrees
    BY DEF DaemonInv, Told, Renewed, Guarded, Copied, SnapshotAgrees, SameStatus
  <1> QED BY <1>1, Invariance, PTL

(* Every event that OnChange receives starts from the status the consumer  *)
(* last heard of that container.                                           *)
THEOREM EventsApplyAlways == Spec => EventsApply
  <1> DEFINE A == \A n \in Nodes : \A v \in VMIDs : \A e \in pending :
                   pending' = pending \ {e} /\ n = NodeList[at] /\ v = e.vmid
                     => mirror[n][v].status = e.old.status /\ e.new.status # e.old.status
  <1>1. DaemonInv => A
    <2> SUFFICES ASSUME DaemonInv, NEW e \in pending, NodeList[at] \in Nodes, e.vmid \in VMIDs
                 PROVE  mirror[NodeList[at]][e.vmid].status = e.old.status /\ e.new.status # e.old.status
      OBVIOUS
    <2>1. stage = "emit" /\ e \in Differences(known[NodeList[at]], current)
      BY DEF DaemonInv, PendingIs
    <2>2. known[NodeList[at]] \in Lists /\ current \in Lists
      BY DEF DaemonInv, TypeOK
    <2>3. e.old = known[NodeList[at]][e.vmid] /\ e.old.status # e.new.status
      BY <2>1, <2>2, DifferenceSays
    <2>4. ~Renewed(NodeList[at], e.vmid)
      BY DEF Renewed
    <2> QED BY <2>3, <2>4 DEF DaemonInv, Told
  <1>2. DaemonInv /\ [Next]_vars => [A]_vars
    BY <1>1
  <1> QED BY <1>2, Invariance, PTL DEF Spec, EventsApply

(* A consumer that has caught up with a node of a quiet cluster stays so:  *)
(* a list that fails, arrives or is compared tells it nothing wrong.       *)
THEOREM ConsumerStaysRight == Spec => StaysCaughtUp
  <1>1. DaemonInv /\ [Next]_vars => [\A n \in Nodes : CaughtUp(n) => CaughtUp(n)']_vars
    <2> SUFFICES ASSUME DaemonInv, Next, NEW n \in Nodes, CaughtUp(n)
                 PROVE  CaughtUp(n)'
      OBVIOUS
    <2> USE DEF CaughtUp, SameStatus
    <2>1. CASE Aside
      <3>1. actual' = actual /\ quiet' /\ UNCHANGED <<cancelled, memory>>
        BY <2>1 DEF Aside, Change, Migrate, Quiet, Connect, ConnectFails, SetupMonitoring, NewTicker,
                    Signal, SystemdRestarts, AdminStarts, env
      <3> QED BY <3>1 DEF memory
    <2>2. ~Done /\ ~Crash
      BY DEF Done, Crash
    <2>3. CASE Tick \/ ListError
      <3>1. stage = "ask" /\ UNCHANGED <<env, cancelled, known, stage, mirror>>
        BY <2>3 DEF Tick, ListError, DaemonInv, Polling
      <3> QED BY <3>1 DEF env
    <2>4. CASE List
      BY <2>4 DEF List, env
    <2>5. CASE Lock
      BY <2>5 DEF Lock, env
    <2>6. ASSUME NEW e \in pending, Emit(e)
          PROVE  CaughtUp(n)'
      <3>1. /\ stage = "emit" /\ mirror' = [mirror EXCEPT ![NodeList[at]][e.vmid] = e.new]
            /\ UNCHANGED <<env, cancelled, known, at, stage, current>>
        BY <2>6 DEF Emit, Tell
      <3>2. at \in 1..Len(NodeList) /\ NodeList[at] \in Nodes
        BY <3>1, Indices DEF DaemonInv, Polling
      <3>3. e \in Differences(known[NodeList[at]], current) /\ known[NodeList[at]] \in Lists /\ current \in Lists
        BY <3>1, <3>2 DEF DaemonInv, PendingIs, TypeOK
      <3>4. e.new = current[e.vmid] /\ e.vmid \in VMIDs
        BY <3>3, DifferenceSays DEF Events
      <3>5. mirror \in [Nodes -> Lists] /\ mirror[n] \in [VMIDs -> Containers \cup {Absent}]
        BY DEF DaemonInv, TypeOK, Lists
      <3>6. CASE NodeList[at] = n
        <4>1. mirror'[n] = [mirror[n] EXCEPT ![e.vmid] = e.new]
          BY <3>1, <3>5, <3>6
        <4>2. \A v \in VMIDs : mirror'[n][v] = IF v = e.vmid THEN current[v] ELSE mirror[n][v]
          BY <3>4, <3>5, <4>1
        <4> QED BY <3>1, <3>6, <4>2 DEF env
      <3>7. CASE NodeList[at] # n
        <4>1. mirror'[n] = mirror[n]
          BY <3>1, <3>5, <3>7
        <4> QED BY <3>1, <3>7, <4>1 DEF env
      <3> QED BY <3>6, <3>7
    <2>7. CASE Reconciled
      <3>1. /\ stage = "emit" /\ stage' = "ask" /\ known' = [known EXCEPT ![NodeList[at]] = current]
            /\ UNCHANGED <<env, cancelled, mirror>>
        BY <2>7 DEF Reconciled
      <3>2. known'[n] = IF NodeList[at] = n THEN current ELSE known[n]
        BY <3>1 DEF DaemonInv, TypeOK
      <3> QED BY <3>1, <3>2 DEF env
    <2>8. CASE \E r \in Readers : (\E m \in Nodes : SnapshotLock(r, m)) \/ Copies(r)
      <3>1. UNCHANGED <<env, cancelled, memory>>
        BY <2>8 DEF SnapshotLock, Copies, SnapshotCopy, SnapshotReturn
      <3> QED BY <3>1 DEF env, memory
    <2> QED BY <2>1, <2>2, <2>3, <2>4, <2>5, <2>6, <2>7, <2>8 DEF Next, Work, Poll, Aside
  <1> QED BY <1>1, Invariance, PTL DEF Spec, StaysCaughtUp
=============================================================================
