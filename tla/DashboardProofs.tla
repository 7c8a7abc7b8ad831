-------------------------- MODULE DashboardProofs --------------------------
(***************************************************************************)
(* Theorems about Dashboard, for any containers, names and requests.       *)
(***************************************************************************)
EXTENDS Dashboard, TLAPS

(* A container has a name from the request that creates it on, and a task  *)
(* that is not its creation finds it there.                                *)
Named ==
  \A v \in VMIDs :
    /\ Exists(v) \/ job[v].kind = "create" => name[v] \in Names
    /\ job[v].kind \in {"start", "stop", "destroy"} => Exists(v)

-----------------------------------------------------------------------------
(* The cluster.                                                            *)

(* One of the clients stands for everybody.                                *)
LEMMA AnyIsClient == Any \in Clients
  BY DashboardAssumption DEF Any

(* A request of the panel or of others.                                    *)
LEMMA SubmitNamed ==
  ASSUME VETypeOK, Named, NEW kind \in TaskKinds, NEW v \in VMIDs, NEW h \in Names \cup {None},
         kind = "create" => h \in Names,
         Submit(Any, None, kind, v, h)
  PROVE  VETypeOK' /\ Named'
  <1>1. PICK new : new = [kind |-> kind, by |-> None]
    OBVIOUS
  <1>2. /\ job' = [job EXCEPT ![v] = new] /\ outcome' = [outcome EXCEPT ![Any] = "none"] /\ state' = state
        /\ name' = (IF kind = "create" THEN [name EXCEPT ![v] = h] ELSE name)
        /\ job[v].kind = "none" /\ state[v] = Needs(kind)
    BY <1>1 DEF Submit, Accepts, Locked
  <1>3. new \in [kind : TaskKinds \cup {"none"}, by : Clients \cup {None}] /\ new.kind = kind
    BY <1>1
  <1>4. VETypeOK'
    BY <1>2, <1>3, AnyIsClient DEF VETypeOK
  <1>5. ASSUME NEW w \in VMIDs
        PROVE  /\ Exists(w)' \/ job'[w].kind = "create" => name'[w] \in Names
               /\ job'[w].kind \in {"start", "stop", "destroy"} => Exists(w)'
    <2>1. CASE w = v
      <3>1. job'[w].kind = kind /\ state'[w] = Needs(kind)
        BY <1>2, <1>3, <2>1 DEF VETypeOK
      <3>2. CASE kind = "create"
        BY <1>2, <2>1, <3>1, <3>2 DEF VETypeOK, Needs, Exists
      <3>3. CASE kind # "create"
        <4>1. state[v] # "absent"
          BY <1>2, <3>3 DEF Needs, TaskKinds
        <4>2. name[v] \in Names
          BY <4>1 DEF Named, Exists
        <4> QED BY <1>2, <2>1, <3>3, <4>1, <4>2 DEF Exists
      <3> QED BY <3>2, <3>3
    <2>2. CASE w # v
      <3>1. job'[w] = job[w] /\ name'[w] = name[w] /\ state'[w] = state[w]
        BY <1>2, <2>2 DEF VETypeOK
      <3> QED BY <3>1 DEF Named, Exists
    <2> QED BY <2>1, <2>2
  <1> QED BY <1>4, <1>5 DEF Named

(* The end of a task.                                                      *)
LEMMA EndTaskNamed ==
  ASSUME VETypeOK, Named, NEW v \in VMIDs, NEW exit \in {"OK", "failed"}, EndTask(v, exit)
  PROVE  VETypeOK' /\ Named'
  <1>1. PICK kind, left : kind = job[v].kind /\ left = (IF exit = "OK" THEN Leaves(kind) ELSE state[v])
    OBVIOUS
  <1>2. /\ state' = [state EXCEPT ![v] = left] /\ job' = [job EXCEPT ![v] = NoJob]
        /\ name' = (IF left = "absent" THEN [name EXCEPT ![v] = None] ELSE name)
        /\ outcome' = [c \in Clients |-> IF c = job[v].by THEN exit ELSE outcome[c]]
        /\ kind \in TaskKinds
    BY <1>1 DEF EndTask, Locked, VETypeOK
  <1>3. left \in {"absent", "stopped", "running"}
    BY <1>1, <1>2 DEF Leaves, TaskKinds, VETypeOK
  <1>4. VETypeOK'
    <2>1. NoJob \in [kind : TaskKinds \cup {"none"}, by : Clients \cup {None}]
      BY DEF NoJob
    <2> QED BY <1>2, <1>3, <2>1 DEF VETypeOK
  <1>5. ASSUME NEW w \in VMIDs
        PROVE  /\ Exists(w)' \/ job'[w].kind = "create" => name'[w] \in Names
               /\ job'[w].kind \in {"start", "stop", "destroy"} => Exists(w)'
    <2>1. CASE w = v
      <3>1. job'[w].kind = "none" /\ state'[w] = left
        BY <1>2, <2>1 DEF VETypeOK, NoJob
      <3>2. left # "absent" => name[v] \in Names
        BY <1>1, <1>2 DEF Named, Exists, TaskKinds
      <3> QED BY <1>2, <2>1, <3>1, <3>2 DEF Exists
    <2>2. CASE w # v
      <3>1. job'[w] = job[w] /\ name'[w] = name[w] /\ state'[w] = state[w]
        BY <1>2, <2>2 DEF VETypeOK
      <3> QED BY <3>1 DEF Named, Exists
    <2> QED BY <2>1, <2>2
  <1> QED BY <1>4, <1>5 DEF Named

(* A step of the cluster, or none.                                         *)
LEMMA NodeNamed ==
  ASSUME VETypeOK, Named,
         \/ UNCHANGED pve
         \/ \E v \in VMIDs : Halt(v) \/ TaskDone(v) \/ TaskFailed(v)
         \/ \E v \in VMIDs, kind \in {"start", "stop", "destroy"} : Submit(Any, None, kind, v, None)
         \/ \E v \in VMIDs, kind \in TaskKinds, h \in Names : Submit(Any, None, kind, v, h)
  PROVE  VETypeOK' /\ Named'
  <1>1. CASE UNCHANGED pve
    BY <1>1 DEF pve, VETypeOK, Named, Exists
  <1>2. ASSUME NEW v \in VMIDs, Halt(v)
        PROVE  VETypeOK' /\ Named'
    BY <1>2 DEF Halt, VETypeOK, Named, Exists
  <1>3. ASSUME NEW v \in VMIDs, TaskDone(v) \/ TaskFailed(v)
        PROVE  VETypeOK' /\ Named'
    BY <1>3, EndTaskNamed DEF TaskDone, TaskFailed
  <1>4. ASSUME NEW v \in VMIDs, NEW kind \in {"start", "stop", "destroy"}, Submit(Any, None, kind, v, None)
        PROVE  VETypeOK' /\ Named'
    <2>1. kind \in TaskKinds /\ kind # "create" /\ None \in Names \cup {None}
      BY DEF TaskKinds
    <2> QED BY <1>4, <2>1, SubmitNamed
  <1>5. ASSUME NEW v \in VMIDs, NEW kind \in TaskKinds, NEW h \in Names, Submit(Any, None, kind, v, h)
        PROVE  VETypeOK' /\ Named'
    BY <1>5, SubmitNamed
  <1> QED BY <1>1, <1>2, <1>3, <1>4, <1>5

-----------------------------------------------------------------------------
(* The screen.                                                             *)

(* What the cluster answers to a list request.                             *)
LEMMA ListingTyped ==
  ASSUME VETypeOK
  PROVE  Listing \in Listings
  <1>1. ASSUME NEW v \in VMIDs, v \in ListLXC, name[v] \in Managed
        PROVE  [name |-> name[v], status |-> state[v]] \in [name : Managed, status : {"stopped", "running"}]
    BY <1>1 DEF ListLXC, Exists, VETypeOK
  <1> QED BY <1>1 DEF Listing, Listings

(* A row of a list is a managed container or none.                         *)
LEMMA RowsOfList ==
  ASSUME NEW l \in Listings, NEW v \in VMIDs
  PROVE  /\ l[v].name \in Managed \cup {None} /\ l[v].status \in {"absent", "stopped", "running"}
         /\ (l[v].status = "absent") = (l[v].name = None)
  <1>1. l[v] \in [name : Managed, status : {"stopped", "running"}] \/ l[v] = NoRow
    BY DEF Listings
  <1>2. None \notin Managed
    BY DashboardAssumption, VEAssumption
  <1>3. CASE l[v] = NoRow
    BY <1>3 DEF NoRow
  <1>4. CASE l[v] \in [name : Managed, status : {"stopped", "running"}]
    BY <1>2, <1>4
  <1> QED BY <1>1, <1>3, <1>4

(* The rows, what is under way to them, and the dialogue, in their types.  *)
RowsTyped ==
  /\ rows \in [VMIDs -> [name : Managed \cup {None}, status : {"absent", "stopped", "running"}, ip : Names \cup {None}]]
  /\ \A v \in VMIDs : (rows[v].status = "absent") = (rows[v].name = None)
PanelTyped ==
  /\ RowsTyped
  /\ lists \in [Slots -> Listings \cup {NoList}]
  /\ answers \in [VMIDs -> SUBSET Names]
  /\ dialog \in [action : Actions, vmid : VMIDs, name : Managed] \cup {NoDialog}
  /\ restarting \in [VMIDs -> 0..Timers]
  /\ alert \in BOOLEAN
  /\ quiet \in BOOLEAN

DashInv == VETypeOK /\ Named /\ PanelTyped

(* A list that arrives is shown, and the addresses of its running          *)
(* containers are asked for.                                               *)
LEMMA ListTyped ==
  ASSUME VETypeOK, Named, PanelTyped, NEW i \in Slots, ListArrives(i)
  PROVE  PanelTyped'
  <1>1. PICK l \in Listings : l = lists[i]
    BY DEF ListArrives, PanelTyped
  <1>2. rows' = [v \in VMIDs |-> Row(l[v].name, l[v].status, None)]
    BY <1>1 DEF ListArrives, LoadData
  <1>3. answers' = [v \in VMIDs |-> IF l[v].status = "running" /\ state[v] = "running"
                                    THEN answers[v] \cup {name[v]} ELSE answers[v]]
    BY <1>1 DEF ListArrives, LoadIPs
  <1>4. RowsTyped'
    <2>1. ASSUME NEW v \in VMIDs
          PROVE  /\ Row(l[v].name, l[v].status, None)
                      \in [name : Managed \cup {None}, status : {"absent", "stopped", "running"}, ip : Names \cup {None}]
                 /\ Row(l[v].name, l[v].status, None).status = l[v].status
                 /\ Row(l[v].name, l[v].status, None).name = l[v].name
      BY RowsOfList DEF Row
    <2> QED BY <1>2, <2>1, RowsOfList DEF RowsTyped
  <1>5. answers' \in [VMIDs -> SUBSET Names]
    <2>1. \A v \in VMIDs : state[v] = "running" => name[v] \in Names
      BY DEF Named, Exists
    <2> QED BY <1>3, <2>1 DEF PanelTyped
  <1>6. /\ lists' \in [Slots -> Listings \cup {NoList}]
        /\ UNCHANGED <<dialog, restarting, alert, quiet>>
    BY DEF ListArrives, PanelTyped
  <1> QED BY <1>4, <1>5, <1>6 DEF PanelTyped

(* An address that arrives changes the address of a row.                   *)
LEMMA AddressTyped ==
  ASSUME PanelTyped, NEW v \in VMIDs, NEW a \in answers[v], AddressArrives(v, a)
  PROVE  PanelTyped'
  <1>1. a \in Names
    BY DEF PanelTyped
  <1>2. rows' = rows \/ \E w \in VMIDs : rows' = [rows EXCEPT ![w].ip = a]
    BY DEF AddressArrives, FindRecord
  <1>3. RowsTyped'
    <2>1. CASE rows' = rows
      BY <2>1 DEF PanelTyped, RowsTyped
    <2>2. ASSUME NEW w \in VMIDs, rows' = [rows EXCEPT ![w].ip = a]
          PROVE  RowsTyped'
      BY <1>1, <2>2 DEF PanelTyped, RowsTyped
    <2> QED BY <1>2, <2>1, <2>2
  <1>4. answers' \in [VMIDs -> SUBSET Names]
    BY DEF AddressArrives, PanelTyped
  <1>5. UNCHANGED <<lists, dialog, restarting, alert, quiet>>
    BY DEF AddressArrives
  <1> QED BY <1>3, <1>4, <1>5 DEF PanelTyped

(* A dialogue is about a row that is there.                                *)
LEMMA ClickTyped ==
  ASSUME PanelTyped, NEW v \in VMIDs, NEW a \in Actions, Click(v, a)
  PROVE  PanelTyped'
  <1>1. rows[v].status # "absent"
    BY DEF Click, Enabled
  <1>2. PICK h \in Managed : h = rows[v].name
    BY <1>1 DEF PanelTyped, RowsTyped
  <1>3. dialog' = [action |-> a, vmid |-> v, name |-> h] /\ UNCHANGED <<screen, restarting, alert, quiet>>
    BY <1>2 DEF Click
  <1> QED BY <1>3 DEF PanelTyped, RowsTyped, screen

-----------------------------------------------------------------------------
(* Nothing is shown, asked for or running at first.                        *)
LEMMA DashInit == Init => DashInv
  <1> SUFFICES ASSUME Init PROVE DashInv
    OBVIOUS
  <1>1. VETypeOK /\ Named
    BY DEF Init, VEInit, VETypeOK, Named, NoJob, Exists
  <1>2. PanelTyped
    <2>1. restarting \in [VMIDs -> 0..Timers]
      BY DashboardAssumption DEF Init
    <2>2. RowsTyped
      BY DEF Init, RowsTyped, Row
    <2> QED BY <2>1, <2>2 DEF Init, PanelTyped
  <1> QED BY <1>1, <1>2 DEF DashInv

(* Every handler and every step of the cluster keeps the types.            *)
LEMMA DashStep == DashInv /\ [Next]_vars => DashInv'
  <1> SUFFICES ASSUME VETypeOK, Named, PanelTyped, [Next]_vars
               PROVE  VETypeOK' /\ Named' /\ PanelTyped'
    BY DEF DashInv
  <1>1. ASSUME NEW i \in Slots, Refresh(i)
        PROVE  UNCHANGED pve /\ PanelTyped'
    BY <1>1, ListingTyped DEF Refresh, PanelTyped, RowsTyped
  <1>2. ASSUME NEW i \in Slots, ListArrives(i)
        PROVE  UNCHANGED pve /\ PanelTyped'
    BY <1>2, ListTyped DEF ListArrives
  <1>3. ASSUME NEW i \in Slots, ListFails(i)
        PROVE  UNCHANGED pve /\ PanelTyped'
    BY <1>3 DEF ListFails, Alert, PanelTyped, RowsTyped
  <1>4. ASSUME NEW v \in VMIDs, NEW a \in answers[v], AddressArrives(v, a)
        PROVE  UNCHANGED pve /\ PanelTyped'
    BY <1>4, AddressTyped DEF AddressArrives
  <1>5. ASSUME NEW v \in VMIDs, NEW a \in answers[v], AddressFails(v, a)
        PROVE  UNCHANGED pve /\ PanelTyped'
    BY <1>5 DEF AddressFails, PanelTyped, RowsTyped
  <1>6. ASSUME NEW v \in VMIDs, NEW a \in Actions, Click(v, a)
        PROVE  UNCHANGED pve /\ PanelTyped'
    BY <1>6, ClickTyped DEF Click
  <1>7. CASE No \/ CloseAlert \/ Quiet
    <2>1. /\ dialog' \in {dialog, NoDialog} /\ alert' \in {alert, FALSE} /\ quiet' \in {quiet, TRUE}
          /\ UNCHANGED <<pve, screen, restarting>>
      BY <1>7 DEF No, CloseAlert, Quiet
    <2>2. UNCHANGED <<rows, lists, answers, restarting>> /\ UNCHANGED pve
      BY <2>1 DEF screen
    <2>3. PanelTyped'
      BY <2>1, <2>2 DEF PanelTyped, RowsTyped
    <2> QED BY <2>2, <2>3, NodeNamed
  <1>8. CASE Yes
    <2>1. PICK v \in VMIDs, a \in Actions : v = dialog.vmid /\ a = dialog.action
      BY <1>8 DEF Yes, PanelTyped
    <2>2. Asks(a) \in {"start", "stop", "destroy"}
      BY DEF Asks, Actions
    <2>3. UNCHANGED pve \/ Submit(Any, None, Asks(a), v, None)
      BY <1>8, <2>1 DEF Yes, Accepted, Refused, Lost
    <2>4. /\ dialog' = NoDialog /\ alert' \in {alert, TRUE} /\ UNCHANGED <<screen, quiet>>
          /\ restarting' = restarting \/ (restarting[v] < Timers /\ restarting' = [restarting EXCEPT ![v] = @ + 1])
      BY <1>8, <2>1 DEF Yes
    <2>5. PanelTyped'
      <3>1. restarting' \in [VMIDs -> 0..Timers]
        BY <2>4, DashboardAssumption DEF PanelTyped
      <3> QED BY <2>4, <3>1 DEF PanelTyped, RowsTyped, screen
    <2> QED BY <2>2, <2>3, <2>5, NodeNamed
  <1>9. ASSUME NEW v \in VMIDs, StartAgain(v)
        PROVE  VETypeOK' /\ Named' /\ PanelTyped'
    <2>1. UNCHANGED pve \/ Submit(Any, None, "start", v, None)
      BY <1>9 DEF StartAgain, Accepted, Refused, Lost
    <2>2. /\ dialog' \in {dialog, NoDialog} /\ alert' \in {alert, TRUE} /\ UNCHANGED <<screen, quiet>>
          /\ restarting[v] > 0 /\ restarting' = [restarting EXCEPT ![v] = @ - 1]
      BY <1>9 DEF StartAgain, Alert
    <2>3. PanelTyped'
      <3>1. restarting' \in [VMIDs -> 0..Timers]
        BY <2>2, DashboardAssumption DEF PanelTyped
      <3> QED BY <2>2, <3>1 DEF PanelTyped, RowsTyped, screen
    <2> QED BY <2>1, <2>3, NodeNamed
  <1>10. ASSUME NEW v \in VMIDs, Others(v) \/ TaskEnds(v) \/ Halts(v)
         PROVE  VETypeOK' /\ Named' /\ PanelTyped'
    <2>1. \/ \E kind \in TaskKinds, h \in Names : Submit(Any, None, kind, v, h)
          \/ TaskDone(v) \/ TaskFailed(v) \/ Halt(v)
      BY <1>10 DEF Others, TaskEnds, Halts
    <2>2. UNCHANGED panel
      BY <1>10 DEF Others, TaskEnds, Halts
    <2>3. PanelTyped'
      BY <2>2 DEF panel, screen, PanelTyped, RowsTyped
    <2> QED BY <2>1, <2>3, NodeNamed
  <1>11. CASE UNCHANGED vars
    <2>1. UNCHANGED pve /\ PanelTyped'
      BY <1>11 DEF vars, screen, pve, PanelTyped, RowsTyped
    <2> QED BY <2>1, NodeNamed
  <1>12. ASSUME UNCHANGED pve
         PROVE  VETypeOK' /\ Named'
    BY <1>12, NodeNamed
  <1> QED BY <1>1, <1>2, <1>3, <1>4, <1>5, <1>6, <1>7, <1>8, <1>9, <1>10, <1>11, <1>12 DEF Next

(* Whatever others do and however replies overtake each other, the panel   *)
(* shows rows with the names and states of managed containers, and the     *)
(* dialogue is always about one of them (ProxKubePanel.js).                *)
THEOREM DashboardTypeCorrect == Spec => []TypeOK
  <1>1. Spec => []DashInv
    BY DashInit, DashStep, PTL DEF Spec
  <1>2. DashInv => TypeOK
    BY DEF DashInv, TypeOK, PanelTyped, RowsTyped
  <1> QED BY <1>1, <1>2, PTL

-----------------------------------------------------------------------------
(* A screen that is right stays right.                                     *)

(* Listing and what the rows are compared with depend on the node alone.   *)
LEMMA RestKept ==
  ASSUME Settled, UNCHANGED pve, rows' = rows, answers' = answers, quiet' = quiet,
         dialog' = NoDialog, restarting' = restarting,
         \A i \in Slots : lists'[i] \in {lists[i], NoList, Listing}
  PROVE  Settled'
  <1>1. name' = name /\ state' = state /\ job' = job
    BY DEF pve
  <1>2. Listing' = Listing
    BY <1>1 DEF Listing, ListLXC, Exists
  <1> QED BY <1>1, <1>2 DEF Settled, AtRest, Tells, Locked

(* A list that arrives.                                                    *)
LEMMA ListSettled ==
  ASSUME DashInv, Settled, NEW i \in Slots, ListArrives(i)
  PROVE  Settled'
  <1>1. lists[i] = Listing
    BY DEF Settled, ListArrives
  <1>2. PICK l \in Listings : l = Listing
    BY ListingTyped DEF DashInv
  <1>3. /\ rows' = [v \in VMIDs |-> Row(l[v].name, l[v].status, None)]
        /\ answers' = [v \in VMIDs |-> IF l[v].status = "running" /\ state[v] = "running"
                                       THEN answers[v] \cup {name[v]} ELSE answers[v]]
        /\ lists' = [lists EXCEPT ![i] = NoList]
        /\ UNCHANGED <<pve, dialog, restarting, quiet>>
    BY <1>1, <1>2 DEF ListArrives, LoadData, LoadIPs
  <1>4. name' = name /\ state' = state /\ job' = job
    BY <1>3 DEF pve
  <1>5. Listing' = l
    BY <1>2, <1>4 DEF Listing, ListLXC, Exists
  <1>6. ASSUME NEW v \in VMIDs
        PROVE  Tells(v)'
    <2>1. rows'[v].name = l[v].name /\ rows'[v].status = l[v].status /\ rows'[v].ip = None
      BY <1>3 DEF Row
    <2> QED BY <1>5, <2>1 DEF Tells
  <1>7. \A j \in Slots : lists'[j] \in {NoList, l}
    BY <1>2, <1>3 DEF DashInv, PanelTyped, Settled
  <1>8. \A v \in VMIDs : answers'[v] \subseteq (IF l[v].status = "running" THEN {name[v]} ELSE {})
    BY <1>2, <1>3 DEF Settled
  <1>9. AtRest'
    BY <1>3, <1>4 DEF Settled, AtRest, Locked
  <1> QED BY <1>4, <1>5, <1>6, <1>7, <1>8, <1>9 DEF Settled

(* An address that arrives, or is not to be had.                           *)
LEMMA AddressSettled ==
  ASSUME DashInv, Settled, NEW v \in VMIDs, NEW a \in answers[v],
         AddressArrives(v, a) \/ AddressFails(v, a)
  PROVE  Settled'
  <1>1. /\ answers' = [answers EXCEPT ![v] = @ \ {a}]
        /\ UNCHANGED <<pve, lists, dialog, restarting, quiet>>
    BY DEF AddressArrives, AddressFails
  <1>2. name' = name /\ state' = state /\ job' = job
    BY <1>1 DEF pve
  <1>3. Listing' = Listing
    BY <1>2 DEF Listing, ListLXC, Exists
  <1>4. a = name[v] /\ rows[v].status = "running"
    BY DEF Settled, Tells
  <1>5. rows' = rows \/ \E x \in VMIDs : Begins(x, v) /\ rows' = [rows EXCEPT ![x].ip = a]
    BY DEF AddressArrives, AddressFails, FindRecord
  <1>6. ASSUME NEW w \in VMIDs
        PROVE  Tells(w)'
    <2>1. Tells(w)
      BY DEF Settled
    <2>2. /\ rows'[w].name = rows[w].name /\ rows'[w].status = rows[w].status
          /\ rows'[w].ip = rows[w].ip \/ (Begins(w, v) /\ rows'[w].ip = a)
      <3>1. CASE rows' = rows
        BY <3>1
      <3>2. ASSUME NEW x \in VMIDs, Begins(x, v), rows' = [rows EXCEPT ![x].ip = a]
            PROVE  /\ rows'[w].name = rows[w].name /\ rows'[w].status = rows[w].status
                   /\ rows'[w].ip = rows[w].ip \/ (Begins(w, v) /\ rows'[w].ip = a)
        BY <3>2 DEF DashInv, PanelTyped, RowsTyped
      <3> QED BY <1>5, <3>1, <3>2
    <2>3. rows'[w].ip \in {None} \cup {name[y] : y \in {x \in VMIDs : Begins(w, x)}}
      BY <1>4, <2>1, <2>2 DEF Tells
    <2> QED BY <1>2, <1>3, <2>1, <2>2, <2>3 DEF Tells
  <1>7. \A w \in VMIDs : answers'[w] \subseteq answers[w]
    BY <1>1 DEF DashInv, PanelTyped
  <1>8. AtRest'
    BY <1>1, <1>2 DEF Settled, AtRest, Locked
  <1> QED BY <1>1, <1>2, <1>3, <1>6, <1>7, <1>8 DEF Settled

(* Once the cluster is at rest and the screen shows it, it does so for     *)
(* good, for any containers, however many requests are under way, and      *)
(* however the user sorts and filters the rows: only the address of a      *)
(* container whose number another's begins with may get into the other's   *)
(* row (loadPods, loadIPs).                                                *)
THEOREM ScreenStaysRight == Spec => ScreenStays
  <1>1. DashInv /\ [Next]_vars => [Settled => Settled']_vars
    <2> SUFFICES ASSUME DashInv, Next, Settled
                 PROVE  Settled'
      OBVIOUS
    <2> USE DEF Settled, AtRest
    <2>1. ASSUME NEW i \in Slots, Refresh(i)
          PROVE  Settled'
      <3>1. \A j \in Slots : lists'[j] \in {lists[j], Listing}
        BY <2>1 DEF Refresh, DashInv, PanelTyped
      <3> QED BY <2>1, <3>1, RestKept DEF Refresh
    <2>2. ASSUME NEW i \in Slots, ListFails(i)
          PROVE  Settled'
      <3>1. \A j \in Slots : lists'[j] \in {lists[j], NoList}
        BY <2>2 DEF ListFails, DashInv, PanelTyped
      <3> QED BY <2>2, <3>1, RestKept DEF ListFails, Alert
    <2>3. CASE No \/ CloseAlert \/ Quiet
      BY <2>3, RestKept DEF No, CloseAlert, Quiet, screen
    <2>4. ASSUME NEW v \in VMIDs, TaskEnds(v)
          PROVE  FALSE
      BY <2>4 DEF TaskEnds, TaskDone, TaskFailed, EndTask
    <2>5. ~Yes /\ \A v \in VMIDs : ~StartAgain(v) /\ ~Others(v) /\ ~Halts(v) /\ \A a \in Actions : ~Click(v, a)
      <3>1. ~Yes
        BY DEF Yes
      <3>2. ASSUME NEW v \in VMIDs
            PROVE  ~StartAgain(v)
        <4>1. restarting[v] = 0
          OBVIOUS
        <4>2. ~(restarting[v] > 0)
          BY <4>1
        <4> QED BY <4>2 DEF StartAgain
      <3>3. \A v \in VMIDs : ~Others(v) /\ ~Halts(v) /\ \A a \in Actions : ~Click(v, a)
        BY DEF Others, Halts, Click
      <3> QED BY <3>1, <3>2, <3>3
    <2> QED BY <2>1, <2>2, <2>3, <2>4, <2>5, ListSettled, AddressSettled DEF Next
  <1>2. Spec => []DashInv
    BY DashInit, DashStep, PTL DEF Spec
  <1> QED BY <1>1, <1>2, PTL DEF Spec, ScreenStays
=============================================================================
