----------------------------- MODULE Dashboard -----------------------------
(***************************************************************************)
(* The pods tab of the dashboard panel (ProxKubePanel.js): one browser     *)
(* that shows the containers proxkube manages, and starts, stops, restarts *)
(* and deletes them.  Its handlers run one at a time; between them replies *)
(* travel, tasks go on, and anybody else uses the cluster.                 *)
(*                                                                         *)
(* Simplification: the columns are the name, the status and the address;   *)
(* an address is the name of the container that had it when asked.  The    *)
(* selection is left out: any row may be selected at any time, and loading *)
(* new rows clears it.  So are the order of the rows and the filter, which *)
(* the user may change at any time, and the timers of a refresh, which may *)
(* begin at any time.                                                      *)
(***************************************************************************)
EXTENDS ProxmoxVE

CONSTANTS
  Managed,    \* names of containers tagged "proxkube"
  Slots,      \* BOUND: list requests that may be under way at a time
  Timers      \* BOUND: restarts of one container within five seconds

ASSUME DashboardAssumption ==
  /\ Managed \subseteq Names
  /\ Clients # {}
  /\ Timers \in Nat

VARIABLES
  rows,       \* rows[v]: me.store, what the screen says of container v
  lists,      \* lists[i]: the answer to a list request that is on its way
  answers,    \* answers[v]: addresses on their way, asked for when v was a row
  dialog,     \* the confirmation dialogue: action, vmid and name it captured
  restarting, \* restarting[v]: timers that will start v, whose stop was accepted
  alert,      \* an error box has been shown and not been closed
  quiet       \* users and others stay away, and tasks do not fail any more

screen == <<rows, lists, answers>>
vars == <<pve, screen, dialog, restarting, alert, quiet>>

Actions == {"start", "stop", "restart", "delete"}
NoRow == [name |-> None, status |-> "absent"]
Row(h, s, a) == [name |-> h, status |-> s, ip |-> a]
NoList == [v \in {} |-> NoRow]
NoDialog == [action |-> "none", vmid |-> 0, name |-> None]

Listings == [VMIDs -> [name : Managed, status : {"stopped", "running"}] \cup {NoRow}]

TypeOK ==
  /\ VETypeOK
  /\ rows \in [VMIDs -> [name : Managed \cup {None}, status : {"absent", "stopped", "running"}, ip : Names \cup {None}]]
  /\ lists \in [Slots -> Listings \cup {NoList}]
  /\ answers \in [VMIDs -> SUBSET Names]
  /\ dialog \in [action : Actions, vmid : VMIDs, name : Managed] \cup {NoDialog}
  /\ restarting \in [VMIDs -> 0..Timers]
  /\ alert \in BOOLEAN
  /\ quiet \in BOOLEAN
  /\ \A v \in VMIDs : (rows[v].status = "absent") = (rows[v].name = None)

Init ==
  /\ VEInit
  /\ rows = [v \in VMIDs |-> Row(None, "absent", None)]
  /\ lists = [i \in Slots |-> NoList]
  /\ answers = [v \in VMIDs |-> {}]
  /\ dialog = NoDialog
  /\ restarting = [v \in VMIDs |-> 0]
  /\ alert = FALSE
  /\ quiet = FALSE

-----------------------------------------------------------------------------
(* Refreshing.                                                             *)

(* Seeded bug: the tag is not looked at.                                   *)
ListingAll ==
  [v \in VMIDs |-> IF v \in ListLXC THEN [name |-> name[v], status |-> state[v]] ELSE NoRow]

(* GET /cluster/resources, of which loadPods keeps what is tagged.         *)
Listing ==
  [v \in VMIDs |-> IF v \in ListLXC /\ name[v] \in Managed
                   THEN [name |-> name[v], status |-> state[v]] ELSE NoRow]

Refresh(i) ==
  /\ lists[i] = NoList
  /\ lists' = [lists EXCEPT ![i] = Listing]
  /\ UNCHANGED <<pve, rows, answers, dialog, restarting, alert, quiet>>

(* Seeded bug: a row that is shown already is left as it is.               *)
LoadDataOnlyNew(l) ==
  rows' = [v \in VMIDs |-> IF rows[v].status # "absent" THEN rows[v] ELSE Row(l[v].name, l[v].status, None)]

(* store.loadData: the rows are replaced, and their addresses forgotten.   *)
LoadData(l) == rows' = [v \in VMIDs |-> Row(l[v].name, l[v].status, None)]

(* loadIPs asks for the address of every row that runs.  The answer, of    *)
(* whatever container has the VMID, is taken when the request is made.     *)
LoadIPs(l) ==
  answers' = [v \in VMIDs |-> IF l[v].status = "running" /\ state[v] = "running"
                              THEN answers[v] \cup {name[v]} ELSE answers[v]]

ListArrives(i) ==
  /\ lists[i] # NoList
  /\ LoadData(lists[i])
  /\ LoadIPs(lists[i])
  /\ lists' = [lists EXCEPT ![i] = NoList]
  /\ UNCHANGED <<pve, dialog, restarting, alert, quiet>>

(* The box of an error takes the place of a dialogue that is open.         *)
Alert ==
  /\ alert' = TRUE
  /\ dialog' = NoDialog

(* Seeded bug: the rows are removed before the list is there.              *)
ListFailsClears(i) ==
  /\ lists[i] # NoList
  /\ lists' = [lists EXCEPT ![i] = NoList]
  /\ Alert
  /\ rows' = [v \in VMIDs |-> Row(None, "absent", None)]
  /\ UNCHANGED <<pve, answers, restarting, quiet>>

ListFails(i) ==
  /\ lists[i] # NoList
  /\ lists' = [lists EXCEPT ![i] = NoList]
  /\ Alert
  /\ UNCHANGED <<pve, rows, answers, restarting, quiet>>

(* Seeded bug: the number of the row is the beginning.                     *)
FindRecordSwapped(v) ==
  {w \in VMIDs : rows[w].status # "absent" /\ \E d \in {1, 10, 100, 1000} : v \div d = w}

(* findRecord matches the beginning of the number.  The row it finds is    *)
(* the first in the order the user has chosen, of those the filter leaves. *)
PowersOfTen ==
  {1, 10, 100, 1000, 10000, 100000, 1000000, 10000000, 100000000, 1000000000}
Begins(w, v) == \E d \in PowersOfTen : w \div d = v
FindRecord(v) == {w \in VMIDs : rows[w].status # "absent" /\ Begins(w, v)}

AddressArrives(v, a) ==
  /\ a \in answers[v]
  /\ answers' = [answers EXCEPT ![v] = @ \ {a}]
  /\ \/ \E w \in FindRecord(v) : rows' = [rows EXCEPT ![w].ip = a]
     \/ UNCHANGED rows
  /\ UNCHANGED <<pve, lists, dialog, restarting, alert, quiet>>

(* Without a failure callback, and without an address nothing happens.     *)
AddressFails(v, a) ==
  /\ a \in answers[v]
  /\ answers' = [answers EXCEPT ![v] = @ \ {a}]
  /\ UNCHANGED <<pve, rows, lists, dialog, restarting, alert, quiet>>

-----------------------------------------------------------------------------
(* Actions.                                                                *)

(* The buttons that are enabled for a row; the dialogue keeps what it says.*)
Enabled(v) ==
  CASE rows[v].status = "absent" -> {}
    [] rows[v].status = "running" -> {"stop", "restart", "delete"}
    [] OTHER -> {"start", "delete"}

Click(v, a) ==
  /\ ~quiet
  /\ dialog = NoDialog /\ ~alert
  /\ a \in Enabled(v)
  /\ dialog' = [action |-> a, vmid |-> v, name |-> rows[v].name]
  /\ UNCHANGED <<pve, screen, restarting, alert, quiet>>

(* The request an action begins with.                                      *)
Asks(a) == CASE a = "restart" -> "stop" [] a = "delete" -> "destroy" [] OTHER -> a

Any == CHOOSE c \in Clients : TRUE

(* A request of the panel, which does not follow its task.                 *)
Accepted(kind, v) == Submit(Any, None, kind, v, None)
Refused(kind, v) == (("reject" \in Faults /\ ~quiet) \/ ~Accepts(kind, v)) /\ UNCHANGED pve
Lost(kind, v) == "lost" \in Faults /\ ~quiet /\ Accepted(kind, v)

Yes ==
  LET v == dialog.vmid  a == dialog.action IN
  /\ dialog # NoDialog
  /\ a = "restart" => restarting[v] < Timers
  /\ dialog' = NoDialog
  /\ \/ /\ Accepted(Asks(a), v)
        /\ restarting' = IF a = "restart" THEN [restarting EXCEPT ![v] = @ + 1] ELSE restarting
        /\ UNCHANGED alert
     \/ /\ Refused(Asks(a), v) \/ Lost(Asks(a), v)
        /\ alert' = TRUE
        /\ UNCHANGED restarting
  /\ UNCHANGED <<screen, quiet>>

No ==
  /\ dialog # NoDialog
  /\ dialog' = NoDialog
  /\ UNCHANGED <<pve, screen, restarting, alert, quiet>>

CloseAlert ==
  /\ alert
  /\ alert' = FALSE
  /\ UNCHANGED <<pve, screen, dialog, restarting, quiet>>

(* Seeded bug: the start of a restart has no failure callback.             *)
StartAgainSilent(v) ==
  /\ restarting[v] > 0
  /\ restarting' = [restarting EXCEPT ![v] = @ - 1]
  /\ Accepted("start", v) \/ Refused("start", v) \/ Lost("start", v)
  /\ UNCHANGED <<screen, dialog, alert, quiet>>

(* Five seconds after the stop was accepted, whatever has become of it.    *)
StartAgain(v) ==
  /\ restarting[v] > 0
  /\ restarting' = [restarting EXCEPT ![v] = @ - 1]
  /\ \/ Accepted("start", v) /\ UNCHANGED <<dialog, alert>>
     \/ (Refused("start", v) \/ Lost("start", v)) /\ Alert
  /\ UNCHANGED <<screen, quiet>>

-----------------------------------------------------------------------------
(* The cluster: others ask for anything, tasks end, containers halt.       *)
panel == <<screen, dialog, restarting, alert, quiet>>

Others(v) ==
  /\ ~quiet
  /\ \E kind \in TaskKinds, h \in Names : Submit(Any, None, kind, v, h)
  /\ UNCHANGED panel

TaskEnds(v) ==
  /\ TaskDone(v) \/ (~quiet /\ TaskFailed(v))
  /\ UNCHANGED panel

Halts(v) == ~quiet /\ Halt(v) /\ UNCHANGED panel

Quiet ==
  /\ quiet' = TRUE
  /\ UNCHANGED <<pve, screen, dialog, restarting, alert>>

Next ==
  \/ \E i \in Slots : Refresh(i) \/ ListArrives(i) \/ ListFails(i)
  \/ \E v \in VMIDs : \E a \in answers[v] : AddressArrives(v, a) \/ AddressFails(v, a)
  \/ \E v \in VMIDs : \E a \in Actions : Click(v, a)
  \/ Yes \/ No \/ CloseAlert
  \/ \E v \in VMIDs : StartAgain(v) \/ Others(v) \/ TaskEnds(v) \/ Halts(v)
  \/ Quiet

Spec == Init /\ [][Next]_vars

(* The browser refreshes every 30 s, every request is answered or fails,   *)
(* the list not for ever, timers run out, and tasks end.                   *)
Fairness ==
  /\ \A i \in Slots : WF_vars(Refresh(i)) /\ WF_vars(ListArrives(i) \/ ListFails(i)) /\ SF_vars(ListArrives(i))
  /\ \A v \in VMIDs : \A a \in Names : WF_vars(AddressArrives(v, a) \/ AddressFails(v, a))
  /\ \A v \in VMIDs : WF_vars(StartAgain(v)) /\ WF_vars(TaskEnds(v))
FairSpec == Spec /\ Fairness

-----------------------------------------------------------------------------
(* A row has the address of a container whose number its own begins with,  *)
(* which is its own if all numbers have the same length.                   *)
Tells(v) ==
  /\ rows[v].name = Listing[v].name
  /\ rows[v].status = Listing[v].status
  /\ rows[v].ip \in {None} \cup {name[w] : w \in {x \in VMIDs : Begins(v, x)}}

(* However replies overtook each other before, once nothing changes any    *)
(* more the screen comes to show exactly the managed containers, with the  *)
(* right status and, but for numbers that begin with another, no address   *)
(* of another container, and it stays so (loadPods, loadIPs).              *)
ScreenConverges == quiet ~> [](\A v \in VMIDs : Tells(v))

(* The cluster is at rest, the screen shows it, and every reply that is    *)
(* still on its way says the same.                                         *)
AtRest == quiet /\ dialog = NoDialog /\ \A v \in VMIDs : restarting[v] = 0 /\ ~Locked(v)
Settled ==
  /\ AtRest
  /\ \A v \in VMIDs : Tells(v)
  /\ \A i \in Slots : lists[i] \in {NoList, Listing}
  /\ \A v \in VMIDs : answers[v] \subseteq (IF Listing[v].status = "running" THEN {name[v]} ELSE {})

(* A screen that is right stays right: no refresh, no reply that arrives   *)
(* or fails, in whatever order, and no address, whichever row the lookup   *)
(* by the beginning of the number finds, puts on it what Tells rules out   *)
(* (loadPods, loadIPs).                                                    *)
ScreenStays == [][Settled => Settled']_vars

(* A restart whose stop was accepted does not leave the container stopped  *)
(* without a word, although it waits for the clock and not for the stop:   *)
(* the container runs again, or an error is shown (doAction).  This is     *)
(* from "quiet" on, when tasks do not fail: of a start that was accepted   *)
(* and whose task fails later nobody is told.                              *)
NoSilentStop == \A v \in VMIDs : quiet /\ restarting[v] > 0 ~> state[v] = "running" \/ alert
=============================================================================
