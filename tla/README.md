# Verification of proxkube

proxkube runs "pods" as LXC containers of Proxmox VE. A command line, a Kubernetes
operator and a dashboard describe pods; a controller creates, starts, stops and
destroys containers through an API it shares with everybody else who uses the
cluster; a daemon watches. Nothing in proxkube keeps a database or takes a lock:
what exists is what the cluster lists, a pod is found by the name of its container,
and everything else is addressed by a number (the VMID) that is reused as soon as it
is free. That is where the interesting questions are, and what these modules ask.

The modules are written from the source at the lines `PROJECT.json` gives under
`map`. Run a check with `tlc -config pod_owners.cfg MCPodController.tla`, the proofs
with `tlapm PodControllerProofs.tla`.

## 1. The system

| Component | State | Operations | Talks to |
|---|---|---|---|
| Pod controller, `pkg/controller/pod.go` | none between calls; a VMID in a local variable during a call | Apply, Get, Delete, List, ApplyStack, DeleteStack | the backend, one request at a time |
| REST client, `pkg/proxmox/client.go` | a login ticket, never changed | NextID, Create/Start/Stop/DeleteLXC, GetLXCStatus, ListLXC, WaitForTask | the cluster; mutating requests start asynchronous tasks |
| Local backend, `pkg/hypervisor/hypervisor.go` | none | the same interface through `pct` and a socket, plus exec, push, pull | the node it runs on |
| Pod model, `pkg/api/types.go` | data | Validate, EffectiveTemplate | - |
| Compose, `pkg/compose/compose.go` | none | LoadComposeFile, ToStack | the pod model |
| Helm values, `pkg/helm/converter.go` | none | LoadValues, ToStack, RenderTemplate | the pod model |
| Command line, `cmd/proxkube/main.go` | none | apply, get, delete, list, compose up/down/ps, helm install/template/uninstall, exec, daemon | controller, daemon |
| Daemon, `pkg/daemon/daemon.go`, `runDaemon` in `main.go` | the last list of every node, in memory, under a mutex | Run, poll, reconcile, emit, Snapshot; start, signals, restart by systemd | ListLXC; a callback per event; `kubectl` once |
| Operator, `pkg/operator/reconciler.go` | none | Reconcile (apply or delete), which may ask to be requeued | controller |
| Dashboard, `deploy/pve-plugin/ProxKubePanel.js` | the rows on the screen, one dialogue, timers of restarts | refresh, addresses, create, start, stop, restart, delete | the cluster API, asynchronously |
| Dashboard API, `deploy/pve-plugin/ProxKube.pm` | none | index, status, create_pod, daemon_control | `proxkube apply`, `systemctl` |
| Kubernetes engine, `pkg/k8s` | none | start, stop, namespace, manifests | `minikube`, `kubeadm`, `kubectl` |

What is hard about each, and what makes it correct:

* **Pod controller.** Several processes run it against one cluster. Between any two of
  its requests containers may appear, disappear, stop, or take over a freed VMID; a
  request may fail, take effect without a reply, or start a task that outlives the wait
  for it. Correct means: one container per name; only the pod's own container is
  stopped or destroyed; what a call reports is true when it reports it; every call
  returns.
* **Stacks.** Pods come in the order of a Go map, dependencies are arbitrary graphs.
  Correct means: dependencies first, all that can be applied is applied, a cycle is
  reported just when there is something that cannot be, and the loop ends.
* **Helm releases.** Nothing records which containers belong to a release. Correct
  means: an uninstall destroys the release's containers, all of them, and no others,
  and a repeated install completes a partial one without making a second container, whatever
  others create and remove in the meantime.
* **Conversions.** Three kinds of file, two backends, defaults at every stage. Correct
  means: an unexposed pod is behind the firewall, the tags by which others find a
  container are there, only unusable files are refused, both backends create the same.
* **Daemon.** It sees snapshots, not changes; nodes may not answer; it restarts with
  nothing, and a poll, the events and the callers of Snapshot share one mutex. Correct
  means: the events add up to its list, each makes sense when it arrives, their consumer
  ends up knowing the truth, a snapshot shows no half of a reconcile, and a daemon that is
  asked to stop stops.
* **Operator.** Calls that half succeeded are retried while resources change, and
  several workers compete for VMIDs. Correct means: a deletion is final, no resource is
  forgotten, retries end, and in the end exactly the resources that exist have a container.
* **Dashboard.** Replies overtake each other, a click refers to what was on the screen
  some time ago, and a restart waits five seconds rather than for the task. Correct means:
  the screen ends up showing what there is, and an action that did not succeed says so.

`PROJECT.json` lists the hazards one by one under `hazards`, each at its line.

## 2. Modules

| Module | What it is |
|---|---|
| `ProxmoxVE` | One node as the client sees it: containers, VMIDs, one task and lock per container, faults. External, modelled from what the client relies on. |
| `PodController` | Apply, Get and Delete of any number of clients. EXTENDS `ProxmoxVE`. |
| `PodRegistry` | What the controller promises, without VMIDs, tasks and requests: a table of phases and truthful answers. |
| `Operator` | Reconcile with its requeues: workers that are clients of the controller. EXTENDS `PodController`. |
| `PodStack` | ApplyStack and DeleteStack over pods as `PodRegistry` describes them. |
| `HelmRelease` | helm install and uninstall by several clients on several nodes. |
| `Daemon` | The process from start to end, polling, reconciling, events, Snapshot, and a consumer that knows only the events. |
| `Dashboard` | The pods tab of the panel, with its requests, dialogues and timers. EXTENDS `ProxmoxVE`. |
| `Manifests` | From a file or the dashboard's form to the request: Compose and Helm conversion, create_pod, Validate, podToLXCConfig, both backends. |
| `MC*` | Instances for TLC: who may call what, which graphs, releases and files. |
| `PodControllerProofs`, `OperatorProofs` (which EXTENDS it), `PodStackProofs`, `DaemonProofs`, `DashboardProofs`, `HelmReleaseProofs`, `ManifestsProofs` | Theorems. |
| `SequenceLemmas` | What the proofs about stacks, releases and files use of sequences: elements, injectivity, prefixes. |

### PodController and ProxmoxVE

`pc[c]` is the request a client makes next, or the wait it is in; `op`, `pod` and `vmid`
are the arguments and the local variable of the Go function, `result` what it returned.
One action is one request with its reply (`Find` is findByName, `NextID`, `Create`,
`Start`, `Stop`, `Destroy`, `Status`, `Refresh`), or the end of a wait (`WaitForTask`,
which also decides, through `AfterWait`, what the function does next). `Request` is the
outcome of any mutating request: accepted, refused because the container is locked or in
the wrong state, failed, or accepted with the reply lost. `name`, `state` and `job` are
the node's containers and the tasks that hold their locks; a task ends (`EndTask`)
whether or not anybody polls it, which is what `Orphan` leaves behind. A container that
is still being created is listed without its host name, so `ListLXC` leaves it out.
`Faults` selects what may go wrong, `Calls` who calls what.

Clients in `Local` use the local backend (`UsesREST` is buildController's choice): `pct`
runs until its task has ended and tells how, so no reply is lost and no wait abandoned, but
nothing bounds the time of a call either; and what a finished `pct create` has printed may
be polled as if it were a task (`TakenForTask`), so that the call fails although the
container exists.

`ImplementsRegistry` is the refinement: `PhaseOf` reads a pod's phase off the containers
of its name, and every step of the controller is a step of `PodRegistry` or leaves it
unchanged. `PodStack` rests on it: there Apply and Delete are single steps.

### Operator

`event[p]` is the event of a resource that waits, `serving[c]` what a worker reconciles,
`exists[p]` whether there is a resource. `Reconcile` starts the call of the controller,
`Work` is one request of it, and with the last one decides whether the resource is queued
again (`Requeued`). The repository has Reconcile but not the loop that calls it; the loop
is what its comments expect ("re-queued for another reconciliation cycle"): one worker at a
time per resource, and a newer event replaces one that waits, also one that was requeued.
`calm` marks the time from which nothing fails and users stay away; from there the steps are
those of `Calm`, the controller without faults (INSTANCE ... WITH Faults <- {}).

### PodStack

`remaining`, `next`, `applied`, `progress` are the loop's variables, `done` the names of
`result.Pods`, `phase` the containers. `Begin` picks an order, `ApplyPod` / `PutOff` are
the two branches of the loop body, `EndOfPass` its end with the test for progress,
`DeletePod` the body of DeleteStack. A failing Apply may leave the container in any
phase, because any of its requests may have failed.

### HelmRelease

`ct[v]` is a container with name, release tag and node, `task[v]` a create or destroy task
that a command has given up waiting for; `todo` are the pods to apply or the VMIDs to delete.
Texts are sequences of pieces, so that what a text begins with is a prefix: "web" begins
"web-db" (of the pieces web, -, db) as well as "webapp" (web, app). A container carries the
hostname of the values if there is one (`ContainerName`), while `Found` looks for the pod's
name, on the pod's node only. `Matches` is the filter of uninstall over what List returns: the
tags contain "helm-release=" and the release, with nothing said of what follows, or the name
begins with the release and a hyphen. The tag stands for all tags of a container, of which no
other is taken to contain "helm-release=".

Apply and Delete are single steps, and dependsOn is left out; but each may fail without or
after its effect ("fail"), or end before its task does ("abandon"). A container whose create
task goes on is not listed (`Listed`), so a repeated install creates another one; `TaskEnds`
is when that task ends, with a container or without. `OtherCreated` and `OtherRemoved` are
everybody else: containers of no release come and go, and an administrator removes any.

`disturbed` is a history variable: the releases of which a command has begun, or a container
has been removed by others, while some other command or an abandoned task was at work on them
(`AtWork`, `Touch`). The three properties are about releases that are not in it, that is, about
releases that are handled by one at a time, with retries after an abandoned task has ended.
They say nothing of the others, which the code does not protect.

### Daemon

`actual` is the cluster; a container may be on the nodes of its `Home`, on one at a time,
and migrate between them. `process` is how far the process has come: making the client
(`Connect`, which with a password needs an answer of the cluster), the two calls of
`kubectl` if monitoring is asked for (`SetupMonitoring`; an error is only a warning, so
their outcome does not matter), the poll before the ticker exists, the loop, and the two
ways to end. systemd restarts it after a failure (`Restart=on-failure`), an administrator
after a stop. `cancelled` is the context, which the loop looks at between polls only
(`Done`); `Crash` loses everything in memory at any moment.

`known` is `d.state`; `at` and `stage` say which node is being polled and whether the
daemon waits for the list, for the mutex, or emits. The list is as old as the answer
(`current`), the comparison is made with the mutex (`Lock`), and each event is a step of
its own (`Emit`), so that the cluster changes in between and the process may die there.
`mirror` is the consumer, who starts afresh with the process, as its callback is part of it.
`reader` and `copy` are callers of Snapshot, who hold the same mutex (`MutexFree`) while
they copy node by node.

### Dashboard

`rows` is the grid's store, `lists` the answers to list requests that are on their way (at
most one for each of the `Slots`), `answers` the addresses on their way, `dialog` the
confirmation that captured a VMID and a name when it was opened, `restarting` the timers of
restarts, `alert` an error box. Each handler of the panel is an action: `Refresh`,
`ListArrives` (loadData, then loadIPs for the rows that run), `ListFails`, `AddressArrives`
(with the lookup by findRecord, which compares the beginning of the number: `Begins`, with
the powers of ten that a VMID can reach), `Click`, `Yes`,
`No`, `StartAgain`. The panel follows no task, so its requests are those of `ProxmoxVE`
without a wait. `Others` is anybody else, who asks for anything. Left out are the selection
(any row may be selected), the timers of a refresh (one may begin at any time), and the order
and the filter of the rows, which the user changes at will: findRecord takes the first match,
so `FindRecord` is the set of all matches, and an address goes to any of them or, if the filter
hides them, to none. `restarting` counts the timers of each VMID, as a second restart may be
asked for before the first has started its container; `Timers` bounds them.

### Manifests

`Convert`, `Refuse` or `StartTags`, `Configure` and `Send` take one file through the stages;
the form of the dashboard is a source like the others, as create_pod writes a manifest of
it. `buildTags` is the stage "tagging", with a step for each turn of its two loops
(`TagFromSpec`, `TagFromLabel`; the order of the labels is a Go map's). A text is an opaque
value, `KeyValue(k, v)` is the text k=v, and `""` is "not given"; what becomes of texts is given
by constants, so that the theorems hold whatever it is. create_pod writes the texts of a form
into YAML without quotes: `ReadAs` says which texts are read as others ("null" as nothing,
"edge #1" as "edge"), `Unreadable` which make the manifest unreadable ("a: b"). All tags are
joined with ";" in the end (`joined`), and `Pieces` says which tags that makes several of
("a;b"). A text of a form is taken to be one line; one of several lines could add fields to the
manifest. A network of a request is a record of its
attributes, one that a Compose file declares has its gateway and whether it is internal;
optional scalars that are only passed on are a set of names. `IsService`,
`HelmPods`, `Forms` and `Pods` are what the YAML decoders and the API's schema let through,
and all that is assumed of a file. What is modelled by what it does: the defaults and the
environment variables that replace them (`composeOptions`), memory and CPU texts (halves,
units, unreadable ones), ports, networks declared or not, the two forms of network in a
manifest, tags with their removal of duplicates and their separator, what Perl takes for false in create_pod
(`Falsehoods`), the conditions under which each backend leaves a field out.

## 3. Runs

Every property has a mutant in `PROJECT.json`: a change of the model as a plausible bug
would make it, under which the run fails.

| Run | Bounds | What it shows |
|---|---|---|
| `pod_owners` | 2 clients (one local), 2 pods, 2 VMIDs; requests and tasks fail, output of pct is taken for a task, containers halt | All safety of the controller, and the refinement, when every pod has one client |
| `pod_returns` | 2 clients (one local), 1 pod, 2 VMIDs; all faults | Every call of the REST backend returns |
| `operator` | 2 workers, 2 resources, 2 VMIDs; requests and tasks fail until calm | Deletions are final, no resource is forgotten, retries end, the resources have their containers, missing ones run |
| `pod_hostname` (violated) | 1 client, 1 pod with its own host name | Every apply creates one more container |
| `pod_wrong_destroyed` (violated) | 3 clients, 2 pods, no faults | Two deletes of one pod can destroy another pod |
| `stack` | all graphs of 3 pods and 1 unknown name, all orders, up and down repeatedly, failing calls, drift | Order, completeness, termination and the measure behind it, what "down" leaves |
| `stack_down` (violated) | 2 pods, no call fails by itself | One missing container keeps "down" from removing the others |
| `daemon` | 2 nodes (one may never answer), 2 VMIDs (one migrates), 1 name, 1 caller of Snapshot; failed logins and polls, crashes, signals, restarts | Events add up, apply, and their consumer converges and stays right; snapshots are whole; the daemon stops when asked |
| `dashboard` | 1 VMID taken in turn by a managed and a foreign container, 2 list requests and 2 timers at a time; replies in any order or lost, failing tasks; or a quiet cluster with VMIDs 10 and 100 | The screen converges and stays right; a restart does not leave its container stopped without a word |
| `helm` | 2 releases on 2 nodes, 3 VMIDs, a pod with a hostname, a foreign container, an administrator who removes anything; failing calls, abandoned tasks | Uninstall takes its own and all of them, install completes and makes no second container |
| `helm_neighbour` (violated) | releases `web` and `webapp`, no faults | Uninstalling the first destroys pods of the second |
| `manifests` | 1425 files in eight families | Firewall, tags, refusals, equality of the backends |

Why the bounds are enough. The controller's hazards need a second client and a second pod,
to take over a VMID, and no more than two VMIDs: with two, one is taken while the other is
freed and reused; identifiers are only compared. The theorems below cover all other numbers.
In `stack` three pods give every shape of cycle, chain and diamond edge a pass can meet (a
pass that applies some and puts off others needs two, a further pass three), plus a
dependency outside the stack. In `daemon` a second node distinguishes "this node" from "the
poll", a second VMID gives events that overlap, and only one of them migrates (`Home`), so
that one node keeps a container of its own; the proofs have any number of each. In
`dashboard` rows do not depend on each other, but for findRecord, which may put an address
into the row of a VMID that begins with the same digits; like every wrong address it stays
until the next list arrives, because loadData forgets them all. So one VMID is used in all ways
(`Few` keeps to 100), and a panel that is opened on a quiet cluster (`Calm`) has 10 and 100, for
the lookup. Two requests (`Slots`) are enough for an older list to arrive after a newer one, two
timers for a start that meets the start of another restart. In `helm` a pod key shared by both
releases, a release on two nodes, a foreign container with the name of a key and one spare VMID
give all ways to confuse containers. The
files of `manifests` vary in each family the fields that some stage combines, including
missing, zero, negative and unreadable values, half an MB, which rounds to none, texts that YAML
reads as others or not at all, and a tag with a separator.

In `operator` a second worker and a second resource are what it takes to be offered one
VMID twice and to reconcile two resources at a time.

Nothing counts without bound: the only counter is that of the timers in `Dashboard`
(`Timers`), VMIDs and commands are drawn from finite sets. `manifests` stops when the request has been sent, and `operator` when it
is calm and everything is reconciled; these two switch the deadlock check off, and
everywhere else a deadlock would be an error.

Fairness. `PodController!FairSpec` schedules every client (`WF` on its steps) and assumes
nothing of the node: a task may run for ever, and `EveryCallReturns` holds because every
wait has a deadline (client.go 458-482, fault "abandon"); local clients, whose commands
have none, are excluded. `OperatorSpec` schedules workers, takes queued events (RequeueAfter
is a finite delay), and lets tasks end. `PodStack!FairSpec` is the Go loop going on.

`Daemon!FairSpec` is the process going on (`WF` on `Work`, which includes systemd's restart
and `kubectl`, taken to end); `SF` on `Lock`, because a Go mutex is handed to a waiter who
starves; `SF` on `Done`, because a select takes each of its ready cases with equal chance;
`SF` on `Connect` and on the list request of each `Reachable` node, which is what reachable
means. Every REST request has a timeout of 30 s, so a node that does not answer gives
`ListError`; nothing else is assumed of it. `Dashboard!Fairness`: the browser refreshes every
30 s, requests are answered or fail, the list request not for ever, timers run out, tasks
end; nothing is assumed of the user.

Symmetry is not used: VMIDs are numbers of which the least free one is offered, the
clients, pods and nodes of most runs have different roles, and liveness excludes it.

## 4. Proofs

All theorems are about every value of the constants: any clients, pods, VMIDs, names and,
where not excluded below, faults.

* `TypeCorrect` (`PodControllerProofs`): `Spec => []TypeOK`. The type invariant alone is
  not inductive (a request must be made with a VMID, not 0), so `Typed` adds which local
  variables are set at which request; one lemma per kind of step.
* `NamesStayUnique` (`PodControllerProofs`): `UniqueName`, if every client waits for its tasks
  (`Patient`: no lost replies, abandoned waits or crashes), containers carry the names of
  their pods (`OwnNames`), and no two applies of one pod are in progress at a time
  (`Alone("apply", "apply")`). Uniqueness among
  listed containers is not inductive, because Apply decides before its container is
  listed. The invariant says: a running task is awaited by the client whose request it is
  (`Awaited`); a container has a name exactly when it exists or is being created
  (`NameMeans`); names are unique from the start of the create task (`UniqueFromStart`); and
  from the lookup to the create request no container of the name exists or begins
  (`NoneYet`), which is where a second apply would do harm.
* `DeleteHitsOnlyOwn` (`PodControllerProofs`): `DeleteHitsOwn`, if clients are `Patient`, no
  two deletes of one pod are in progress at a time (`Alone("delete", "delete")`), containers
  carry the names of their pods, and no
  VMID is pinned (`NoPinned`). The invariant says that the VMID a Delete holds keeps being
  its pod's (`OwnTarget`), because a destroy task removes only the container of the pod
  its client deletes (`OwnTask`). Other clients may create and delete what they like.
* `ReportedIsGone`, `ApplyIsTruthful` (`PodControllerProofs`): `GoneWhenReported` and
  `ApplyReportsOwn`, if clients are `Patient`, names are the pods' own, no VMID is pinned, and
  whatever two clients do to one pod, be it apply or delete, they do one after the other
  (`Apart`). To the invariants above come
  what a client knows between two requests: the VMID it holds after a create task or a lookup
  is its pod's container (`Held`), after a destroy task that ended well nothing has the pod's
  name (`Gone`), and what state a container is in while a task works on it (`Stage`).
* `RegistryImplemented` (`PodControllerProofs`): `ImplementsRegistry`, if moreover no pod is
  read while it is deleted (`Alone("get", "delete")`). Initial states map to initial states,
  and each step is matched with one action of `PodRegistry` (the end of a create, start,
  stop or destroy task, an answer, a halt) or with a stutter. `Phases` is what makes it
  work: as names are unique, the phase that `PhaseOf` reads off the containers of a name is
  that of a particular VMID.
* `OwnersAreApart` (`PodControllerProofs`): who has one client for all that is done to a pod
  (`OneApplier`, `OneDeleter`, `SameClient`) is `Apart` at all times. The conditions of the
  theorems above are about the moment, so that they also cover clients who agree on their
  turns by other means; the run `pod_owners` meets them by giving every pod one client.
* `OperatorIsClient`, `OperatorTypeCorrect`, `DeletedStaysGone`, `ExistingStaysThere`
  (`OperatorProofs`): every
  behaviour of the operator is one of the controller (also the steps of `Calm`), so the
  controller's invariants can be used; that of one worker per resource takes the place of
  `Apart`, and is not assumed but proved (`Served`, `ServedAlone`). With it
  `DeletedIsGone` holds because a resource that is gone has its deletion waiting, in the hands
  of a worker, or done with no container left (`Wanted`), and `ExistingIsThere` because one
  that exists waits to be applied, is being applied, or has a container (`Provided`). Together
  they are the safety half of `Settles`: once nothing is queued or served, exactly the
  resources that exist have a container, and one each. `Patient`, `OwnNames` and `NoPinned`
  remain as conditions.
* `DependenciesDecided` (`PodStackProofs`): `AppliesResolvable`, for every finite stack and
  every graph. No pod is lost between passes (`Covered`), what has been applied has its
  dependencies applied (`Supported`) and lies in every closed set (`Least`), and after a
  pass without progress everything put off is not ready (`Stuck`); so at the end, either
  way, the applied pods are the least closed set.
* `StackTypeCorrect`, `DependenciesFirst`, `DownRemovesAll` (`PodStackProofs`): the type
  invariant, `DependencyOrder` and `DownMeansGone`, for every finite stack and every graph.
  That no pod is applied twice rests on every pod being in one place (`OnePlace`: applied, in
  this pass or in the next, once), and that on the order being one in which each pod occurs
  once (`OrderOnce`); that "down" leaves nothing, on what it has passed staying gone
  (`Passed`).
* `EveryTurnCounts` (`PodStackProofs`): `LoopDescends`, for every finite stack: each turn of
  a command's loop lowers the number of pods that are still to be done, or leaves it and
  takes the pass's progress back, or leaves both and shortens what the pass has still to
  look at. This is why ApplyStack ends for every graph; that such a measure cannot be
  lowered for ever, and hence `CommandReturns`, is the induction left to TLC.
* `TypeCorrect`, `EventsTellStateAlways`, `SnapshotsAgree`, `EventsApplyAlways`
  (`DaemonProofs`): the safety properties of the daemon, for any nodes, containers and
  callers, without further assumptions. The invariant (`DaemonInv`) says what the consumer
  knows at every moment: the daemon's list, except that of the node being reconciled it
  knows the new list already where no event is pending (`Told`); that pending events are
  some of those the comparison found (`PendingIs`); and that no list changes while somebody
  copies them (`Guarded`). The comparison itself is three lemmas: an event says what the two
  lists say (`DifferenceSays`), there is one for each container whose status differs
  (`DifferenceComplete`), and no more (`DifferenceOnce`).
* `ConsumerStaysRight` (`DaemonProofs`): `StaysCaughtUp`. Once the cluster is quiet, a
  consumer who has the truth about a node, as the daemon has, keeps it, whether later polls
  are answered or not (`CaughtUp` is what has to be so for that). This is the lasting half
  of `ConsumerConverges`; that it gets there is left to TLC.
* `DashboardTypeCorrect`, `ScreenStaysRight` (`DashboardProofs`): the type invariant, and
  `ScreenStays`, for any VMIDs, names and number of requests, without further assumptions. A
  container has a name whenever a list shows it (`Named`), and a panel that shows what there
  is, while every reply on its way says the same and the cluster is quiet (`Settled`), goes on
  showing it through every refresh, in whatever order and with whatever filter the rows are
  shown. What it may show wrongly is part of `Tells`: a row may have the address of a container
  whose number its own begins with, as the address of 100 may go to the row of 1000. If all
  VMIDs have the same number of digits, that is no other container.
* `HelmTypeCorrect` (`HelmReleaseProofs`): the type invariant, with no further condition.
  `UninstallIsOwn`, `UninstallIsComplete`, `InstallIsComplete`: `UninstallHitsOwn`,
  `UninstallComplete` and `InstallComplete`, whatever is begun, fails, is abandoned or is
  removed by others, if names are apart (`NamesApart`): no release's name begins with another's,
  no foreign container and no hostname of another release's pod is called like a release with a
  hyphen, and no hostname is the name of another pod. That the release is handled by one at a
  time (`disturbed`) is not assumed but part of the properties. The invariant (`HelmInv`) says
  that every container is one of a chart or a foreign one (`Labelled`), and of a release that
  nobody has disturbed, that while a command works on it no other and no abandoned task does
  (`InTurn`), that no pod has two containers unless it has a hostname (`Single`), that an install has
  left a container for every pod it has passed (`Present`), and that what an uninstall has left
  to delete is what the release has left on the node (`Remaining`). `InTurn` is what the others
  rest on: everything the release has is listed when a command begins, and nobody else adds to it
  or takes from it between listing and deleting (`ReleaseAlone`).
* `ManifestsTypeCorrect`, `FirewallIsAsAsked`, `BackendsAlwaysAgree`, `RefusalIsDeserved`
  (`ManifestsProofs`): the properties of the conversion for every file, and so for any number of
  ports, networks, labels and any sizes. The invariant (`ManifestsInv`) says what each stage has
  made of the one before; one lemma per converter (`ServiceKept`, `HelmKept`, `FormKept`,
  `ManifestKept`) shows that the pod is exposed and asks for firewalls as the file does
  (`FirewallKept`) and is invalid exactly if the file is unusable (`DefectsKept`). For the
  equivalence `Unusable` has to name every defect, also a size below one MB, an empty name of a
  service and a manifest without storage.
  What YAML makes of the texts of a form is any `ReadAs` and any `Unreadable`; a form is refused
  when its texts are unreadable or read as nothing where there must be something.
  `FirewallAsAsked` makes no exception for internal networks, as the code makes none (section 5).
* `ContainersAreRecognised` (`ManifestsProofs`): `Recognised`, for every file: the first tag is
  "proxkube", and the others are the tags that the file asks for, as YAML reads those of a form,
  and in the pieces that a separator makes of them. No tag is there twice if none is read as
  several; a tag "a;b" beside a tag "a" is. The invariant
  (`TagsInv`) says that no tag is lost on the way: what the file asks for is what the pod has
  (`TagsKept`), during the loops of `buildTags` it is what has been put into the list or
  is still to come (`TagsBuilt`), and what is joined are the pieces of what has been put into the
  list (`TagsJoined`). As each turn of the loops is a step, this needs no induction
  over the lists.

The assumptions of the controller's theorems are not conveniences. `pod_hostname` drops
`OwnNames`, `pod_wrong_destroyed` lets two deletes of a pod overlap, and each fails. Two
applies of one pod at a time create two containers: take `pod_hostname.cfg` with
`Clients = {c1, c2}`, `Names = {p1}`, `Hostname <- OwnName` and `Calls <- Anything`, and TLC
finds it. Without `Patient` or `NoPinned` see section 5. `helm_neighbour` drops
`NamesApart`.

Only model-checked: all liveness, as fairness and ENABLED are out of the prover's reach, and
so is the well-founded induction behind a measure. These are `EveryCallReturns`,
`CommandReturns`, `Settles`, `MissingRuns`, `ConsumerConverges`, `StopsWhenAsked`,
`ScreenConverges` and `NoSilentStop`. What safety there is in them is proved:
`EveryTurnCounts` for `CommandReturns`, `DeletedStaysGone` and `ExistingStaysThere` for `Settles`,
`ConsumerStaysRight` for `ConsumerConverges`, `ScreenStaysRight` for `ScreenConverges`.

## 5. Where the code does not do what is said

With a run each (`findings` in `PROJECT.json`): own host names (pod.go 297), a reused VMID
(140), "down" with a container already gone (201), and uninstalling a release whose name
begins another's (main.go 563: "web" takes the containers of "webapp" by their tag, and would
take those of "web-api" by their names as well).

Met while modelling, without a run of their own:

* Two concurrent applies of one pod look for its name before either container exists
  (pod.go 53) and create two; section 4 says how to see it.
* An Apply whose wait ends early (pod.go 79), repeated, creates a second container, as
  the first is not listed by name yet; a Delete that ends early leaves a destroy task that
  frees the VMID under the next one. This is why the proofs assume `Patient`. `PodController`
  shows both when "abandon" is added to `Faults`.
* A pod with `spec.vmid` is taken to exist (pod.go 62) and never created.
* After a failed start, Apply finds the container and never starts it (pod.go 62), and
  ApplyStack takes such a pod for applied (181), although types.go 61-62 says that
  dependencies "must be running before this pod starts".
* `environment` reaches neither backend (client.go 208, hypervisor.go 107), although
  types.go 56 says it is set inside the container; `Manifests` removes it in both.
* The `internal` flag of a Compose network is kept in the stack and read by nothing
  (compose.go 138), although types.go 247 says that pods on such a network "are not exposed
  externally": a service that publishes ports has no firewall there. `Manifests` has the flag,
  and `FirewallAsAsked` says that it makes no difference.
* A repeated helm install finds neither a pod with a hostname (as in `pod_hostname`) nor one whose
  create task was abandoned and goes on, and creates another container of each;
  `InstallComplete` promises a single container for the other pods only, and for releases
  that are handled by one at a time. An uninstall deletes VMIDs it listed before (main.go 574):
  if an administrator removes a container of the release meanwhile, its VMID may be a
  stranger's by then, which is deleted instead.
* create_pod writes the form's texts into YAML without quotes (ProxKube.pm 334-351): a pod or an
  image called "null" is refused for having no name or image, a pool "null" and a tag "null" are
  left out, an image "a: b" makes the manifest unreadable, and of a text with " #" in it the
  rest is a comment.
* A tag that contains ";" becomes several when the tags are joined (pod.go 401), which may repeat
  another; a duplicate is only looked for among whole tags (386, 395).
* A deletion of a resource with `spec.vmid` whose container is gone is requeued for ever: the
  server's error does not say "not found", which reconciler.go 88 looks for. Conversely every
  error that happens to contain these words ("404 page not found", "executable file not
  found in $PATH" from a missing `pct`) is taken for a deletion that is done.
* A local client whose `pct create` prints anything (hypervisor.go 188-193) gets an error
  from an Apply that has created the container, and the container is not started.
* The daemon compares presence and status only (daemon.go 138-148): a container replaced
  under its VMID between two polls, in the same status, gives no event.
* `PROXKUBE_POLL_INTERVAL` may be zero or negative (main.go 741): `time.NewTicker` then
  panics after the first poll (daemon.go 92), at every restart. `PROXKUBE_NODES=","` leaves
  no node to poll (main.go 721-728), without a message.
* The login ticket is obtained once (client.go 103). A daemon that logs in with a password
  cannot list any node when it has expired, logs that, and goes on; in the model no node is
  `Reachable` from then on.
* A failure to set up monitoring is a warning, and "Monitoring stack deployed" is printed
  all the same (main.go 761-768); `kubectl` has no deadline. A second signal is swallowed.
* The dashboard's dialogue and its restart keep a VMID that may belong to another container
  when the user confirms or the five seconds are over (ProxKubePanel.js 697, 714). An error
  box takes the place of a dialogue that is open. findRecord (649) compares the beginning of
  a number and takes the first row in the order and of those the filter of the user leaves, so
  the address of 100 may appear in the row of 1000 until the next refresh, also if 100 has a row
  of its own. Of a start task that fails after it was accepted the panel says nothing:
  `NoSilentStop` is about the time when tasks do not fail.
* The panel takes every tag that contains "proxkube" for the tag, the Perl handlers only the
  whole word. A storage field that is sent empty is refused, although the form shows
  local-lvm there. create_pod runs `proxkube apply` without the `PROXMOX_*` environment of the
  daemon; daemon_control reports success as soon as systemd has forked a `Type=simple` unit.
* An uninstall works on one node (main.go 540-554): containers the release has on others
  stay. `UninstallComplete` says so.

## 6. Not modelled, and the plan

Left out for good, and why:

* HTTP, TLS and YAML (libraries), printing and FormatEvent (no state).
* The Kubernetes engine (`pkg/k8s`): wrappers around `minikube`, `kubeadm` and `kubectl` that
  keep no state; the program calls ApplyManifest only, whose outcome `Daemon` has
  (`SetupMonitoring`), and constant manifests.
* Packaging: shell scripts; of the unit files the restart policy is in `Daemon`.
* exec, push, pull and enter of the local backend pass a command through.
* Of the dashboard the management tab and the detail panel, which show what they are given, and
  the read-only Perl handlers.
* An event of a type that the operator does not know (reconciler.go 65-66): Reconcile returns an
  error and changes nothing.

Abstracted: resources, tags and networks of containers in all modules but `Manifests`; time,
except that a wait may end; texts of errors.

What is left is what TLC has and the prover cannot have: the liveness properties, of which
section 4 says what is proved. Of the conditions of the theorems `Patient`, `OwnNames`, `NoPinned`
and `NamesApart` stay, and so does the condition in the properties of `HelmRelease` (`disturbed`),
because the code does not keep its promises without them (section 5).
