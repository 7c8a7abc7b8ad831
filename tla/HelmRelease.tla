---------------------------- MODULE HelmRelease ----------------------------
(***************************************************************************)
(* "helm install" and "helm uninstall" (cmd/proxkube/main.go) on a cluster *)
(* of several nodes.  Nothing records which containers a release owns: an  *)
(* install finds its pods by name, an uninstall lists one node, picks the  *)
(* containers that look like the release's by tag or by name, and deletes  *)
(* them by VMID.                                                           *)
(*                                                                         *)
(* Texts are sequences of pieces (of letters, if one likes), so that what  *)
(* a text begins with is a prefix: "web" begins both "web-db" and "webapp".*)
(*                                                                         *)
(* Simplification: Apply and Delete of one pod are single steps, except    *)
(* that a task may outlive the wait for it, and dependsOn is left out      *)
(* (PodController and PodStack have both).                                 *)
(***************************************************************************)
EXTENDS Naturals, Sequences, SequencesExt

CONSTANTS
  Hyphen,     \* the piece "-"
  Clients,    \* processes that run the commands
  Nodes,      \* nodes of the cluster
  VMIDs,      \* container identifiers, cluster-wide
  Chart,      \* Chart[r][k]: node of pod k of release r, and its hostname
  Foreign,    \* names of containers that belong to no release
  Calls,      \* who may handle which release: <<client, release>>
  Faults      \* a subset of {"fail", "abandon"}

Releases == DOMAIN Chart
Texts == Seq(STRING) \ {<<>>}
NoHostname == <<>>

ASSUME HelmAssumption ==
  /\ VMIDs \subseteq Nat \ {0} /\ IsFiniteSet(VMIDs)
  /\ "none" \notin Nodes /\ Hyphen \in STRING
  /\ \A r \in Releases :
       /\ r \in Texts /\ IsFiniteSet(DOMAIN Chart[r])
       /\ \A k \in DOMAIN Chart[r] :
            /\ k \in Texts /\ Chart[r][k].node \in Nodes
            /\ Chart[r][k].hostname \in Texts \cup {NoHostname}
  /\ Foreign \subseteq Texts
  /\ Calls \subseteq Clients \X Releases

VARIABLES
  ct,         \* ct[v]: name, release tag and node of container v, or Absent
  task,       \* task[v]: the task nobody waits for any more, or "none"
  cmd,        \* cmd[c]: "install", "uninstall" or "none"
  release,    \* release[c]: its argument
  todo,       \* todo[c]: pods to apply, or VMIDs to delete, in order
  node,       \* node[c]: the --node of an uninstall
  answer,     \* answer[c]: how the last command ended
  disturbed   \* history: releases handled while somebody was at work on them

cluster == <<ct, task>>
vars == <<cluster, cmd, release, todo, node, answer, disturbed>>

Untagged == <<>>
Absent == [name |-> <<>>, release |-> Untagged, node |-> "none"]

(* podValuesToPod: the name of a pod is the release, a hyphen and its key. *)
Stem(r) == Append(r, Hyphen)
PodName(r, k) == Stem(r) \o k

(* podToLXCConfig: a hostname in the values replaces the pod's name.       *)
ContainerName(r, k) ==
  IF Chart[r][k].hostname # NoHostname THEN Chart[r][k].hostname ELSE PodName(r, k)
PodNames == UNION {{ContainerName(r, k) : k \in DOMAIN Chart[r]} : r \in Releases}
Containers == [name : PodNames \cup Foreign, release : Releases \cup {Untagged}, node : Nodes]

TypeOK ==
  /\ ct \in [VMIDs -> Containers \cup {Absent}]
  /\ task \in [VMIDs -> {"none", "create", "destroy"}]
  /\ disturbed \subseteq Releases \cup {Untagged}
  /\ cmd \in [Clients -> {"none", "install", "uninstall"}]
  /\ \A c \in Clients : cmd[c] # "none" => <<c, release[c]>> \in Calls
  /\ \A c \in Clients : cmd[c] = "install" => Range(todo[c]) \subseteq DOMAIN Chart[release[c]]
  /\ \A c \in Clients : cmd[c] = "uninstall" => Range(todo[c]) \subseteq VMIDs /\ node[c] \in Nodes
  /\ answer \in [Clients -> {"none", "installed", "uninstalled", "nothing", "failed"}]

Init ==
  /\ ct = [v \in VMIDs |-> Absent]
  /\ task = [v \in VMIDs |-> "none"]
  /\ disturbed = {}
  /\ cmd = [c \in Clients |-> "none"]
  /\ release = [c \in Clients |-> Untagged]
  /\ todo = [c \in Clients |-> <<>>]
  /\ node = [c \in Clients |-> "none"]
  /\ answer = [c \in Clients |-> "none"]

-----------------------------------------------------------------------------
Orders(S) == {s \in [1..Cardinality(S) -> S] : Range(s) = S}

FreeIDs == {v \in VMIDs : ct[v] = Absent}
NextIDs == {v \in FreeIDs : \A w \in FreeIDs : v <= w}

(* Whether a command of one of the clients handles release r, or a task    *)
(* that some earlier command gave up waiting for.                          *)
AtWork(r, clients) ==
  \/ \E c \in clients : cmd[c] # "none" /\ release[c] = r
  \/ \E v \in VMIDs : task[v] # "none" /\ ct[v].release = r

(* Somebody begins to handle r, besides the given clients.                 *)
Touch(r, clients) == disturbed' = IF AtWork(r, clients) THEN disturbed \cup {r} ELSE disturbed

Return(c, a) ==
  /\ cmd' = [cmd EXCEPT ![c] = "none"]
  /\ release' = [release EXCEPT ![c] = Untagged]
  /\ todo' = [todo EXCEPT ![c] = <<>>]
  /\ node' = [node EXCEPT ![c] = "none"]
  /\ answer' = [answer EXCEPT ![c] = a]

Done(c) ==
  /\ todo' = [todo EXCEPT ![c] = Tail(@)]
  /\ UNCHANGED <<cmd, release, node, answer>>

(* The values' pods are a Go map: they are applied in any order.           *)
Install(c, r) ==
  /\ cmd[c] = "none"
  /\ <<c, r>> \in Calls
  /\ cmd' = [cmd EXCEPT ![c] = "install"]
  /\ release' = [release EXCEPT ![c] = r]
  /\ \E o \in Orders(DOMAIN Chart[r]) : todo' = [todo EXCEPT ![c] = o]
  /\ answer' = [answer EXCEPT ![c] = "none"]
  /\ Touch(r, Clients)
  /\ UNCHANGED <<cluster, node>>

(* Containers a node lists with their names: not those being created.      *)
Listed(n) == {v \in VMIDs : ct[v].node = n /\ task[v] # "create"}

(* Seeded bug: the pod is looked for by its key, without the release.      *)
FoundByKey(r, k) == {v \in Listed(Chart[r][k].node) : ct[v].name = k}

(* Containers Apply takes for the pod: findByName, on the pod's node only, *)
(* by the name of the pod even if it has a hostname.                       *)
Found(r, k) == {v \in Listed(Chart[r][k].node) : ct[v].name = PodName(r, k)}

(* Seeded bug: the container is named by its key alone.                    *)
CreatedByKey(r, k, v) ==
  ct' = [ct EXCEPT ![v] = [name |-> k, release |-> r, node |-> Chart[r][k].node]]

(* A container for pod k of r appears, tagged with the release.            *)
Created(r, k, v) ==
  ct' = [ct EXCEPT ![v] = [name |-> ContainerName(r, k), release |-> r, node |-> Chart[r][k].node]]

(* With its create task, Apply may also give up waiting for it.            *)
ApplyPod(c) ==
  LET r == release[c]
      k == Head(todo[c])
  IN
  /\ cmd[c] = "install"
  /\ todo[c] # <<>>
  /\ \/ Found(r, k) # {} /\ Done(c) /\ UNCHANGED cluster
     \/ Found(r, k) = {} /\ NextIDs = {} /\ Return(c, "failed") /\ UNCHANGED cluster
     \/ "fail" \in Faults /\ Return(c, "failed") /\ UNCHANGED cluster
     \/ /\ Found(r, k) = {}
        /\ \E v \in NextIDs :
             /\ Created(r, k, v)
             /\ \/ Done(c) /\ UNCHANGED task
                \/ "fail" \in Faults /\ Return(c, "failed") /\ UNCHANGED task
                \/ "abandon" \in Faults /\ Return(c, "failed") /\ task' = [task EXCEPT ![v] = "create"]
  /\ UNCHANGED disturbed

Installed(c) ==
  /\ cmd[c] = "install"
  /\ todo[c] = <<>>
  /\ Return(c, "installed")
  /\ UNCHANGED <<cluster, disturbed>>

(* Seeded bug: the tag of any release will do.                             *)
MatchesAnyTag(r, n) == {v \in Listed(n) : ct[v].release # Untagged}

(* What an uninstall takes for the release's: the tags contain             *)
(* "helm-release=r", be it that the tag goes on after that, or the name    *)
(* begins with "r-".                                                       *)
Matches(r, n) ==
  {v \in Listed(n) : IsPrefix(r, ct[v].release) \/ IsPrefix(Stem(r), ct[v].name)}

Uninstall(c, r, n) ==
  /\ cmd[c] = "none"
  /\ <<c, r>> \in Calls
  /\ UNCHANGED cluster
  /\ \/ /\ Matches(r, n) = {}
        /\ answer' = [answer EXCEPT ![c] = "nothing"]
        /\ UNCHANGED <<cmd, release, todo, node, disturbed>>
     \/ /\ Matches(r, n) # {}
        /\ cmd' = [cmd EXCEPT ![c] = "uninstall"]
        /\ release' = [release EXCEPT ![c] = r]
        /\ \E o \in Orders(Matches(r, n)) : todo' = [todo EXCEPT ![c] = o]
        /\ node' = [node EXCEPT ![c] = n]
        /\ answer' = [answer EXCEPT ![c] = "none"]
        /\ Touch(r, Clients)

(* Delete finds the VMID on the node that was listed, with no other task.  *)
Deletable(c, v) == ct[v].node = node[c] /\ task[v] = "none"

(* Seeded bug: an error of Delete does not end the uninstall.              *)
DeletePodGoesOn(c) ==
  LET v == Head(todo[c]) IN
  /\ cmd[c] = "uninstall"
  /\ todo[c] # <<>>
  /\ Done(c)
  /\ \/ (~Deletable(c, v) \/ "fail" \in Faults) /\ UNCHANGED <<cluster, disturbed>>
     \/ /\ Deletable(c, v)
        /\ ct' = [ct EXCEPT ![v] = Absent]
        /\ Touch(ct[v].release, Clients \ {c})
        /\ UNCHANGED task

(* Delete of a listed pod: by VMID, whatever container has it by now.      *)
DeletePod(c) ==
  LET v == Head(todo[c]) IN
  /\ cmd[c] = "uninstall"
  /\ todo[c] # <<>>
  /\ \/ /\ ~Deletable(c, v) \/ "fail" \in Faults
        /\ Return(c, "failed")
        /\ UNCHANGED <<cluster, disturbed>>
     \/ /\ Deletable(c, v)
        /\ ct' = [ct EXCEPT ![v] = Absent]
        /\ Done(c) \/ ("fail" \in Faults /\ Return(c, "failed"))
        /\ Touch(ct[v].release, Clients \ {c})
        /\ UNCHANGED task
     \/ /\ Deletable(c, v) /\ "abandon" \in Faults
        /\ task' = [task EXCEPT ![v] = "destroy"]
        /\ Return(c, "failed")
        /\ Touch(ct[v].release, Clients \ {c})
        /\ UNCHANGED ct

Uninstalled(c) ==
  /\ cmd[c] = "uninstall"
  /\ todo[c] = <<>>
  /\ Return(c, "uninstalled")
  /\ UNCHANGED <<cluster, disturbed>>

commands == <<cmd, release, todo, node, answer>>

(* A task that nobody waits for ends: a create task with a container or    *)
(* without, a destroy task without one.                                    *)
TaskEnds(v) ==
  /\ task[v] # "none"
  /\ task' = [task EXCEPT ![v] = "none"]
  /\ (task[v] = "create" /\ UNCHANGED ct) \/ ct' = [ct EXCEPT ![v] = Absent]
  /\ UNCHANGED <<commands, disturbed>>

(* Containers that belong to no release come and go, and an administrator  *)
(* removes any.                                                            *)
OtherCreated(n, a) ==
  /\ \E v \in NextIDs : ct' = [ct EXCEPT ![v] = [name |-> a, release |-> Untagged, node |-> n]]
  /\ UNCHANGED <<task, commands, disturbed>>

OtherRemoved(v) ==
  /\ ct[v] # Absent /\ task[v] = "none"
  /\ ct' = [ct EXCEPT ![v] = Absent]
  /\ Touch(ct[v].release, Clients)
  /\ UNCHANGED <<task, commands>>

Next ==
  \/ \E c \in Clients :
       \/ \E r \in Releases : Install(c, r) \/ \E n \in Nodes : Uninstall(c, r, n)
       \/ ApplyPod(c) \/ Installed(c) \/ DeletePod(c) \/ Uninstalled(c)
  \/ \E n \in Nodes : \E a \in Foreign : OtherCreated(n, a)
  \/ \E v \in VMIDs : OtherRemoved(v) \/ TaskEnds(v)

Spec == Init /\ [][Next]_vars
-----------------------------------------------------------------------------
Own(r) == {v \in VMIDs : ct[v].release = r}

(* The three properties are about releases that are handled by one at a    *)
(* time: no command of the release begins, and nobody else removes one of  *)
(* its containers, while another command of it is at work or a task that a *)
(* command gave up waiting for.  What the clients of other releases, which *)
(* may be disturbed, and others do in the meantime is free.                *)

(* A step of the uninstall c that destroys v, or begins to.                *)
Destroys(c, v) ==
  /\ cmd[c] = "uninstall" /\ todo'[c] # todo[c]
  /\ ct[v] # Absent
  /\ ct'[v] = Absent \/ task'[v] # task[v]

(* "find those tagged with this release" (main.go:553): an uninstall       *)
(* destroys containers of its own release only, although it deletes by     *)
(* VMIDs it listed long before, and VMIDs are reused at once.              *)
UninstallHitsOwn ==
  [][\A c \in Clients : \A v \in VMIDs :
       Destroys(c, v) /\ release[c] \notin disturbed => ct[v].release = release[c]]_vars

(* When an uninstall reports success, the node has no container of the     *)
(* release any more, listed or not; containers on other nodes stay.        *)
UninstallComplete ==
  [][\A c \in Clients :
       cmd[c] = "uninstall" /\ release[c] \notin disturbed /\ answer'[c] = "uninstalled"
         => \A v \in Own(release[c]) : ct[v].node # node[c]]_vars

(* When an install reports success, every pod of the release has a         *)
(* container on the node the values name, and one only if it has no        *)
(* hostname of its own, also when it is repeated, after failures and after *)
(* tasks that were given up and have ended since.                          *)
PodContainers(r, k) ==
  {v \in Own(r) : ct[v].name = ContainerName(r, k) /\ ct[v].node = Chart[r][k].node}
InstallComplete ==
  [][\A c \in Clients :
       cmd[c] = "install" /\ release[c] \notin disturbed /\ answer'[c] = "installed"
         => \A k \in DOMAIN Chart[release[c]] :
              /\ PodContainers(release[c], k) # {}
              /\ Chart[release[c]][k].hostname = NoHostname
                   => Cardinality(PodContainers(release[c], k)) = 1]_vars
=============================================================================
