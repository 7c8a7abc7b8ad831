-------------------------- MODULE HelmReleaseProofs --------------------------
(***************************************************************************)
(* Theorems about HelmRelease, for any clients, nodes, VMIDs, charts and   *)
(* faults, whatever commands are begun and whenever.                       *)
(*                                                                         *)
(* The properties are about releases that nobody has disturbed, which is   *)
(* part of their statement.  The names must be apart as well: an uninstall *)
(* takes containers by what their tags and names begin with.               *)
(***************************************************************************)
EXTENDS HelmRelease, SequenceLemmas

(* No release's name begins with another's.  No container of no release,   *)
(* and no hostname of another release's pod, is called like a release with *)
(* a hyphen and more; no hostname is the name of another pod.              *)
NamesApart ==
  \A r \in Releases :
    /\ \A s \in Releases : IsPrefix(r, s) => r = s
    /\ \A a \in Foreign : ~IsPrefix(Stem(r), a)
    /\ \A s \in Releases : \A l \in DOMAIN Chart[s] :
         Chart[s][l].hostname # NoHostname =>
           /\ IsPrefix(Stem(r), ContainerName(s, l)) => r = s
           /\ \A k \in DOMAIN Chart[r] : PodName(r, k) = ContainerName(s, l) => r = s /\ k = l

(* The container of pod k of release r, and a container of no release.     *)
Pod(r, k) == [name |-> ContainerName(r, k), release |-> r, node |-> Chart[r][k].node]
Other(a, n) == [name |-> a, release |-> Untagged, node |-> n]

(* Containers are what an install or somebody else made of them.           *)
Labelled ==
  /\ ct = [v \in VMIDs |-> ct[v]]
  /\ \A v \in VMIDs :
       \/ ct[v] = Absent
       \/ \E a \in Foreign, n \in Nodes : ct[v] = Other(a, n)
       \/ \E r \in Releases : \E k \in DOMAIN Chart[r] : ct[v] = Pod(r, k)

(* Tasks are about containers.                                             *)
Tasks ==
  /\ task \in [VMIDs -> {"none", "create", "destroy"}]
  /\ \A v \in VMIDs : ct[v] = Absent => task[v] = "none"

(* Each command has the list it works on.                                  *)
Listing ==
  /\ cmd \in [Clients -> {"none", "install", "uninstall"}]
  /\ answer \in [Clients -> {"none", "installed", "uninstalled", "nothing", "failed"}]
  /\ release = [c \in Clients |-> release[c]]
  /\ todo = [c \in Clients |-> todo[c]]
  /\ node = [c \in Clients |-> node[c]]
  /\ \A c \in Clients :
       /\ cmd[c] # "none" => <<c, release[c]>> \in Calls /\ answer[c] = "none"
       /\ cmd[c] = "install" => todo[c] \in Seq(DOMAIN Chart[release[c]])
       /\ cmd[c] = "uninstall" => todo[c] \in Seq(VMIDs) /\ node[c] \in Nodes

Typed == Labelled /\ Tasks /\ Listing /\ disturbed \subseteq Releases \cup {Untagged}

(* Client c handles a release that nobody has disturbed.                   *)
Undisturbed(c) == cmd[c] # "none" /\ release[c] \notin disturbed

(* Nobody else is at work on it, then: no command and no task.             *)
InTurn(c) ==
  Undisturbed(c) =>
    /\ \A d \in Clients : d # c /\ cmd[d] # "none" => release[d] # release[c]
    /\ \A v \in VMIDs : ct[v].release = release[c] => task[v] = "none"

(* No pod of an undisturbed release has two containers, unless it has a    *)
(* hostname.                                                               *)
Single ==
  \A r \in Releases \ disturbed : \A k \in DOMAIN Chart[r] :
    Chart[r][k].hostname = NoHostname =>
      \A v, w \in VMIDs : ct[v] = Pod(r, k) /\ ct[w] = Pod(r, k) => v = w

(* An install has left a container for every pod it has passed.            *)
Present(c) ==
  cmd[c] = "install" /\ release[c] \notin disturbed =>
    \A k \in DOMAIN Chart[release[c]] \ Range(todo[c]) :
      \E v \in VMIDs : ct[v] = Pod(release[c], k)

(* What an uninstall has left to delete is what the release has left on    *)
(* the node, and each container once.                                      *)
Remaining(c) ==
  cmd[c] = "uninstall" /\ release[c] \notin disturbed =>
    /\ IsInjective(todo[c])
    /\ Range(todo[c]) = {v \in Own(release[c]) : ct[v].node = node[c]}

HelmInv == Typed /\ Single /\ \A c \in Clients : InTurn(c) /\ Present(c) /\ Remaining(c)

-----------------------------------------------------------------------------
(* Names.                                                                  *)

(* A container's release and node tell what it is.                         *)
LEMMA Kinds ==
  ASSUME NEW r \in Releases, NEW k \in DOMAIN Chart[r], NEW a, NEW n
  PROVE  /\ Pod(r, k).release = r /\ Pod(r, k).node = Chart[r][k].node
         /\ Pod(r, k).name = ContainerName(r, k)
         /\ Other(a, n).release = Untagged /\ Other(a, n).node = n /\ Other(a, n).name = a
         /\ Absent.release = Untagged /\ Absent.node = "none" /\ Absent.name = <<>>
         /\ r # Untagged /\ Pod(r, k) # Absent /\ Pod(r, k) # Other(a, n)
  <1>1. r # <<>>
    BY HelmAssumption DEF Texts
  <1> QED BY <1>1 DEF Pod, Other, Absent, Untagged

(* Releases, their hyphenated stems and keys are texts.                    *)
LEMMA TextsOf ==
  ASSUME NEW r \in Releases, NEW k \in DOMAIN Chart[r]
  PROVE  /\ r \in Seq(STRING) /\ r # <<>> /\ k \in Seq(STRING)
         /\ Stem(r) \in Seq(STRING) /\ Stem(r) # <<>>
  <1>1. r \in Seq(STRING) /\ k \in Seq(STRING) /\ r # <<>>
    BY HelmAssumption DEF Texts
  <1>2. Hyphen \in STRING
    BY HelmAssumption
  <1>3. Append(r, Hyphen) \in Seq(STRING) /\ Append(r, Hyphen) # <<>>
    BY <1>1, <1>2, RangeAppend, NotEmpty
  <1> QED BY <1>1, <1>3 DEF Stem

(* A pod's name is its release's stem with the key added.                  *)
LEMMA PodNameBegins ==
  ASSUME NEW r \in Releases, NEW k \in DOMAIN Chart[r]
  PROVE  IsPrefix(Stem(r), PodName(r, k)) /\ PodName(r, k) # <<>>
  <1>1. Stem(r) \in Seq(STRING) /\ k \in Seq(STRING) /\ Stem(r) # <<>>
    BY TextsOf
  <1>2. IsPrefix(Stem(r), Stem(r) \o k)
    BY <1>1, PrefixConcat
  <1>4. Stem(r) \o k # <<>>
    BY <1>1, HelmAssumption, NotEmpty
  <1> QED BY <1>2, <1>4 DEF PodName

(* A release whose stem a pod's name begins with is the pod's.             *)
LEMMA StemOfPod ==
  ASSUME NamesApart, NEW r \in Releases, NEW s \in Releases, NEW l \in DOMAIN Chart[s],
         IsPrefix(Stem(r), PodName(s, l))
  PROVE  r = s
  <1>1. r \in Seq(STRING) /\ s \in Seq(STRING) /\ l \in Seq(STRING) /\ Stem(s) \in Seq(STRING)
    <2>1. r \in Texts
      BY HelmAssumption
    <2> QED BY <2>1, TextsOf DEF Texts
  <1>2. PodName(s, l) \in Seq(STRING)
    BY <1>1, RangeConcat DEF PodName
  <1>3. Hyphen \in STRING
    BY HelmAssumption
  <1>4. IsPrefix(r, PodName(s, l))
    BY <1>1, <1>2, <1>3, PrefixOfAppend DEF Stem
  <1>5. IsPrefix(s, PodName(s, l))
    BY <1>1, <1>2, <1>3, PrefixOfAppend, PodNameBegins DEF Stem
  <1>6. IsPrefix(r, s) \/ IsPrefix(s, r)
    BY <1>1, <1>2, <1>4, <1>5, PrefixesOfOne
  <1> QED BY <1>6 DEF NamesApart

(* No container of another pod has the name Apply looks for.               *)
LEMMA PodNamesDiffer ==
  ASSUME NamesApart, NEW r \in Releases, NEW k \in DOMAIN Chart[r],
         NEW s \in Releases, NEW l \in DOMAIN Chart[s], PodName(r, k) = ContainerName(s, l)
  PROVE  r = s /\ k = l
  <1>1. CASE Chart[s][l].hostname # NoHostname
    BY <1>1 DEF NamesApart
  <1>2. CASE Chart[s][l].hostname = NoHostname
    <2>1. PodName(r, k) = PodName(s, l)
      BY <1>2 DEF ContainerName
    <2>2. r = s
      BY <2>1, PodNameBegins, StemOfPod
    <2>3. Stem(r) \in Seq(STRING) /\ k \in Seq(STRING) /\ l \in Seq(STRING)
      BY <2>2, TextsOf
    <2> QED BY <2>1, <2>2, <2>3, ConcatCancel DEF PodName
  <1> QED BY <1>1, <1>2

(* What Apply takes for a pod's container is that pod's.                   *)
LEMMA FoundIsPods ==
  ASSUME Labelled, NamesApart, NEW r \in Releases, NEW k \in DOMAIN Chart[r], NEW v \in Found(r, k)
  PROVE  v \in VMIDs /\ ct[v] = Pod(r, k)
  <1>1. v \in VMIDs /\ ct[v].name = PodName(r, k)
    BY DEF Found, Listed
  <1>2. ct[v] # Absent
    BY <1>1, PodNameBegins DEF Absent
  <1>3. ASSUME NEW a \in Foreign, NEW n \in Nodes, ct[v] = Other(a, n)
        PROVE  FALSE
    BY <1>1, <1>3, PodNameBegins, Kinds DEF NamesApart
  <1>4. ASSUME NEW s \in Releases, NEW l \in DOMAIN Chart[s], ct[v] = Pod(s, l)
        PROVE  ct[v] = Pod(r, k)
    BY <1>1, <1>4, PodNamesDiffer, Kinds
  <1> QED BY <1>1, <1>2, <1>3, <1>4 DEF Labelled

(* What an uninstall takes for the release's containers on a node are the  *)
(* release's containers on that node, if none is being created.            *)
LEMMA MatchesIsOwn ==
  ASSUME Labelled, NamesApart, NEW r \in Releases, NEW n \in Nodes,
         \A v \in VMIDs : ct[v].release = r => task[v] = "none"
  PROVE  Matches(r, n) = {v \in Own(r) : ct[v].node = n}
  <1>1. r \in Seq(STRING) /\ r # <<>> /\ n # "none"
    BY HelmAssumption DEF Texts
  <1>2. IsPrefix(r, r)
    BY <1>1, PrefixElements
  <1>3. ~IsPrefix(r, Untagged)
    <2>1. Untagged \in Seq(STRING) /\ Len(Untagged) = 0 /\ Len(r) \in Nat \ {0}
      BY <1>1 DEF Untagged
    <2>2. ~(Len(r) <= Len(Untagged))
      BY <2>1
    <2> QED BY <2>2 DEF IsPrefix
  <1>4. ASSUME NEW v \in Matches(r, n)
        PROVE  ct[v].release = r
    <2>1. /\ v \in VMIDs /\ ct[v].node = n
          /\ IsPrefix(r, ct[v].release) \/ IsPrefix(Stem(r), ct[v].name)
      BY DEF Matches, Listed
    <2>2. ct[v] # Absent
      BY <1>1, <2>1 DEF Absent
    <2>3. ASSUME NEW a \in Foreign, NEW m \in Nodes, ct[v] = Other(a, m)
          PROVE  FALSE
      BY <1>3, <2>1, <2>3 DEF Other, NamesApart
    <2>4. ASSUME NEW s \in Releases, NEW k \in DOMAIN Chart[s], ct[v] = Pod(s, k)
          PROVE  r = s
      <3>1. IsPrefix(r, s) \/ IsPrefix(Stem(r), ContainerName(s, k))
        BY <2>1, <2>4, Kinds
      <3>2. CASE Chart[s][k].hostname # NoHostname
        BY <3>1, <3>2 DEF NamesApart
      <3>3. CASE Chart[s][k].hostname = NoHostname
        BY <3>1, <3>3, StemOfPod DEF NamesApart, ContainerName
      <3> QED BY <3>2, <3>3
    <2> QED BY <2>1, <2>2, <2>3, <2>4, Kinds DEF Labelled
  <1>5. Matches(r, n) \subseteq VMIDs /\ \A v \in Matches(r, n) : ct[v].node = n
    BY DEF Matches, Listed
  <1>6. \A v \in VMIDs : ct[v].node = n /\ ct[v].release = r => v \in Matches(r, n)
    BY <1>2 DEF Matches, Listed
  <1> QED BY <1>4, <1>5, <1>6 DEF Own

-----------------------------------------------------------------------------
(* What a step does to the containers and their tasks.                     *)

(* Container v goes, and its task with it; v stays with another task; a    *)
(* container of no release comes; a pod's comes, which Apply did not find. *)
Goes(v) == ct' = [ct EXCEPT ![v] = Absent] /\ task' = [task EXCEPT ![v] = "none"]
Stays(v) ==
  /\ ct[v] # Absent /\ ct' = ct
  /\ \E t \in {"none", "create", "destroy"} : task' = [task EXCEPT ![v] = t]
OtherComes(v) ==
  /\ ct[v] = Absent /\ task' = task
  /\ \E a \in Foreign, n \in Nodes : ct' = [ct EXCEPT ![v] = Other(a, n)]
PodComes(c, v) ==
  /\ ApplyPod(c)
  /\ ct[v] = Absent
  /\ Found(release[c], Head(todo[c])) = {}
  /\ ct' = [ct EXCEPT ![v] = Pod(release[c], Head(todo[c]))]
  /\ task' = task \/ (task' = [task EXCEPT ![v] = "create"] /\ Return(c, "failed"))

(* The next pod of an install is one of the release's.                     *)
LEMMA NextPod ==
  ASSUME Listing, NEW c \in Clients, cmd[c] = "install", todo[c] # <<>>
  PROVE  /\ release[c] \in Releases /\ Head(todo[c]) \in DOMAIN Chart[release[c]]
         /\ Range(todo[c]) = {Head(todo[c])} \cup Range(Tail(todo[c]))
  <1>1. release[c] \in Releases
    BY HelmAssumption DEF Listing
  <1>2. todo[c] \in Seq(DOMAIN Chart[release[c]])
    BY DEF Listing
  <1> QED BY <1>1, <1>2, RangeHeadTail

(* The next container of an uninstall is one it listed.                    *)
LEMMA NextContainer ==
  ASSUME Listing, NEW c \in Clients, cmd[c] = "uninstall", todo[c] # <<>>
  PROVE  /\ Head(todo[c]) \in VMIDs /\ node[c] \in Nodes
         /\ Range(todo[c]) = {Head(todo[c])} \cup Range(Tail(todo[c]))
  <1>1. todo[c] \in Seq(VMIDs)
    BY DEF Listing
  <1> QED BY <1>1, RangeHeadTail DEF Listing

(* An Apply lets a container of its pod come, or changes no container.     *)
LEMMA ApplyStep ==
  ASSUME Typed, NEW c \in Clients, ApplyPod(c)
  PROVE  UNCHANGED cluster \/ \E v \in VMIDs : PodComes(c, v)
  <1> DEFINE r == release[c]
             k == Head(todo[c])
  <1> SUFFICES ASSUME ~UNCHANGED cluster PROVE \E v \in VMIDs : PodComes(c, v)
    OBVIOUS
  <1>1. PICK v \in NextIDs :
          /\ Found(r, k) = {} /\ Created(r, k, v)
          /\ task' = task \/ (task' = [task EXCEPT ![v] = "create"] /\ Return(c, "failed"))
    BY DEF ApplyPod, cluster
  <1>2. v \in VMIDs /\ ct[v] = Absent
    BY DEF NextIDs, FreeIDs
  <1> QED BY <1>1, <1>2 DEF PodComes, Created, Pod

(* A deletion lets the container it is about go, marks it, or changes no   *)
(* container; in the first two cases the container's release is disturbed  *)
(* if anybody else is at work on it.                                       *)
LEMMA DeleteStep ==
  ASSUME Typed, NEW c \in Clients, DeletePod(c), ~UNCHANGED cluster
  PROVE  /\ Head(todo[c]) \in VMIDs
         /\ Goes(Head(todo[c])) \/ (Stays(Head(todo[c])) /\ Return(c, "failed"))
         /\ ct[Head(todo[c])] # Absent
         /\ Touch(ct[Head(todo[c])].release, Clients \ {c})
  <1> USE DEF Typed
  <1> DEFINE v == Head(todo[c])
  <1>1. v \in VMIDs /\ node[c] \in Nodes
    BY NextContainer DEF DeletePod
  <1>2. Deletable(c, v) /\ Touch(ct[v].release, Clients \ {c})
    BY DEF DeletePod, cluster
  <1>3. ct[v] # Absent
    BY <1>1, <1>2, HelmAssumption DEF Deletable, Absent
  <1>4. CASE ct' = [ct EXCEPT ![v] = Absent] /\ UNCHANGED task
    <2>1. task' = [task EXCEPT ![v] = "none"]
      BY <1>1, <1>2, <1>4 DEF Deletable, Tasks
    <2> QED BY <1>1, <1>2, <1>3, <1>4, <2>1 DEF Goes
  <1>5. CASE ct' = ct /\ task' = [task EXCEPT ![v] = "destroy"] /\ Return(c, "failed")
    BY <1>1, <1>2, <1>3, <1>5 DEF Stays
  <1> QED BY <1>4, <1>5 DEF DeletePod, cluster

(* So does the end of a task, and so does somebody who removes a container *)
(* while it has no task.                                                   *)
LEMMA TaskStep ==
  ASSUME Typed, NEW v \in VMIDs, TaskEnds(v)
  PROVE  (Goes(v) \/ Stays(v)) /\ ct[v] # Absent /\ task[v] # "none"
  BY DEF Typed, Tasks, TaskEnds, Goes, Stays

LEMMA RemovalStep ==
  ASSUME Typed, NEW v \in VMIDs, OtherRemoved(v)
  PROVE  Goes(v) /\ ct[v] # Absent /\ Touch(ct[v].release, Clients)
  BY DEF Typed, Tasks, OtherRemoved, Goes

LEMMA CreationStep ==
  ASSUME Typed, NEW n \in Nodes, NEW a \in Foreign, OtherCreated(n, a)
  PROVE  \E v \in VMIDs : OtherComes(v)
  <1>1. PICK v \in NextIDs : ct' = [ct EXCEPT ![v] = Other(a, n)]
    BY DEF OtherCreated, Other
  <1>2. v \in VMIDs /\ ct[v] = Absent
    BY DEF NextIDs, FreeIDs
  <1> QED BY <1>1, <1>2 DEF OtherComes, OtherCreated

(* The beginnings and ends of commands change no container.                *)
LEMMA CommandStep ==
  ASSUME NEW c \in Clients,
         \/ \E r \in Releases : Install(c, r) \/ \E n \in Nodes : Uninstall(c, r, n)
         \/ Installed(c) \/ Uninstalled(c)
  PROVE  UNCHANGED cluster
  BY DEF Install, Uninstall, Installed, Uninstalled

(* All that can happen to the containers.                                  *)
LEMMA ClusterStep ==
  ASSUME Typed, [Next]_vars
  PROVE  \/ UNCHANGED cluster
         \/ \E v \in VMIDs : Goes(v) \/ Stays(v) \/ OtherComes(v) \/ \E c \in Clients : PodComes(c, v)
  <1>1. CASE UNCHANGED vars
    BY <1>1 DEF vars, cluster
  <1>2. ASSUME NEW c \in Clients, ApplyPod(c), ~UNCHANGED cluster
        PROVE  \E v \in VMIDs : PodComes(c, v)
    BY <1>2, ApplyStep
  <1>3. ASSUME NEW c \in Clients, DeletePod(c), ~UNCHANGED cluster
        PROVE  \E v \in VMIDs : Goes(v) \/ Stays(v)
    BY <1>3, DeleteStep
  <1>4. ASSUME NEW v \in VMIDs, OtherRemoved(v) \/ TaskEnds(v)
        PROVE  Goes(v) \/ Stays(v)
    BY <1>4, RemovalStep, TaskStep
  <1> QED BY <1>1, <1>2, <1>3, <1>4, CommandStep, CreationStep DEF Next

-----------------------------------------------------------------------------
(* Types.                                                                  *)

(* Returning leaves every command with the list it works on.               *)
LEMMA ReturnListing ==
  ASSUME Listing, NEW c \in Clients, NEW a \in {"installed", "uninstalled", "nothing", "failed"}, Return(c, a)
  PROVE  Listing'
  BY DEF Listing, Return

(* So does going on with the next element of the list.                     *)
LEMMA DoneListing ==
  ASSUME Listing, NEW c \in Clients, todo[c] # <<>>, cmd[c] # "none", Done(c)
  PROVE  Listing'
  <1>1. ASSUME NEW S, todo[c] \in Seq(S)
        PROVE  Tail(todo[c]) \in Seq(S)
    BY <1>1
  <1>2. todo'[c] = Tail(todo[c]) /\ \A d \in Clients : d # c => todo'[d] = todo[d]
    BY DEF Listing, Done
  <1>3. todo' = [d \in Clients |-> todo'[d]]
    BY DEF Listing, Done
  <1>4. cmd[c] = "install" => todo'[c] \in Seq(DOMAIN Chart[release[c]])
    BY <1>1, <1>2 DEF Listing
  <1>5. cmd[c] = "uninstall" => todo'[c] \in Seq(VMIDs)
    BY <1>1, <1>2 DEF Listing
  <1> QED BY <1>2, <1>3, <1>4, <1>5 DEF Listing, Done

(* An order of a finite set lists each of its elements once.               *)
LEMMA OrdersOnce ==
  ASSUME NEW S, IsFiniteSet(S), NEW o \in Orders(S)
  PROVE  o \in Seq(S) /\ IsInjective(o) /\ Range(o) = S
  BY ListedOnce DEF Orders

(* The containers an uninstall picks are finitely many.                    *)
LEMMA MatchesFinite ==
  ASSUME NEW r, NEW n
  PROVE  IsFiniteSet(Matches(r, n)) /\ Matches(r, n) \subseteq VMIDs
  <1>1. Matches(r, n) \subseteq VMIDs
    BY DEF Matches, Listed
  <1> QED BY <1>1, HelmAssumption, FS_Subset

(* Every step leaves every command with the list it works on.              *)
LEMMA ListingStep ==
  ASSUME Typed, [Next]_vars
  PROVE  Listing'
  <1> USE DEF Typed
  <1>1. ASSUME NEW c \in Clients, NEW r \in Releases, Install(c, r)
        PROVE  Listing'
    <2>1. PICK o \in Orders(DOMAIN Chart[r]) : todo' = [todo EXCEPT ![c] = o]
      BY <1>1 DEF Install
    <2>2. o \in Seq(DOMAIN Chart[r])
      BY HelmAssumption, OrdersOnce
    <2> QED BY <1>1, <2>1, <2>2 DEF Install, Listing
  <1>2. ASSUME NEW c \in Clients, NEW r \in Releases, NEW n \in Nodes, Uninstall(c, r, n)
        PROVE  Listing'
    <2>1. CASE answer' = [answer EXCEPT ![c] = "nothing"] /\ UNCHANGED <<cmd, release, todo, node>> /\ cmd[c] = "none"
      BY <2>1 DEF Listing
    <2>2. ASSUME NEW o \in Orders(Matches(r, n)), todo' = [todo EXCEPT ![c] = o],
                 cmd' = [cmd EXCEPT ![c] = "uninstall"], release' = [release EXCEPT ![c] = r],
                 node' = [node EXCEPT ![c] = n], answer' = [answer EXCEPT ![c] = "none"]
          PROVE  Listing'
      <3>1. o \in Seq(Matches(r, n)) /\ Matches(r, n) \subseteq VMIDs
        BY MatchesFinite, OrdersOnce
      <3>2. o \in Seq(VMIDs)
        BY <3>1
      <3> QED BY <1>2, <2>2, <3>2 DEF Uninstall, Listing
    <2> QED BY <1>2, <2>1, <2>2 DEF Uninstall
  <1>3. ASSUME NEW c \in Clients, ApplyPod(c)
        PROVE  Listing'
    BY <1>3, ReturnListing, DoneListing DEF ApplyPod
  <1>4. ASSUME NEW c \in Clients, Installed(c) \/ DeletePod(c) \/ Uninstalled(c)
        PROVE  Listing'
    BY <1>4, ReturnListing, DoneListing DEF Installed, DeletePod, Uninstalled
  <1>5. ASSUME UNCHANGED commands
        PROVE  Listing'
    BY <1>5 DEF Listing, commands
  <1>6. ASSUME NEW v \in VMIDs, OtherRemoved(v) \/ TaskEnds(v)
        PROVE  UNCHANGED commands
    BY <1>6 DEF OtherRemoved, TaskEnds
  <1>7. ASSUME NEW n \in Nodes, NEW a \in Foreign, OtherCreated(n, a)
        PROVE  UNCHANGED commands
    BY <1>7 DEF OtherCreated
  <1>8. UNCHANGED vars => UNCHANGED commands
    BY DEF vars, commands
  <1> QED BY <1>1, <1>2, <1>3, <1>4, <1>5, <1>6, <1>7, <1>8 DEF Next

(* Every step leaves every container what somebody made of it, and every   *)
(* task with a container.                                                  *)
LEMMA LabelledStep ==
  ASSUME Typed, [Next]_vars
  PROVE  Labelled' /\ Tasks'
  <1> USE DEF Typed
  <1>1. CASE UNCHANGED cluster
    BY <1>1 DEF cluster, Labelled, Tasks
  <1>2. ASSUME NEW v \in VMIDs, Goes(v)
        PROVE  Labelled' /\ Tasks'
    BY <1>2 DEF Goes, Labelled, Tasks
  <1>3. ASSUME NEW v \in VMIDs, Stays(v)
        PROVE  Labelled' /\ Tasks'
    BY <1>3 DEF Stays, Labelled, Tasks
  <1>4. ASSUME NEW v \in VMIDs, OtherComes(v)
        PROVE  Labelled' /\ Tasks'
    <2>1. PICK a \in Foreign, n \in Nodes : ct' = [ct EXCEPT ![v] = Other(a, n)]
      BY <1>4 DEF OtherComes
    <2> QED BY <1>4, <2>1 DEF OtherComes, Labelled, Tasks
  <1>5. ASSUME NEW v \in VMIDs, NEW c \in Clients, PodComes(c, v)
        PROVE  Labelled' /\ Tasks'
    <2>1. release[c] \in Releases /\ Head(todo[c]) \in DOMAIN Chart[release[c]]
      BY <1>5, NextPod DEF PodComes, ApplyPod
    <2>2. Pod(release[c], Head(todo[c])) # Absent
      BY <2>1, Kinds
    <2> QED BY <1>5, <2>1, <2>2 DEF PodComes, Labelled, Tasks
  <1> QED BY <1>1, <1>2, <1>3, <1>4, <1>5, ClusterStep

(* A container's release is a release, or none.                            *)
LEMMA ReleaseOf ==
  ASSUME Labelled, NEW v \in VMIDs
  PROVE  ct[v].release \in Releases \cup {Untagged}
  BY Kinds DEF Labelled, Other, Absent

(* What is disturbed stays so, and is a release.                           *)
LEMMA DisturbedStep ==
  ASSUME Typed, [Next]_vars
  PROVE  disturbed \subseteq disturbed' /\ disturbed' \subseteq Releases \cup {Untagged}
  <1> USE DEF Typed
  <1>1. ASSUME NEW r \in Releases \cup {Untagged}, NEW C, Touch(r, C)
        PROVE  disturbed \subseteq disturbed' /\ disturbed' \subseteq Releases \cup {Untagged}
    BY <1>1 DEF Touch
  <1>2. CASE UNCHANGED disturbed
    BY <1>2
  <1>3. ASSUME NEW c \in Clients, NEW r \in Releases,
               Install(c, r) \/ \E n \in Nodes : Uninstall(c, r, n)
        PROVE  UNCHANGED disturbed \/ Touch(r, Clients)
    BY <1>3 DEF Install, Uninstall
  <1>4. ASSUME NEW c \in Clients, DeletePod(c)
        PROVE  disturbed \subseteq disturbed' /\ disturbed' \subseteq Releases \cup {Untagged}
    <2>1. Head(todo[c]) \in VMIDs
      BY <1>4, NextContainer DEF DeletePod
    <2>2. UNCHANGED disturbed \/ Touch(ct[Head(todo[c])].release, Clients \ {c})
      BY <1>4 DEF DeletePod
    <2> QED BY <1>1, <1>2, <2>1, <2>2, ReleaseOf
  <1>5. ASSUME NEW v \in VMIDs, OtherRemoved(v)
        PROVE  disturbed \subseteq disturbed' /\ disturbed' \subseteq Releases \cup {Untagged}
    BY <1>1, <1>5, ReleaseOf DEF OtherRemoved
  <1>6. UNCHANGED vars \/ (\E v \in VMIDs : TaskEnds(v))
          \/ (\E c \in Clients : ApplyPod(c) \/ Installed(c) \/ Uninstalled(c))
          \/ (\E n \in Nodes : \E a \in Foreign : OtherCreated(n, a))
        => UNCHANGED disturbed
    BY DEF vars, TaskEnds, ApplyPod, Installed, Uninstalled, OtherCreated
  <1> QED BY <1>1, <1>2, <1>3, <1>4, <1>5, <1>6 DEF Next

(* Everything has its type.                                                *)
LEMMA TypedInvariance == (Init => Typed) /\ (Typed /\ [Next]_vars => Typed')
  <1>1. Init => Typed
    BY DEF Init, Typed, Labelled, Tasks, Listing
  <1> QED BY <1>1, ListingStep, LabelledStep, DisturbedStep DEF Typed

(* Containers and commands stay in their types.                            *)
THEOREM HelmTypeCorrect == Spec => []TypeOK
  <1>1. Typed => TypeOK
    <2> SUFFICES ASSUME Typed PROVE TypeOK
      OBVIOUS
    <2>1. ASSUME NEW v \in VMIDs
          PROVE  ct[v] \in Containers \cup {Absent}
      <3>1. ASSUME NEW a \in Foreign, NEW n \in Nodes, ct[v] = Other(a, n)
            PROVE  ct[v] \in Containers
        BY <3>1 DEF Containers, Other
      <3>2. ASSUME NEW r \in Releases, NEW k \in DOMAIN Chart[r], ct[v] = Pod(r, k)
            PROVE  ct[v] \in Containers
        <4>1. ContainerName(r, k) \in PodNames /\ Chart[r][k].node \in Nodes
          BY HelmAssumption DEF PodNames
        <4> QED BY <3>2, <4>1 DEF Containers, Pod
      <3> QED BY <3>1, <3>2 DEF Typed, Labelled
    <2>2. ct \in [VMIDs -> Containers \cup {Absent}]
      BY <2>1 DEF Typed, Labelled
    <2>3. ASSUME NEW S, NEW s \in Seq(S)
          PROVE  Range(s) \subseteq S
      BY DEF Range
    <2> QED BY <2>2, <2>3 DEF TypeOK, Typed, Tasks, Listing
  <1> QED BY <1>1, TypedInvariance, PTL DEF Spec

-----------------------------------------------------------------------------
(* Clients.                                                                *)

(* What client c does, and what nobody's command does.                     *)
StepOf(c) ==
  \/ \E r \in Releases : Install(c, r) \/ \E n \in Nodes : Uninstall(c, r, n)
  \/ ApplyPod(c) \/ Installed(c) \/ DeletePod(c) \/ Uninstalled(c)

OtherStep ==
  \/ \E n \in Nodes : \E a \in Foreign : OtherCreated(n, a)
  \/ \E v \in VMIDs : OtherRemoved(v) \/ TaskEnds(v)

LEMMA Steps == Next => OtherStep \/ \E c \in Clients : StepOf(c)
  BY DEF Next, OtherStep, StepOf

(* What is nobody's command leaves the commands alone.                     *)
LEMMA OtherCommands ==
  ASSUME OtherStep
  PROVE  UNCHANGED commands
  BY DEF OtherStep, OtherCreated, OtherRemoved, TaskEnds

(* The step of one client leaves the other clients' commands alone.        *)
LEMMA CommandsApart ==
  ASSUME Typed, NEW c \in Clients, NEW d \in Clients, d # c, StepOf(d)
  PROVE  /\ cmd'[c] = cmd[c] /\ release'[c] = release[c] /\ todo'[c] = todo[c]
         /\ node'[c] = node[c] /\ answer'[c] = answer[c]
  <1> USE DEF Typed, Listing
  <1>1. CASE ApplyPod(d)
    BY <1>1 DEF ApplyPod, Done, Return
  <1>2. CASE Installed(d) \/ DeletePod(d) \/ Uninstalled(d)
    BY <1>2 DEF Installed, DeletePod, Uninstalled, Done, Return
  <1>3. ASSUME NEW r \in Releases, Install(d, r)
        PROVE  /\ cmd'[c] = cmd[c] /\ release'[c] = release[c] /\ todo'[c] = todo[c]
               /\ node'[c] = node[c] /\ answer'[c] = answer[c]
    BY <1>3 DEF Install
  <1>4. ASSUME NEW r \in Releases, NEW n \in Nodes, Uninstall(d, r, n)
        PROVE  /\ cmd'[c] = cmd[c] /\ release'[c] = release[c] /\ todo'[c] = todo[c]
               /\ node'[c] = node[c] /\ answer'[c] = answer[c]
    BY <1>4 DEF Uninstall
  <1> QED BY <1>1, <1>2, <1>3, <1>4 DEF StepOf

(* A command's list changes, and it ends, by steps of its client alone.    *)
LEMMA WhoseStep ==
  ASSUME Typed, Next, NEW c \in Clients, cmd[c] # "none",
         todo'[c] # todo[c] \/ answer'[c] # "none"
  PROVE  StepOf(c)
  <1>1. answer[c] = "none"
    BY DEF Typed, Listing
  <1>2. OtherStep => todo' = todo /\ answer' = answer
    BY OtherCommands DEF commands
  <1>3. ASSUME NEW d \in Clients, d # c, StepOf(d)
        PROVE  todo'[c] = todo[c] /\ answer'[c] = answer[c]
    BY <1>3, CommandsApart
  <1> QED BY <1>1, <1>2, <1>3, Steps

(* A client that begins a command on a release leaves it undisturbed only  *)
(* if nobody is at work on it.                                             *)
LEMMA BeginStep ==
  ASSUME Typed, NEW c \in Clients, NEW r \in Releases,
         Install(c, r) \/ \E n \in Nodes : Uninstall(c, r, n), cmd'[c] # "none"
  PROVE  /\ cmd[c] = "none" /\ release'[c] = r /\ UNCHANGED cluster
         /\ \A d \in Clients : d # c => cmd'[d] = cmd[d] /\ release'[d] = release[d]
         /\ r \notin disturbed' => r \notin disturbed /\ ~AtWork(r, Clients)
  <1> USE DEF Typed, Listing
  <1>1. CASE Install(c, r)
    BY <1>1 DEF Install, Touch
  <1>2. ASSUME NEW n \in Nodes, Uninstall(c, r, n)
        PROVE  /\ cmd[c] = "none" /\ release'[c] = r /\ UNCHANGED cluster
               /\ \A d \in Clients : d # c => cmd'[d] = cmd[d] /\ release'[d] = release[d]
               /\ r \notin disturbed' => r \notin disturbed /\ ~AtWork(r, Clients)
    BY <1>2 DEF Uninstall, Touch
  <1> QED BY <1>1, <1>2

(* While a client handles an undisturbed release, everybody else leaves    *)
(* its containers alone: they become no fewer and no more.                 *)
LEMMA ReleaseAlone ==
  ASSUME Typed, NEW c \in Clients, InTurn(c), cmd[c] # "none", release[c] \notin disturbed',
         OtherStep \/ \E d \in Clients : d # c /\ StepOf(d), [Next]_vars,
         NEW v \in VMIDs, ct[v].release = release[c] \/ ct'[v].release = release[c]
  PROVE  ct'[v] = ct[v] /\ task'[v] = task[v]
  <1> USE DEF Typed
  <1> DEFINE r == release[c]
  <1>1. r \in Releases /\ r # Untagged /\ r \notin disturbed
    <2>1. r \in Releases
      BY HelmAssumption DEF Listing
    <2> QED BY <2>1, HelmAssumption, DisturbedStep DEF Texts, Untagged
  <1>2. Absent.release # r
    BY <1>1 DEF Absent
  <1>3. \A C : Touch(r, C) => ~AtWork(r, C)
    BY DEF Touch
  <1>4. \A C : c \in C => AtWork(r, C)
    BY DEF AtWork
  <1>5. ASSUME NEW w \in VMIDs, ct[w].release # r, Goes(w) \/ Stays(w)
        PROVE  ct'[v] = ct[v] /\ task'[v] = task[v]
    BY <1>2, <1>5 DEF Labelled, Tasks, Goes, Stays
  <1>6. ASSUME NEW n \in Nodes, NEW a \in Foreign, OtherCreated(n, a)
        PROVE  ct'[v] = ct[v] /\ task'[v] = task[v]
    <2>1. PICK w \in VMIDs : OtherComes(w)
      BY <1>6, CreationStep
    <2>2. PICK b \in Foreign, m \in Nodes : ct' = [ct EXCEPT ![w] = Other(b, m)]
      BY <2>1 DEF OtherComes
    <2>3. Other(b, m).release # r
      BY <1>1 DEF Other
    <2> QED BY <1>2, <2>1, <2>2, <2>3 DEF OtherComes, Labelled, Tasks
  <1>7. ASSUME NEW w \in VMIDs, OtherRemoved(w)
        PROVE  ct'[v] = ct[v] /\ task'[v] = task[v]
    <2>1. Goes(w) /\ Touch(ct[w].release, Clients)
      BY <1>7, RemovalStep
    <2> QED BY <1>3, <1>4, <1>5, <2>1
  <1>8. ASSUME NEW w \in VMIDs, TaskEnds(w)
        PROVE  ct'[v] = ct[v] /\ task'[v] = task[v]
    <2>1. (Goes(w) \/ Stays(w)) /\ task[w] # "none"
      BY <1>8, TaskStep
    <2>2. ct[w].release # r
      BY <1>1, <2>1 DEF InTurn, Undisturbed
    <2> QED BY <1>5, <2>1, <2>2
  <1>9. ASSUME NEW d \in Clients, d # c, ApplyPod(d)
        PROVE  ct'[v] = ct[v] /\ task'[v] = task[v]
    <2>1. CASE UNCHANGED cluster
      BY <2>1 DEF cluster
    <2>2. ASSUME NEW w \in VMIDs, PodComes(d, w)
          PROVE  ct'[v] = ct[v] /\ task'[v] = task[v]
      <3> DEFINE s == release[d]
                 k == Head(todo[d])
      <3>1. s # r
        BY <1>1, <1>9 DEF ApplyPod, InTurn, Undisturbed
      <3>2. Pod(s, k).release # r
        BY <3>1 DEF Pod
      <3> QED BY <1>2, <2>2, <3>2 DEF PodComes, Labelled, Tasks
    <2> QED BY <1>9, <2>1, <2>2, ApplyStep
  <1>10. ASSUME NEW d \in Clients, d # c, DeletePod(d)
         PROVE  ct'[v] = ct[v] /\ task'[v] = task[v]
    <2>1. CASE UNCHANGED cluster
      BY <2>1 DEF cluster
    <2>2. CASE ~UNCHANGED cluster
      <3> DEFINE w == Head(todo[d])
      <3>1. w \in VMIDs /\ (Goes(w) \/ Stays(w)) /\ Touch(ct[w].release, Clients \ {d})
        BY <1>10, <2>2, DeleteStep
      <3>2. c \in Clients \ {d}
        BY <1>10
      <3> QED BY <1>3, <1>4, <1>5, <3>1, <3>2
    <2> QED BY <2>1, <2>2
  <1>11. UNCHANGED cluster => ct'[v] = ct[v] /\ task'[v] = task[v]
    BY DEF cluster
  <1> QED BY <1>6, <1>7, <1>8, <1>9, <1>10, <1>11, CommandStep DEF OtherStep, StepOf

(* Nobody else is at work on a release that is handled and undisturbed.    *)
LEMMA TurnStep ==
  ASSUME Typed, NEW c \in Clients, InTurn(c), [Next]_vars
  PROVE  InTurn(c)'
  <1> USE DEF Typed
  <1> SUFFICES ASSUME Undisturbed(c)'
               PROVE  /\ \A d \in Clients : d # c /\ cmd'[d] # "none" => release'[d] # release'[c]
                      /\ \A v \in VMIDs : ct'[v].release = release'[c] => task'[v] = "none"
    BY DEF InTurn
  <1> USE DEF Undisturbed
  <1>1. CASE UNCHANGED vars
    BY <1>1 DEF vars, cluster, InTurn
  <1>2. ASSUME OtherStep \/ \E d \in Clients : d # c /\ StepOf(d), Next
        PROVE  /\ \A d \in Clients : d # c /\ cmd'[d] # "none" => release'[d] # release'[c]
               /\ \A v \in VMIDs : ct'[v].release = release'[c] => task'[v] = "none"
    <2>1. cmd'[c] = cmd[c] /\ release'[c] = release[c]
      BY <1>2, OtherCommands, CommandsApart DEF commands
    <2>2. Undisturbed(c) /\ release[c] \notin disturbed'
      BY <2>1, DisturbedStep
    <2>3. ASSUME NEW d \in Clients, d # c, cmd'[d] # "none", release'[d] = release[c]
          PROVE  FALSE
      <3>1. ~(cmd[d] # "none" /\ release[d] = release[c])
        BY <2>2, <2>3 DEF InTurn
      <3>2. ~(cmd'[d] = cmd[d] /\ release'[d] = release[d])
        BY <2>3, <3>1
      <3>3. StepOf(d)
        BY <1>2, <3>2, OtherCommands, CommandsApart DEF commands
      <3>4. ASSUME NEW s \in Releases, Install(d, s) \/ \E n \in Nodes : Uninstall(d, s, n)
            PROVE  FALSE
        <4>1. release'[d] = s /\ (s \notin disturbed' => ~AtWork(s, Clients))
          BY <2>3, <3>4, BeginStep
        <4> QED BY <2>2, <2>3, <4>1 DEF AtWork
      <3>5. CASE ApplyPod(d)
        BY <2>3, <3>2, <3>5 DEF ApplyPod, Done, Return, Listing
      <3>6. CASE Installed(d) \/ DeletePod(d) \/ Uninstalled(d)
        BY <2>3, <3>2, <3>6 DEF Installed, DeletePod, Uninstalled, Done, Return, Listing
      <3> QED BY <3>3, <3>4, <3>5, <3>6 DEF StepOf
    <2>4. ASSUME NEW v \in VMIDs, ct'[v].release = release[c]
          PROVE  task'[v] = "none"
      <3>1. ct'[v] = ct[v] /\ task'[v] = task[v]
        BY <1>2, <2>2, <2>4, ReleaseAlone
      <3> QED BY <2>2, <2>4, <3>1 DEF InTurn
    <2> QED BY <2>1, <2>3, <2>4
  <1>3. ASSUME StepOf(c), Next
        PROVE  /\ \A d \in Clients : d # c /\ cmd'[d] # "none" => release'[d] # release'[c]
               /\ \A v \in VMIDs : ct'[v].release = release'[c] => task'[v] = "none"
    <2>1. ASSUME NEW r \in Releases, Install(c, r) \/ \E n \in Nodes : Uninstall(c, r, n)
          PROVE  /\ \A d \in Clients : d # c /\ cmd'[d] # "none" => release'[d] # release'[c]
                 /\ \A v \in VMIDs : ct'[v].release = release'[c] => task'[v] = "none"
      <3>1. /\ release'[c] = r /\ UNCHANGED cluster /\ ~AtWork(r, Clients)
            /\ \A d \in Clients : d # c => cmd'[d] = cmd[d] /\ release'[d] = release[d]
        BY <2>1, BeginStep
      <3> QED BY <3>1 DEF AtWork, cluster
    <2>2. ASSUME ApplyPod(c) \/ DeletePod(c)
          PROVE  /\ \A d \in Clients : d # c /\ cmd'[d] # "none" => release'[d] # release'[c]
                 /\ \A v \in VMIDs : ct'[v].release = release'[c] => task'[v] = "none"
      <3>1. Done(c) /\ cmd[c] # "none"
        BY <2>2 DEF ApplyPod, DeletePod, Return, Listing
      <3>2. cmd' = cmd /\ release' = release
        BY <3>1 DEF Done
      <3>3. Undisturbed(c)
        BY <3>2, DisturbedStep
      <3>4. ASSUME NEW v \in VMIDs, ct'[v].release = release[c]
            PROVE  task'[v] = "none"
        <4>1. release[c] # Untagged
          BY <3>1, HelmAssumption DEF Listing, Texts, Untagged
        <4>2. CASE UNCHANGED cluster
          BY <3>3, <3>4, <4>2 DEF cluster, InTurn
        <4>3. ASSUME NEW w \in VMIDs, PodComes(c, w)
              PROVE  task'[v] = "none"
          <5>1. task' = task
            BY <3>1, <3>2, <4>3 DEF PodComes, Return, Listing
          <5>2. CASE v = w
            BY <4>3, <5>1, <5>2 DEF PodComes, Tasks
          <5>3. CASE v # w
            BY <3>3, <3>4, <4>3, <5>1, <5>3 DEF PodComes, Labelled, InTurn
          <5> QED BY <5>2, <5>3
        <4>4. ASSUME Goes(Head(todo[c])), Head(todo[c]) \in VMIDs
              PROVE  task'[v] = "none"
          BY <3>3, <3>4, <4>1, <4>4 DEF Goes, Labelled, Tasks, InTurn, Absent
        <4>5. ~Return(c, "failed")
          BY <3>1, <3>2 DEF Return, Listing
        <4> QED BY <2>2, <4>2, <4>3, <4>4, <4>5, ApplyStep, DeleteStep
      <3> QED BY <3>2, <3>3, <3>4 DEF InTurn
    <2>3. Installed(c) \/ Uninstalled(c) => cmd'[c] = "none"
      BY DEF Installed, Uninstalled, Return, Listing
    <2> QED BY <1>3, <2>1, <2>2, <2>3 DEF StepOf
  <1> QED BY <1>1, <1>2, <1>3, Steps

-----------------------------------------------------------------------------
(* Containers and lists.                                                   *)

(* A container is created for a pod of an undisturbed release only if the  *)
(* pod has none: all of the release's containers are listed then.          *)
LEMMA SingleStep ==
  ASSUME HelmInv, NamesApart, [Next]_vars
  PROVE  Single'
  <1> USE DEF HelmInv, Typed
  <1>1. disturbed \subseteq disturbed'
    BY DisturbedStep
  <1>2. CASE ct' = ct
    BY <1>1, <1>2 DEF Single, Pod, ContainerName
  <1>3. ASSUME NEW w \in VMIDs, NEW x, ct' = [ct EXCEPT ![w] = x],
               \A r \in Releases : \A k \in DOMAIN Chart[r] : x # Pod(r, k)
        PROVE  Single'
    BY <1>1, <1>3 DEF Single, Labelled
  <1>4. ASSUME NEW w \in VMIDs, Goes(w)
        PROVE  Single'
    <2>1. \A r \in Releases : \A k \in DOMAIN Chart[r] : Absent # Pod(r, k)
      BY Kinds
    <2> QED BY <1>3, <1>4, <2>1 DEF Goes
  <1>5. ASSUME NEW w \in VMIDs, OtherComes(w)
        PROVE  Single'
    <2>1. PICK a \in Foreign, n \in Nodes : ct' = [ct EXCEPT ![w] = Other(a, n)]
      BY <1>5 DEF OtherComes
    <2>2. \A r \in Releases : \A k \in DOMAIN Chart[r] : Other(a, n) # Pod(r, k)
      BY Kinds
    <2> QED BY <1>3, <2>1, <2>2
  <1>6. ASSUME NEW c \in Clients, NEW w \in VMIDs, PodComes(c, w)
        PROVE  Single'
    <2> DEFINE s == release[c]
               l == Head(todo[c])
    <2>1. s \in Releases /\ l \in DOMAIN Chart[s] /\ cmd[c] = "install"
      BY <1>6, NextPod DEF PodComes, ApplyPod
    <2> SUFFICES ASSUME NEW r \in Releases \ disturbed', NEW k \in DOMAIN Chart[r],
                        Chart[r][k].hostname = NoHostname,
                        NEW u \in VMIDs, NEW v \in VMIDs, ct'[u] = Pod(r, k), ct'[v] = Pod(r, k)
                 PROVE  u = v
      BY DEF Single, Pod, ContainerName
    <2>2. ct' = [ct EXCEPT ![w] = Pod(s, l)]
      BY <1>6 DEF PodComes
    <2>3. CASE Pod(s, l) # Pod(r, k)
      BY <1>1, <2>2, <2>3 DEF Single, Labelled
    <2>4. CASE Pod(s, l) = Pod(r, k)
      <3>1. r = s
        BY <2>1, <2>4, Kinds
      <3>2. PodName(r, k) = ContainerName(s, l)
        BY <2>1, <2>4, Kinds DEF ContainerName
      <3>3. k = l
        BY <2>1, <3>2, PodNamesDiffer
      <3>4. \A x \in VMIDs : ct[x].release = r => task[x] = "none"
        BY <1>1, <2>1, <3>1 DEF InTurn, Undisturbed
      <3>5. Found(r, k) = {}
        BY <1>6, <3>1, <3>3 DEF PodComes
      <3>6. \A x \in VMIDs : ct[x] # Pod(r, k)
        <4> SUFFICES ASSUME NEW x \in VMIDs, ct[x] = Pod(r, k) PROVE FALSE
          OBVIOUS
        <4>1. ct[x].release = r /\ ct[x].node = Chart[r][k].node /\ ct[x].name = PodName(r, k)
          BY Kinds DEF ContainerName
        <4>2. x \in Found(r, k)
          BY <3>4, <4>1 DEF Found, Listed
        <4> QED BY <3>5, <4>2
      <3> QED BY <2>2, <3>6 DEF Labelled
    <2> QED BY <2>3, <2>4
  <1> QED BY <1>2, <1>4, <1>5, <1>6, ClusterStep DEF Stays, cluster

(* A client's own step keeps what its command has done in place.           *)
LEMMA OwnStep ==
  ASSUME HelmInv, NamesApart, NEW c \in Clients, StepOf(c), Next
  PROVE  Present(c)' /\ Remaining(c)'
  <1> USE DEF HelmInv, Typed
  <1>0. disturbed \subseteq disturbed'
    BY DisturbedStep
  <1>1. ASSUME NEW r \in Releases, Install(c, r)
        PROVE  cmd'[c] = "install" /\ DOMAIN Chart[release'[c]] \ Range(todo'[c]) = {}
    <2>1. PICK o \in Orders(DOMAIN Chart[r]) : todo' = [todo EXCEPT ![c] = o]
      BY <1>1 DEF Install
    <2>2. Range(o) = DOMAIN Chart[r]
      BY HelmAssumption, OrdersOnce
    <2>3. cmd'[c] = "install" /\ release'[c] = r /\ todo'[c] = o
      BY <1>1, <2>1 DEF Install, Listing
    <2> QED BY <2>2, <2>3
  <1>2. ASSUME NEW r \in Releases, NEW n \in Nodes, Uninstall(c, r, n),
               cmd'[c] # "none", release'[c] \notin disturbed'
        PROVE  /\ cmd'[c] = "uninstall" /\ IsInjective(todo'[c])
               /\ Range(todo'[c]) = {v \in VMIDs : ct'[v].release = release'[c] /\ ct'[v].node = node'[c]}
    <2>1. PICK o \in Orders(Matches(r, n)) :
            /\ cmd' = [cmd EXCEPT ![c] = "uninstall"] /\ release' = [release EXCEPT ![c] = r]
            /\ node' = [node EXCEPT ![c] = n] /\ todo' = [todo EXCEPT ![c] = o]
      BY <1>2 DEF Uninstall, Listing
    <2>2. cmd'[c] = "uninstall" /\ release'[c] = r /\ node'[c] = n /\ todo'[c] = o /\ ct' = ct
      BY <1>2, <2>1 DEF Uninstall, cluster, Listing
    <2>3. IsInjective(o) /\ Range(o) = Matches(r, n)
      BY MatchesFinite, OrdersOnce
    <2>4. \A v \in VMIDs : ct[v].release = r => task[v] = "none"
      BY <1>2, <2>2, BeginStep DEF AtWork
    <2> QED BY <2>2, <2>3, <2>4, MatchesIsOwn DEF Own
  <1>3. ASSUME ApplyPod(c), cmd'[c] # "none", release'[c] \notin disturbed'
        PROVE  /\ cmd'[c] = "install"
               /\ \A k \in DOMAIN Chart[release'[c]] \ Range(todo'[c]) :
                    \E v \in VMIDs : ct'[v] = Pod(release'[c], k)
    <2> DEFINE r == release[c]
               p == Head(todo[c])
    <2>1. Done(c) /\ cmd[c] = "install" /\ todo[c] # <<>>
      BY <1>3 DEF ApplyPod, Return, Listing
    <2>2. /\ r \in Releases /\ p \in DOMAIN Chart[r]
          /\ Range(todo[c]) = {p} \cup Range(Tail(todo[c]))
      BY <2>1, NextPod
    <2>3. cmd'[c] = "install" /\ release'[c] = r /\ todo'[c] = Tail(todo[c])
      BY <2>1 DEF Done, Listing
    <2>4. ASSUME UNCHANGED cluster
          PROVE  \E v \in VMIDs : ct'[v] = Pod(r, p)
      <3>1. Found(r, p) # {}
        <4>1. ASSUME NEW v \in NextIDs, Created(r, p, v)
              PROVE  FALSE
          <5>1. v \in VMIDs /\ ct[v] = Absent
            BY DEF NextIDs, FreeIDs
          <5>2. ct'[v] = Pod(r, p)
            BY <4>1, <5>1 DEF Created, Pod, Labelled
          <5>3. ct'[v] = ct[v]
            BY <2>4 DEF cluster
          <5>4. Pod(r, p) # Absent
            BY <2>2, Kinds
          <5> QED BY <5>1, <5>2, <5>3, <5>4
        <4>2. \A a : ~Return(c, a)
          BY <1>3 DEF Return, Listing
        <4> QED BY <1>3, <4>1, <4>2 DEF ApplyPod
      <3> QED BY <2>2, <2>4, <3>1, FoundIsPods DEF cluster
    <2>5. ASSUME NEW k \in DOMAIN Chart[r] \ Range(todo[c])
          PROVE  \E v \in VMIDs : ct[v] = Pod(r, k)
      BY <1>0, <1>3, <2>1, <2>3 DEF Present
    <2>6. CASE UNCHANGED cluster
      BY <2>2, <2>3, <2>4, <2>5, <2>6 DEF cluster
    <2>7. ASSUME NEW w \in VMIDs, PodComes(c, w)
          PROVE  \A k \in DOMAIN Chart[r] \ Range(Tail(todo[c])) : \E v \in VMIDs : ct'[v] = Pod(r, k)
      <3>1. ct[w] = Absent /\ ct' = [ct EXCEPT ![w] = Pod(r, p)]
        BY <2>7 DEF PodComes
      <3>2. ct'[w] = Pod(r, p)
        BY <3>1 DEF Labelled
      <3>3. ASSUME NEW k \in DOMAIN Chart[r] \ Range(todo[c])
            PROVE  \E v \in VMIDs : ct'[v] = Pod(r, k)
        <4>1. PICK v \in VMIDs : ct[v] = Pod(r, k)
          BY <2>5
        <4>2. v # w
          BY <2>2, <3>1, <4>1, Kinds
        <4>3. ct'[v] = ct[v]
          BY <3>1, <4>2 DEF Labelled
        <4> QED BY <4>1, <4>3
      <3> QED BY <2>2, <3>2, <3>3
    <2> QED BY <1>3, <2>3, <2>6, <2>7, ApplyStep
  <1>4. ASSUME DeletePod(c), cmd'[c] # "none", release'[c] \notin disturbed'
        PROVE  /\ cmd'[c] = "uninstall" /\ IsInjective(todo'[c])
               /\ Range(todo'[c]) = {v \in VMIDs : ct'[v].release = release'[c] /\ ct'[v].node = node'[c]}
    <2> DEFINE v == Head(todo[c])
    <2>1. Done(c) /\ ct' = [ct EXCEPT ![v] = Absent]
      BY <1>4 DEF DeletePod, Return, Listing
    <2>2. cmd[c] = "uninstall" /\ todo[c] # <<>> /\ todo[c] \in Seq(VMIDs)
      BY <1>4 DEF DeletePod, Listing
    <2>3. v \in VMIDs /\ Range(todo[c]) = {v} \cup Range(Tail(todo[c]))
      BY <2>2, NextContainer
    <2>4. /\ cmd'[c] = "uninstall" /\ release'[c] = release[c] /\ node'[c] = node[c]
          /\ todo'[c] = Tail(todo[c])
      BY <2>1, <2>2 DEF Done, Listing
    <2>5. release[c] \notin disturbed
      BY <1>0, <1>4, <2>4
    <2>6. IsInjective(Tail(todo[c])) /\ v \notin Range(Tail(todo[c]))
      BY <2>2, <2>5, InjectiveTail DEF Remaining
    <2>7. ct'[v].release # release[c] /\ \A w \in VMIDs : w # v => ct'[w] = ct[w]
      <3>1. Absent.release = Untagged /\ release[c] # Untagged
        BY <2>2, HelmAssumption DEF Absent, Listing, Texts, Untagged
      <3> QED BY <2>1, <2>3, <3>1 DEF Labelled
    <2>8. Range(todo[c]) = {w \in VMIDs : ct[w].release = release[c] /\ ct[w].node = node[c]}
      BY <2>2, <2>5 DEF Remaining, Own
    <2> QED BY <2>3, <2>4, <2>6, <2>7, <2>8
  <1>5. Installed(c) \/ Uninstalled(c) => cmd'[c] = "none"
    BY DEF Installed, Uninstalled, Return, Listing
  <1>6. ASSUME NEW r \in Releases, NEW n \in Nodes, Uninstall(c, r, n)
        PROVE  cmd'[c] # "install"
    BY <1>6 DEF Uninstall, Listing
  <1> QED BY <1>1, <1>2, <1>3, <1>4, <1>5, <1>6 DEF StepOf, Present, Remaining, Own, Pod, ContainerName

(* The step of anybody else does, too.                                     *)
LEMMA AloneStep ==
  ASSUME HelmInv, NEW c \in Clients, Next,
         OtherStep \/ \E d \in Clients : d # c /\ StepOf(d)
  PROVE  Present(c)' /\ Remaining(c)'
  <1> USE DEF HelmInv, Typed
  <1>1. cmd'[c] = cmd[c] /\ release'[c] = release[c] /\ todo'[c] = todo[c] /\ node'[c] = node[c]
    BY OtherCommands, CommandsApart DEF commands
  <1>2. disturbed \subseteq disturbed'
    BY DisturbedStep
  <1>3. ASSUME cmd[c] # "none", release[c] \notin disturbed',
               NEW v \in VMIDs, ct[v].release = release[c] \/ ct'[v].release = release[c]
        PROVE  ct'[v] = ct[v]
    BY <1>3, ReleaseAlone
  <1>4. ASSUME cmd[c] = "install", release[c] \notin disturbed', NEW k \in DOMAIN Chart[release[c]] \ Range(todo[c])
        PROVE  \E v \in VMIDs : ct'[v] = Pod(release[c], k)
    <2>1. PICK v \in VMIDs : ct[v] = Pod(release[c], k)
      BY <1>2, <1>4 DEF Present
    <2>2. ct[v].release = release[c]
      BY <2>1 DEF Pod
    <2> QED BY <1>3, <1>4, <2>1, <2>2
  <1>5. ASSUME cmd[c] = "uninstall", release[c] \notin disturbed'
        PROVE  /\ IsInjective(todo[c])
               /\ Range(todo[c]) = {v \in VMIDs : ct'[v].release = release[c] /\ ct'[v].node = node[c]}
    BY <1>2, <1>3, <1>5 DEF Remaining, Own
  <1> QED BY <1>1, <1>4, <1>5 DEF Present, Remaining, Own, Pod, ContainerName

(* Every step preserves the invariant.                                     *)
LEMMA HelmInvStep ==
  ASSUME HelmInv, NamesApart, [Next]_vars
  PROVE  HelmInv'
  <1>1. Typed' /\ Single' /\ \A c \in Clients : InTurn(c)'
    BY TypedInvariance, SingleStep, TurnStep DEF HelmInv
  <1>2. CASE UNCHANGED vars
    BY <1>1, <1>2 DEF vars, cluster, HelmInv, Present, Remaining, Own, Pod, ContainerName
  <1>3. CASE Next
    BY <1>1, <1>3, Steps, OwnStep, AloneStep DEF HelmInv
  <1> QED BY <1>2, <1>3

(* The invariant holds along every behaviour.                              *)
LEMMA HelmInvariance ==
  ASSUME NamesApart
  PROVE  Spec => []HelmInv
  <1>1. Init => HelmInv
    <2> SUFFICES ASSUME Init PROVE HelmInv
      OBVIOUS
    <2>1. Typed
      BY TypedInvariance
    <2>2. Single
      BY Kinds DEF Init, Single
    <2>3. \A c \in Clients : InTurn(c) /\ Present(c) /\ Remaining(c)
      BY DEF Init, InTurn, Undisturbed, Present, Remaining
    <2> QED BY <2>1, <2>2, <2>3 DEF HelmInv
  <1>2. HelmInv /\ [Next]_vars => HelmInv'
    BY HelmInvStep
  <1> QED BY <1>1, <1>2, PTL DEF Spec

-----------------------------------------------------------------------------
(* An uninstall of an undisturbed release destroys containers of that      *)
(* release only, if names are apart.                                       *)
THEOREM UninstallIsOwn ==
  ASSUME NamesApart
  PROVE  Spec => UninstallHitsOwn
  <1>1. HelmInv /\ [Next]_vars =>
          [\A c \in Clients : \A v \in VMIDs :
             Destroys(c, v) /\ release[c] \notin disturbed => ct[v].release = release[c]]_vars
    <2> SUFFICES ASSUME HelmInv, Next, NEW c \in Clients, NEW v \in VMIDs,
                        Destroys(c, v), release[c] \notin disturbed
                 PROVE  ct[v].release = release[c]
      OBVIOUS
    <2> USE DEF HelmInv, Typed
    <2>1. StepOf(c) /\ ~UNCHANGED cluster /\ cmd[c] = "uninstall"
      BY WhoseStep DEF Destroys, cluster
    <2>2. DeletePod(c)
      BY <2>1, CommandStep DEF StepOf, ApplyPod
    <2>3. v = Head(todo[c])
      BY <2>1, <2>2, DeleteStep DEF Goes, Stays, Destroys, Labelled, Tasks
    <2>4. v \in Range(todo[c])
      BY <2>2, <2>3, NextContainer DEF DeletePod
    <2> QED BY <2>1, <2>4 DEF Remaining, Own
  <1> QED BY <1>1, HelmInvariance, PTL DEF Spec, UninstallHitsOwn

(* When an uninstall of an undisturbed release reports success, the node   *)
(* has no container of the release left, if names are apart.               *)
THEOREM UninstallIsComplete ==
  ASSUME NamesApart
  PROVE  Spec => UninstallComplete
  <1>1. HelmInv /\ [Next]_vars =>
          [\A c \in Clients :
             cmd[c] = "uninstall" /\ release[c] \notin disturbed /\ answer'[c] = "uninstalled"
               => \A v \in Own(release[c]) : ct[v].node # node[c]]_vars
    <2> SUFFICES ASSUME HelmInv, Next, NEW c \in Clients, cmd[c] = "uninstall",
                        release[c] \notin disturbed, answer'[c] = "uninstalled"
                 PROVE  \A v \in Own(release[c]) : ct[v].node # node[c]
      OBVIOUS
    <2> USE DEF HelmInv, Typed
    <2>1. StepOf(c)
      BY WhoseStep
    <2>2. todo[c] = <<>>
      BY <2>1 DEF StepOf, Install, Uninstall, ApplyPod, Installed, DeletePod, Uninstalled, Done, Return, Listing
    <2> QED BY <2>2, RangeEmpty DEF Remaining, Own
  <1> QED BY <1>1, HelmInvariance, PTL DEF Spec, UninstallComplete

(* When an install of an undisturbed release reports success, every pod of *)
(* the release has a container on the node the values name, and just one   *)
(* if it has no hostname, if names are apart.                              *)
THEOREM InstallIsComplete ==
  ASSUME NamesApart
  PROVE  Spec => InstallComplete
  <1>1. HelmInv /\ [Next]_vars =>
          [\A c \in Clients :
             cmd[c] = "install" /\ release[c] \notin disturbed /\ answer'[c] = "installed"
               => \A k \in DOMAIN Chart[release[c]] :
                    /\ PodContainers(release[c], k) # {}
                    /\ Chart[release[c]][k].hostname = NoHostname
                         => Cardinality(PodContainers(release[c], k)) = 1]_vars
    <2> SUFFICES ASSUME HelmInv, Next, NEW c \in Clients, cmd[c] = "install",
                        release[c] \notin disturbed, answer'[c] = "installed",
                        NEW k \in DOMAIN Chart[release[c]]
                 PROVE  /\ PodContainers(release[c], k) # {}
                        /\ Chart[release[c]][k].hostname = NoHostname
                             => Cardinality(PodContainers(release[c], k)) = 1
      OBVIOUS
    <2> USE DEF HelmInv, Typed
    <2> DEFINE r == release[c]
    <2>1. r \in Releases
      BY HelmAssumption DEF Listing
    <2>2. StepOf(c)
      BY WhoseStep
    <2>3. todo[c] = <<>>
      BY <2>2 DEF StepOf, Install, Uninstall, ApplyPod, Installed, DeletePod, Uninstalled, Done, Return, Listing
    <2>4. PICK v \in VMIDs : ct[v] = Pod(r, k)
      BY <2>3, RangeEmpty DEF Present
    <2>5. v \in PodContainers(r, k)
      BY <2>1, <2>4, Kinds DEF PodContainers, Own
    <2>6. ASSUME NEW w \in PodContainers(r, k)
          PROVE  w \in VMIDs /\ ct[w] = Pod(r, k)
      <3>1. /\ w \in VMIDs /\ ct[w].release = r /\ ct[w].name = ContainerName(r, k)
            /\ ct[w].node = Chart[r][k].node /\ r # Untagged
        BY <2>1, Kinds DEF PodContainers, Own
      <3>2. PICK s \in Releases : \E l \in DOMAIN Chart[s] : ct[w] = Pod(s, l)
        <4>1. Absent.release = Untagged /\ \A a, n : Other(a, n).release = Untagged
          BY DEF Absent, Other
        <4> QED BY <3>1, <4>1 DEF Labelled
      <3> QED BY <3>1, <3>2 DEF Pod
    <2>7. ASSUME Chart[r][k].hostname = NoHostname
          PROVE  PodContainers(r, k) = {v}
      BY <2>1, <2>4, <2>5, <2>6, <2>7 DEF Single
    <2> QED BY <2>5, <2>7, FS_Singleton
  <1> QED BY <1>1, HelmInvariance, PTL DEF Spec, InstallComplete
=============================================================================
