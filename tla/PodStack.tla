------------------------------ MODULE PodStack ------------------------------
(***************************************************************************)
(* ApplyStack and DeleteStack (pkg/controller/pod.go), as "compose up" and *)
(* "compose down" run them (cmd/proxkube/main.go): the order in which the  *)
(* pods of a stack are applied and deleted, and what is left behind when   *)
(* one of the calls fails.                                                 *)
(*                                                                         *)
(* Apply and Delete of one pod are single steps here, with the replies     *)
(* PodRegistry allows them (PodController shows that the controller        *)
(* implements that registry).  Between two steps pods may stop by          *)
(* themselves or be removed by somebody else.                              *)
(***************************************************************************)
EXTENDS Naturals, Sequences, SequencesExt

CONSTANTS
  Pods,       \* the pods of the stack
  Others,     \* names that dependsOn may mention but the stack does not have
  Graphs,     \* the dependency graphs considered
  Commands,   \* the commands that may be run, a subset of {"up", "down"}
  MayFail,    \* whether a single Apply or Delete may return an error
  MayDrift    \* whether pods may stop or vanish by themselves

ASSUME StackAssumption ==
  /\ IsFiniteSet(Pods)
  /\ Graphs \subseteq [Pods -> SUBSET (Pods \cup Others)]
  /\ Pods \cap Others = {}
  /\ MayFail \in BOOLEAN
  /\ MayDrift \in BOOLEAN

VARIABLES
  deps,       \* deps[p]: spec.dependsOn of pod p
  cmd,        \* the command in progress, "none" between commands
  remaining,  \* pods of this pass that have not been looked at yet
  next,       \* pods put off to the next pass
  applied,    \* pods already applied
  progress,   \* whether this pass has applied a pod
  done,       \* names of result.Pods: the pods applied, in order
  answer,     \* what the last command returned
  phase       \* phase[p]: the state of p's container on the node

loop == <<remaining, next, applied, progress, done>>
vars == <<deps, cmd, remaining, next, applied, progress, done, answer, phase>>

Phases == {"absent", "stopped", "running"}
Answers == {"none", "ok", "failed", "circular"}

TypeOK ==
  /\ deps \in Graphs
  /\ cmd \in Commands \cup {"none"}
  /\ remaining \in Seq(Pods)
  /\ next \in Seq(Pods)
  /\ applied \subseteq Pods
  /\ progress \in BOOLEAN
  /\ done \in Seq(Pods)
  /\ answer \in Answers
  /\ phase \in [Pods -> Phases]

Init ==
  /\ deps \in Graphs
  /\ cmd = "none"
  /\ remaining = <<>>
  /\ next = <<>>
  /\ applied = {}
  /\ progress = FALSE
  /\ done = <<>>
  /\ answer = "none"
  /\ phase = [p \in Pods |-> "absent"]

-----------------------------------------------------------------------------
(* ToStack appends the services in the iteration order of a Go map: every  *)
(* run of a command sees the pods in an order of its own.                  *)
Orders == {s \in [1..Cardinality(Pods) -> Pods] : Range(s) = Pods}

(* Seeded bug: the loop over the pods to delete stops before index 0.      *)
BeginDownShort(c) ==
  /\ cmd = "none"
  /\ c \in Commands
  /\ \E o \in Orders : remaining' = IF c = "up" THEN o ELSE Front(Reverse(o))
  /\ next' = <<>>
  /\ applied' = {}
  /\ progress' = FALSE
  /\ done' = <<>>
  /\ cmd' = c
  /\ answer' = "none"
  /\ UNCHANGED <<deps, phase>>

Begin(c) ==
  /\ cmd = "none"
  /\ c \in Commands
  /\ \E o \in Orders : remaining' = IF c = "up" THEN o ELSE Reverse(o)
  /\ next' = <<>>
  /\ applied' = {}
  /\ progress' = FALSE
  /\ done' = <<>>
  /\ cmd' = c
  /\ answer' = "none"
  /\ UNCHANGED <<deps, phase>>

Return(a) ==
  /\ cmd' = "none"
  /\ answer' = a
  /\ remaining' = <<>>
  /\ next' = <<>>
  /\ UNCHANGED <<deps, applied, progress, done>>

(* Seeded bug: one applied dependency is enough.                           *)
ReadyIfAny(p) == deps[p] = {} \/ deps[p] \cap applied # {}

(* Every dependency has been applied by this very command.                 *)
Ready(p) == deps[p] \subseteq applied

(* What Apply(p) may do: create and start a container, find one and leave  *)
(* it as it is, or fail, at whichever of its requests; a container it was  *)
(* creating may be left behind, started or not.                            *)
ApplyPod ==
  /\ cmd = "up"
  /\ remaining # <<>>
  /\ LET p == Head(remaining) IN
     /\ Ready(p)
     /\ \/ /\ phase' = [phase EXCEPT ![p] = IF @ = "absent" THEN "running" ELSE @]
           /\ applied' = applied \cup {p}
           /\ done' = Append(done, p)
           /\ progress' = TRUE
           /\ remaining' = Tail(remaining)
           /\ UNCHANGED <<deps, cmd, next, answer>>
        \/ /\ MayFail
           /\ \E left \in Phases :
                phase' = [phase EXCEPT ![p] = IF @ = "absent" THEN left ELSE @]
           /\ Return("failed")

(* Seeded bug: a dependency somebody has waited for counts as applied.     *)
PutOffForgiving ==
  /\ cmd = "up"
  /\ remaining # <<>>
  /\ ~Ready(Head(remaining))
  /\ next' = Append(next, Head(remaining))
  /\ remaining' = Tail(remaining)
  /\ applied' = applied \cup deps[Head(remaining)]
  /\ UNCHANGED <<deps, cmd, progress, done, answer, phase>>

PutOff ==
  /\ cmd = "up"
  /\ remaining # <<>>
  /\ ~Ready(Head(remaining))
  /\ next' = Append(next, Head(remaining))
  /\ remaining' = Tail(remaining)
  /\ UNCHANGED <<deps, cmd, applied, progress, done, answer, phase>>

(* Seeded bugs: only one pass, and a progress flag that is never reset.    *)
OnePass ==
  /\ cmd = "up"
  /\ remaining = <<>>
  /\ UNCHANGED phase
  /\ Return(IF next = <<>> THEN "ok" ELSE "circular")

EndOfPassNoReset ==
  /\ cmd = "up"
  /\ remaining = <<>>
  /\ UNCHANGED phase
  /\ \/ next = <<>> /\ Return("ok")
     \/ next # <<>> /\ ~progress /\ Return("circular")
     \/ /\ next # <<>> /\ progress
        /\ remaining' = next
        /\ next' = <<>>
        /\ UNCHANGED <<deps, cmd, applied, progress, done, answer>>

EndOfPass ==
  /\ cmd = "up"
  /\ remaining = <<>>
  /\ UNCHANGED phase
  /\ \/ next = <<>> /\ Return("ok")
     \/ next # <<>> /\ ~progress /\ Return("circular")
     \/ /\ next # <<>> /\ progress
        /\ remaining' = next
        /\ next' = <<>>
        /\ progress' = FALSE
        /\ UNCHANGED <<deps, cmd, applied, done, answer>>

(* Delete(p) says "not found" when there is no container, and may fail at  *)
(* any of its requests, even when the container goes away in the end.      *)
(* DeleteStack passes any error on and leaves the pods it has not come to. *)
DeletePod ==
  /\ cmd = "down"
  /\ remaining # <<>>
  /\ LET p == Head(remaining) IN
     \/ /\ phase[p] # "absent"
        /\ phase' = [phase EXCEPT ![p] = "absent"]
        /\ remaining' = Tail(remaining)
        /\ UNCHANGED <<deps, cmd, next, applied, progress, done, answer>>
     \/ phase[p] = "absent" /\ Return("failed") /\ UNCHANGED phase
     \/ /\ MayFail /\ phase[p] # "absent"
        /\ \E left \in {phase[p], "stopped", "absent"} : phase' = [phase EXCEPT ![p] = left]
        /\ Return("failed")

EndOfDown == cmd = "down" /\ remaining = <<>> /\ Return("ok") /\ UNCHANGED phase

(* A container stops by itself, or is removed by somebody else.            *)
Drift(p) ==
  /\ MayDrift
  /\ \/ phase[p] = "running" /\ phase' = [phase EXCEPT ![p] = "stopped"]
     \/ phase[p] # "absent" /\ phase' = [phase EXCEPT ![p] = "absent"]
  /\ UNCHANGED <<deps, cmd, loop, answer>>

Step == ApplyPod \/ PutOff \/ EndOfPass \/ DeletePod \/ EndOfDown

Next ==
  \/ \E c \in Commands : Begin(c)
  \/ Step
  \/ \E p \in Pods : Drift(p)

Spec == Init /\ [][Next]_vars

(* The controller's loop is scheduled.                                     *)
FairSpec == Spec /\ WF_vars(Step)
-----------------------------------------------------------------------------
(* Pods that can be applied at all: the least set that contains every pod  *)
(* whose dependencies it contains.                                         *)
Closed(S) == \A p \in Pods : deps[p] \subseteq S => p \in S
Resolvable == {p \in Pods : \A S \in SUBSET Pods : Closed(S) => p \in S}

(* Pods are applied after everything they depend on, each once.            *)
DependencyOrder ==
  \A i \in 1..Len(done) :
    /\ deps[done[i]] \subseteq {done[j] : j \in 1..(i - 1)}
    /\ \A j \in 1..(i - 1) : done[j] # done[i]

(* ApplyStack goes as far as any order could go: unless a call fails, it   *)
(* has applied exactly the resolvable pods when it returns, and it reports *)
(* "circular or unresolvable dependency" just when that is not all of them. *)
AppliesResolvable ==
  [][cmd = "up" /\ answer' \in {"ok", "circular"}
       => applied' = Resolvable /\ (answer' = "ok" <=> Resolvable = Pods)]_vars

(* When DeleteStack returns without an error, nothing of the stack is left. *)
DownMeansGone == [][cmd = "down" /\ answer' = "ok" => \A p \in Pods : phase'[p] = "absent"]_vars

(* The measure of what is left of the loop: the pods not yet done with,    *)
(* then whether another pass is owed, then what is left of this pass.      *)
Left == Len(remaining) + Len(next)
Descends ==
  \/ Left' < Left
  \/ Left' = Left /\ progress /\ ~progress'
  \/ Left' = Left /\ progress' = progress /\ Len(remaining') < Len(remaining)

(* No turn of ApplyStack's or DeleteStack's loop is in vain: pods are put  *)
(* off and looked at again for ever by none, not even where they depend on *)
(* each other.  This is why the two return.                                *)
LoopDescends == [][cmd # "none" /\ cmd' = cmd /\ loop' # loop => Descends]_vars

(* ApplyStack and DeleteStack return, whatever the graph.                  *)
CommandReturns == cmd # "none" ~> cmd = "none"

(* main.go: "compose down -f compose.yaml   Tear down a stack": when no     *)
(* call fails for a reason outside the stack, "down" leaves nothing.       *)
TearsDown == [][cmd = "down" /\ cmd' = "none" => \A p \in Pods : phase'[p] = "absent"]_vars
=============================================================================
