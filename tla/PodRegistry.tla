---------------------------- MODULE PodRegistry ----------------------------
(***************************************************************************)
(* What PodController promises to somebody who thinks of pods only: a      *)
(* table of pods with a phase each, and calls that change it in the ways   *)
(* the comments on Apply, Get and Delete describe.  VMIDs, tasks and       *)
(* requests do not exist here.                                             *)
(***************************************************************************)
CONSTANTS Clients, Pods, None

VARIABLES
  phase,      \* phase[p]: "absent", "stopped" or "running"
  call,       \* call[c]: <<operation, pod>> in progress, or None
  answer      \* answer[c]: what the last call of c returned

vars == <<phase, call, answer>>

Ops == {"apply", "get", "delete"}

Init ==
  /\ phase = [p \in Pods |-> "absent"]
  /\ call = [c \in Clients |-> None]
  /\ answer = [c \in Clients |-> "none"]

Request(c, o, p) ==
  /\ call[c] = None
  /\ call' = [call EXCEPT ![c] = <<o, p>>]
  /\ answer' = [answer EXCEPT ![c] = "none"]
  /\ UNCHANGED phase

Doing(o, p) == \E c \in Clients : call[c] = <<o, p>>

(* A pod changes phase only along its life cycle, and only while a call    *)
(* that is meant to change it is in progress; a container may stop by      *)
(* itself.                                                                 *)
Move(p) ==
  /\ \/ phase[p] = "absent" /\ Doing("apply", p) /\ phase' = [phase EXCEPT ![p] = "stopped"]
     \/ phase[p] = "stopped" /\ Doing("apply", p) /\ phase' = [phase EXCEPT ![p] = "running"]
     \/ phase[p] = "stopped" /\ Doing("delete", p) /\ phase' = [phase EXCEPT ![p] = "absent"]
     \/ phase[p] = "running" /\ phase' = [phase EXCEPT ![p] = "stopped"]
  /\ UNCHANGED <<call, answer>>

(* A call fails, or reports the phase the pod has when it returns.         *)
Truthful(o, p, r) ==
  \/ r = "error"
  \/ o \in {"apply", "get"} /\ phase[p] = r /\ r # "absent"
  \/ o \in {"get", "delete"} /\ phase[p] = "absent" /\ r = "notfound"
  \/ o = "delete" /\ phase[p] = "absent" /\ r = "deleted"

Reply(c, o, p) ==
  /\ call[c] = <<o, p>>
  /\ \E r \in {"running", "stopped", "deleted", "notfound", "error"} :
        Truthful(o, p, r) /\ answer' = [answer EXCEPT ![c] = r]
  /\ call' = [call EXCEPT ![c] = None]
  /\ UNCHANGED phase

Next ==
  \/ \E c \in Clients, o \in Ops, p \in Pods : Request(c, o, p) \/ Reply(c, o, p)
  \/ \E p \in Pods : Move(p)

Spec == Init /\ [][Next]_vars
=============================================================================
