---------------------------- MODULE MCDashboard ----------------------------
(* An instance of Dashboard for TLC.                                       *)
EXTENDS Dashboard

CONSTANTS user, web, old, other

TwoRequests == 1..2

(* A panel that is opened when 10 and 100, of which the second number      *)
(* begins with the first, are there and nobody changes anything.           *)
Calm ==
  /\ name = [v \in VMIDs |-> IF v = 10 THEN old ELSE web]
  /\ state \in [VMIDs -> {"stopped", "running"}]
  /\ job = [v \in VMIDs |-> NoJob]
  /\ outcome = [c \in Clients |-> "none"]
  /\ rows = [v \in VMIDs |-> Row(None, "absent", None)]
  /\ lists = [i \in Slots |-> NoList]
  /\ answers = [v \in VMIDs |-> {}]
  /\ dialog = NoDialog
  /\ restarting = [v \in VMIDs |-> 0]
  /\ alert = FALSE
  /\ quiet = TRUE

(* BOUND: of an empty cluster only 100 is used, by web and other in turn.  *)
Few == name'[10] = name[10] /\ name'[100] # old

MCSpec == (Init \/ Calm) /\ [][Next /\ Few]_vars /\ Fairness
=============================================================================
