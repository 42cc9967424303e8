---------------------------- MODULE MCTicketRaces ----------------------------
(***************************************************************************)
(* Two requests at a time on one ticket, in two workloads that would be    *)
(* too many together: every request of the lifecycle and of handoffs with  *)
(* the reminder worker, and deactivation and membership removal beside the *)
(* requests that they reconcile.                                           *)
(***************************************************************************)
EXTENDS MCTicketSystem

VARIABLE part     \* the workload of this behaviour

MCRaces == MCTicketRequests \cup MCReconciliation

Arriving == IF part = "requests" THEN MCTicketRequests ELSE MCReconciliation

Serves(s) == {req'[s].op, hreq'[s].op, adm'[s].op} \subseteq Arriving \cup {"idle"}

RacesInit == Init /\ part \in {"requests", "reconciliation"}

(* BOUND: one handoff beside reconciliations; the other workload has two.  *)
OneHandoff == \E h \in HandoffIds : \A g \in HandoffIds \ {h} : handoffs'[g] = NoHandoff

RacesStep ==
  /\ Next /\ UNCHANGED part
  /\ \A s \in Slots : Serves(s)
  /\ part = "reconciliation" => OneHandoff /\ UNCHANGED reminderVars

(* Everybody may end up deactivated or out of every department: nothing is *)
(* left to do then, and that is no deadlock.                               *)
NobodyLeft == part = "reconciliation" /\ UNCHANGED <<part, vars>>

RacesSpec == RacesInit /\ [][RacesStep \/ NobodyLeft]_<<part, vars>>
=============================================================================
