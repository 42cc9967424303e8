---------------------------- MODULE TicketProtocol ----------------------------
(***************************************************************************)
(* What the services promise about tickets, seen from outside: a ticket is *)
(* unclaimed, then held by one agent at a time, then closed, and possibly  *)
(* unclaimed again; the holder changes only by an offer that the new       *)
(* holder was made; cancellation is final, and a ticket that leaves its    *)
(* holder leaves no offer behind.                                          *)
(*                                                                         *)
(* A step can move several tickets, each by a move of its own: that is     *)
(* what deactivating an agent does.                                        *)
(***************************************************************************)
CONSTANTS Users, NoUser, Tickets

VARIABLES
  phase,    \* of each ticket: "none", "unclaimed", "held", "closed" or "cancelled"
  holder,   \* the agent of each ticket, or NoUser
  offers    \* the users each ticket's holder has offered it to

protocolVars == <<phase, holder, offers>>

Phases == {"none", "unclaimed", "held", "closed", "cancelled"}

Init ==
  /\ phase = [t \in Tickets |-> "none"]
  /\ holder = [t \in Tickets |-> NoUser]
  /\ offers = [t \in Tickets |-> {}]

Stays(t) == phase'[t] = phase[t] /\ holder'[t] = holder[t]

Release(t, to) == phase'[t] = to /\ holder'[t] = NoUser /\ offers'[t] = {}

Submit(t) == phase[t] = "none" /\ Release(t, "unclaimed")

Claim(t, u) ==
  /\ phase[t] = "unclaimed"
  /\ phase'[t] = "held" /\ holder'[t] = u /\ offers'[t] = offers[t]

Offer(t, u) ==
  /\ phase[t] = "held" /\ u # holder[t] /\ u \notin offers[t]
  /\ offers'[t] = offers[t] \cup {u} /\ Stays(t)

Withdraw(t, u) ==
  u \in offers[t] /\ offers'[t] = offers[t] \ {u} /\ Stays(t)

WithdrawAll(t) == offers'[t] = {} /\ Stays(t)

Transfer(t, u) ==
  /\ phase[t] = "held" /\ u \in offers[t]
  /\ phase'[t] = "held" /\ holder'[t] = u /\ offers'[t] = {}

Close(t) == phase[t] = "held" /\ Release(t, "closed")

Reopen(t) == phase[t] = "closed" /\ Release(t, "unclaimed")

Cancel(t) == phase[t] \in {"unclaimed", "held"} /\ Release(t, "cancelled")

Move(t) ==
  \/ Submit(t) \/ WithdrawAll(t) \/ Close(t) \/ Reopen(t) \/ Cancel(t)
  \/ \E u \in Users : Claim(t, u) \/ Offer(t, u) \/ Withdraw(t, u) \/ Transfer(t, u)
  \/ Stays(t) /\ offers'[t] = offers[t]

Next ==
  /\ phase' \in [Tickets -> Phases]
  /\ holder' \in [Tickets -> Users \cup {NoUser}]
  /\ offers' \in [Tickets -> SUBSET Users]
  /\ \A t \in Tickets : Move(t)

Spec == Init /\ [][Next]_protocolVars
=============================================================================
