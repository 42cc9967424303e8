--------------------------- MODULE ReminderWorker ---------------------------
(***************************************************************************)
(* UnclaimedTicketReminderWorker.runOnce: select the unclaimed tickets     *)
(* without a reminder, then claim and deliver the reminder of each one     *)
(* that is due.  Whether a candidate is due depends on its priority's      *)
(* interval and the clock, and is left open.                               *)
(***************************************************************************)
EXTENDS TicketStore

VARIABLES
  candidates,   \* the tickets the pass of each worker has still to look at
  sent          \* how often a reminder was delivered, by ticket and lifecycle

reminderVars == <<candidates, sent>>

Lifecycles == 1 .. MaxLifecycles

(* BOUND: a third reminder of one lifecycle is counted as the second. *)
MaxSent == 2

(* A candidate as it was selected. *)
Candidate == [ticket : TicketIds, since : Lifecycles]

ReminderTypeOK ==
  /\ candidates \in [Workers -> SUBSET Candidate]
  /\ sent \in [TicketIds -> [Lifecycles -> 0 .. MaxSent]]

ReminderInit ==
  /\ candidates = [w \in Workers |-> {}]
  /\ sent = [t \in TicketIds |-> [n \in Lifecycles |-> 0]]

(* Mutation: tickets without unclaimed_since are selected, too. *)
BugAwaitsReminder(row) == row.active /\ ~row.reminded

(* The WHERE clause of findCandidates. *)
AwaitsReminder(row) ==
  /\ row.active /\ row.agent = NoUser /\ row.status \in {"OPEN", "REOPENED"}
  /\ ~row.reminded /\ row.unclaimedSince # 0

(* A pass starts only when the worker's previous one has ended. *)
FindCandidates(w) ==
  /\ "remind" \in Workload
  /\ candidates[w] = {}
  /\ candidates' = [candidates EXCEPT ![w] =
       {[ticket |-> t, since |-> tickets[t].unclaimedSince] :
          t \in {x \in TicketIds : Exists(x) /\ AwaitsReminder(tickets[x])}}]
  /\ UNCHANGED <<sent, storeVars>>

(* Mutation: the UPDATE does not test that the reminder is still due. *)
BugMarkUnconditionally(row, since) == row.active

(* The WHERE clause of markReminderSent. *)
MarkReminderSent(row, since) ==
  AwaitsReminder(row) /\ row.unclaimedSince = since

(* The candidate is due and its reminder still unclaimed: the timestamp is *)
(* committed before the reminder is delivered.                             *)
Remind(w, c) ==
  /\ Unlocked(c.ticket) /\ MarkReminderSent(tickets[c.ticket], c.since)
  /\ tickets' = [tickets EXCEPT ![c.ticket] = [@ EXCEPT !.reminded = TRUE]]
  /\ sent' = [sent EXCEPT ![c.ticket][c.since] = IF @ < MaxSent THEN @ + 1 ELSE @]
  /\ candidates' = [candidates EXCEPT ![w] = @ \ {c}]
  /\ UNCHANGED <<handoffs, users, members, activeDepts, lock, log>>

(* The candidate is not due, or somebody else was faster. *)
Skip(w, c) ==
  /\ candidates' = [candidates EXCEPT ![w] = @ \ {c}]
  /\ UNCHANGED <<sent, storeVars>>

ReminderNext ==
  \E w \in Workers :
    FindCandidates(w) \/ \E c \in candidates[w] : Remind(w, c) \/ Skip(w, c)
=============================================================================
