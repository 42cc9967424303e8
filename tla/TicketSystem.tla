---------------------------- MODULE TicketSystem ----------------------------
(***************************************************************************)
(* The services that change tickets, composed over the tables they share.  *)
(* A slot is one HTTP request being served; the reminder worker runs       *)
(* beside them; a crash of the process rolls every running transaction     *)
(* back.                                                                   *)
(***************************************************************************)
EXTENDS TicketLifecycle, HandoffLifecycle, UserReconciliation,
        DepartmentStatus, ReminderWorker

vars == <<storeVars, req, hreq, adm, dreq, reminderVars>>

Free(s) ==
  ~Serving(s) /\ ~RunningHandoff(s) /\ ~RunningAdmin(s) /\ ~RunningDepartment(s)

Init ==
  /\ StoreInit
  /\ LifecycleInit /\ HandoffInit /\ AdminInit /\ DepartmentInit /\ ReminderInit

LifecycleNext(s) ==
  /\ (Free(s) /\ LifecycleStart(s)) \/ LifecycleCommit(s)
  /\ UNCHANGED <<hreq, adm, dreq, reminderVars>>

HandoffNext(s) ==
  /\ (Free(s) /\ HandoffBegin(s)) \/ HandoffCommit(s) \/ AbortHandoff(s)
  /\ UNCHANGED <<req, adm, dreq, reminderVars>>

AdminNext(s) ==
  /\ (Free(s) /\ AdminBegin(s)) \/ AdminStep(s) \/ AbortAdmin(s)
  /\ UNCHANGED <<req, hreq, dreq, reminderVars>>

DepartmentNext(s) ==
  /\ (Free(s) /\ DepartmentBegin(s)) \/ CommitSetDepartment(s)
  /\ UNCHANGED <<req, hreq, adm, reminderVars>>

WorkerNext == ReminderNext /\ UNCHANGED <<req, hreq, adm, dreq>>

(* An instance w dies and restarts: what it had not committed is lost.     *)
(* Which of the running requests were its own is left open.                *)
Crash ==
  \E S1 \in SUBSET Slots, w \in Workers :
    /\ S1 # {} /\ \A s \in S1 : ~Free(s)
    /\ req' = [s \in Slots |-> IF s \in S1 THEN NoRequest ELSE req[s]]
    /\ hreq' = [s \in Slots |-> IF s \in S1 THEN NoHandoffTx ELSE hreq[s]]
    /\ adm' = [s \in Slots |-> IF s \in S1 THEN NoAdminTx ELSE adm[s]]
    /\ dreq' = [s \in Slots |-> IF s \in S1 THEN NoDepartmentTx ELSE dreq[s]]
    /\ candidates' = [candidates EXCEPT ![w] = {}]
    /\ lock' = [t \in TicketIds |-> IF lock[t] \in S1 THEN NoSlot ELSE lock[t]]
    /\ UNCHANGED <<tables, log, sent>>

Next ==
  \/ \E s \in Slots :
       LifecycleNext(s) \/ HandoffNext(s) \/ AdminNext(s) \/ DepartmentNext(s)
  \/ WorkerNext
  \/ Crash

Spec == Init /\ [][Next]_vars

(* A request that can go on does: node and PostgreSQL run every handler    *)
(* and transaction they have, waiters for a row lock are served in turn,   *)
(* and PostgreSQL finds deadlocks.  Nothing else needs to happen: no       *)
(* request has to arrive, no timeout to strike.                            *)
Progress(s) ==
  \/ LifecycleCommit(s) /\ UNCHANGED <<hreq, adm, dreq, reminderVars>>
  \/ HandoffCommit(s) /\ UNCHANGED <<req, adm, dreq, reminderVars>>
  \/ (AdminStep(s) \/ RollBack(s)) /\ UNCHANGED <<req, hreq, dreq, reminderVars>>
  \/ CommitSetDepartment(s) /\ UNCHANGED <<req, hreq, adm, reminderVars>>

FairSpec == Spec /\ \A s \in Slots : SF_vars(Progress(s))

-----------------------------------------------------------------------------
TypeOK ==
  /\ StoreTypeOK /\ LifecycleTypeOK /\ HandoffTypeOK /\ AdminTypeOK
  /\ DepartmentTypeOK /\ ReminderTypeOK

(* A ticket has an agent exactly while it is active and CLAIMED, and an    *)
(* unclaimed_since timestamp exactly while it is active and OPEN or        *)
(* REOPENED; a reminder is only recorded for an unclaimed ticket.  Every   *)
(* save writes a copy read before the row was locked, so this is about all *)
(* the columns that copy carries (data-model.md, ticket and system         *)
(* invariants).                                                            *)
RowConsistent(row) ==
  /\ row.agent # NoUser <=> row.active /\ row.status = "CLAIMED"
  /\ row.unclaimedSince # 0 <=> row.active /\ row.status \in {"OPEN", "REOPENED"}
  /\ row.reminded => row.unclaimedSince # 0

TicketsConsistent == \A t \in TicketIds : Exists(t) => RowConsistent(tickets[t])

(* A pending handoff request is always about an active CLAIMED ticket whose *)
(* current agent is the requester: whatever closes, transfers or cancels    *)
(* the ticket resolves its requests in the same commit.                     *)
HandoffLive(row, h) ==
  /\ row # NoTicket /\ row.active /\ row.status = "CLAIMED"
  /\ row.agent = h.requester /\ h.requester # h.target

PendingHandoffsLive ==
  \A h \in HandoffIds :
    IsPending(h) => HandoffLive(tickets[handoffs[h].ticket], handoffs[h])

(* An agent is asked at most once at a time to take over a ticket: the     *)
(* check for a duplicate and the insertion are two statements, kept        *)
(* together by the ticket's lock only.                                     *)
NoDuplicatePending ==
  \A g, h \in HandoffIds :
    /\ g # h /\ IsPending(g) /\ IsPending(h)
    /\ handoffs[g].ticket = handoffs[h].ticket
    => handoffs[g].target # handoffs[h].target

(* A reconciliation closes or cancels a ticket only of the user it is      *)
(* about, as the agent or the submitter at the moment it commits: what the *)
(* sweep selected may have been transferred or closed before it got the    *)
(* lock.                                                                   *)
OnlyOwnTicketsSwept ==
  [][\A s \in Slots, t \in TicketIds :
       (RunningAdmin(s) /\ ~RunningAdmin(s)' /\ tickets'[t] # tickets[t])
         => adm[s].user \in {tickets[t].agent, tickets[t].submitter}]_vars

-----------------------------------------------------------------------------
(* The protocol of tickets, as this system implements it. *)

PhaseOf(row) ==
  CASE row = NoTicket           -> "none"
    [] row # NoTicket /\ ~row.active -> "cancelled"
    [] OTHER -> CASE row.status \in {"OPEN", "REOPENED"} -> "unclaimed"
                  [] row.status = "CLAIMED" -> "held"
                  [] row.status = "CLOSED"  -> "closed"

HolderOf(row) == IF row = NoTicket THEN NoUser ELSE row.agent

OffersOf(t) == {handoffs[h].target : h \in PendingOf({t})}

Protocol == INSTANCE TicketProtocol
  WITH Tickets <- TicketIds,
       phase  <- [t \in TicketIds |-> PhaseOf(tickets[t])],
       holder <- [t \in TicketIds |-> HolderOf(tickets[t])],
       offers <- [t \in TicketIds |-> OffersOf(t)]

(* Every ticket follows the protocol, whatever the requests interleave.    *)
FollowsProtocol == Protocol!Spec

(* The rows a resolved handoff request and a finished lifecycle leave are  *)
(* final: a resolved request never changes again, although updateStatus    *)
(* itself does not look at the status it overwrites.                       *)
ResolvedOnce ==
  [][\A h \in HandoffIds :
       handoffs[h].status \in {"ACCEPTED", "REJECTED", "CANCELLED"}
         => handoffs'[h] = handoffs[h]]_handoffs

(* Every request ends, without the help of a timeout, although sweeps lock *)
(* tickets in no common order and lock some of them twice.                 *)
RequestsEnd == \A s \in Slots : ~Free(s) ~> Free(s)

-----------------------------------------------------------------------------
(* What the code intends when requests do not overlap.                     *)

Eligible(u, d) ==
  users[u].active /\ users[u].role \in {"Agent", "Admin"} /\ IsMember(u, d)

(* The agent of a ticket is an active agent or administrator who belongs   *)
(* to the ticket's department (data-model.md): modification moves only     *)
(* unclaimed tickets, and whoever loses the role, the account or the       *)
(* membership loses the tickets in the same transaction.                   *)
AgentsEligible ==
  \A t \in TicketIds :
    Exists(t) /\ tickets[t].agent # NoUser
      => Eligible(tickets[t].agent, tickets[t].dept)

(* Both parties of a pending handoff request are eligible for the ticket.  *)
PartiesEligible ==
  \A h \in HandoffIds :
    IsPending(h) => LET d == tickets[handoffs[h].ticket].dept IN
                    /\ Eligible(handoffs[h].requester, d)
                    /\ Eligible(handoffs[h].target, d)

(* "The last active administrator cannot be removed". *)
SomeActiveAdmin == \E u \in Users : users[u].active /\ users[u].role = "Admin"

(* "Department has active tickets and cannot be deactivated". *)
ActiveTicketsInActiveDepartments ==
  \A t \in TicketIds :
    Exists(t) /\ tickets[t].active => tickets[t].dept \in activeDepts

(* "Only agents and administrators can belong to departments". *)
EmployeesHaveNoDepartment ==
  \A u \in Users, d \in Departments :
    IsMember(u, d) => users[u].role # "Employee"

(* The events of a ticket reproduce its content: submission, modification  *)
(* and reopening record the content they write, nothing else changes it.   *)
HistoryReproducesContent ==
  \A t \in TicketIds : Exists(t) => log[t].content = tickets[t].content

(* At most one reminder is delivered for an unclaimed lifecycle. *)
OneReminderPerLifecycle ==
  \A t \in TicketIds, n \in Lifecycles : sent[t][n] <= 1
=============================================================================
