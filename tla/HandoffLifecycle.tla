-------------------------- MODULE HandoffLifecycle --------------------------
(***************************************************************************)
(* HandoffLifecycleService: create, accept, reject and cancel of handoff   *)
(* requests.  Each handler is one transaction that first locks the ticket, *)
(* so it excludes every other writer of that ticket and its requests; but  *)
(* it reads users and memberships, which the lock does not protect, before *)
(* it writes and commits.                                                  *)
(***************************************************************************)
EXTENDS TicketStore

VARIABLE hreq     \* the handoff transaction each slot is running

HandoffOps == {"request", "accept", "reject", "withdraw"}

NoHandoffTx == [op |-> "idle"]

(* request has chosen the identifier it will insert. *)
HandoffTx ==
  [op : HandoffOps, actor : Users, ticket : TicketIds,
   handoff : HandoffIds, target : Users]

HandoffTypeOK == hreq \in [Slots -> HandoffTx \cup {NoHandoffTx}]

HandoffInit == hreq = [s \in Slots |-> NoHandoffTx]

RunningHandoff(s) == hreq[s].op # "idle"

-----------------------------------------------------------------------------
(* HandoffPolicy *)

EligibleUser(u) == users[u].active /\ users[u].role \in {"Agent", "Admin"}

IsActiveMember(u, d) == d \in ActorDepartments(u)

AssertRequest(row, requester, target) ==
  /\ row.active /\ row.status = "CLAIMED" /\ row.agent = requester
  /\ requester # target
  /\ EligibleUser(requester) /\ EligibleUser(target)
  /\ IsActiveMember(requester, row.dept) /\ IsActiveMember(target, row.dept)

(* Mutation: a resolved request can be accepted again. *)
BugAssertAcceptAny(h, u) ==
  /\ handoffs[h].target = u
  /\ AssertRequest(tickets[handoffs[h].ticket], handoffs[h].requester, u)

AssertAccept(h, u) ==
  /\ IsPending(h) /\ handoffs[h].target = u
  /\ AssertRequest(tickets[handoffs[h].ticket], handoffs[h].requester, u)

AssertReject(h, u) == IsPending(h) /\ handoffs[h].target = u /\ EligibleUser(u)

AssertCancel(h, u) ==
  LET row == tickets[handoffs[h].ticket] IN
  /\ IsPending(h) /\ handoffs[h].requester = u /\ EligibleUser(u)
  /\ row.agent = u /\ row.status = "CLAIMED"

(* Mutation: a second request to the same agent is let through. *)
BugNoDuplicateCheck(t, requester, target) == FALSE

FindPendingDuplicate(t, requester, target) ==
  \E h \in HandoffIds :
    /\ IsPending(h) /\ handoffs[h].ticket = t
    /\ handoffs[h].requester = requester /\ handoffs[h].target = target

-----------------------------------------------------------------------------
(* First steps: lock the ticket, read, assert.  A failed assertion ends    *)
(* the transaction with no effect and is left out.                         *)

BeginHandoff(s, op, u, t, h, v) ==
  /\ op \in Workload /\ users[u].active
  /\ Unlocked(t)
  /\ lock' = [lock EXCEPT ![t] = s]
  /\ hreq' = [hreq EXCEPT ![s] = [op |-> op, actor |-> u, ticket |-> t,
                                  handoff |-> h, target |-> v]]
  /\ UNCHANGED <<tables, log>>

(* h is an identifier that nobody uses or is about to use. *)
BeginRequest(s, u, t, v, h) ==
  /\ handoffs[h] = NoHandoff
  /\ \A x \in Slots : RunningHandoff(x) => hreq[x].handoff # h
  /\ Exists(t) /\ AssertRequest(tickets[t], u, v)
  /\ ~FindPendingDuplicate(t, u, v)
  /\ BeginHandoff(s, "request", u, t, h, v)

BeginAccept(s, u, h) ==
  /\ handoffs[h] # NoHandoff /\ AssertAccept(h, u)
  /\ BeginHandoff(s, "accept", u, handoffs[h].ticket, h, u)

BeginReject(s, u, h) ==
  /\ handoffs[h] # NoHandoff /\ AssertReject(h, u)
  /\ BeginHandoff(s, "reject", u, handoffs[h].ticket, h, u)

BeginWithdraw(s, u, h) ==
  /\ handoffs[h] # NoHandoff /\ AssertCancel(h, u)
  /\ BeginHandoff(s, "withdraw", u, handoffs[h].ticket, h, handoffs[h].target)

-----------------------------------------------------------------------------
(* Second steps: write, commit, release the lock. *)

EndHandoff(s) ==
  /\ lock' = [lock EXCEPT ![hreq[s].ticket] = NoSlot]
  /\ hreq' = [hreq EXCEPT ![s] = NoHandoffTx]
  /\ UNCHANGED <<users, members, activeDepts, log>>

CommitRequest(s) ==
  /\ hreq[s].op = "request"
  /\ handoffs' = [handoffs EXCEPT ![hreq[s].handoff] =
                    [status |-> "PENDING", ticket |-> hreq[s].ticket,
                     requester |-> hreq[s].actor, target |-> hreq[s].target]]
  /\ UNCHANGED tickets
  /\ EndHandoff(s)

(* transferClaimed, updateStatus and the cancellation of the ticket's      *)
(* other pending requests.                                                 *)
CommitAccept(s) ==
  LET t == hreq[s].ticket IN
  /\ hreq[s].op = "accept"
  /\ tickets' = [tickets EXCEPT ![t] =
                   [@ EXCEPT !.agent = hreq[s].target, !.status = "CLAIMED"]]
  /\ handoffs' = [CancelPendingForTicket({t}) EXCEPT
                    ![hreq[s].handoff].status = "ACCEPTED"]
  /\ EndHandoff(s)

CommitResolve(s) ==
  /\ hreq[s].op \in {"reject", "withdraw"}
  /\ handoffs' = [handoffs EXCEPT ![hreq[s].handoff].status =
                    IF hreq[s].op = "reject" THEN "REJECTED" ELSE "CANCELLED"]
  /\ UNCHANGED tickets
  /\ EndHandoff(s)

(* The transaction times out or loses its connection. *)
AbortHandoff(s) ==
  /\ RunningHandoff(s)
  /\ UNCHANGED <<tickets, handoffs>>
  /\ EndHandoff(s)

HandoffBegin(s) ==
  \E u \in Users, h \in HandoffIds :
    \/ \E t \in TicketIds, v \in Users : BeginRequest(s, u, t, v, h)
    \/ BeginAccept(s, u, h) \/ BeginReject(s, u, h) \/ BeginWithdraw(s, u, h)

HandoffCommit(s) == CommitRequest(s) \/ CommitAccept(s) \/ CommitResolve(s)
=============================================================================
