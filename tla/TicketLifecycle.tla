--------------------------- MODULE TicketLifecycle ---------------------------
(***************************************************************************)
(* TicketLifecycleService: submit, claim, close, reopen, modify, cancel.   *)
(*                                                                         *)
(* Each handler has two steps with other requests in between.  The first   *)
(* authenticates the actor, reads the ticket without a lock, asserts the   *)
(* policy and, except for claim, mutates the copy it read.  The second is  *)
(* the transaction, which re-checks part of the policy on the locked row   *)
(* and then writes the whole copy, stale columns included.                 *)
(***************************************************************************)
EXTENDS TicketStore

VARIABLE req      \* the lifecycle request each slot is serving

SaveOps == {"close", "reopen", "modify", "cancel"}

LifecycleOps == SaveOps \cup {"submit", "claim"}

NoRequest == [op |-> "idle"]

(* A handler between its two steps.  row is the copy it will write.        *)
LifecycleRequest ==
  [op : LifecycleOps, actor : Users, ticket : TicketIds,
   row : TicketRow, override : BOOLEAN]

LifecycleTypeOK == req \in [Slots -> LifecycleRequest \cup {NoRequest}]

LifecycleInit == req = [s \in Slots |-> NoRequest]

Serving(s) == req[s].op # "idle"

Unclaimed(row) == row.status \in {"OPEN", "REOPENED"} /\ row.agent = NoUser

-----------------------------------------------------------------------------
(* Policies, on the row as the first step reads it. *)

SubmitTicketPolicy(u, d) ==
  /\ d \in activeDepts
  /\ ~(d = Administration /\ users[u].role = "Employee")

ClaimTicketPolicy(row, u) ==
  row.active /\ Unclaimed(row) /\ row.dept \in ActorDepartments(u)

CloseTicketPolicy(row, u) ==
  /\ row.active /\ row.status = "CLAIMED" /\ row.agent # NoUser
  /\ row.agent = u \/ users[u].role = "Admin"

ReopenTicketPolicy(row, u) ==
  row.active /\ row.status = "CLOSED" /\ row.agent = NoUser /\ row.submitter = u

(* modify, with the department it asks for, and cancel. *)
ModifyTicketPolicy(row, u, d) ==
  /\ row.active /\ row.status = "OPEN" /\ row.agent = NoUser /\ row.submitter = u
  /\ d # row.dept => d \in activeDepts

CancelTicketPolicy(row, u) ==
  row.active /\ row.status = "OPEN" /\ row.agent = NoUser /\ row.submitter = u

-----------------------------------------------------------------------------
(* First steps.  u is authenticated by a session, which only an active     *)
(* user has; reading a ticket that does not exist ends the request.        *)

Begin(s, op, u, t, row, override) ==
  /\ op \in Workload /\ users[u].active
  /\ req' = [req EXCEPT ![s] = [op |-> op, actor |-> u, ticket |-> t,
                                row |-> row, override |-> override]]
  /\ UNCHANGED storeVars

(* t is an identifier that nobody uses or is about to use. *)
StartSubmit(s, u, t, d, c) ==
  /\ ~Exists(t) /\ \A x \in Slots : Serving(x) => req[x].ticket # t
  /\ SubmitTicketPolicy(u, d)
  /\ Begin(s, "submit", u, t,
           [status |-> "OPEN", dept |-> d, submitter |-> u, agent |-> NoUser,
            active |-> TRUE, content |-> c, unclaimedSince |-> 1,
            reminded |-> FALSE],
           FALSE)

StartClaim(s, u, t) ==
  /\ Exists(t) /\ ClaimTicketPolicy(tickets[t], u)
  /\ Begin(s, "claim", u, t, tickets[t], FALSE)

StartClose(s, u, t) ==
  /\ Exists(t) /\ CloseTicketPolicy(tickets[t], u)
  /\ Begin(s, "close", u, t,
           [tickets[t] EXCEPT !.status = "CLOSED", !.agent = NoUser,
                              !.unclaimedSince = 0, !.reminded = FALSE],
           users[u].role = "Admin" /\ tickets[t].agent # u)

(* The description of the request is optional: c may be the old content.   *)
(* unclaimedSince gets its value in CommitSave.                            *)
StartReopen(s, u, t, c) ==
  /\ Exists(t) /\ ReopenTicketPolicy(tickets[t], u)
  /\ Begin(s, "reopen", u, t,
           [tickets[t] EXCEPT !.status = "REOPENED", !.agent = NoUser,
                              !.unclaimedSince = 1, !.reminded = FALSE,
                              !.content = c],
           FALSE)

(* With c and d unchanged this is a request that only changes attachments. *)
StartModify(s, u, t, c, d) ==
  /\ Exists(t) /\ ModifyTicketPolicy(tickets[t], u, d)
  /\ Begin(s, "modify", u, t,
           [tickets[t] EXCEPT !.content = c, !.dept = d], FALSE)

StartCancel(s, u, t) ==
  /\ Exists(t) /\ CancelTicketPolicy(tickets[t], u)
  /\ Begin(s, "cancel", u, t,
           [tickets[t] EXCEPT !.active = FALSE, !.unclaimedSince = 0,
                              !.reminded = FALSE],
           FALSE)

-----------------------------------------------------------------------------
(* Second steps. *)

Done(s) == req' = [req EXCEPT ![s] = NoRequest]

CommitSubmit(s) ==
  /\ req[s].op = "submit"
  /\ tickets' = [tickets EXCEPT ![req[s].ticket] = req[s].row]
  /\ log' = [log EXCEPT ![req[s].ticket] =
                Opened(req[s].ticket, req[s].row.content)]
  /\ Done(s)
  /\ UNCHANGED <<handoffs, users, members, activeDepts, lock>>

(* The WHERE clause of the conditional UPDATE: unlike the policy, it does  *)
(* not look at the department.                                             *)
ClaimIfAvailable(row) == row.active /\ Unclaimed(row)

ClaimedRow(row, u) ==
  [row EXCEPT !.status = "CLAIMED", !.agent = u,
              !.unclaimedSince = 0, !.reminded = FALSE]

CommitClaim(s) ==
  LET t == req[s].ticket IN
  /\ req[s].op = "claim" /\ Unlocked(t) /\ ClaimIfAvailable(tickets[t])
  /\ tickets' = [tickets EXCEPT ![t] = ClaimedRow(@, req[s].actor)]
  /\ Done(s)
  /\ UNCHANGED <<handoffs, users, members, activeDepts, lock, log>>

(* Mutation: the transaction trusts the policy asserted before it. *)
BugNoRecheck(r, current) == TRUE

(* What saveWithEvent re-checks on the locked row before it saves. *)
SaveAllowed(r, current) ==
  CASE r.op = "close"  -> /\ current.status = "CLAIMED" /\ current.active
                          /\ current.agent = r.actor \/ r.override
    [] r.op = "reopen" -> /\ current.active /\ current.status = "CLOSED"
                          /\ current.agent = NoUser
    [] OTHER           -> /\ current.active /\ current.status = "OPEN"
                          /\ current.agent = NoUser
                          /\ current.submitter = r.actor

(* Mutation: the MODIFICATION event omits what was changed. *)
BugLogReopenOnly(r) ==
  IF r.op = "reopen" THEN Opened(r.ticket, r.row.content) ELSE log[r.ticket]

(* The ticket's history once saveWithEvent has appended its event. *)
LogAfter(r) ==
  CASE r.op = "reopen" -> Opened(r.ticket, r.row.content)
    [] r.op = "modify" -> Recorded(r.ticket, r.row.content)
    [] OTHER           -> log[r.ticket]

(* The copy as it is written: the moment of a reopening is no moment of an *)
(* earlier lifecycle, so it is numbered by the reopening itself.           *)
SavedRow(r) ==
  IF r.op = "reopen"
  THEN [r.row EXCEPT !.unclaimedSince = log[r.ticket].opened + 1] ELSE r.row

(* Reopening stops at the bound MaxLifecycles. *)
CommitSave(s) ==
  LET r == req[s]
      t == req[s].ticket IN
  /\ r.op \in SaveOps /\ Unlocked(t) /\ SaveAllowed(r, tickets[t])
  /\ r.op = "reopen" => log[t].opened < MaxLifecycles
  /\ tickets' = [tickets EXCEPT ![t] = SavedRow(r)]
  /\ log' = [log EXCEPT ![t] = LogAfter(r)]
  /\ handoffs' = IF r.op = "close" \/ ~r.row.active
                 THEN CancelPendingForTicket({t}) ELSE handoffs
  /\ Done(s)
  /\ UNCHANGED <<users, members, activeDepts, lock>>

(* The transaction finds that the ticket changed, and the request ends     *)
(* with an error and no effect.                                            *)
Conflict(s) ==
  LET t == req[s].ticket IN
  /\ \/ /\ req[s].op = "claim" /\ Unlocked(t)
        /\ ~ClaimIfAvailable(tickets[t])
     \/ /\ req[s].op \in SaveOps /\ Unlocked(t)
        /\ ~SaveAllowed(req[s], tickets[t])
  /\ Done(s)
  /\ UNCHANGED storeVars

LifecycleStart(s) ==
  \E u \in Users, t \in TicketIds :
    \/ StartClaim(s, u, t)
    \/ StartClose(s, u, t)
    \/ StartCancel(s, u, t)
    \/ \E c \in Contents : StartReopen(s, u, t, c)
    \/ \E c \in Contents, d \in Departments :
         StartSubmit(s, u, t, d, c) \/ StartModify(s, u, t, c, d)

LifecycleCommit(s) ==
  CommitSubmit(s) \/ CommitClaim(s) \/ CommitSave(s) \/ Conflict(s)
=============================================================================
