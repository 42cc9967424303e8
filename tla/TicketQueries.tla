---------------------------- MODULE TicketQueries ----------------------------
(***************************************************************************)
(* What the system shows of its tables: the ticket lists, the ticket page, *)
(* the actions a response offers, the handoff lists and the dashboard.     *)
(*                                                                         *)
(* A query is one SELECT and so a function of the committed tables; these  *)
(* functions add no state to TicketSystem.  The question is whether what   *)
(* they show agrees with what the handlers accept, in every state the      *)
(* handlers reach.  The list of tickets an agent has resolved and the      *)
(* inbox of the chat read the authors of events, which log leaves out.     *)
(***************************************************************************)
EXTENDS TicketSystem, FiniteSets

CONSTANT AnyValue      \* a filter the query does not give

ASSUME FilterAssumption == AnyValue \notin HandoffStatus

Scopes == {"all", "submitted", "claimed", "department", "pool"}

(* What a priority matches is a set of contents; what a search matches, in *)
(* codes, titles and names, a set of contents with their submitters.       *)
Filters ==
  [status : TicketStatus \cup {AnyValue}, dept : Departments \cup {AnyValue},
   search : (SUBSET (Contents \X Users)) \cup {AnyValue},
   priority : (SUBSET Contents) \cup {AnyValue},
   inactive : BOOLEAN]

Role(u) == users[u].role

Known == {t \in TicketIds : Exists(t)}

UnclaimedStatus == {"OPEN", "REOPENED"}

-----------------------------------------------------------------------------
(* The ticket page: ViewTicketPolicy and TicketAccessService. *)

CanView(u, row) ==
  \/ Role(u) = "Admin"
  \/ row.submitter = u
  \/ (Role(u) = "Agent" /\ row.dept \in ActorDepartments(u))

CanViewCancelledTicket(u, row) == Role(u) = "Admin" \/ row.submitter = u

AssertCanViewTicket(u, row) ==
  (row.active \/ CanViewCancelledTicket(u, row)) /\ CanView(u, row)

(* The page of the chat, which the submitter of a cancelled ticket cannot  *)
(* open any more, and the conversation in it, which nobody can.            *)
GetTicketChatContext(u, row) ==
  (row.active \/ Role(u) = "Admin") /\ CanView(u, row)

AssertCanViewChat(u, row) == row.active /\ CanView(u, row)

AssertCanSend(u, row) ==
  /\ AssertCanViewChat(u, row)
  /\ row.status = "CLAIMED" /\ row.agent # NoUser
  /\ \/ row.submitter = u
     \/ /\ row.agent = u /\ Role(u) # "Employee"
        /\ row.dept \in ActorDepartments(u)

-----------------------------------------------------------------------------
(* Ticket lists. *)

ScopedDepartments(u, f) ==
  {d \in ActorDepartments(u) : f.dept \in {AnyValue, d}}

(* The WHERE clause of a scope. *)
ScopeWhere(u, scope, f, row) ==
  CASE scope = "submitted"  -> row.submitter = u
    [] scope = "claimed"    -> row.agent = u
    [] scope = "department" -> row.dept \in ScopedDepartments(u, f)
    [] scope = "pool"       -> /\ row.agent = NoUser
                               /\ row.status \in UnclaimedStatus
                               /\ row.dept \in ScopedDepartments(u, f)
    [] scope = "all"        -> CanView(u, row)

TicketFilterWhere(f, row) ==
  /\ f.status \in {AnyValue, row.status} /\ f.dept \in {AnyValue, row.dept}
  /\ f.search # AnyValue => <<row.content, row.submitter>> \in f.search
  /\ f.priority # AnyValue => row.content \in f.priority

(* The three clauses are merged by key, and both the scope "all" and a     *)
(* search are an OR: with a search, that of the scope is replaced.         *)
ListWhere(u, scope, f, row) ==
  /\ row.active \/ (Role(u) = "Admin" /\ f.inactive)
  /\ ScopeWhere(u, scope, f, row) \/ (scope = "all" /\ f.search # AnyValue)
  /\ TicketFilterWhere(f, row)

(* Employees only have the scopes "all" and "submitted". *)
ListRefused(u, scope) ==
  Role(u) = "Employee" /\ scope \in {"claimed", "department", "pool"}

FindList(u, scope, f) ==
  IF ListRefused(u, scope) THEN {}
  ELSE {t \in Known : ListWhere(u, scope, f, tickets[t])}

CountPool(u) ==
  Cardinality({t \in Known : /\ tickets[t].active /\ Unclaimed(tickets[t])
                             /\ tickets[t].dept \in ActorDepartments(u)})

-----------------------------------------------------------------------------
(* The actions a response offers: TicketResponseMapper. *)

CanWorkTickets(u) == Role(u) \in {"Agent", "Admin"}

CanModify(u, row) ==
  row.active /\ row.status = "OPEN" /\ row.agent = NoUser /\ row.submitter = u

(* Mutation: the mapper offers a claim in every department. *)
BugCanClaim(u, row) ==
  CanWorkTickets(u) /\ row.active /\ row.status \in UnclaimedStatus

CanClaim(u, row) ==
  /\ CanWorkTickets(u) /\ row.dept \in ActorDepartments(u)
  /\ row.active /\ row.status \in UnclaimedStatus /\ row.agent = NoUser

CanClose(u, row) ==
  /\ users[u].active /\ CanWorkTickets(u) /\ row.active
  /\ row.status = "CLAIMED" /\ (row.agent = u \/ Role(u) = "Admin")

CanRequestHandoff(u, row) ==
  /\ users[u].active /\ CanWorkTickets(u) /\ row.active
  /\ row.status = "CLAIMED" /\ row.agent = u /\ row.dept \in ActorDepartments(u)

CanReopen(u, row) ==
  row.active /\ row.status = "CLOSED" /\ row.agent = NoUser /\ row.submitter = u

-----------------------------------------------------------------------------
(* Handoff lists. *)

IdentityWhere(u, direction, h) ==
  CASE direction = "incoming" -> h.target = u
    [] direction = "outgoing" -> h.requester = u
    [] direction = "all"      -> u \in {h.requester, h.target}

(* words is what the search matches of the ticket, its code and title.     *)
HandoffWhere(u, direction, dept, words, h) ==
  /\ IdentityWhere(u, direction, h)
  /\ dept \in {AnyValue, tickets[h.ticket].dept}
  /\ words # AnyValue => tickets[h.ticket].content \in words

Sent == {h \in HandoffIds : handoffs[h] # NoHandoff}

FindHandoffs(u, direction, status, dept, words) ==
  {h \in Sent : /\ HandoffWhere(u, direction, dept, words, handoffs[h])
                /\ status \in {AnyValue, handoffs[h].status}}

(* The number beside a list.  It does not depend on the status asked for,  *)
(* except that a list of resolved requests has no pending ones.            *)
PendingCount(u, direction, status, dept, words) ==
  IF status \in {AnyValue, "PENDING"}
  THEN Cardinality(FindHandoffs(u, direction, "PENDING", dept, words)) ELSE 0

(* The requests of one ticket, for whoever can view it. *)
ListForTicket(u, t) ==
  IF tickets[t].active /\ CanView(u, tickets[t])
  THEN {h \in Sent : handoffs[h].ticket = t} ELSE {}

FindParticipants(u) ==
  {v \in Users : \E h \in Sent : {u, v} = {handoffs[h].requester, handoffs[h].target}}

(* The agents a request for row can be sent to. *)
FindEligibleAgents(row, u) ==
  {v \in Users \ {u} : EligibleUser(v) /\ IsActiveMember(v, row.dept)}

AssertRequester(row, u) ==
  /\ row.active /\ row.status = "CLAIMED" /\ row.agent = u
  /\ EligibleUser(u) /\ IsActiveMember(u, row.dept)

ListEligibleAgents(u, row) ==
  IF AssertRequester(row, u) THEN FindEligibleAgents(row, u) ELSE {}

-----------------------------------------------------------------------------
(* The dashboard. *)

DashboardDepartments(u) ==
  IF Role(u) = "Admin" THEN activeDepts ELSE ActorDepartments(u)

UnclaimedIn(d) ==
  Cardinality({t \in Known : /\ tickets[t].active /\ Unclaimed(tickets[t])
                             /\ tickets[t].dept = d})

PoolTickets(u) ==
  {t \in Known : /\ tickets[t].active /\ Unclaimed(tickets[t])
                 /\ \/ Role(u) = "Admin"
                    \/ tickets[t].dept \in DashboardDepartments(u)}

CountByStatus(T, status) == Cardinality({t \in T : tickets[t].status = status})

AssignedTickets(u) == {t \in Known : tickets[t].active /\ tickets[t].agent = u}

PendingIncoming(u) ==
  Cardinality({h \in HandoffIds : IsPending(h) /\ handoffs[h].target = u})

PendingOutgoing(u) ==
  Cardinality({h \in HandoffIds : IsPending(h) /\ handoffs[h].requester = u})

-----------------------------------------------------------------------------
(* What the queries must agree on. *)

Unsearched == {f \in Filters : f.search = AnyValue /\ f.priority = AnyValue}

(* Whoever cannot open a ticket finds it in no list without a search.  For *)
(* the claimed tickets no clause says so: it rests on every change of role,*)
(* membership and department taking the tickets away                       *)
(* (TicketQueryService.listPage beside TicketAccessService).               *)
ListedAreViewable ==
  \A u \in {v \in Users : users[v].active}, t \in Known :
    AssertCanViewTicket(u, tickets[t])
      \/ \A scope \in Scopes, f \in Unsearched : t \notin FindList(u, scope, f)

(* The same of every list.  "Administrators can view all tickets recorded  *)
(* while employees cannot" (product-specs.md).                             *)
SearchedAreViewable ==
  \A u \in {v \in Users : users[v].active}, t \in Known :
    AssertCanViewTicket(u, tickets[t])
      \/ \A scope \in Scopes, f \in Filters : t \notin FindList(u, scope, f)

(* A response offers an action exactly when the handler's policy accepts   *)
(* it: the mapper repeats the conditions of six policies in other words.   *)
(* A handoff is offered to whoever may ask some agent or would find none.  *)
OfferedActionsAccepted ==
  \A u \in {v \in Users : users[v].active}, t \in Known :
    LET row == tickets[t] IN
    /\ CanModify(u, row) <=> ModifyTicketPolicy(row, u, row.dept)
    /\ CanModify(u, row) <=> CancelTicketPolicy(row, u)
    /\ CanClaim(u, row)  <=> ClaimTicketPolicy(row, u)
    /\ CanClose(u, row)  <=> CloseTicketPolicy(row, u)
    /\ CanReopen(u, row) <=> ReopenTicketPolicy(row, u)
    /\ CanRequestHandoff(u, row) <=> AssertRequester(row, u)
    /\ ListEligibleAgents(u, row) = {v \in Users : AssertRequest(row, u, v)}

(* The numbers of the dashboard are the lengths of the lists they lead to. *)
CountsAgree ==
  \A u \in {v \in Users : users[v].active} :
    LET all == CHOOSE f \in Unsearched : f.status = AnyValue /\ f.dept = AnyValue /\ ~f.inactive
        size(scope) == Cardinality(FindList(u, scope, all)) IN
    /\ CanWorkTickets(u) =>
         /\ CountPool(u) = size("pool")
         /\ Cardinality(AssignedTickets(u)) = CountByStatus(AssignedTickets(u), "CLAIMED")
         /\ Cardinality(AssignedTickets(u)) = size("claimed")
    /\ PendingIncoming(u) = PendingCount(u, "incoming", AnyValue, AnyValue, AnyValue)
    /\ PendingOutgoing(u) = PendingCount(u, "outgoing", "PENDING", AnyValue, AnyValue)
    /\ \A t \in Known :
         CanRequestHandoff(u, tickets[t]) =>
           {h \in ListForTicket(u, t) : IsPending(h)}
             \subseteq FindHandoffs(u, "outgoing", "PENDING", AnyValue, AnyValue)
    /\ FindParticipants(u) \cup {u} =
         (UNION {{handoffs[h].requester, handoffs[h].target} :
                   h \in FindHandoffs(u, "all", AnyValue, AnyValue, AnyValue)}) \cup {u}
    /\ \A d \in DashboardDepartments(u) :
         UnclaimedIn(d) = Cardinality({t \in PoolTickets(u) : tickets[t].dept = d})

(* Both parties of a claimed ticket can open its chat and write in it.     *)
PartiesCanTalk ==
  \A t \in Known : LET row == tickets[t] IN
    row.active /\ row.status = "CLAIMED" =>
      \A u \in {row.agent, row.submitter} :
        users[u].active => GetTicketChatContext(u, row) /\ AssertCanSend(u, row)

(* What the responses offer and count agrees with the handlers and lists.  *)
ViewsAgree == OfferedActionsAccepted /\ CountsAgree /\ PartiesCanTalk
=============================================================================
