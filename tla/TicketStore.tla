----------------------------- MODULE TicketStore -----------------------------
(***************************************************************************)
(* The rows that the ticket, handoff and user services share: the          *)
(* PostgreSQL tables as committed transactions leave them, and the row     *)
(* locks on tickets that running transactions hold.                        *)
(*                                                                         *)
(* Every transaction runs at READ COMMITTED.  A plain SELECT sees the      *)
(* committed rows and takes no lock; SELECT ... FOR UPDATE and UPDATE wait *)
(* for the row lock, which is kept until the transaction ends.  A          *)
(* transaction whose only accesses are to one locked ticket and that       *)
(* ticket's handoffs is therefore one step; one that also reads users or   *)
(* memberships, or locks several tickets, is several.                      *)
(***************************************************************************)
EXTENDS Naturals

CONSTANTS
  Users,            \* rows of users
  Departments,      \* rows of departments
  Administration,   \* the system-owned department
  TicketIds,        \* identifiers a ticket can be given
  HandoffIds,       \* identifiers a handoff request can be given
  Contents,         \* title, description and priority, as one value
  MaxLifecycles,    \* BOUND: unclaimed lifecycles (submission + reopenings) of a ticket
  Workload,         \* BOUND: the kinds of request that arrive, a set of operation names
  Slots,            \* HTTP requests served at the same time
  Workers,          \* instances of the process, each with its reminder worker
  NoUser,           \* the null agent_id
  NoSlot,           \* nobody holds the row lock
  InitialUsers,     \* users and memberships before the first request
  InitialMembers

Roles == {"Employee", "Agent", "Admin"}

UserRow == [role : Roles, active : BOOLEAN]

ASSUME StoreAssumption ==
  /\ Administration \in Departments
  /\ NoUser \notin Users
  /\ NoSlot \notin Slots
  /\ MaxLifecycles \in Nat \ {0}
  /\ InitialUsers \in [Users -> UserRow]
  /\ InitialMembers \subseteq Users \X Departments

VARIABLES
  tickets,      \* the tickets table
  handoffs,     \* the handoff_requests table
  users,        \* the users table
  members,      \* the department_members table
  activeDepts,  \* departments with active = true
  lock,         \* the request whose transaction holds a ticket's row lock
  log           \* what ticket_events says of a ticket

tables == <<tickets, handoffs, users, members, activeDepts>>
storeVars == <<tables, lock, log>>

-----------------------------------------------------------------------------
(* Row types.  A timestamp column is a number that is 0 when the column is *)
(* null: unclaimedSince is the lifecycle it was set in, which is what the  *)
(* reminder's equality test tells apart; lastReminderAt only whether it is *)
(* set.                                                                    *)

TicketStatus == {"OPEN", "CLAIMED", "CLOSED", "REOPENED"}

TicketRow ==
  [status : TicketStatus, dept : Departments, submitter : Users,
   agent : Users \cup {NoUser}, active : BOOLEAN, content : Contents,
   unclaimedSince : 0 .. MaxLifecycles, reminded : BOOLEAN]

NoTicket == [status |-> "NONE"]     \* the identifier is not used yet

HandoffStatus == {"PENDING", "ACCEPTED", "REJECTED", "CANCELLED"}

HandoffRow ==
  [status : HandoffStatus, ticket : TicketIds, requester : Users, target : Users]

NoHandoff == [status |-> "NONE"]

(* The event history of a ticket, as far as the properties look at it: how *)
(* often it was submitted or reopened, and the content its last            *)
(* SUBMISSION, MODIFICATION or REOPEN event recorded.  CLAIM, CLOSE,       *)
(* DELETE and HANDOFF events add nothing to that.                          *)
NoLog == [opened |-> 0]

TicketLog == [opened : 1 .. MaxLifecycles, content : Contents]

-----------------------------------------------------------------------------
Exists(t) == tickets[t] # NoTicket

Unlocked(t) == lock[t] = NoSlot

IsMember(u, d) == <<u, d>> \in members

(* findActiveDepartmentIdsByUserId: the active departments of a user. *)
ActorDepartments(u) == {d \in activeDepts : IsMember(u, d)}

IsPending(h) == handoffs[h].status = "PENDING"

PendingOf(T) == {h \in HandoffIds : IsPending(h) /\ handoffs[h].ticket \in T}

(* Mutation: the sweep over the pending requests is forgotten. *)
BugCancelNothing(T) == handoffs

(* handoff_requests after every pending request of the tickets T is        *)
(* cancelled, with the reasons and the HANDOFF events left out.            *)
CancelPendingForTicket(T) ==
  [h \in HandoffIds |->
     IF h \in PendingOf(T) THEN [handoffs[h] EXCEPT !.status = "CANCELLED"]
                           ELSE handoffs[h]]

(* The history of t after an event that starts an unclaimed lifecycle, and *)
(* after one that records a new content only.                              *)
Opened(t, content) == [opened |-> log[t].opened + 1, content |-> content]

Recorded(t, content) == [log[t] EXCEPT !.content = content]

StoreInit ==
  /\ tickets = [t \in TicketIds |-> NoTicket]
  /\ handoffs = [h \in HandoffIds |-> NoHandoff]
  /\ users = InitialUsers
  /\ members = InitialMembers
  /\ activeDepts = Departments
  /\ lock = [t \in TicketIds |-> NoSlot]
  /\ log = [t \in TicketIds |-> NoLog]

StoreTypeOK ==
  /\ tickets \in [TicketIds -> TicketRow \cup {NoTicket}]
  /\ handoffs \in [HandoffIds -> HandoffRow \cup {NoHandoff}]
  /\ users \in [Users -> UserRow]
  /\ members \subseteq Users \X Departments
  /\ activeDepts \subseteq Departments
  /\ lock \in [TicketIds -> Slots \cup {NoSlot}]
  /\ log \in [TicketIds -> TicketLog \cup {NoLog}]
=============================================================================
