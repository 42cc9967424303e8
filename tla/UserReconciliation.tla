------------------------- MODULE UserReconciliation -------------------------
(***************************************************************************)
(* UserAdministrationService and UserMembershipService: role changes,      *)
(* activation and deactivation, adding and removing department             *)
(* memberships, with the reconciliation of tickets and handoffs that a     *)
(* loss of eligibility brings (TicketAssignmentReconciliationService,      *)
(* HandoffCancellationService).                                            *)
(*                                                                         *)
(* Each operation is one transaction of several statements.  It reads the  *)
(* user without a lock, then runs sweeps: a sweep selects tickets with a   *)
(* plain SELECT, locks them one by one and decides on the locked row what  *)
(* to write.  All writes become visible, and all locks are released, at    *)
(* the commit.                                                             *)
(***************************************************************************)
EXTENDS TicketStore, Sequences

VARIABLE adm      \* the administration transaction each slot is running

RowOps == {"setRole", "deactivate", "activate"}   \* update the user's row

MemberOps == {"addMember", "removeMember"}

(* What a sweep looks for.  "memberships" and "administration" are the     *)
(* reads that add sweeps over departments.                                 *)
SweepKinds == {"userTickets", "userHandoffs", "memberships", "administration",
               "deptHandoffs", "deptClaims"}

Sweep == [kind : SweepKinds, dept : Departments]

S(kind, d) == [kind |-> kind, dept |-> d]

(* What the commit will write to a ticket this transaction has locked. *)
Acts == {"none", "handoffs", "close", "deactivate"}

NoAdminTx == [op |-> "idle"]

AdminTx ==
  [op : RowOps \cup MemberOps, user : Users, dept : Departments,
   role : Roles,                 \* the new role
   before : Roles,               \* the role read at the start
   started : BOOLEAN,            \* the user's row is updated, or needs no update
   plan : Seq(Sweep), sweep : Sweep,
   todo : SUBSET TicketIds,      \* selected by the sweep, not locked yet
   depts : SUBSET Departments,   \* memberships read, not swept yet
   act : [TicketIds -> Acts],
   dropAdministration : BOOLEAN, dropMemberships : BOOLEAN]

AdminTypeOK == adm \in [Slots -> AdminTx \cup {NoAdminTx}]

AdminInit == adm = [s \in Slots |-> NoAdminTx]

RunningAdmin(s) == adm[s].op # "idle"

ActiveAdminsExcept(u) ==
  {v \in Users \ {u} : users[v].active /\ users[v].role = "Admin"}

-----------------------------------------------------------------------------
(* First steps: the read of the user and the checks made on it.  The       *)
(* caller is authenticated as an active administrator.                     *)

BeginAdmin(s, op, u, d, role, plan) ==
  /\ op \in Workload
  /\ \E a \in Users : users[a].active /\ users[a].role = "Admin"
  /\ adm' = [adm EXCEPT ![s] =
               [op |-> op, user |-> u, dept |-> d, role |-> role,
                before |-> users[u].role, started |-> op \in MemberOps,
                plan |-> plan, sweep |-> S("deptClaims", d),
                todo |-> {}, depts |-> {}, act |-> [t \in TicketIds |-> "none"],
                dropAdministration |-> FALSE, dropMemberships |-> FALSE]]
  /\ UNCHANGED storeVars

(* Mutation: the count is not compared. *)
BugNeverLastAdmin(u) == TRUE

AssertNotLastAdmin(u) == ActiveAdminsExcept(u) # {}

BeginSetRole(s, u, role) ==
  /\ role # users[u].role
  /\ users[u].role = "Admin" => AssertNotLastAdmin(u)
  /\ BeginAdmin(s, "setRole", u, Administration, role,
       (IF users[u].role = "Admin"
          THEN <<S("administration", Administration)>> ELSE <<>>)
       \o (IF role = "Employee"
             THEN <<S("userHandoffs", Administration),
                    S("memberships", Administration)>> ELSE <<>>))

(* Mutation: deactivation leaves the user's tickets as they are. *)
BugDeactivationPlan ==
  <<S("userHandoffs", Administration)>>

DeactivationPlan ==
  <<S("userTickets", Administration), S("userHandoffs", Administration),
    S("memberships", Administration)>>

BeginDeactivate(s, u) ==
  /\ users[u].active
  /\ users[u].role = "Admin" => AssertNotLastAdmin(u)
  /\ BeginAdmin(s, "deactivate", u, Administration, users[u].role,
                DeactivationPlan)

BeginActivate(s, u) ==
  /\ ~users[u].active
  /\ BeginAdmin(s, "activate", u, Administration, users[u].role, <<>>)

(* Mutation: the role is not looked at. *)
BugCanJoinAnyRole(u, d) == d \in activeDepts

AssertCanJoinDepartment(u, d) ==
  /\ d = Administration => users[u].role = "Admin"
  /\ users[u].role # "Employee"
  /\ d \in activeDepts

BeginAddMember(s, u, d) ==
  /\ AssertCanJoinDepartment(u, d)
  /\ BeginAdmin(s, "addMember", u, d, users[u].role, <<>>)

(* Mutation: the department's pending handoffs are not swept. *)
BugRemovalPlan(d) == <<S("deptClaims", d)>>

(* Mutation: the user's claims in the department are not swept. *)
BugKeepClaims(d) == <<S("deptHandoffs", d)>>

RemovalPlan(d) == <<S("deptHandoffs", d), S("deptClaims", d)>>

BeginRemoveMember(s, u, d) ==
  /\ ~(d = Administration /\ users[u].role = "Admin")
  /\ IsMember(u, d)
  /\ BeginAdmin(s, "removeMember", u, d, users[u].role, RemovalPlan(d))

-----------------------------------------------------------------------------
(* The UPDATE of the user's row.  Its row lock is kept to the end, so one  *)
(* such transaction per user runs at a time; what was read before it was   *)
(* obtained is not read again.                                             *)
UpdateUser(s) ==
  /\ adm[s].op \in RowOps /\ ~adm[s].started
  /\ \A x \in Slots \ {s} :
       adm[x].op \in RowOps => ~(adm[x].started /\ adm[x].user = adm[s].user)
  /\ adm' = [adm EXCEPT ![s].started = TRUE]
  /\ UNCHANGED storeVars

-----------------------------------------------------------------------------
(* Sweeps *)

SubmittedBy(row, u) ==
  row.submitter = u /\ row.status \in {"OPEN", "REOPENED", "CLAIMED"}

ClaimedBy(row, u) == row.status = "CLAIMED" /\ row.agent = u

(* The tickets the SELECT of a sweep returns: committed rows, except that  *)
(* a transaction sees its own writes.                                      *)
Selected(s, k) ==
  LET u == adm[s].user
      act == adm[s].act
      parties == {h \in HandoffIds :
                    IsPending(h) /\ u \in {handoffs[h].requester, handoffs[h].target}}
  IN CASE k.kind = "userTickets" ->
            {t \in TicketIds : Exists(t) /\ tickets[t].active
                               /\ (SubmittedBy(tickets[t], u) \/ ClaimedBy(tickets[t], u))}
       [] k.kind = "userHandoffs" ->
            {t \in TicketIds : act[t] = "none" /\ \E h \in parties : handoffs[h].ticket = t}
       [] k.kind = "deptHandoffs" ->
            {t \in TicketIds : /\ act[t] = "none" /\ Exists(t)
                               /\ tickets[t].dept = k.dept
                               /\ \E h \in parties : handoffs[h].ticket = t}
       [] OTHER ->
            {t \in TicketIds : /\ act[t] \in {"none", "handoffs"} /\ Exists(t)
                               /\ tickets[t].dept = k.dept /\ tickets[t].active
                               /\ ClaimedBy(tickets[t], u)}

(* Mutation: the rows are written as the SELECT returned them, without     *)
(* looking at them again once they are locked.                             *)
BugDecision(s, t) ==
  CASE adm[s].sweep.kind = "userTickets" -> "deactivate"
    [] adm[s].sweep.kind = "deptClaims" -> "close"
    [] OTHER -> "handoffs"

(* What a sweep decides on the locked row. *)
Decision(s, t) ==
  LET u == adm[s].user
      row == tickets[t]
  IN CASE adm[s].sweep.kind = "userTickets"
            /\ row.active /\ (SubmittedBy(row, u) \/ ClaimedBy(row, u)) -> "deactivate"
       [] adm[s].sweep.kind = "deptClaims"
            /\ row.active /\ ClaimedBy(row, u) -> "close"
       [] adm[s].sweep.kind \in {"userHandoffs", "deptHandoffs"}
            /\ adm[s].act[t] = "none" -> "handoffs"
       [] OTHER -> adm[s].act[t]

Idle(s) == adm[s].started /\ adm[s].todo = {}

(* The next sweep of the plan runs its SELECT. *)
StartSweep(s) ==
  LET k == Head(adm[s].plan) IN
  /\ RunningAdmin(s) /\ Idle(s) /\ adm[s].plan # <<>>
  /\ k.kind \notin {"memberships", "administration"}
  /\ adm' = [adm EXCEPT ![s].sweep = k, ![s].todo = Selected(s, k),
                        ![s].plan = Tail(adm[s].plan)]
  /\ UNCHANGED storeVars

(* reconcileMemberships reads the memberships; its own deletion of the     *)
(* Administration membership is visible to it.                             *)
ReadMemberships(s) ==
  LET found == {d \in Departments : IsMember(adm[s].user, d)}
               \ (IF adm[s].dropAdministration THEN {Administration} ELSE {})
  IN
  /\ RunningAdmin(s) /\ Idle(s) /\ adm[s].plan # <<>>
  /\ Head(adm[s].plan).kind = "memberships"
  /\ adm' = [adm EXCEPT ![s].depts = found, ![s].dropMemberships = found # {},
                        ![s].plan = Tail(adm[s].plan)]
  /\ UNCHANGED storeVars

(* The loop over the memberships, in whatever order they were returned. *)
SweepDepartment(s) ==
  /\ RunningAdmin(s) /\ Idle(s) /\ adm[s].plan = <<>>
  /\ \E d \in adm[s].depts :
       adm' = [adm EXCEPT ![s].depts = adm[s].depts \ {d},
                          ![s].plan = RemovalPlan(d)]
  /\ UNCHANGED storeVars

(* removeAdministrationMembership: nothing to do without a membership. *)
ReadAdministration(s) ==
  LET member == IsMember(adm[s].user, Administration) IN
  /\ RunningAdmin(s) /\ Idle(s) /\ adm[s].plan # <<>>
  /\ Head(adm[s].plan).kind = "administration"
  /\ adm' = [adm EXCEPT ![s].dropAdministration = member,
               ![s].plan = (IF member THEN RemovalPlan(Administration) ELSE <<>>)
                           \o Tail(adm[s].plan)]
  /\ UNCHANGED storeVars

(* Mutation: the SELECT FOR UPDATE runs on another connection, and waits   *)
(* for the locks of its own transaction.                                   *)
BugCanLock(s, t) == Unlocked(t)

CanLock(s, t) == lock[t] \in {NoSlot, s}

(* A ticket of the sweep is locked and looked at again. *)
LockNext(s) ==
  /\ RunningAdmin(s)
  /\ \E t \in adm[s].todo :
       /\ CanLock(s, t)
       /\ lock' = [lock EXCEPT ![t] = s]
       /\ adm' = [adm EXCEPT ![s].todo = adm[s].todo \ {t},
                             ![s].act[t] = Decision(s, t)]
  /\ UNCHANGED <<tables, log>>

-----------------------------------------------------------------------------
(* The end of the transaction. *)

Finish(s) ==
  /\ adm' = [adm EXCEPT ![s] = NoAdminTx]
  /\ lock' = [t \in TicketIds |-> IF lock[t] = s THEN NoSlot ELSE lock[t]]

(* Mutation: deactivation leaves the timestamps of the unclaimed lifecycle. *)
BugReconciledRow(row, act) ==
  CASE act = "close" ->
         [row EXCEPT !.status = "CLOSED", !.agent = NoUser,
                     !.unclaimedSince = 0, !.reminded = FALSE]
    [] act = "deactivate" -> [row EXCEPT !.active = FALSE, !.agent = NoUser]
    [] OTHER -> row

ReconciledRow(row, act) ==
  CASE act = "close" ->
         [row EXCEPT !.status = "CLOSED", !.agent = NoUser,
                     !.unclaimedSince = 0, !.reminded = FALSE]
    [] act = "deactivate" ->
         [row EXCEPT !.active = FALSE, !.agent = NoUser,
                     !.unclaimedSince = 0, !.reminded = FALSE]
    [] OTHER -> row

(* The tickets whose pending handoff requests the transaction cancels. *)
SweptTickets(a) == {t \in TicketIds : a.act[t] # "none"}

UserAfter(a) ==
  CASE a.op = "setRole"    -> [users[a.user] EXCEPT !.role = a.role]
    [] a.op = "deactivate" -> [users[a.user] EXCEPT !.active = FALSE]
    [] a.op = "activate"   -> [users[a.user] EXCEPT !.active = TRUE]
    [] OTHER               -> users[a.user]

MembersAfter(a) ==
  LET own == {a.user} \X Departments
      dropped == (IF a.op = "removeMember" THEN {<<a.user, a.dept>>} ELSE {})
                 \cup (IF a.dropAdministration THEN {<<a.user, Administration>>} ELSE {})
                 \cup (IF a.dropMemberships THEN own ELSE {})
      added == (IF a.op = "addMember" THEN {<<a.user, a.dept>>} ELSE {})
               \cup (IF (a.op = "setRole" /\ a.role = "Admin")
                          \/ (a.op \in {"deactivate", "activate"} /\ a.before = "Admin")
                       THEN {<<a.user, Administration>>} ELSE {})
  IN (members \ dropped) \cup added

(* Deleting one membership fails when the row is gone. *)
DeletesFound(a) ==
  /\ a.op = "removeMember" => IsMember(a.user, a.dept)
  /\ a.dropAdministration => IsMember(a.user, Administration)

(* enforce_administration_membership, the deferred constraint trigger. *)
AdministrationTrigger(u, row, ms) ==
  row.role = "Admin" <=> <<u, Administration>> \in ms

CommitAdmin(s) ==
  LET a == adm[s] IN
  /\ RunningAdmin(s) /\ Idle(s) /\ a.plan = <<>> /\ a.depts = {}
  /\ DeletesFound(a)
  /\ AdministrationTrigger(a.user, UserAfter(a), MembersAfter(a))
  /\ tickets' = [t \in TicketIds |->
                   IF a.act[t] \in {"close", "deactivate"}
                   THEN ReconciledRow(tickets[t], a.act[t]) ELSE tickets[t]]
  /\ handoffs' = CancelPendingForTicket(SweptTickets(a))
  /\ users' = [users EXCEPT ![a.user] = UserAfter(a)]
  /\ members' = MembersAfter(a)
  /\ UNCHANGED <<activeDepts, log>>
  /\ Finish(s)

(* An error ends the transaction, at any point: a timeout, a row that is   *)
(* gone, the trigger, a deadlock.                                          *)
AbortAdmin(s) ==
  /\ RunningAdmin(s)
  /\ Finish(s)
  /\ UNCHANGED <<tables, log>>

(* The transactions of a set that wait for each other's locks only. *)
Deadlocked(s) ==
  \E D \in SUBSET Slots :
    /\ s \in D
    /\ \A x \in D : /\ RunningAdmin(x) /\ adm[x].todo # {}
                    /\ \A t \in adm[x].todo : lock[t] \in D \ {x}

(* PostgreSQL rolls back a deadlocked transaction and one whose last       *)
(* statements fail; these are the errors that are certain to come.         *)
RollBack(s) ==
  /\ RunningAdmin(s)
  /\ \/ Deadlocked(s)
     \/ Idle(s) /\ adm[s].plan = <<>> /\ adm[s].depts = {}
        /\ ~(/\ DeletesFound(adm[s])
             /\ AdministrationTrigger(adm[s].user, UserAfter(adm[s]),
                                      MembersAfter(adm[s])))
  /\ AbortAdmin(s)

AdminBegin(s) ==
  \E u \in Users :
    \/ \E role \in Roles : BeginSetRole(s, u, role)
    \/ BeginDeactivate(s, u)
    \/ BeginActivate(s, u)
    \/ \E d \in Departments : BeginAddMember(s, u, d) \/ BeginRemoveMember(s, u, d)

AdminStep(s) ==
  \/ UpdateUser(s) \/ StartSweep(s) \/ ReadMemberships(s) \/ SweepDepartment(s)
  \/ ReadAdministration(s) \/ LockNext(s) \/ CommitAdmin(s)
=============================================================================
