-------------------------- MODULE DepartmentStatus --------------------------
(***************************************************************************)
(* AdministrationService.setDepartmentActive: a transaction that reads the *)
(* department with one of its active tickets, locking neither, and then    *)
(* updates the department.                                                 *)
(***************************************************************************)
EXTENDS TicketStore

VARIABLE dreq     \* the change of a department's status each slot is making

NoDepartmentTx == [op |-> "idle"]

DepartmentTx == [op : {"setDepartment"}, dept : Departments, active : BOOLEAN]

DepartmentTypeOK == dreq \in [Slots -> DepartmentTx \cup {NoDepartmentTx}]

DepartmentInit == dreq = [s \in Slots |-> NoDepartmentTx]

RunningDepartment(s) == dreq[s].op # "idle"

(* Mutation: only tickets that are not closed count. *)
BugHasUnclosedTicket(d) ==
  \E t \in TicketIds : /\ Exists(t) /\ tickets[t].active /\ tickets[t].dept = d
                       /\ tickets[t].status # "CLOSED"

(* A closed ticket is active, too: it can be reopened. *)
HasActiveTicket(d) ==
  \E t \in TicketIds : Exists(t) /\ tickets[t].active /\ tickets[t].dept = d

BeginSetDepartment(s, d, active) ==
  /\ "setDepartment" \in Workload
  /\ \E a \in Users : users[a].active /\ users[a].role = "Admin"
  /\ d # Administration
  /\ (d \in activeDepts) # active
  /\ ~active => ~HasActiveTicket(d)
  /\ dreq' = [dreq EXCEPT ![s] = [op |-> "setDepartment", dept |-> d,
                                  active |-> active]]
  /\ UNCHANGED storeVars

CommitSetDepartment(s) ==
  /\ RunningDepartment(s)
  /\ activeDepts' = IF dreq[s].active THEN activeDepts \cup {dreq[s].dept}
                                      ELSE activeDepts \ {dreq[s].dept}
  /\ dreq' = [dreq EXCEPT ![s] = NoDepartmentTx]
  /\ UNCHANGED <<tickets, handoffs, users, members, lock, log>>

DepartmentBegin(s) ==
  \E d \in Departments, active \in BOOLEAN : BeginSetDepartment(s, d, active)
=============================================================================
