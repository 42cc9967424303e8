---------------------------- MODULE MembershipTool ----------------------------
(***************************************************************************)
(* The command line tool of the operators next to the application: both    *)
(* change the role of one user and the departments it belongs to.  The     *)
(* application locks the user first.  The tool shows the user, asks, and   *)
(* then saves in a transaction that reads the memberships and the role     *)
(* again, each statement seeing what is committed by then.  Triggers of the*)
(* database, deferred to the commit, tie the Administration department to  *)
(* the role.                                                               *)
(***************************************************************************)
EXTENDS FiniteSets, Naturals

CONSTANTS
  Ordinary,       \* departments
  Administration, \* ADMINISTRATION_DEPARTMENT_ID
  Operators,      \* BOUND: runs of the tool
  MaxAppChanges,  \* BOUND: changes by the application
  NoOperator

ASSUME MembershipAssumption ==
  Administration \notin Ordinary /\ NoOperator \notin Operators /\ MaxAppChanges \in Nat

VARIABLES
  role,       \* of the user, "none" before it exists
  member,     \* its departments
  tool,       \* the runs of the tool
  rowLock,    \* the run whose transaction has updated the user
  appChanges

toolVars == <<role, member, tool, rowLock, appChanges>>

UserRoles == {"Employee", "Agent", "Admin"}

DepartmentIds == Ordinary \cup {Administration}

(* shown: the user as it was shown; role, chosen: what is to be saved;     *)
(* current, read: the memberships and the role the transaction reads;      *)
(* overtaken: the role has changed since the user was shown, or the        *)
(* memberships since they were read (history).                             *)
Run ==
  [step : {"menu", "shown", "ready", "sync", "listed", "apply"},
   change : {"role", "departments"}, role : UserRoles, chosen : SUBSET Ordinary,
   current : SUBSET DepartmentIds, read : UserRoles, overtaken : BOOLEAN]

ToolTypeOK ==
  /\ role \in UserRoles \cup {"none"} /\ member \subseteq DepartmentIds
  /\ tool \in [Operators -> Run] /\ rowLock \in Operators \cup {NoOperator}
  /\ appChanges \in 0 .. MaxAppChanges

NoRun ==
  [step |-> "menu", change |-> "role", role |-> "Employee", chosen |-> {}, current |-> {},
   read |-> "Employee", overtaken |-> FALSE]

ToolInit ==
  /\ role = "none" /\ member = {} /\ tool = [o \in Operators |-> NoRun]
  /\ rowLock = NoOperator /\ appChanges = 0

-----------------------------------------------------------------------------
(* The rows *)

UsesDepartments(r) == r \in {"Agent", "Admin"}

(* Mutation: the triggers are missing. *)
BugTriggersHold(r, departments) == TRUE

(* ensureAdministrationMembership *)
WithAdministration(r, chosen) ==
  chosen \cup (IF r = "Admin" THEN {Administration} ELSE {})

(* What the triggers let commit. *)
TriggersHold(r, departments) == r = "Admin" <=> Administration \in departments

(* The runs that have shown or read something else. *)
Overtaken(runs, r, departments) ==
  [o \in Operators |->
     [runs[o] EXCEPT !.overtaken =
        \/ @
        \/ runs[o].step # "menu" /\ r # role
        \/ runs[o].step \in {"listed", "apply"} /\ departments # member]]

-----------------------------------------------------------------------------
(* The application, each change in one transaction that waits for the user *)

AppChange(r, departments) ==
  /\ role # "none" /\ rowLock = NoOperator
  /\ appChanges < MaxAppChanges /\ appChanges' = appChanges + 1
  /\ TriggersHold(r, departments)
  /\ role' = r /\ member' = departments /\ tool' = Overtaken(tool, r, departments)
  /\ UNCHANGED rowLock

(* mapRole: an employee leaves all departments. *)
MapRole(r) ==
  /\ role # r
  /\ AppChange(r, CASE r = "Employee" -> {}
                    [] r = "Agent" -> member \ {Administration}
                    [] r = "Admin" -> member \cup {Administration})

AddMembership(d) == role # "Employee" /\ AppChange(role, member \cup {d})

RemoveMembership(d) == d \in member /\ AppChange(role, member \ {d})

-----------------------------------------------------------------------------
(* The tool *)

OnlyTool == UNCHANGED <<role, member, rowLock, appChanges>>

(* addUser *)
AddUser(o, r, chosen) ==
  /\ tool[o].step = "menu" /\ role = "none"
  /\ UsesDepartments(r) \/ chosen = {}
  /\ role' = r
  /\ member' = WithAdministration(r, chosen)
  /\ TriggersHold(role', member')
  /\ UNCHANGED <<tool, rowLock, appChanges>>

(* modifyUser finds the user and shows it. *)
ShowUser(o) ==
  /\ tool[o].step = "menu" /\ role # "none"
  /\ tool' = [tool EXCEPT ![o] = [NoRun EXCEPT !.step = "shown", !.read = role]]
  /\ OnlyTool

(* changeUserRole and changeUserDepartments up to the confirmation.  An    *)
(* employee is not offered departments; nobody is offered Administration.  *)
Choose(o, change, r, chosen) ==
  /\ tool[o].step = "shown"
  /\ change = "departments" => tool[o].read # "Employee" /\ r = tool[o].read
  /\ UsesDepartments(r) \/ chosen = {}
  /\ tool' = [tool EXCEPT ![o].step = "ready", ![o].change = change,
                          ![o].role = r, ![o].chosen = chosen]
  /\ OnlyTool

Cancel(o) ==
  /\ tool[o].step \in {"shown", "ready"} /\ tool' = [tool EXCEPT ![o] = NoRun] /\ OnlyTool

(* The transaction begins; a change of the role updates the user.          *)
BeginSave(o) ==
  /\ tool[o].step = "ready"
  /\ tool' = [tool EXCEPT ![o].step = "sync"]
  /\ IF tool[o].change = "role" THEN rowLock = NoOperator /\ rowLock' = o
                                ELSE UNCHANGED rowLock
  /\ UNCHANGED <<role, member, appChanges>>

(* syncDepartmentMemberships reads the memberships, *)
ListMemberships(o) ==
  /\ tool[o].step = "sync"
  /\ tool' = [tool EXCEPT ![o].step = "listed", ![o].current = member]
  /\ OnlyTool

(* and then the role, its own if it has changed it. *)
ReadRole(o) ==
  /\ tool[o].step = "listed"
  /\ tool' = [tool EXCEPT ![o].step = "apply",
                          ![o].read = IF rowLock = o THEN tool[o].role ELSE role]
  /\ OnlyTool

Desired(o) == WithAdministration(tool[o].read, tool[o].chosen)

(* Rows that are deleted and created stay locked until the commit, so that *)
(* is one step.  A row that is there by now, or a trigger, undoes it all.  *)
Apply(o) ==
  LET toAdd == Desired(o) \ tool[o].current
      r     == IF rowLock = o THEN tool[o].role ELSE role
      after == (member \ (tool[o].current \ Desired(o))) \cup toAdd
      saved == toAdd \cap member = {} /\ TriggersHold(r, after)
  IN /\ tool[o].step = "apply"
     /\ role' = IF saved THEN r ELSE role
     /\ member' = IF saved THEN after ELSE member
     /\ rowLock' = IF rowLock = o THEN NoOperator ELSE rowLock
     /\ tool' = Overtaken([tool EXCEPT ![o] = NoRun], role', member')
     /\ UNCHANGED appChanges

ToolNext ==
  \/ \E r \in UserRoles : MapRole(r)
  \/ \E d \in Ordinary : AddMembership(d) \/ RemoveMembership(d)
  \/ \E o \in Operators :
       \/ \E r \in UserRoles, chosen \in SUBSET Ordinary :
            \/ AddUser(o, r, chosen)
            \/ \E change \in {"role", "departments"} : Choose(o, change, r, chosen)
       \/ ShowUser(o) \/ Cancel(o) \/ BeginSave(o) \/ ListMemberships(o) \/ ReadRole(o)
       \/ Apply(o)

ToolSpec == ToolInit /\ [][ToolNext]_toolVars

-----------------------------------------------------------------------------
(* Properties *)

(* Administrators, and nobody else, are in the Administration department,  *)
(* whatever the application and runs of the tool do at the same time; and  *)
(* only a save that was overtaken by another change leaves an employee in  *)
(* a department.                                                           *)
MembershipsAgree ==
  [][/\ role' # "none" => (role' = "Admin" <=> Administration \in member')
     /\ (role' = "Employee" /\ member' # {} /\ (role # "Employee" \/ member = {}))
          => \E o \in Operators :
               tool[o].step = "apply" /\ tool'[o].step = "menu" /\ tool[o].overtaken]_toolVars

=============================================================================
