--------------------------- MODULE MCTicketSystem ---------------------------
(***************************************************************************)
(* Instances of TicketSystem for TLC.  sub submits, ann and ada can be     *)
(* agents of the departments it, hr; ada is an administrator.              *)
(***************************************************************************)
EXTENDS TicketSystem, TLC

CONSTANTS sub, ann, ada, it, hr, admins

Row(role) == [role |-> role, active |-> TRUE]

(* An employee, an agent and an administrator. *)
MCUsers == (sub :> Row("Employee")) @@ (ann :> Row("Agent")) @@ (ada :> Row("Admin"))

(* The two that can be agents. *)
MCPair == (ann :> Row("Agent")) @@ (ada :> Row("Admin"))

(* Both agents in one department, so that each can take a ticket over. *)
MCMembers == {<<ann, it>>, <<ada, it>>, <<ada, admins>>}

(* The agents ann and ada are both administrators. *)
MCTwoAdmins == (sub :> Row("Employee")) @@ (ann :> Row("Admin")) @@ (ada :> Row("Admin"))

MCTwoAdminMembers == {<<ann, admins>>, <<ada, admins>>, <<ann, it>>, <<ada, it>>}

MCLifecycle == {"submit", "claim", "close", "reopen", "modify", "cancel"}

MCHandoff == {"request", "accept", "reject", "withdraw"}

MCAdmin == {"setRole", "deactivate", "activate", "addMember", "removeMember"}

MCTicketRequests == MCLifecycle \cup MCHandoff \cup {"remind"}

MCReconciliation ==
  {"submit", "claim", "close", "cancel", "request", "accept", "deactivate",
   "removeMember"}

MCContents == MCLifecycle \cup {"setDepartment"}

MCSerialRequests ==
  {"submit", "claim", "modify", "cancel", "close", "reopen", "request",
   "accept", "setDepartment"} \cup MCAdmin

MCReminders == (MCLifecycle \ {"modify"}) \cup {"remind", "deactivate"}

MCSweeps == {"submit", "claim", "request", "removeMember"}

MCClaimModify == {"submit", "modify", "claim"}

MCSymmetry == Permutations(Slots) \cup Permutations(Contents) \cup Permutations(HandoffIds)
=============================================================================
