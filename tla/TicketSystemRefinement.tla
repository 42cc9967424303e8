-------------------------- MODULE TicketSystemRefinement --------------------------
(***************************************************************************)
(* What every step of TicketSystem does, proved from the invariant of      *)
(* TicketSystemProofs: resolved handoffs and other users' tickets are left *)
(* alone, and the services implement TicketProtocol.                       *)
(***************************************************************************)
EXTENDS TicketSystemProofs

-----------------------------------------------------------------------------
(* Action properties. *)

(* The steps that write tickets or handoffs. *)
LEMMA WritingSteps ==
  ASSUME [Next]_vars
  PROVE  \/ UNCHANGED <<tickets, handoffs>>
         \/ \E s \in Slots : CommitAdmin(s)
         \/ /\ UNCHANGED adm
            /\ \/ \E s \in Slots :
                    \/ CommitSubmit(s) \/ CommitClaim(s) \/ CommitSave(s)
                    \/ CommitRequest(s) \/ CommitAccept(s) \/ CommitResolve(s)
               \/ \E w \in Workers : \E c \in candidates[w] : Remind(w, c)
<1> USE DEF storeVars, tables
<1>1. ASSUME NEW s \in Slots, LifecycleNext(s)
      PROVE  /\ UNCHANGED adm
             /\ \/ UNCHANGED <<tickets, handoffs>>
                \/ CommitSubmit(s) \/ CommitClaim(s) \/ CommitSave(s)
  <2>1. ASSUME NEW op, NEW u, NEW t, NEW row, NEW override, Begin(s, op, u, t, row, override)
        PROVE  UNCHANGED <<tickets, handoffs>>
    BY <2>1 DEF Begin
  <2>2. LifecycleStart(s) => UNCHANGED <<tickets, handoffs>>
    <3>1. ASSUME NEW u, NEW t, StartClaim(s, u, t)  PROVE UNCHANGED <<tickets, handoffs>>
      BY <2>1, <3>1 DEF StartClaim
    <3>2. ASSUME NEW u, NEW t, StartClose(s, u, t)  PROVE UNCHANGED <<tickets, handoffs>>
      BY <3>2 DEF StartClose, Begin
    <3>3. ASSUME NEW u, NEW t, StartCancel(s, u, t)  PROVE UNCHANGED <<tickets, handoffs>>
      BY <2>1, <3>3 DEF StartCancel
    <3>4. ASSUME NEW u, NEW t, NEW c, StartReopen(s, u, t, c)
          PROVE  UNCHANGED <<tickets, handoffs>>
      BY <2>1, <3>4 DEF StartReopen
    <3>5. ASSUME NEW u, NEW t, NEW c, NEW d, StartSubmit(s, u, t, d, c)
          PROVE  UNCHANGED <<tickets, handoffs>>
      BY <2>1, <3>5 DEF StartSubmit
    <3>6. ASSUME NEW u, NEW t, NEW c, NEW d, StartModify(s, u, t, c, d)
          PROVE  UNCHANGED <<tickets, handoffs>>
      BY <2>1, <3>6 DEF StartModify
    <3> QED  BY <3>1, <3>2, <3>3, <3>4, <3>5, <3>6 DEF LifecycleStart
  <2>3. Conflict(s) => UNCHANGED <<tickets, handoffs>>
    BY DEF Conflict
  <2> QED  BY <1>1, <2>2, <2>3 DEF LifecycleNext, LifecycleCommit
<1>2. ASSUME NEW s \in Slots, HandoffNext(s)
      PROVE  /\ UNCHANGED adm
             /\ \/ UNCHANGED <<tickets, handoffs>>
                \/ CommitRequest(s) \/ CommitAccept(s) \/ CommitResolve(s)
  <2>1. HandoffBegin(s) => UNCHANGED <<tickets, handoffs>>
    BY DEF HandoffBegin, BeginRequest, BeginAccept, BeginReject, BeginWithdraw, BeginHandoff
  <2>2. AbortHandoff(s) => UNCHANGED <<tickets, handoffs>>
    BY DEF AbortHandoff
  <2> QED  BY <1>2, <2>1, <2>2 DEF HandoffNext, HandoffCommit
<1>3. ASSUME NEW s \in Slots, AdminNext(s)
      PROVE  UNCHANGED <<tickets, handoffs>> \/ CommitAdmin(s)
  <2>1. AdminBegin(s) => UNCHANGED <<tickets, handoffs>>
    BY DEF AdminBegin, BeginSetRole, BeginDeactivate, BeginActivate, BeginAddMember,
           BeginRemoveMember, BeginAdmin
  <2>2. UpdateUser(s) \/ StartSweep(s) \/ ReadMemberships(s) \/ SweepDepartment(s)
        \/ ReadAdministration(s) => UNCHANGED <<tickets, handoffs>>
    BY DEF UpdateUser, StartSweep, ReadMemberships, SweepDepartment, ReadAdministration
  <2>3. LockNext(s) \/ AbortAdmin(s) => UNCHANGED <<tickets, handoffs>>
    BY DEF LockNext, AbortAdmin
  <2> QED  BY <1>3, <2>1, <2>2, <2>3 DEF AdminNext, AdminStep
<1>4. ASSUME NEW s \in Slots, DepartmentNext(s)
      PROVE  UNCHANGED <<tickets, handoffs>>
  BY <1>4 DEF DepartmentNext, DepartmentBegin, BeginSetDepartment, CommitSetDepartment
<1>5. CASE WorkerNext
  BY <1>5 DEF WorkerNext, ReminderNext, FindCandidates, Skip
<1>6. CASE Crash \/ UNCHANGED vars
  BY <1>6 DEF Crash, vars
<1> QED  BY <1>1, <1>2, <1>3, <1>4, <1>5, <1>6 DEF Next

LEMMA StepResolvesOnce ==
  ASSUME IndInv, [Next]_vars, NEW h \in HandoffIds,
         handoffs[h].status \in {"ACCEPTED", "REJECTED", "CANCELLED"}
  PROVE  handoffs'[h] = handoffs[h]
<1>0. TypeOK /\ handoffs \in [HandoffIds -> HandoffRow \cup {NoHandoff}]
  BY DEF IndInv, TypeOK, StoreTypeOK
<1>1. ~IsPending(h) /\ handoffs[h] # NoHandoff
  BY DEF IsPending, NoHandoff
<1>2. \A T : CancelPendingForTicket(T)[h] = handoffs[h]
  BY <1>1 DEF CancelPendingForTicket, PendingOf
<1>3. ASSUME NEW s \in Slots, RunningHandoff(s)
      PROVE  hreq[s].handoff # h /\ hreq[s].handoff \in HandoffIds
  BY <1>1, <1>3, HandoffFacts DEF HandoffReads
<1>4. ASSUME NEW s \in Slots, CommitSubmit(s) \/ CommitClaim(s) \/ CommitSave(s) \/ CommitAdmin(s)
      PROVE  handoffs'[h] = handoffs[h]
  BY <1>2, <1>4 DEF CommitSubmit, CommitClaim, CommitSave, CommitAdmin
<1>5. ASSUME NEW s \in Slots, CommitRequest(s) \/ CommitResolve(s)
      PROVE  handoffs'[h] = handoffs[h]
  BY <1>0, <1>3, <1>5 DEF CommitRequest, CommitResolve, RunningHandoff
<1>6. ASSUME NEW s \in Slots, CommitAccept(s)
      PROVE  handoffs'[h] = handoffs[h]
  <2> DEFINE swept == CancelPendingForTicket({hreq[s].ticket})
  <2>1. hreq[s].handoff # h /\ handoffs' = [swept EXCEPT ![hreq[s].handoff].status = "ACCEPTED"]
    BY <1>3, <1>6 DEF CommitAccept, RunningHandoff
  <2>2. swept[h] = handoffs[h] /\ swept = [g \in HandoffIds |-> swept[g]]
    BY <1>2 DEF CancelPendingForTicket
  <2> HIDE DEF swept
  <2> QED  BY <2>1, <2>2
<1>7. ASSUME NEW w \in Workers, NEW c \in candidates[w], Remind(w, c)
      PROVE  handoffs'[h] = handoffs[h]
  BY <1>7 DEF Remind
<1> QED  BY <1>4, <1>5, <1>6, <1>7, WritingSteps

(* A resolved handoff request is final.  updateStatus overwrites whatever  *)
(* status it finds, so this rests on what the invariant says of a running  *)
(* handoff transaction: its request is still pending.                      *)
THEOREM ResolvedForGood == Spec => ResolvedOnce
<1>1. IndInv /\ [Next]_vars =>
        [\A h \in HandoffIds :
           handoffs[h].status \in {"ACCEPTED", "REJECTED", "CANCELLED"}
             => handoffs'[h] = handoffs[h]]_handoffs
  BY StepResolvesOnce
<1> QED  BY <1>1, Invariance, PTL DEF Spec, ResolvedOnce

LEMMA StepSweepsOwn ==
  ASSUME IndInv, [Next]_vars, NEW s \in Slots, NEW t \in TicketIds,
         RunningAdmin(s), ~RunningAdmin(s)', tickets'[t] # tickets[t]
  PROVE  adm[s].user \in {tickets[t].agent, tickets[t].submitter}
<1>1. UNCHANGED adm => RunningAdmin(s)'
  BY DEF RunningAdmin
<1>2. PICK x \in Slots : CommitAdmin(x)
  BY <1>1, WritingSteps
<1>3. RunningAdmin(x) /\ adm' = [adm EXCEPT ![x] = NoAdminTx]
  BY <1>2 DEF CommitAdmin, Finish
<1>4. x = s
  BY <1>3 DEF RunningAdmin, IndInv, TypeOK, AdminTypeOK
<1>5. adm[s].act[t] \in {"close", "deactivate"}
  BY <1>2, <1>4 DEF CommitAdmin
<1>6. Deserved(adm[s].act[t], tickets[t], adm[s].user)
  BY DEF IndInv, AdminLocked
<1> QED  BY <1>5, <1>6 DEF Deserved, SubmittedBy, ClaimedBy

(* A reconciliation closes or cancels tickets of its own user only: what   *)
(* it decided on a locked row is still true of that row when it commits.   *)
THEOREM SweepsOwnTickets == Spec => OnlyOwnTicketsSwept
<1>1. IndInv /\ [Next]_vars =>
        [\A s \in Slots, t \in TicketIds :
           (RunningAdmin(s) /\ ~RunningAdmin(s)' /\ tickets'[t] # tickets[t])
             => adm[s].user \in {tickets[t].agent, tickets[t].submitter}]_vars
  BY StepSweepsOwn
<1> QED  BY <1>1, Invariance, PTL DEF Spec, OnlyOwnTicketsSwept

-----------------------------------------------------------------------------
(* The refinement of TicketProtocol. *)

(* What the abstract variables can be after a step. *)
LEMMA ViewsNext ==
  ASSUME TypeOK', NEW t \in TicketIds
  PROVE  /\ PhaseOf(tickets'[t]) \in Protocol!Phases
         /\ HolderOf(tickets'[t]) \in Users \cup {NoUser}
         /\ OffersOf(t)' \in SUBSET Users
<1>1. tickets'[t] = NoTicket \/ tickets'[t] \in TicketRow
  BY DEF TypeOK, StoreTypeOK
<1>2. PhaseOf(tickets'[t]) \in Protocol!Phases
  BY <1>1, NullRows DEF PhaseOf, Protocol!Phases, TicketRow, TicketStatus
<1>3. HolderOf(tickets'[t]) \in Users \cup {NoUser}
  BY <1>1 DEF HolderOf, TicketRow
<1>4. \A h \in HandoffIds : IsPending(h)' => handoffs'[h] \in HandoffRow
  BY DEF TypeOK, StoreTypeOK, IsPending, NoHandoff
<1>5. OffersOf(t)' \in SUBSET Users
  BY <1>4 DEF OffersOf, PendingOf, HandoffRow
<1> QED  BY <1>2, <1>3, <1>5

(* The phases of rows. *)
LEMMA PhaseFacts ==
  ASSUME NEW row \in TicketRow
  PROVE  /\ ~row.active => PhaseOf(row) = "cancelled"
         /\ row.active /\ row.status \in {"OPEN", "REOPENED"} => PhaseOf(row) = "unclaimed"
         /\ row.active /\ row.status = "CLAIMED" => PhaseOf(row) = "held"
         /\ row.active /\ row.status = "CLOSED" => PhaseOf(row) = "closed"
         /\ HolderOf(row) = row.agent
<1>1. row # NoTicket
  BY NullRows
<1>2. ~row.active => PhaseOf(row) = "cancelled"
  BY <1>1 DEF PhaseOf
<1>3. row.active /\ row.status \in {"OPEN", "REOPENED"} => PhaseOf(row) = "unclaimed"
  BY <1>1 DEF PhaseOf
<1>4. row.active /\ row.status = "CLAIMED" => PhaseOf(row) = "held"
  BY <1>1 DEF PhaseOf
<1>5. row.active /\ row.status = "CLOSED" => PhaseOf(row) = "closed"
  BY <1>1 DEF PhaseOf
<1>6. HolderOf(row) = row.agent
  BY <1>1 DEF HolderOf
<1> QED  BY <1>2, <1>3, <1>4, <1>5, <1>6

(* Only a ticket that is held has offers. *)
LEMMA NoOffersNext ==
  ASSUME IndInv', NEW t \in TicketIds,
         tickets'[t] = NoTicket \/ ~(tickets'[t].active /\ tickets'[t].status = "CLAIMED")
  PROVE  OffersOf(t)' = {}
  BY DEF IndInv, PendingHandoffsLive, HandoffLive, OffersOf, PendingOf

(* A ticket whose pending requests a step leaves alone. *)
LEMMA SameOffers ==
  ASSUME NEW t \in TicketIds,
         \A h \in HandoffIds :
           \/ IsPending(h) /\ handoffs[h].ticket = t
           \/ IsPending(h)' /\ handoffs'[h].ticket = t
           => handoffs'[h] = handoffs[h]
  PROVE  OffersOf(t)' = OffersOf(t)
<1>1. \A h \in HandoffIds : h \in PendingOf({t}) <=> h \in PendingOf({t})'
  BY DEF PendingOf, IsPending
<1>2. \A h \in PendingOf({t}) : handoffs'[h].target = handoffs[h].target
  BY DEF PendingOf
<1>3. PendingOf({t})' = PendingOf({t})
  BY <1>1 DEF PendingOf
<1> QED  BY <1>2, <1>3 DEF OffersOf

LEMMA StaysMove ==
  ASSUME NEW t \in TicketIds,
         PhaseOf(tickets'[t]) = PhaseOf(tickets[t]),
         HolderOf(tickets'[t]) = HolderOf(tickets[t]),
         OffersOf(t)' = OffersOf(t) \/ OffersOf(t)' = {}
  PROVE  Protocol!Move(t)
  BY DEF Protocol!Move, Protocol!Stays, Protocol!WithdrawAll

(* A ticket that gets back to nobody, and the move that brings it there.   *)
LEMMA ReleaseMove ==
  ASSUME NEW t \in TicketIds,
         OffersOf(t)' = {}, HolderOf(tickets'[t]) = NoUser,
         \/ PhaseOf(tickets[t]) = "none" /\ PhaseOf(tickets'[t]) = "unclaimed"
         \/ PhaseOf(tickets[t]) = "held" /\ PhaseOf(tickets'[t]) = "closed"
         \/ PhaseOf(tickets[t]) = "closed" /\ PhaseOf(tickets'[t]) = "unclaimed"
         \/ /\ PhaseOf(tickets[t]) \in {"unclaimed", "held"}
            /\ PhaseOf(tickets'[t]) = "cancelled"
  PROVE  Protocol!Move(t)
  BY DEF Protocol!Move, Protocol!Submit, Protocol!Close, Protocol!Reopen, Protocol!Cancel,
         Protocol!Release

LEMMA LifecycleMoves ==
  ASSUME IndInv, IndInv', NEW s \in Slots, NEW t \in TicketIds,
         CommitSubmit(s) \/ CommitClaim(s) \/ CommitSave(s)
  PROVE  Protocol!Move(t)
<1>0. TypeOK /\ TypeOK' /\ RequestsKnown /\ TicketsConsistent /\ TicketsConsistent'
      /\ PendingHandoffsLive
  BY DEF IndInv
<1>1. /\ Serving(s) /\ req[s].ticket \in TicketIds
      /\ \A x \in TicketIds \ {req[s].ticket} : tickets'[x] = tickets[x]
  BY <1>0, Rows DEF CommitSubmit, CommitClaim, CommitSave, Serving, SaveOps, LifecycleRequest,
                    TypeOK, StoreTypeOK
<1>2. CASE t # req[s].ticket
  <2>1. \A h \in HandoffIds :
          \/ IsPending(h) /\ handoffs[h].ticket = t
          \/ IsPending(h)' /\ handoffs'[h].ticket = t
          => handoffs'[h] = handoffs[h]
    <3> DEFINE swept == CancelPendingForTicket({req[s].ticket})
    <3>1. handoffs' = handoffs \/ handoffs' = swept
      BY DEF CommitSubmit, CommitClaim, CommitSave
    <3>2. \A h \in HandoffIds :
            /\ swept[h] # handoffs[h] => IsPending(h) /\ handoffs[h].ticket = req[s].ticket
            /\ swept[h].status = "PENDING" => swept[h] = handoffs[h]
      BY <1>0, <1>1, Cancelled
    <3> HIDE DEF swept
    <3> QED  BY <1>2, <3>1, <3>2 DEF IsPending
  <2>2. OffersOf(t)' = OffersOf(t)
    BY <2>1, SameOffers
  <2> QED  BY <1>1, <1>2, <2>2, StaysMove
<1>3. CASE t = req[s].ticket /\ CommitSubmit(s)
  <2>1. /\ tickets'[t] = req[s].row /\ req[s].row \in TicketRow /\ tickets[t] = NoTicket
        /\ req[s].row.active /\ req[s].row.status = "OPEN" /\ RowConsistent(req[s].row)
    BY <1>0, <1>1, <1>3, Rows
       DEF CommitSubmit, LifecycleRequest, RequestsKnown, WritesFor, Exists, TypeOK, StoreTypeOK
  <2>2. /\ PhaseOf(tickets[t]) = "none" /\ PhaseOf(tickets'[t]) = "unclaimed"
        /\ HolderOf(tickets'[t]) = NoUser
    BY <2>1, PhaseFacts DEF PhaseOf, RowConsistent
  <2>3. OffersOf(t)' = {}
    BY <2>1, NoOffersNext
  <2> QED  BY <2>2, <2>3, ReleaseMove
<1>4. CASE t = req[s].ticket /\ CommitClaim(s)
  <2>1. /\ tickets[t] \in TicketRow /\ ClaimIfAvailable(tickets[t]) /\ UNCHANGED handoffs
        /\ req[s].actor \in Users /\ tickets'[t] = ClaimedRow(tickets[t], req[s].actor)
    BY <1>0, <1>1, <1>4, Rows
       DEF CommitClaim, LifecycleRequest, RequestsKnown, TypeOK, StoreTypeOK
  <2>2. tickets'[t] \in TicketRow
    BY <2>1, WrittenRows
  <2>3. /\ tickets'[t].active /\ tickets'[t].status = "CLAIMED"
        /\ tickets'[t].agent = req[s].actor
    BY <2>1 DEF ClaimedRow, ClaimIfAvailable, TicketRow
  <2>4. /\ PhaseOf(tickets[t]) = "unclaimed" /\ PhaseOf(tickets'[t]) = "held"
        /\ HolderOf(tickets'[t]) = req[s].actor
    BY <2>1, <2>2, <2>3, PhaseFacts DEF ClaimIfAvailable, Unclaimed
  <2>5. OffersOf(t)' = OffersOf(t)
    BY <2>1, SameOffers
  <2> QED  BY <2>1, <2>4, <2>5 DEF Protocol!Move, Protocol!Claim
<1>5. CASE t = req[s].ticket /\ CommitSave(s)
  <2> DEFINE op == req[s].op
             row == SavedRow(req[s])
  <2>1. /\ tickets[t] \in TicketRow /\ SaveAllowed(req[s], tickets[t]) /\ op \in SaveOps
        /\ tickets'[t] = row /\ row \in TicketRow /\ RowConsistent(row)
    BY <1>0, <1>1, <1>5, Rows, SavedRowConsistent
       DEF CommitSave, LifecycleRequest, RequestsKnown, SaveOps, TypeOK, StoreTypeOK
  <2>2. /\ op = "modify" => row.active /\ row.status = "OPEN"
        /\ op = "reopen" => row.active /\ row.status = "REOPENED"
        /\ op = "close" => row.active /\ row.status = "CLOSED"
        /\ op = "cancel" => ~row.active
    <3>1. WritesFor(op, req[s].row) /\ req[s].row \in TicketRow
      BY <1>0, <1>1, Rows DEF RequestsKnown, LifecycleRequest
    <3>2. row.active = req[s].row.active /\ row.status = req[s].row.status
      BY <3>1 DEF SavedRow, TicketRow
    <3> QED  BY <3>1, <3>2 DEF WritesFor
  <2>3. HolderOf(tickets'[t]) = NoUser
    BY <2>1, <2>2, PhaseFacts DEF RowConsistent, SaveOps
  <2>4. OffersOf(t)' = {}
    BY <2>1, <2>2, NoOffersNext DEF SaveOps
  <2>5. CASE op = "close"
    BY <2>1, <2>2, <2>3, <2>4, <2>5, PhaseFacts, ReleaseMove DEF SaveAllowed
  <2>6. CASE op = "reopen"
    BY <2>1, <2>2, <2>3, <2>4, <2>6, PhaseFacts, ReleaseMove DEF SaveAllowed
  <2>7. CASE op = "cancel"
    BY <2>1, <2>2, <2>3, <2>4, <2>7, PhaseFacts, ReleaseMove DEF SaveAllowed
  <2>8. CASE op = "modify"
    BY <2>1, <2>2, <2>3, <2>4, <2>8, PhaseFacts, StaysMove DEF SaveAllowed
  <2> QED  BY <2>1, <2>5, <2>6, <2>7, <2>8 DEF SaveOps
<1> QED  BY <1>2, <1>3, <1>4, <1>5

(* A handoff transaction writes its request, and cancels others of the     *)
(* same ticket only.                                                       *)
LEMMA OtherTicketMoves ==
  ASSUME IndInv, NEW s \in Slots, RunningHandoff(s),
         CommitRequest(s) \/ CommitAccept(s) \/ CommitResolve(s),
         NEW t \in TicketIds, t # hreq[s].ticket
  PROVE  Protocol!Move(t)
<1> DEFINE r == hreq[s]
           swept == CancelPendingForTicket({hreq[s].ticket})
<1>0. TypeOK /\ handoffs \in [HandoffIds -> HandoffRow \cup {NoHandoff}]
  BY DEF IndInv, TypeOK, StoreTypeOK
<1>1. r.ticket \in TicketIds /\ r.handoff \in HandoffIds /\ HandoffReads(s)
  BY HandoffFacts
<1>2. tickets'[t] = tickets[t]
  BY <1>0, <1>1 DEF CommitRequest, CommitAccept, CommitResolve, TypeOK, StoreTypeOK
<1>3. /\ swept \in [HandoffIds -> HandoffRow \cup {NoHandoff}]
      /\ \A h \in HandoffIds :
           /\ swept[h] # handoffs[h] => IsPending(h) /\ handoffs[h].ticket = r.ticket
           /\ swept[h].status = "PENDING" => swept[h] = handoffs[h]
  BY <1>0, <1>1, Cancelled
<1> HIDE DEF swept
<1>4. \A h \in HandoffIds \ {r.handoff} : handoffs'[h] = handoffs[h] \/ handoffs'[h] = swept[h]
  BY <1>0, <1>1, <1>3 DEF CommitRequest, CommitAccept, CommitResolve, swept
<1>5. /\ handoffs[r.handoff] # NoHandoff => handoffs[r.handoff].ticket = r.ticket
      /\ handoffs'[r.handoff].status = "PENDING" => handoffs'[r.handoff].ticket = r.ticket
  <2>1. handoffs[r.handoff] # NoHandoff => handoffs[r.handoff].ticket = r.ticket
    BY <1>1 DEF HandoffReads
  <2>2. CASE CommitRequest(s)
    BY <1>0, <1>1, <2>1, <2>2 DEF CommitRequest
  <2>3. CASE CommitAccept(s)
    <3>1. swept[r.handoff] \in HandoffRow
      <4>1. IsPending(r.handoff) /\ handoffs[r.handoff] \in HandoffRow
            /\ handoffs[r.handoff].ticket = r.ticket
        BY <2>3, HandoffFacts DEF CommitAccept
      <4>2. swept[r.handoff] = [handoffs[r.handoff] EXCEPT !.status = "CANCELLED"]
        BY <1>1, <4>1 DEF swept, CancelPendingForTicket, PendingOf
      <4> QED  BY <4>1, <4>2 DEF HandoffRow, HandoffStatus
    <3>2. handoffs'[r.handoff] = [swept[r.handoff] EXCEPT !.status = "ACCEPTED"]
      BY <1>1, <1>3, <2>3 DEF CommitAccept, swept
    <3>3. handoffs'[r.handoff].status = "ACCEPTED"
      BY <3>1, <3>2 DEF HandoffRow
    <3> QED  BY <2>1, <3>3
  <2>4. CASE CommitResolve(s)
    <3>1. handoffs[r.handoff] \in HandoffRow
      BY <2>4, HandoffFacts DEF CommitResolve
    <3>2. handoffs'[r.handoff].status \in {"REJECTED", "CANCELLED"}
      BY <1>0, <1>1, <2>4, <3>1 DEF CommitResolve, HandoffRow
    <3> QED  BY <2>1, <3>2
  <2> QED  BY <2>1, <2>2, <2>3, <2>4
<1>6. \A h \in HandoffIds :
        \/ IsPending(h) /\ handoffs[h].ticket = t
        \/ IsPending(h)' /\ handoffs'[h].ticket = t
        => handoffs'[h] = handoffs[h]
  BY <1>3, <1>4, <1>5, Rows, <1>0 DEF IsPending
<1> QED  BY <1>2, <1>6, SameOffers, StaysMove

LEMMA RequestMoves ==
  ASSUME IndInv, NEW s \in Slots, CommitRequest(s), NEW t \in TicketIds, t = hreq[s].ticket
  PROVE  Protocol!Move(t)
<1> DEFINE r == hreq[s]
           new == [status |-> "PENDING", ticket |-> r.ticket,
                   requester |-> r.actor, target |-> r.target]
<1>0. TypeOK /\ handoffs \in [HandoffIds -> HandoffRow \cup {NoHandoff}]
  BY DEF IndInv, TypeOK, StoreTypeOK
<1>1. /\ RunningHandoff(s) /\ r.op = "request" /\ UNCHANGED tickets
      /\ handoffs' = [handoffs EXCEPT ![r.handoff] = new]
  BY DEF CommitRequest, RunningHandoff
<1>2. /\ r.handoff \in HandoffIds /\ HandoffReads(s) /\ tickets[t] \in TicketRow
      /\ r.target \in Users
  BY <1>1, HandoffFacts
<1>3. PendingOf({t})' = PendingOf({t}) \cup {r.handoff} /\ r.handoff \notin PendingOf({t})
  <2>1. handoffs[r.handoff] = NoHandoff
    BY <1>1, <1>2 DEF HandoffReads
  <2>2. handoffs'[r.handoff] = new /\ \A h \in HandoffIds \ {r.handoff} : handoffs'[h] = handoffs[h]
    BY <1>0, <1>1, <1>2
  <2> QED  BY <1>2, <2>1, <2>2 DEF PendingOf, IsPending, NoHandoff
<1>4. OffersOf(t)' = OffersOf(t) \cup {r.target}
  <2>1. handoffs'[r.handoff].target = r.target
        /\ \A h \in PendingOf({t}) : handoffs'[h].target = handoffs[h].target
    BY <1>0, <1>1, <1>2, <1>3 DEF PendingOf
  <2> DEFINE P == PendingOf({t})
             asked(h) == handoffs'[h].target
  <2>2. OffersOf(t)' = {asked(h) : h \in P \cup {r.handoff}}
    BY <1>3 DEF OffersOf
  <2>3. OffersOf(t) = {handoffs[h].target : h \in P}
    BY DEF OffersOf
  <2> HIDE DEF P, r
  <2>4. {asked(h) : h \in P \cup {r.handoff}} = {asked(h) : h \in P} \cup {asked(r.handoff)}
    OBVIOUS
  <2>5. {asked(h) : h \in P} = {handoffs[h].target : h \in P}
    BY <2>1 DEF P
  <2> QED  BY <2>1, <2>2, <2>3, <2>4, <2>5
<1>5. r.target \notin OffersOf(t)
  BY <1>1, <1>2 DEF HandoffReads, OffersOf, PendingOf
<1>6. PhaseOf(tickets[t]) = "held" /\ HolderOf(tickets[t]) # r.target
  BY <1>1, <1>2, PhaseFacts DEF HandoffReads
<1>7. PhaseOf(tickets'[t]) = PhaseOf(tickets[t]) /\ HolderOf(tickets'[t]) = HolderOf(tickets[t])
  BY <1>1
<1> QED  BY <1>2, <1>4, <1>5, <1>6, <1>7 DEF Protocol!Move, Protocol!Offer, Protocol!Stays

LEMMA ResolveMoves ==
  ASSUME IndInv, NEW s \in Slots, CommitResolve(s), NEW t \in TicketIds, t = hreq[s].ticket
  PROVE  Protocol!Move(t)
<1> DEFINE r == hreq[s]
           v == handoffs[hreq[s].handoff].target
<1>0. TypeOK /\ NoDuplicatePending /\ handoffs \in [HandoffIds -> HandoffRow \cup {NoHandoff}]
  BY DEF IndInv, TypeOK, StoreTypeOK
<1>1. /\ RunningHandoff(s) /\ r.op # "request" /\ UNCHANGED tickets
      /\ \E status \in {"REJECTED", "CANCELLED"} :
           handoffs' = [handoffs EXCEPT ![r.handoff].status = status]
  BY DEF CommitResolve, RunningHandoff
<1>2. /\ r.handoff \in HandoffIds /\ handoffs[r.handoff] \in HandoffRow
      /\ IsPending(r.handoff) /\ handoffs[r.handoff].ticket = t /\ v \in Users
  BY <1>1, HandoffFacts DEF HandoffRow
<1>3. /\ handoffs'[r.handoff].status # "PENDING"
      /\ \A h \in HandoffIds \ {r.handoff} : handoffs'[h] = handoffs[h]
  BY <1>0, <1>1, <1>2 DEF HandoffRow
<1>4. /\ r.handoff \in PendingOf({t}) /\ PendingOf({t})' = PendingOf({t}) \ {r.handoff}
      /\ \A h \in PendingOf({t}) \ {r.handoff} :
           handoffs'[h].target = handoffs[h].target /\ handoffs[h].target # v
  BY <1>0, <1>2, <1>3 DEF PendingOf, IsPending, NoDuplicatePending
<1>5. v \in OffersOf(t) /\ OffersOf(t)' = OffersOf(t) \ {v}
  <2> DEFINE P == PendingOf({t})
             g == r.handoff
             old(h) == handoffs[h].target
  <2>1. OffersOf(t)' = {handoffs'[h].target : h \in P \ {g}}
    BY <1>4 DEF OffersOf
  <2>2. OffersOf(t) = {old(h) : h \in P}
    BY DEF OffersOf
  <2>3. g \in P /\ old(g) = v /\ \A h \in P \ {g} : handoffs'[h].target = old(h) /\ old(h) # v
    BY <1>4
  <2> HIDE DEF P, g, r, v
  <2>4. {handoffs'[h].target : h \in P \ {g}} = {old(h) : h \in P \ {g}}
    BY <2>3
  <2>5. {old(h) : h \in P \ {g}} = {old(h) : h \in P} \ {v}
    BY <2>3
  <2> QED  BY <2>1, <2>2, <2>3, <2>4, <2>5
<1>6. PhaseOf(tickets'[t]) = PhaseOf(tickets[t]) /\ HolderOf(tickets'[t]) = HolderOf(tickets[t])
  BY <1>1
<1> QED  BY <1>2, <1>5, <1>6 DEF Protocol!Move, Protocol!Withdraw, Protocol!Stays

LEMMA AcceptMoves ==
  ASSUME IndInv, NEW s \in Slots, CommitAccept(s), NEW t \in TicketIds, t = hreq[s].ticket
  PROVE  Protocol!Move(t)
<1> DEFINE r == hreq[s]
           row == [tickets[t] EXCEPT !.agent = r.target, !.status = "CLAIMED"]
           swept == CancelPendingForTicket({t})
<1>0. TypeOK /\ TicketsConsistent
  BY DEF IndInv
<1>1. /\ RunningHandoff(s) /\ r.op = "accept" /\ tickets' = [tickets EXCEPT ![t] = row]
      /\ handoffs' = [swept EXCEPT ![r.handoff].status = "ACCEPTED"]
  BY DEF CommitAccept, RunningHandoff
<1>2. /\ r.handoff \in HandoffIds /\ handoffs[r.handoff] \in HandoffRow
      /\ IsPending(r.handoff) /\ handoffs[r.handoff].ticket = t
      /\ tickets[t] \in TicketRow /\ r.target \in Users /\ HandoffReads(s)
      /\ HandoffLive(tickets[t], handoffs[r.handoff])
  BY <1>1, HandoffFacts
<1>3. /\ tickets'[t] = row /\ row \in TicketRow
      /\ row.agent = r.target /\ row.active = tickets[t].active /\ row.status = "CLAIMED"
  <2>1. row \in TicketRow
    BY <1>2, WrittenRows
  <2>2. row.agent = r.target /\ row.active = tickets[t].active /\ row.status = "CLAIMED"
    BY <1>2 DEF TicketRow
  <2> HIDE DEF row
  <2> QED  BY <1>0, <1>1, <2>1, <2>2 DEF TypeOK, StoreTypeOK
<1> HIDE DEF row
<1>4. /\ PhaseOf(tickets[t]) = "held" /\ PhaseOf(tickets'[t]) = "held"
      /\ HolderOf(tickets'[t]) = r.target
  BY <1>2, <1>3, PhaseFacts DEF HandoffLive
<1>5. r.target \in OffersOf(t)
  <2>1. handoffs[r.handoff].target = r.target
    BY <1>1, <1>2 DEF HandoffReads
  <2> QED  BY <1>2, <2>1 DEF OffersOf, PendingOf
<1>6. OffersOf(t)' = {}
  <2>1. /\ swept \in [HandoffIds -> HandoffRow \cup {NoHandoff}]
        /\ \A h \in HandoffIds :
             swept[h].status = "PENDING" => swept[h] = handoffs[h] /\ handoffs[h].ticket # t
    BY <1>0, Cancelled
  <2>2. swept[r.handoff] \in HandoffRow
    BY <1>2, <2>1 DEF CancelPendingForTicket, PendingOf, HandoffRow, HandoffStatus
  <2> HIDE DEF swept
  <2>3. /\ handoffs'[r.handoff].status = "ACCEPTED"
        /\ \A h \in HandoffIds \ {r.handoff} : handoffs'[h] = swept[h]
    BY <1>1, <1>2, <2>1, <2>2 DEF HandoffRow
  <2>4. PendingOf({t})' = {}
    BY <2>1, <2>3 DEF PendingOf, IsPending
  <2> QED  BY <2>4 DEF OffersOf
<1> QED  BY <1>2, <1>4, <1>5, <1>6 DEF Protocol!Move, Protocol!Transfer

LEMMA ReconciledFields ==
  ASSUME NEW row \in TicketRow
  PROVE  /\ (row.active => ReconciledRow(row, "close").active)
         /\ ReconciledRow(row, "close").status = "CLOSED"
         /\ ReconciledRow(row, "close").agent = NoUser
         /\ ~ReconciledRow(row, "deactivate").active
         /\ ReconciledRow(row, "deactivate").agent = NoUser
<1>1. /\ (row.active => ReconciledRow(row, "close").active)
      /\ ReconciledRow(row, "close").status = "CLOSED"
      /\ ReconciledRow(row, "close").agent = NoUser
  BY DEF ReconciledRow, TicketRow
<1>2. /\ ~ReconciledRow(row, "deactivate").active
      /\ ReconciledRow(row, "deactivate").agent = NoUser
  BY DEF ReconciledRow, TicketRow
<1> QED  BY <1>1, <1>2

LEMMA AdminMoves ==
  ASSUME IndInv, IndInv', NEW s \in Slots, CommitAdmin(s), NEW t \in TicketIds
  PROVE  Protocol!Move(t)
<1> DEFINE act == adm[s].act[t]
           T == SweptTickets(adm[s])
<1>0. TypeOK /\ TypeOK' /\ AdminLocked /\ TicketsConsistent'
  BY DEF IndInv
<1>1. /\ RunningAdmin(s) /\ handoffs' = CancelPendingForTicket(T)
      /\ tickets'[t] = IF act \in {"close", "deactivate"}
                       THEN ReconciledRow(tickets[t], act) ELSE tickets[t]
  BY DEF CommitAdmin
<1>2. Deserved(act, tickets[t], adm[s].user) /\ act \in Acts
  BY <1>0, <1>1, AdminFacts DEF AdminLocked
<1>3. /\ T \in SUBSET TicketIds /\ (t \in T <=> act # "none")
  BY DEF SweptTickets
<1> HIDE DEF T
<1>4. \A h \in HandoffIds :
        /\ handoffs'[h] # handoffs[h] => IsPending(h) /\ handoffs[h].ticket \in T
        /\ handoffs'[h].status = "PENDING" =>
             handoffs'[h] = handoffs[h] /\ handoffs[h].ticket \notin T
  BY <1>0, <1>1, <1>3, Cancelled
<1>5. CASE act \in {"none", "handoffs"}
  <2>1. tickets'[t] = tickets[t]
    BY <1>1, <1>5
  <2>2. CASE t \notin T
    BY <1>4, <2>1, <2>2, SameOffers, StaysMove DEF IsPending
  <2>3. CASE t \in T
    <3>1. OffersOf(t)' = {}
      BY <1>4, <2>3 DEF OffersOf, PendingOf, IsPending
    <3> QED  BY <2>1, <3>1, StaysMove
  <2> QED  BY <2>2, <2>3
<1>6. ASSUME act \in {"close", "deactivate"}
      PROVE  /\ tickets[t] \in TicketRow /\ tickets[t].active
             /\ tickets'[t] \in TicketRow /\ tickets'[t] = ReconciledRow(tickets[t], act)
             /\ adm[s].user \in Users
  <2>1. Exists(t) /\ tickets[t].active
    BY <1>2, <1>6 DEF Deserved, Exists
  <2>2. tickets[t] \in TicketRow /\ adm[s].user \in Users
    BY <1>0, <1>1, <2>1, Rows, AdminFacts
  <2> QED  BY <1>1, <1>6, <2>1, <2>2, WrittenRows
<1>7. CASE act = "close"
  <2>0. /\ tickets[t] \in TicketRow /\ tickets[t].active
        /\ tickets'[t] \in TicketRow /\ tickets'[t] = ReconciledRow(tickets[t], "close")
    BY <1>6, <1>7
  <2>1. PhaseOf(tickets[t]) = "held"
    BY <1>2, <1>6, <1>7, PhaseFacts DEF Deserved, ClaimedBy
  <2>2. tickets'[t].active /\ tickets'[t].status = "CLOSED" /\ tickets'[t].agent = NoUser
    BY <2>0, ReconciledFields
  <2>3. PhaseOf(tickets'[t]) = "closed" /\ HolderOf(tickets'[t]) = NoUser
    BY <2>0, <2>2, PhaseFacts
  <2>4. OffersOf(t)' = {}
    BY <2>2, NoOffersNext
  <2> QED  BY <2>1, <2>3, <2>4, ReleaseMove
<1>8. CASE act = "deactivate"
  <2>0. /\ tickets[t] \in TicketRow /\ tickets[t].active
        /\ tickets'[t] \in TicketRow /\ tickets'[t] = ReconciledRow(tickets[t], "deactivate")
    BY <1>6, <1>8
  <2>1. PhaseOf(tickets[t]) \in {"unclaimed", "held"}
    BY <1>2, <1>6, <1>8, PhaseFacts DEF Deserved, ClaimedBy, SubmittedBy
  <2>2. ~tickets'[t].active /\ tickets'[t].agent = NoUser
    BY <2>0, ReconciledFields
  <2>3. PhaseOf(tickets'[t]) = "cancelled" /\ HolderOf(tickets'[t]) = NoUser
    BY <2>0, <2>2, PhaseFacts
  <2>4. OffersOf(t)' = {}
    BY <2>2, NoOffersNext
  <2> QED  BY <2>1, <2>3, <2>4, ReleaseMove
<1> QED  BY <1>2, <1>5, <1>7, <1>8 DEF Acts

LEMMA RemindMoves ==
  ASSUME IndInv, NEW w \in Workers, NEW c \in candidates[w], Remind(w, c), NEW t \in TicketIds
  PROVE  Protocol!Move(t)
<1>0. TypeOK /\ RowsKnown
  BY DEF IndInv
<1>1. /\ tickets' = [tickets EXCEPT ![c.ticket] = [tickets[c.ticket] EXCEPT !.reminded = TRUE]]
      /\ UNCHANGED handoffs
  BY DEF Remind
<1>2. OffersOf(t)' = OffersOf(t)
  BY <1>1, SameOffers
<1>3. CASE t # c.ticket
  BY <1>0, <1>1, <1>2, <1>3, StaysMove DEF TypeOK, StoreTypeOK
<1>4. CASE t = c.ticket
  <2> DEFINE row == [tickets[t] EXCEPT !.reminded = TRUE]
  <2>1. tickets[t] \in TicketRow
    BY <1>0, <1>4, Rows DEF RowsKnown
  <2>2. row \in TicketRow
    BY <2>1 DEF TicketRow
  <2>3. row.status = tickets[t].status /\ row.active = tickets[t].active
        /\ row.agent = tickets[t].agent
    BY <2>1 DEF TicketRow
  <2>4. tickets'[t] = row
    BY <1>0, <1>1, <1>4 DEF TypeOK, StoreTypeOK
  <2> HIDE DEF row
  <2>5. PhaseOf(row) = PhaseOf(tickets[t]) /\ HolderOf(row) = HolderOf(tickets[t])
    BY <2>1, <2>2, <2>3, NullRows DEF PhaseOf, HolderOf
  <2> QED  BY <1>2, <2>4, <2>5, StaysMove
<1> QED  BY <1>3, <1>4

LEMMA InitRefines == Init => Protocol!Init
<1> SUFFICES ASSUME Init  PROVE Protocol!Init
  OBVIOUS
<1>1. \A t \in TicketIds : tickets[t] = NoTicket
  BY DEF Init, StoreInit
<1>2. \A t \in TicketIds : PhaseOf(tickets[t]) = "none" /\ HolderOf(tickets[t]) = NoUser
  BY <1>1 DEF PhaseOf, HolderOf
<1>3. \A h \in HandoffIds : ~IsPending(h)
  BY DEF Init, StoreInit, IsPending, NoHandoff
<1>4. \A t \in TicketIds : OffersOf(t) = {}
  BY <1>3 DEF OffersOf, PendingOf
<1> QED  BY <1>2, <1>4 DEF Protocol!Init

LEMMA StepRefines ==
  ASSUME IndInv, IndInv', [Next]_vars
  PROVE  [Protocol!Next]_(Protocol!protocolVars)
<1>1. CASE UNCHANGED <<tickets, handoffs>>
  BY <1>1 DEF Protocol!protocolVars, OffersOf, PendingOf, IsPending
<1>2. CASE ~UNCHANGED <<tickets, handoffs>>
  <2>1. \A t \in TicketIds :
          /\ PhaseOf(tickets'[t]) \in Protocol!Phases
          /\ HolderOf(tickets'[t]) \in Users \cup {NoUser}
          /\ OffersOf(t)' \in SUBSET Users
    <3>1. TypeOK'
      BY DEF IndInv
    <3> QED  BY <3>1, ViewsNext
  <2>2. \A t \in TicketIds : Protocol!Move(t)
    <3> SUFFICES ASSUME NEW t \in TicketIds  PROVE Protocol!Move(t)
      OBVIOUS
    <3>1. ASSUME NEW s \in Slots, CommitSubmit(s) \/ CommitClaim(s) \/ CommitSave(s)
          PROVE  Protocol!Move(t)
      BY <3>1, LifecycleMoves
    <3>2. ASSUME NEW s \in Slots, CommitRequest(s) \/ CommitAccept(s) \/ CommitResolve(s)
          PROVE  Protocol!Move(t)
      <4>1. RunningHandoff(s)
        BY <3>2 DEF CommitRequest, CommitAccept, CommitResolve, RunningHandoff
      <4> QED  BY <3>2, <4>1, OtherTicketMoves, RequestMoves, AcceptMoves, ResolveMoves
    <3>3. ASSUME NEW s \in Slots, CommitAdmin(s)
          PROVE  Protocol!Move(t)
      BY <3>3, AdminMoves
    <3>4. ASSUME NEW w \in Workers, NEW c \in candidates[w], Remind(w, c)
          PROVE  Protocol!Move(t)
      BY <3>4, RemindMoves
    <3> QED  BY <1>2, <3>1, <3>2, <3>3, <3>4, WritingSteps
  <2> QED  BY <2>1, <2>2 DEF Protocol!Next
<1> QED  BY <1>1, <1>2

(* The services implement the ticket protocol: whatever requests, sweeps,  *)
(* reminders and crashes interleave, every ticket is held by one agent at  *)
(* a time, changes hands only through an offer, and a ticket that leaves   *)
(* its holder leaves no pending handoff behind.                            *)
THEOREM Refinement == Spec => FollowsProtocol
<1>1. Init => Protocol!Init
  BY InitRefines
<1>2. IndInv /\ IndInv' /\ [Next]_vars => [Protocol!Next]_(Protocol!protocolVars)
  BY StepRefines
<1> QED  BY <1>1, <1>2, Invariance, PTL DEF Spec, FollowsProtocol, Protocol!Spec
=============================================================================
