-------------------------- MODULE TicketSystemProofs --------------------------
(***************************************************************************)
(* Proofs about TicketSystem and what its queries show, for every number   *)
(* of users, tickets, requests and workers: first what any interleaving of *)
(* requests keeps, then the reminders, then what the code intends while    *)
(* requests do not overlap, and the views.                                 *)
(***************************************************************************)
EXTENDS TicketQueries, TLAPS

(* Rows refer to rows that exist, and a ticket exists exactly when its     *)
(* history does.                                                           *)
RowsKnown ==
  /\ \A t \in TicketIds : Exists(t) <=> log[t] # NoLog
  /\ \A h \in HandoffIds : handoffs[h] # NoHandoff => Exists(handoffs[h].ticket)
  /\ \A w \in Workers : \A c \in candidates[w] : Exists(c.ticket)

(* The row that a request writes is in the state its operation is named     *)
(* for.                                                                     *)
WritesFor(op, row) ==
  /\ op \in {"submit", "modify"} => row.active /\ row.status = "OPEN"
  /\ op = "reopen" => row.active /\ row.status = "REOPENED"
  /\ op = "close" => row.active /\ row.status = "CLOSED"
  /\ op = "cancel" => ~row.active

(* A submission will insert a new ticket, every other request is about an  *)
(* existing one, and the copy it will write is a consistent row.           *)
RequestsKnown ==
  \A s \in Slots :
    Serving(s) =>
      /\ req[s].op = "submit" =>
           /\ ~Exists(req[s].ticket)
           /\ \A x \in Slots \ {s} : Serving(x) => req[x].ticket # req[s].ticket
      /\ req[s].op # "submit" => Exists(req[s].ticket)
      /\ RowConsistent(req[s].row)
      /\ WritesFor(req[s].op, req[s].row)

(* A handoff transaction holds its ticket's lock, and what it read of the  *)
(* ticket and of its requests is still so.                                 *)
HandoffReads(s) ==
  LET r == hreq[s] IN
  /\ ~RunningAdmin(s)
  /\ lock[r.ticket] = s /\ Exists(r.ticket)
  /\ r.op = "request" =>
       /\ handoffs[r.handoff] = NoHandoff
       /\ \A x \in Slots \ {s} : RunningHandoff(x) => hreq[x].handoff # r.handoff
       /\ tickets[r.ticket].active /\ tickets[r.ticket].status = "CLAIMED"
       /\ tickets[r.ticket].agent = r.actor /\ r.actor # r.target
       /\ \A h \in HandoffIds :
            IsPending(h) /\ handoffs[h].ticket = r.ticket => handoffs[h].target # r.target
  /\ r.op # "request" => IsPending(r.handoff) /\ handoffs[r.handoff].ticket = r.ticket
  /\ r.op = "accept" => handoffs[r.handoff].target = r.target

HandoffsLocked == \A s \in Slots : RunningHandoff(s) => HandoffReads(s)

(* A reconciliation holds the locks of the tickets it has looked at, and   *)
(* the tickets it will close or cancel are still its user's.               *)
Deserved(act, row, u) ==
  /\ act = "close" => row # NoTicket /\ row.active /\ ClaimedBy(row, u)
  /\ act = "deactivate" =>
       row # NoTicket /\ row.active /\ (SubmittedBy(row, u) \/ ClaimedBy(row, u))

AdminLocked ==
  \A s \in Slots :
    RunningAdmin(s) =>
      \A t \in TicketIds :
        /\ adm[s].act[t] # "none" => lock[t] = s
        /\ Deserved(adm[s].act[t], tickets[t], adm[s].user)
        /\ t \in adm[s].todo /\ adm[s].sweep.kind \in {"userTickets", "deptClaims"}
             => Exists(t)

IndInv ==
  /\ TypeOK /\ TicketsConsistent /\ PendingHandoffsLive /\ NoDuplicatePending
  /\ RowsKnown /\ RequestsKnown /\ HandoffsLocked /\ AdminLocked
-----------------------------------------------------------------------------
(* Rows. *)

LEMMA NullRows ==
  /\ NoTicket \notin TicketRow /\ NoHandoff \notin HandoffRow
  /\ NoLog \notin TicketLog /\ NoRequest \notin LifecycleRequest
  /\ NoHandoffTx \notin HandoffTx /\ NoAdminTx \notin AdminTx
  /\ NoDepartmentTx \notin DepartmentTx
<1>1. NoTicket \notin TicketRow
  BY DEF NoTicket, TicketRow, TicketStatus
<1>2. NoHandoff \notin HandoffRow
  BY DEF NoHandoff, HandoffRow, HandoffStatus
<1>3. NoLog \notin TicketLog
  <2>1. \A r \in TicketLog : r.opened \in 1 .. MaxLifecycles
    BY DEF TicketLog
  <2>2. NoLog.opened = 0
    BY DEF NoLog
  <2> QED  BY <2>1, <2>2
<1>4. NoRequest \notin LifecycleRequest
  BY DEF NoRequest, LifecycleRequest, LifecycleOps, SaveOps
<1>5. NoHandoffTx \notin HandoffTx
  BY DEF NoHandoffTx, HandoffTx, HandoffOps
<1>6. NoAdminTx \notin AdminTx
  BY DEF NoAdminTx, AdminTx, RowOps, MemberOps
<1>7. NoDepartmentTx \notin DepartmentTx
  BY DEF NoDepartmentTx, DepartmentTx
<1> QED  BY <1>1, <1>2, <1>3, <1>4, <1>5, <1>6, <1>7

(* What the type invariant says of a row or request that is there. *)
LEMMA Rows ==
  ASSUME TypeOK
  PROVE  /\ \A t \in TicketIds : Exists(t) => tickets[t] \in TicketRow
         /\ \A h \in HandoffIds : handoffs[h] # NoHandoff => handoffs[h] \in HandoffRow
         /\ \A h \in HandoffIds : IsPending(h) => handoffs[h] # NoHandoff
         /\ \A t \in TicketIds : log[t] # NoLog => log[t] \in TicketLog
         /\ \A s \in Slots : Serving(s) => req[s] \in LifecycleRequest
         /\ \A s \in Slots : RunningHandoff(s) => hreq[s] \in HandoffTx
         /\ \A s \in Slots : RunningAdmin(s) => adm[s] \in AdminTx
         /\ \A s \in Slots : RunningDepartment(s) => dreq[s] \in DepartmentTx
<1>1. /\ \A t \in TicketIds : Exists(t) => tickets[t] \in TicketRow
      /\ \A h \in HandoffIds : handoffs[h] # NoHandoff => handoffs[h] \in HandoffRow
      /\ \A t \in TicketIds : log[t] # NoLog => log[t] \in TicketLog
  BY DEF TypeOK, StoreTypeOK, Exists
<1>2. \A h \in HandoffIds : IsPending(h) => handoffs[h] # NoHandoff
  BY DEF IsPending, NoHandoff
<1>3. \A s \in Slots : Serving(s) => req[s] \in LifecycleRequest
  BY DEF TypeOK, LifecycleTypeOK, Serving, NoRequest
<1>4. \A s \in Slots : RunningHandoff(s) => hreq[s] \in HandoffTx
  BY DEF TypeOK, HandoffTypeOK, RunningHandoff, NoHandoffTx
<1>5. \A s \in Slots : RunningAdmin(s) => adm[s] \in AdminTx
  BY DEF TypeOK, AdminTypeOK, RunningAdmin, NoAdminTx
<1>6. \A s \in Slots : RunningDepartment(s) => dreq[s] \in DepartmentTx
  BY DEF TypeOK, DepartmentTypeOK, RunningDepartment, NoDepartmentTx
<1> QED  BY <1>1, <1>2, <1>3, <1>4, <1>5, <1>6

(* The rows that the handlers write. *)
LEMMA WrittenRows ==
  ASSUME NEW row \in TicketRow, NEW u \in Users
  PROVE  /\ ClaimedRow(row, u) \in TicketRow
         /\ ReconciledRow(row, "close") \in TicketRow
         /\ ReconciledRow(row, "deactivate") \in TicketRow
         /\ [row EXCEPT !.agent = u, !.status = "CLAIMED"] \in TicketRow
         /\ [row EXCEPT !.reminded = TRUE] \in TicketRow
<1> USE DEF TicketRow, TicketStatus
<1>0. 0 \in 0 .. MaxLifecycles
  BY StoreAssumption
<1>1. ClaimedRow(row, u) \in TicketRow
  BY <1>0 DEF ClaimedRow
<1>2. ReconciledRow(row, "close") \in TicketRow
  BY <1>0 DEF ReconciledRow
<1>3. ReconciledRow(row, "deactivate") \in TicketRow
  BY <1>0 DEF ReconciledRow
<1>4. [row EXCEPT !.agent = u, !.status = "CLAIMED"] \in TicketRow
  OBVIOUS
<1>5. [row EXCEPT !.reminded = TRUE] \in TicketRow
  OBVIOUS
<1> QED  BY <1>1, <1>2, <1>3, <1>4, <1>5

LEMMA WrittenRowsConsistent ==
  ASSUME NEW row \in TicketRow, NEW u \in Users
  PROVE  /\ row.active => RowConsistent(ClaimedRow(row, u))
         /\ RowConsistent(ReconciledRow(row, "close"))
         /\ RowConsistent(ReconciledRow(row, "deactivate"))
         /\ RowConsistent(row) /\ row.active /\ row.status = "CLAIMED" =>
              RowConsistent([row EXCEPT !.agent = u, !.status = "CLAIMED"])
         /\ RowConsistent(row) /\ AwaitsReminder(row) =>
              RowConsistent([row EXCEPT !.reminded = TRUE])
<1> USE StoreAssumption DEF TicketRow, TicketStatus, RowConsistent
<1>1. row.active => RowConsistent(ClaimedRow(row, u))
  BY DEF ClaimedRow
<1>2. RowConsistent(ReconciledRow(row, "close"))
  BY DEF ReconciledRow
<1>3. RowConsistent(ReconciledRow(row, "deactivate"))
  BY DEF ReconciledRow
<1>4. RowConsistent(row) /\ row.active /\ row.status = "CLAIMED" =>
        RowConsistent([row EXCEPT !.agent = u, !.status = "CLAIMED"])
  OBVIOUS
<1>5. RowConsistent(row) /\ AwaitsReminder(row) =>
        RowConsistent([row EXCEPT !.reminded = TRUE])
  BY DEF AwaitsReminder
<1> QED  BY <1>1, <1>2, <1>3, <1>4, <1>5

(* The variables are initially of their types. *)
THEOREM TypeInit == Init => TypeOK
  BY StoreAssumption
     DEF Init, StoreInit, LifecycleInit, HandoffInit, AdminInit, DepartmentInit,
         ReminderInit, TypeOK, StoreTypeOK, LifecycleTypeOK, HandoffTypeOK,
         AdminTypeOK, DepartmentTypeOK, ReminderTypeOK, MaxSent
-----------------------------------------------------------------------------
(* A step that leaves the variables of a part of the invariant alone.      *)

LEMMA KeepRows ==
  ASSUME TicketsConsistent, PendingHandoffsLive, NoDuplicatePending,
         UNCHANGED <<tickets, handoffs>>
  PROVE  TicketsConsistent' /\ PendingHandoffsLive' /\ NoDuplicatePending'
  BY DEF TicketsConsistent, PendingHandoffsLive, NoDuplicatePending, Exists, IsPending

LEMMA KeepKnown ==
  ASSUME RowsKnown, UNCHANGED <<tickets, handoffs, log, candidates>>
  PROVE  RowsKnown'
  BY DEF RowsKnown, Exists

LEMMA KeepRequests ==
  ASSUME RequestsKnown, UNCHANGED <<req, tickets>>
  PROVE  RequestsKnown'
  BY DEF RequestsKnown, Serving, Exists

LEMMA KeepHandoffs ==
  ASSUME HandoffsLocked, UNCHANGED <<hreq, tickets, handoffs, lock>>,
         \A s \in Slots : RunningHandoff(s) => (RunningAdmin(s)' => RunningAdmin(s))
  PROVE  HandoffsLocked'
  BY DEF HandoffsLocked, HandoffReads, RunningHandoff, Exists, IsPending

LEMMA KeepAdmin ==
  ASSUME AdminLocked, UNCHANGED <<adm, tickets, lock>>
  PROVE  AdminLocked'
  BY DEF AdminLocked, RunningAdmin, Exists

-----------------------------------------------------------------------------
(* TicketLifecycle: the first steps. *)

LEMMA LifecycleBegin ==
  ASSUME IndInv, NEW s \in Slots, NEW op \in LifecycleOps, NEW u \in Users,
         NEW t \in TicketIds, NEW row \in TicketRow, NEW override \in BOOLEAN,
         Begin(s, op, u, t, row, override),
         UNCHANGED <<hreq, adm, dreq, reminderVars>>,
         RowConsistent(row),
         WritesFor(op, row),
         op # "submit" => Exists(t),
         op = "submit" =>
           ~Exists(t) /\ \A x \in Slots : Serving(x) => req[x].ticket # t
  PROVE  IndInv'
<1> DEFINE r == [op |-> op, actor |-> u, ticket |-> t, row |-> row, override |-> override]
<1>1. UNCHANGED <<tickets, handoffs, users, members, activeDepts, lock, log, hreq,
                  adm, dreq, candidates, sent>>
  BY DEF Begin, storeVars, tables, reminderVars
<1>2. /\ req' = [req EXCEPT ![s] = r] /\ req \in [Slots -> LifecycleRequest \cup {NoRequest}]
  BY DEF Begin, IndInv, TypeOK, LifecycleTypeOK
<1>3. r \in LifecycleRequest
  BY DEF LifecycleRequest
<1>4. TypeOK'
  <2>1. LifecycleTypeOK'
    BY <1>2, <1>3 DEF LifecycleTypeOK
  <2>2. StoreTypeOK' /\ HandoffTypeOK' /\ AdminTypeOK' /\ DepartmentTypeOK' /\ ReminderTypeOK'
    BY <1>1 DEF IndInv, TypeOK, StoreTypeOK, HandoffTypeOK, AdminTypeOK, DepartmentTypeOK,
                ReminderTypeOK
  <2> QED  BY <2>1, <2>2 DEF TypeOK
<1>5. TicketsConsistent' /\ PendingHandoffsLive' /\ NoDuplicatePending' /\ RowsKnown'
  BY <1>1, KeepRows, KeepKnown DEF IndInv
<1>6. RequestsKnown'
  <2> SUFFICES ASSUME NEW x \in Slots, Serving(x)'
               PROVE  /\ req'[x].op = "submit" =>
                           /\ ~Exists(req'[x].ticket)
                           /\ \A y \in Slots \ {x} :
                                Serving(y)' => req'[y].ticket # req'[x].ticket
                      /\ req'[x].op # "submit" => Exists(req'[x].ticket)
                      /\ RowConsistent(req'[x].row)
                      /\ WritesFor(req'[x].op, req'[x].row)
    BY <1>1 DEF RequestsKnown, Exists, Serving
  <2>1. req'[s] = r /\ \A y \in Slots \ {s} : req'[y] = req[y] /\ (Serving(y)' => Serving(y))
    BY <1>2 DEF Serving
  <2>2. r.op = op /\ r.ticket = t /\ r.row = row
    OBVIOUS
  <2>3. CASE x = s
    BY <2>1, <2>2, <2>3
  <2>4. CASE x # s
    BY <2>1, <2>2, <2>4 DEF IndInv, RequestsKnown
  <2> QED  BY <2>3, <2>4
<1>7. HandoffsLocked' /\ AdminLocked'
  BY <1>1, KeepHandoffs, KeepAdmin DEF IndInv, RunningAdmin
<1> QED  BY <1>4, <1>5, <1>6, <1>7 DEF IndInv

LEMMA LifecycleStartKeeps ==
  ASSUME IndInv, NEW s \in Slots, LifecycleStart(s),
         UNCHANGED <<hreq, adm, dreq, reminderVars>>
  PROVE  IndInv'
<1>0. TypeOK /\ TicketsConsistent
  BY DEF IndInv
<1>1. ASSUME NEW t \in TicketIds, Exists(t)
      PROVE  /\ tickets[t] \in TicketRow /\ RowConsistent(tickets[t])
  BY <1>0, <1>1, Rows DEF TicketsConsistent
<1>r. 0 \in 0 .. MaxLifecycles /\ 1 \in 0 .. MaxLifecycles
  BY StoreAssumption
<1>2. ASSUME NEW u \in Users, NEW t \in TicketIds, NEW c \in Contents, NEW d \in Departments,
             StartSubmit(s, u, t, d, c)
      PROVE  IndInv'
  <2> DEFINE row == [status |-> "OPEN", dept |-> d, submitter |-> u, agent |-> NoUser,
                     active |-> TRUE, content |-> c, unclaimedSince |-> 1,
                     reminded |-> FALSE]
  <2>1. row \in TicketRow
    BY <1>r DEF TicketRow, TicketStatus
  <2>2. RowConsistent(row) /\ WritesFor("submit", row)
    BY DEF RowConsistent, WritesFor
  <2>3. Begin(s, "submit", u, t, row, FALSE)
    BY <1>2 DEF StartSubmit
  <2> HIDE DEF row
  <2> QED  BY <1>2, <2>1, <2>2, <2>3, LifecycleBegin DEF StartSubmit, LifecycleOps
<1>3. ASSUME NEW u \in Users, NEW t \in TicketIds, StartClaim(s, u, t)
      PROVE  IndInv'
  BY <1>1, <1>3, LifecycleBegin DEF StartClaim, LifecycleOps, WritesFor
<1>4. ASSUME NEW u \in Users, NEW t \in TicketIds, StartClose(s, u, t)
      PROVE  IndInv'
  <2> DEFINE row == [tickets[t] EXCEPT !.status = "CLOSED", !.agent = NoUser,
                                       !.unclaimedSince = 0, !.reminded = FALSE]
  <2>1. Exists(t) /\ tickets[t] \in TicketRow /\ tickets[t].active
    BY <1>1, <1>4 DEF StartClose, CloseTicketPolicy
  <2>2. row \in TicketRow /\ RowConsistent(row) /\ WritesFor("close", row)
    BY <1>r, <2>1 DEF TicketRow, TicketStatus, RowConsistent, WritesFor
  <2>3. \E o \in BOOLEAN : Begin(s, "close", u, t, row, o)
    BY <1>4 DEF StartClose
  <2> HIDE DEF row
  <2> QED  BY <2>1, <2>2, <2>3, LifecycleBegin DEF LifecycleOps, SaveOps
<1>5. ASSUME NEW u \in Users, NEW t \in TicketIds, NEW c \in Contents, StartReopen(s, u, t, c)
      PROVE  IndInv'
  <2> DEFINE row == [tickets[t] EXCEPT !.status = "REOPENED", !.agent = NoUser,
                                       !.unclaimedSince = 1, !.reminded = FALSE,
                                       !.content = c]
  <2>1. Exists(t) /\ tickets[t] \in TicketRow /\ tickets[t].active
    BY <1>1, <1>5 DEF StartReopen, ReopenTicketPolicy
  <2>2. row \in TicketRow
    BY <1>r, <2>1 DEF TicketRow, TicketStatus
  <2>3. WritesFor("reopen", row) /\ RowConsistent(row)
    BY <2>1 DEF TicketRow, RowConsistent, WritesFor
  <2>4. Begin(s, "reopen", u, t, row, FALSE)
    BY <1>5 DEF StartReopen
  <2> HIDE DEF row
  <2> QED  BY <2>1, <2>2, <2>3, <2>4, LifecycleBegin DEF LifecycleOps, SaveOps
<1>6. ASSUME NEW u \in Users, NEW t \in TicketIds, NEW c \in Contents, NEW d \in Departments,
             StartModify(s, u, t, c, d)
      PROVE  IndInv'
  <2> DEFINE row == [tickets[t] EXCEPT !.content = c, !.dept = d]
  <2>1. /\ Exists(t) /\ tickets[t] \in TicketRow /\ RowConsistent(tickets[t])
        /\ tickets[t].active /\ tickets[t].status = "OPEN"
    BY <1>1, <1>6 DEF StartModify, ModifyTicketPolicy
  <2>2. row \in TicketRow
    BY <2>1 DEF TicketRow
  <2>3. RowConsistent(row) /\ WritesFor("modify", row)
    BY <2>1 DEF TicketRow, RowConsistent, WritesFor
  <2>4. Begin(s, "modify", u, t, row, FALSE)
    BY <1>6 DEF StartModify
  <2> HIDE DEF row
  <2> QED  BY <2>1, <2>2, <2>3, <2>4, LifecycleBegin DEF LifecycleOps, SaveOps
<1>7. ASSUME NEW u \in Users, NEW t \in TicketIds, StartCancel(s, u, t)
      PROVE  IndInv'
  <2> DEFINE row == [tickets[t] EXCEPT !.active = FALSE, !.unclaimedSince = 0,
                                       !.reminded = FALSE]
  <2>1. Exists(t) /\ tickets[t] \in TicketRow /\ tickets[t].agent = NoUser
    BY <1>1, <1>7 DEF StartCancel, CancelTicketPolicy
  <2>2. row \in TicketRow
    BY <1>r, <2>1 DEF TicketRow
  <2>3. RowConsistent(row) /\ WritesFor("cancel", row)
    BY <2>1 DEF TicketRow, RowConsistent, WritesFor
  <2>4. Begin(s, "cancel", u, t, row, FALSE)
    BY <1>7 DEF StartCancel
  <2> HIDE DEF row
  <2> QED  BY <2>1, <2>2, <2>3, <2>4, LifecycleBegin DEF LifecycleOps, SaveOps
<1> QED  BY <1>2, <1>3, <1>4, <1>5, <1>6, <1>7 DEF LifecycleStart

-----------------------------------------------------------------------------
(* Writing one ticket. *)

LEMMA Cancelled ==
  ASSUME TypeOK, NEW T \in SUBSET TicketIds
  PROVE  LET new == CancelPendingForTicket(T) IN
         /\ new \in [HandoffIds -> HandoffRow \cup {NoHandoff}]
         /\ \A h \in HandoffIds :
              /\ new[h] # handoffs[h] => IsPending(h) /\ handoffs[h].ticket \in T
              /\ new[h].status = "PENDING" =>
                   new[h] = handoffs[h] /\ handoffs[h].ticket \notin T
<1>1. ASSUME NEW h \in HandoffIds, IsPending(h)
      PROVE  [handoffs[h] EXCEPT !.status = "CANCELLED"] \in HandoffRow
  BY <1>1, Rows DEF HandoffRow, HandoffStatus
<1>2. ASSUME NEW h \in HandoffIds, IsPending(h)
      PROVE  [handoffs[h] EXCEPT !.status = "CANCELLED"].status = "CANCELLED"
  BY <1>2, Rows DEF HandoffRow
<1>3. CancelPendingForTicket(T) \in [HandoffIds -> HandoffRow \cup {NoHandoff}]
  BY <1>1 DEF CancelPendingForTicket, PendingOf, TypeOK, StoreTypeOK
<1>4. ASSUME NEW h \in HandoffIds
      PROVE  CancelPendingForTicket(T)[h] =
               IF IsPending(h) /\ handoffs[h].ticket \in T
               THEN [handoffs[h] EXCEPT !.status = "CANCELLED"] ELSE handoffs[h]
  BY DEF CancelPendingForTicket, PendingOf
<1>5. ASSUME NEW h \in HandoffIds
      PROVE  /\ CancelPendingForTicket(T)[h] # handoffs[h] =>
                  IsPending(h) /\ handoffs[h].ticket \in T
             /\ CancelPendingForTicket(T)[h].status = "PENDING" =>
                  /\ CancelPendingForTicket(T)[h] = handoffs[h]
                  /\ handoffs[h].ticket \notin T
  BY <1>2, <1>4 DEF IsPending
<1> QED  BY <1>3, <1>5

(* A ticket is written that no other transaction has locked, together with *)
(* the cancellation of its pending requests, unless it has none.           *)
LEMMA WriteTicket ==
  ASSUME IndInv, NEW t \in TicketIds, NEW row \in TicketRow, RowConsistent(row),
         tickets' = [tickets EXCEPT ![t] = row],
         \/ handoffs' = CancelPendingForTicket({t})
         \/ handoffs' = handoffs /\ PendingOf({t}) = {},
         UNCHANGED <<hreq, adm, lock>>,
         \A s \in Slots : RunningHandoff(s) => hreq[s].ticket # t,
         \A s \in Slots : RunningAdmin(s) => adm[s].act[t] \notin {"close", "deactivate"}
  PROVE  /\ tickets' \in [TicketIds -> TicketRow \cup {NoTicket}]
         /\ handoffs' \in [HandoffIds -> HandoffRow \cup {NoHandoff}]
         /\ TicketsConsistent' /\ PendingHandoffsLive' /\ NoDuplicatePending'
         /\ HandoffsLocked' /\ AdminLocked'
         /\ \A x \in TicketIds : Exists(x)' <=> Exists(x) \/ x = t
<1>0. TypeOK /\ TicketsConsistent /\ PendingHandoffsLive /\ NoDuplicatePending
  BY DEF IndInv
<1>1. tickets' \in [TicketIds -> TicketRow \cup {NoTicket}]
  BY <1>0 DEF TypeOK, StoreTypeOK
<1>2. /\ tickets'[t] = row
      /\ \A x \in TicketIds \ {t} : tickets'[x] = tickets[x]
  BY <1>0 DEF TypeOK, StoreTypeOK
<1>3. \A x \in TicketIds : Exists(x)' <=> Exists(x) \/ x = t
  BY <1>2, NullRows DEF Exists
<1>4. /\ handoffs' \in [HandoffIds -> HandoffRow \cup {NoHandoff}]
      /\ \A h \in HandoffIds :
           /\ handoffs'[h] # handoffs[h] => IsPending(h) /\ handoffs[h].ticket = t
           /\ IsPending(h)' => handoffs'[h] = handoffs[h] /\ handoffs[h].ticket # t
  <2>1. CASE handoffs' = CancelPendingForTicket({t})
    BY <1>0, <2>1, Cancelled DEF IsPending
  <2>2. CASE handoffs' = handoffs /\ PendingOf({t}) = {}
    BY <1>0, <2>2 DEF PendingOf, IsPending, TypeOK, StoreTypeOK
  <2> QED  BY <2>1, <2>2
<1>5. \A h \in HandoffIds : IsPending(h)' => IsPending(h)
  BY <1>4 DEF IsPending
<1>6. TicketsConsistent'
  BY <1>0, <1>2, <1>3 DEF TicketsConsistent
<1>7. PendingHandoffsLive'
  <2> SUFFICES ASSUME NEW h \in HandoffIds, IsPending(h)'
               PROVE  HandoffLive(tickets'[handoffs'[h].ticket], handoffs'[h])
    BY DEF PendingHandoffsLive
  <2>1. IsPending(h) /\ handoffs'[h] = handoffs[h] /\ handoffs[h].ticket # t
    BY <1>4, <1>5
  <2>2. handoffs[h].ticket \in TicketIds \ {t}
    BY <1>0, <2>1, Rows DEF HandoffRow
  <2> QED  BY <1>0, <1>2, <2>1, <2>2 DEF PendingHandoffsLive
<1>8. NoDuplicatePending'
  BY <1>0, <1>4, <1>5 DEF NoDuplicatePending
<1>9. HandoffsLocked'
  <2> SUFFICES ASSUME NEW s \in Slots, RunningHandoff(s) PROVE HandoffReads(s)'
    BY DEF HandoffsLocked, RunningHandoff
  <2>1. HandoffReads(s) /\ hreq'[s] = hreq[s] /\ hreq[s].ticket \in TicketIds \ {t}
        /\ hreq[s].handoff \in HandoffIds
    BY <1>0, Rows DEF IndInv, HandoffsLocked, HandoffTx
  <2>2. \A x \in Slots : RunningAdmin(x)' = RunningAdmin(x) /\ RunningHandoff(x)' = RunningHandoff(x)
    BY DEF RunningAdmin, RunningHandoff
  <2>3. tickets'[hreq[s].ticket] = tickets[hreq[s].ticket]
    BY <1>2, <2>1
  <2>4. hreq[s].op = "request" => handoffs'[hreq[s].handoff] = NoHandoff
    BY <1>0, <1>4, <2>1, Rows DEF HandoffReads
  <2>5. hreq[s].op # "request" => handoffs'[hreq[s].handoff] = handoffs[hreq[s].handoff]
    BY <1>4, <2>1 DEF HandoffReads
  <2> QED  BY <1>3, <1>4, <1>5, <2>1, <2>2, <2>3, <2>4, <2>5 DEF HandoffReads, IsPending
<1>10. AdminLocked'
  BY <1>2, <1>3 DEF IndInv, AdminLocked, RunningAdmin, Deserved
<1> QED  BY <1>1, <1>3, <1>4, <1>6, <1>7, <1>8, <1>9, <1>10

-----------------------------------------------------------------------------
(* TicketLifecycle: the second steps. *)

(* The request is served; a submission has made its ticket exist.          *)
LEMMA RequestDone ==
  ASSUME IndInv, NEW s \in Slots, Serving(s), Done(s),
         \A x \in TicketIds : Exists(x)' <=> Exists(x) \/ x = req[s].ticket
  PROVE  RequestsKnown' /\ LifecycleTypeOK'
<1>0. TypeOK /\ RequestsKnown
  BY DEF IndInv
<1>1. /\ req'[s] = NoRequest
      /\ \A x \in Slots \ {s} : req'[x] = req[x]
      /\ LifecycleTypeOK'
  BY <1>0 DEF Done, TypeOK, LifecycleTypeOK
<1>2. ~Serving(s)' /\ \A x \in Slots \ {s} : Serving(x)' = Serving(x)
  BY <1>1 DEF Serving, NoRequest
<1>3. \A x \in Slots : Serving(x) => req[x].ticket \in TicketIds
  BY <1>0, Rows DEF LifecycleRequest
<1>4. ASSUME NEW x \in Slots \ {s}, Serving(x), req[x].op = "submit"
      PROVE  req[s].ticket # req[x].ticket
  BY <1>0, <1>4 DEF RequestsKnown
<1> QED  BY <1>0, <1>1, <1>2, <1>3, <1>4 DEF RequestsKnown

(* Nobody else holds or waits for the commit of an unlocked ticket.        *)
LEMMA UnlockedTicket ==
  ASSUME IndInv, NEW t \in TicketIds, Unlocked(t)
  PROVE  /\ \A s \in Slots : RunningHandoff(s) => hreq[s].ticket # t
         /\ \A s \in Slots : RunningAdmin(s) => adm[s].act[t] = "none"
  BY StoreAssumption DEF IndInv, HandoffsLocked, HandoffReads, AdminLocked, Unlocked

LEMMA CommitSubmitKeeps ==
  ASSUME IndInv, NEW s \in Slots, CommitSubmit(s),
         UNCHANGED <<hreq, adm, dreq, reminderVars>>
  PROVE  IndInv'
<1> DEFINE t == req[s].ticket
           row == req[s].row
<1>0. TypeOK /\ RequestsKnown /\ RowsKnown /\ HandoffsLocked /\ AdminLocked /\ PendingHandoffsLive
  BY DEF IndInv
<1>1. /\ req[s].op = "submit" /\ Serving(s) /\ Done(s)
      /\ tickets' = [tickets EXCEPT ![t] = row]
      /\ log' = [log EXCEPT ![t] = Opened(t, row.content)]
      /\ UNCHANGED <<handoffs, users, members, activeDepts, lock, hreq, adm, dreq,
                     candidates, sent>>
  BY DEF CommitSubmit, Serving, reminderVars
<1>2. t \in TicketIds /\ row \in TicketRow /\ row.content \in Contents
  BY <1>0, <1>1, Rows DEF LifecycleRequest, TicketRow
<1>3. ~Exists(t) /\ RowConsistent(row)
  BY <1>0, <1>1 DEF RequestsKnown
<1>4. \A x \in Slots : RunningHandoff(x) => hreq[x].ticket # t
  BY <1>0, <1>3 DEF HandoffsLocked, HandoffReads
<1>5. \A x \in Slots : RunningAdmin(x) => adm[x].act[t] \notin {"close", "deactivate"}
  BY <1>0, <1>2, <1>3 DEF AdminLocked, Deserved, Exists
<1>6. PendingOf({t}) = {}
  BY <1>0, <1>3 DEF PendingOf, PendingHandoffsLive, HandoffLive, Exists
<1>7. /\ tickets' \in [TicketIds -> TicketRow \cup {NoTicket}]
      /\ handoffs' \in [HandoffIds -> HandoffRow \cup {NoHandoff}]
      /\ TicketsConsistent' /\ PendingHandoffsLive' /\ NoDuplicatePending'
      /\ HandoffsLocked' /\ AdminLocked'
      /\ \A x \in TicketIds : Exists(x)' <=> Exists(x) \/ x = t
  <2> HIDE DEF t, row
  <2> QED  BY <1>1, <1>2, <1>3, <1>4, <1>5, <1>6, WriteTicket
<1>8. RequestsKnown' /\ LifecycleTypeOK'
  BY <1>1, <1>7, RequestDone
<1>9. Opened(t, row.content) \in TicketLog
  <2>1. log[t] = NoLog
    BY <1>0, <1>2, <1>3 DEF RowsKnown
  <2> QED  BY <1>2, <2>1, StoreAssumption DEF Opened, NoLog, TicketLog
<1>10. RowsKnown'
  <2>1. \A x \in TicketIds : log'[x] # NoLog <=> log[x] # NoLog \/ x = t
    BY <1>0, <1>1, <1>2, <1>9, NullRows DEF TypeOK, StoreTypeOK
  <2>2. \A h \in HandoffIds : handoffs[h] # NoHandoff => handoffs[h].ticket \in TicketIds
    BY <1>0, Rows DEF HandoffRow
  <2>3. \A w \in Workers : \A c \in candidates[w] : c.ticket \in TicketIds
    BY <1>0 DEF TypeOK, ReminderTypeOK, Candidate
  <2> QED  BY <1>0, <1>1, <1>7, <2>1, <2>2, <2>3 DEF RowsKnown
<1>11. TypeOK'
  <2>1. log' \in [TicketIds -> TicketLog \cup {NoLog}]
    BY <1>0, <1>1, <1>9 DEF TypeOK, StoreTypeOK
  <2> QED  BY <1>0, <1>1, <1>7, <1>8, <2>1
           DEF TypeOK, StoreTypeOK, HandoffTypeOK, AdminTypeOK, DepartmentTypeOK, ReminderTypeOK
<1> QED  BY <1>7, <1>8, <1>10, <1>11 DEF IndInv

(* A commit on an existing ticket that nobody has locked. *)
LEMMA CommitOnTicket ==
  ASSUME IndInv, NEW s \in Slots, Serving(s), Done(s),
         NEW t \in TicketIds, t = req[s].ticket, Exists(t), Unlocked(t),
         NEW row \in TicketRow, RowConsistent(row), NEW l \in TicketLog,
         tickets' = [tickets EXCEPT ![t] = row],
         log' = [log EXCEPT ![t] = l],
         \/ handoffs' = CancelPendingForTicket({t})
         \/ handoffs' = handoffs /\ PendingOf({t}) = {},
         UNCHANGED <<users, members, activeDepts, lock, hreq, adm, dreq, candidates, sent>>
  PROVE  IndInv'
<1>0. TypeOK /\ RowsKnown
  BY DEF IndInv
<1>1. /\ tickets' \in [TicketIds -> TicketRow \cup {NoTicket}]
      /\ handoffs' \in [HandoffIds -> HandoffRow \cup {NoHandoff}]
      /\ TicketsConsistent' /\ PendingHandoffsLive' /\ NoDuplicatePending'
      /\ HandoffsLocked' /\ AdminLocked'
      /\ \A x \in TicketIds : Exists(x)' <=> Exists(x) \/ x = t
  <2>1. /\ \A x \in Slots : RunningHandoff(x) => hreq[x].ticket # t
        /\ \A x \in Slots : RunningAdmin(x) => adm[x].act[t] \notin {"close", "deactivate"}
    BY UnlockedTicket
  <2> QED  BY <2>1, WriteTicket
<1>2. RequestsKnown' /\ LifecycleTypeOK'
  BY <1>1, RequestDone
<1>3. log' \in [TicketIds -> TicketLog \cup {NoLog}]
  BY <1>0 DEF TypeOK, StoreTypeOK
<1>4. RowsKnown'
  <2>1. \A x \in TicketIds : log'[x] # NoLog <=> log[x] # NoLog \/ x = t
    BY <1>0, NullRows DEF TypeOK, StoreTypeOK
  <2>2. \A h \in HandoffIds : handoffs'[h] # NoHandoff =>
                              handoffs[h] # NoHandoff /\ handoffs'[h].ticket = handoffs[h].ticket
                              /\ handoffs[h].ticket \in TicketIds
    <3> SUFFICES ASSUME NEW h \in HandoffIds, handoffs'[h] # NoHandoff
                 PROVE  handoffs[h] # NoHandoff /\ handoffs'[h].ticket = handoffs[h].ticket
                        /\ handoffs[h].ticket \in TicketIds
      OBVIOUS
    <3>1. CASE handoffs'[h] = handoffs[h]
      BY <1>0, <3>1, Rows DEF HandoffRow
    <3>2. CASE handoffs'[h] # handoffs[h]
      <4>1. IsPending(h) /\ handoffs'[h] = [handoffs[h] EXCEPT !.status = "CANCELLED"]
        BY <3>2 DEF CancelPendingForTicket, PendingOf
      <4>2. handoffs[h] \in HandoffRow
        BY <1>0, <4>1, Rows
      <4> QED  BY <1>0, <4>1, <4>2, Rows DEF HandoffRow
    <3> QED  BY <3>1, <3>2
  <2>3. \A w \in Workers : \A c \in candidates[w] : c.ticket \in TicketIds
    BY <1>0 DEF TypeOK, ReminderTypeOK, Candidate
  <2> QED  BY <1>0, <1>1, <2>1, <2>2, <2>3 DEF RowsKnown
<1>5. TypeOK'
  BY <1>0, <1>1, <1>2, <1>3
     DEF TypeOK, StoreTypeOK, HandoffTypeOK, AdminTypeOK, DepartmentTypeOK, ReminderTypeOK
<1> QED  BY <1>1, <1>2, <1>4, <1>5 DEF IndInv

LEMMA CommitClaimKeeps ==
  ASSUME IndInv, NEW s \in Slots, CommitClaim(s),
         UNCHANGED <<hreq, adm, dreq, reminderVars>>
  PROVE  IndInv'
<1> DEFINE t == req[s].ticket
           row == ClaimedRow(tickets[t], req[s].actor)
<1>0. TypeOK /\ RequestsKnown /\ RowsKnown /\ PendingHandoffsLive
  BY DEF IndInv
<1>1. /\ req[s].op = "claim" /\ Serving(s) /\ Done(s) /\ Unlocked(t)
      /\ ClaimIfAvailable(tickets[t])
      /\ UNCHANGED <<handoffs, users, members, activeDepts, lock, log, hreq, adm, dreq,
                     candidates, sent>>
  BY DEF CommitClaim, Serving, reminderVars
<1>2. t \in TicketIds /\ req[s].actor \in Users /\ Exists(t)
  BY <1>0, <1>1, Rows DEF LifecycleRequest, RequestsKnown
<1>3. tickets[t] \in TicketRow /\ log[t] \in TicketLog
  BY <1>0, <1>2, Rows DEF RowsKnown
<1>4. row \in TicketRow /\ RowConsistent(row)
  BY <1>1, <1>2, <1>3, WrittenRows, WrittenRowsConsistent DEF ClaimIfAvailable
<1>5. tickets' = [tickets EXCEPT ![t] = row] /\ log' = [log EXCEPT ![t] = log[t]]
  BY <1>0, <1>1, <1>2 DEF CommitClaim, TypeOK, StoreTypeOK
<1>6. PendingOf({t}) = {}
  BY <1>0, <1>1 DEF PendingOf, PendingHandoffsLive, HandoffLive, ClaimIfAvailable, Unclaimed
<1> HIDE DEF t, row
<1> QED  BY <1>1, <1>2, <1>3, <1>4, <1>5, <1>6, CommitOnTicket DEF t

(* The copy that is saved is a consistent row. *)
LEMMA SavedRowConsistent ==
  ASSUME IndInv, NEW s \in Slots, req[s].op \in SaveOps,
         req[s].op = "reopen" => log[req[s].ticket].opened < MaxLifecycles
  PROVE  /\ SavedRow(req[s]) \in TicketRow
         /\ RowConsistent(SavedRow(req[s]))
         /\ LogAfter(req[s]) \in TicketLog
<1> DEFINE t == req[s].ticket
           row == req[s].row
<1>0. TypeOK /\ RequestsKnown /\ RowsKnown
  BY DEF IndInv
<1>1. Serving(s) /\ req[s].op # "submit"
  BY DEF Serving, SaveOps
<1>2. t \in TicketIds /\ row \in TicketRow /\ row.content \in Contents
  BY <1>0, <1>1, Rows DEF LifecycleRequest, TicketRow
<1>3. RowConsistent(row) /\ Exists(t)
  BY <1>0, <1>1 DEF RequestsKnown
<1>4. log[t] \in TicketLog
  BY <1>0, <1>2, <1>3, Rows DEF RowsKnown
<1>5. LogAfter(req[s]) \in TicketLog /\ (req[s].op = "reopen" => log[t].opened + 1 \in 1 .. MaxLifecycles)
  <2>1. log[t].opened \in 1 .. MaxLifecycles /\ MaxLifecycles \in Nat
    BY <1>4, StoreAssumption DEF TicketLog
  <2>2. req[s].op = "reopen" => log[t].opened + 1 \in 1 .. MaxLifecycles
    BY <2>1
  <2>3. req[s].op = "reopen" => Opened(t, row.content) \in TicketLog
    BY <1>2, <2>2 DEF Opened, TicketLog
  <2>4. Recorded(t, row.content) \in TicketLog
    BY <1>2, <1>4 DEF Recorded, TicketLog
  <2> QED  BY <1>4, <2>2, <2>3, <2>4 DEF LogAfter
<1>6. CASE req[s].op # "reopen"
  BY <1>2, <1>3, <1>5, <1>6 DEF SavedRow
<1>7. CASE req[s].op = "reopen"
  <2> DEFINE saved == [row EXCEPT !.unclaimedSince = log[t].opened + 1]
  <2>1. SavedRow(req[s]) = saved
    BY <1>7 DEF SavedRow
  <2>2. row.active /\ row.status = "REOPENED"
    BY <1>0, <1>1, <1>7 DEF RequestsKnown, WritesFor
  <2>3. log[t].opened + 1 \in 0 .. MaxLifecycles /\ log[t].opened + 1 # 0
    BY <1>5, <1>7, StoreAssumption
  <2>4. saved \in TicketRow
    BY <1>2, <2>3 DEF TicketRow
  <2>5. RowConsistent(saved)
    <3>1. /\ saved.active = row.active /\ saved.status = row.status
          /\ saved.agent = row.agent /\ saved.unclaimedSince # 0
      BY <1>2, <2>3 DEF TicketRow
    <3> HIDE DEF saved
    <3> QED  BY <1>3, <2>2, <3>1 DEF RowConsistent
  <2> QED  BY <1>5, <2>1, <2>4, <2>5
<1> QED  BY <1>6, <1>7

LEMMA CommitSaveKeeps ==
  ASSUME IndInv, NEW s \in Slots, CommitSave(s),
         UNCHANGED <<hreq, adm, dreq, reminderVars>>
  PROVE  IndInv'
<1> DEFINE t == req[s].ticket
           row == SavedRow(req[s])
           l == LogAfter(req[s])
<1>0. TypeOK /\ RequestsKnown /\ PendingHandoffsLive
  BY DEF IndInv
<1>1. /\ req[s].op \in SaveOps /\ Serving(s) /\ req[s].op # "submit" /\ Done(s)
      /\ Unlocked(t) /\ SaveAllowed(req[s], tickets[t])
      /\ req[s].op = "reopen" => log[t].opened < MaxLifecycles
      /\ tickets' = [tickets EXCEPT ![t] = row]
      /\ log' = [log EXCEPT ![t] = l]
      /\ handoffs' = IF req[s].op = "close" \/ ~req[s].row.active
                     THEN CancelPendingForTicket({t}) ELSE handoffs
      /\ UNCHANGED <<users, members, activeDepts, lock, hreq, adm, dreq, candidates, sent>>
  BY DEF CommitSave, Serving, SaveOps, reminderVars
<1>2. t \in TicketIds /\ Exists(t)
  BY <1>0, <1>1, Rows DEF LifecycleRequest, RequestsKnown
<1>3. row \in TicketRow /\ RowConsistent(row) /\ l \in TicketLog
  BY <1>1, SavedRowConsistent
<1>4. \/ handoffs' = CancelPendingForTicket({t})
      \/ handoffs' = handoffs /\ PendingOf({t}) = {}
  <2>1. CASE req[s].op = "close"
    BY <1>1, <2>1
  <2>2. CASE req[s].op # "close"
    <3>1. tickets[t].status # "CLAIMED"
      BY <1>1, <2>2 DEF SaveAllowed
    <3>2. PendingOf({t}) = {}
      BY <1>0, <3>1 DEF PendingOf, PendingHandoffsLive, HandoffLive
    <3> QED  BY <1>1, <3>2
  <2> QED  BY <2>1, <2>2
<1> HIDE DEF t, row, l
<1> QED  BY <1>1, <1>2, <1>3, <1>4, CommitOnTicket DEF t

LEMMA ConflictKeeps ==
  ASSUME IndInv, NEW s \in Slots, Conflict(s),
         UNCHANGED <<hreq, adm, dreq, reminderVars>>
  PROVE  IndInv'
<1>1. /\ Serving(s) /\ Done(s) /\ req[s].op # "submit"
      /\ UNCHANGED <<tickets, handoffs, users, members, activeDepts, lock, log, hreq,
                     adm, dreq, candidates, sent>>
  BY DEF Conflict, Serving, SaveOps, storeVars, tables, reminderVars
<1>2. TypeOK /\ RequestsKnown
  BY DEF IndInv
<1>3. \A x \in TicketIds : Exists(x)' <=> Exists(x) \/ x = req[s].ticket
  BY <1>1, <1>2 DEF RequestsKnown, Exists
<1>4. RequestsKnown' /\ LifecycleTypeOK'
  BY <1>1, <1>3, RequestDone
<1>5. TypeOK'
  BY <1>1, <1>2, <1>4
     DEF TypeOK, StoreTypeOK, HandoffTypeOK, AdminTypeOK, DepartmentTypeOK, ReminderTypeOK
<1>6. TicketsConsistent' /\ PendingHandoffsLive' /\ NoDuplicatePending' /\ RowsKnown'
  BY <1>1, KeepRows, KeepKnown DEF IndInv
<1>7. HandoffsLocked' /\ AdminLocked'
  BY <1>1, KeepHandoffs, KeepAdmin DEF IndInv, RunningAdmin
<1> QED  BY <1>4, <1>5, <1>6, <1>7 DEF IndInv

LEMMA LifecycleKeeps ==
  ASSUME IndInv, NEW s \in Slots, LifecycleNext(s)
  PROVE  IndInv'
  BY LifecycleStartKeeps, CommitSubmitKeeps, CommitClaimKeeps, CommitSaveKeeps, ConflictKeeps
     DEF LifecycleNext, LifecycleCommit

-----------------------------------------------------------------------------
(* HandoffLifecycle *)

(* Nothing is locked by a request that is not running a transaction that   *)
(* holds locks: whoever is free begins with no lock to release.            *)
LEMMA BeginHandoffKeeps ==
  ASSUME IndInv, NEW s \in Slots, Free(s), NEW op \in HandoffOps, NEW u \in Users,
         NEW t \in TicketIds, NEW h \in HandoffIds, NEW v \in Users,
         BeginHandoff(s, op, u, t, h, v), Exists(t),
         UNCHANGED <<req, adm, dreq, reminderVars>>,
         op = "request" =>
           /\ handoffs[h] = NoHandoff
           /\ \A x \in Slots : RunningHandoff(x) => hreq[x].handoff # h
           /\ tickets[t].active /\ tickets[t].status = "CLAIMED"
           /\ tickets[t].agent = u /\ u # v
           /\ \A g \in HandoffIds :
                IsPending(g) /\ handoffs[g].ticket = t => handoffs[g].target # v,
         op # "request" => IsPending(h) /\ handoffs[h].ticket = t,
         op = "accept" => handoffs[h].target = v
  PROVE  IndInv'
<1> DEFINE r == [op |-> op, actor |-> u, ticket |-> t, handoff |-> h, target |-> v]
<1>0. TypeOK /\ HandoffsLocked /\ AdminLocked
  BY DEF IndInv
<1>1. /\ Unlocked(t) /\ lock' = [lock EXCEPT ![t] = s] /\ hreq' = [hreq EXCEPT ![s] = r]
      /\ UNCHANGED <<tickets, handoffs, users, members, activeDepts, log, req, adm, dreq,
                     candidates, sent>>
  BY DEF BeginHandoff, tables, reminderVars
<1>2. r \in HandoffTx
  BY DEF HandoffTx
<1>3. /\ lock'[t] = s /\ \A x \in TicketIds \ {t} : lock'[x] = lock[x]
      /\ hreq'[s] = r /\ \A x \in Slots \ {s} : hreq'[x] = hreq[x]
  BY <1>0, <1>1 DEF TypeOK, StoreTypeOK, HandoffTypeOK
<1>4. TypeOK'
  <2>1. HandoffTypeOK' /\ lock' \in [TicketIds -> Slots \cup {NoSlot}]
    BY <1>0, <1>1, <1>2 DEF TypeOK, StoreTypeOK, HandoffTypeOK
  <2> QED  BY <1>0, <1>1, <2>1
     DEF TypeOK, StoreTypeOK, LifecycleTypeOK, AdminTypeOK, DepartmentTypeOK, ReminderTypeOK
<1>5. TicketsConsistent' /\ PendingHandoffsLive' /\ NoDuplicatePending' /\ RowsKnown'
      /\ RequestsKnown'
  BY <1>1, KeepRows, KeepKnown, KeepRequests DEF IndInv
<1>6. \A x \in Slots : RunningHandoff(x)' => x = s \/ RunningHandoff(x)
  BY <1>3 DEF RunningHandoff
<1>7. HandoffsLocked'
  <2> SUFFICES ASSUME NEW x \in Slots, RunningHandoff(x)'  PROVE HandoffReads(x)'
    BY DEF HandoffsLocked
  <2>0. \A y \in Slots : RunningAdmin(y)' = RunningAdmin(y)
    BY <1>1 DEF RunningAdmin
  <2>r. r.op = op /\ r.actor = u /\ r.ticket = t /\ r.handoff = h /\ r.target = v
    OBVIOUS
  <2>1. CASE x = s
    <3>1. ~RunningAdmin(s)
      BY DEF Free
    <3>2. \A y \in Slots \ {s} : RunningHandoff(y)' => RunningHandoff(y) /\ hreq'[y] = hreq[y]
      BY <1>3, <1>6
    <3> HIDE DEF r
    <3> QED  BY <1>1, <1>3, <2>0, <2>1, <2>r, <3>1, <3>2 DEF HandoffReads, Exists, IsPending
  <2>2. CASE x # s
    <3>1. RunningHandoff(x) /\ hreq'[x] = hreq[x] /\ HandoffReads(x)
      BY <1>0, <1>3, <1>6, <2>2 DEF HandoffsLocked
    <3>2. hreq[x].ticket \in TicketIds \ {t} /\ hreq[x] \in HandoffTx
      BY <1>0, <1>1, <3>1, Rows, StoreAssumption DEF HandoffReads, Unlocked, HandoffTx
    <3>3. hreq[x].op = "request" => hreq[x].handoff # h
      BY <3>1, NullRows DEF HandoffReads, IsPending, NoHandoff
    <3> HIDE DEF r
    <3> QED  BY <1>1, <1>3, <1>6, <2>0, <2>r, <3>1, <3>2, <3>3 DEF HandoffReads, Exists, IsPending
  <2> QED  BY <2>1, <2>2
<1>8. AdminLocked'
  BY <1>0, <1>1, <1>3, UnlockedTicket DEF AdminLocked, RunningAdmin, Exists
<1> QED  BY <1>4, <1>5, <1>7, <1>8 DEF IndInv

LEMMA HandoffBeginKeeps ==
  ASSUME IndInv, NEW s \in Slots, Free(s), HandoffBegin(s),
         UNCHANGED <<req, adm, dreq, reminderVars>>
  PROVE  IndInv'
<1>0. TypeOK /\ PendingHandoffsLive /\ RowsKnown
  BY DEF IndInv
<1>1. ASSUME NEW u \in Users, NEW t \in TicketIds, NEW v \in Users, NEW h \in HandoffIds,
             BeginRequest(s, u, t, v, h)
      PROVE  IndInv'
  <2>1. /\ Exists(t) /\ handoffs[h] = NoHandoff
        /\ \A x \in Slots : RunningHandoff(x) => hreq[x].handoff # h
        /\ tickets[t].active /\ tickets[t].status = "CLAIMED"
        /\ tickets[t].agent = u /\ u # v
        /\ BeginHandoff(s, "request", u, t, h, v)
    BY <1>1 DEF BeginRequest, AssertRequest
  <2>2. ASSUME NEW g \in HandoffIds, IsPending(g), handoffs[g].ticket = t
        PROVE  handoffs[g].target # v
    <3>1. handoffs[g].requester = u
      BY <1>0, <2>1, <2>2 DEF PendingHandoffsLive, HandoffLive
    <3> QED  BY <1>1, <2>2, <3>1 DEF BeginRequest, FindPendingDuplicate
  <2> QED  BY <2>1, <2>2, BeginHandoffKeeps DEF HandoffOps
<1>2. ASSUME NEW u \in Users, NEW h \in HandoffIds, handoffs[h] # NoHandoff
      PROVE  /\ handoffs[h].ticket \in TicketIds /\ Exists(handoffs[h].ticket)
             /\ handoffs[h].target \in Users
  BY <1>0, <1>2, Rows DEF RowsKnown, HandoffRow
<1>3. ASSUME NEW u \in Users, NEW h \in HandoffIds, BeginAccept(s, u, h)
      PROVE  IndInv'
  BY <1>2, <1>3, BeginHandoffKeeps DEF BeginAccept, AssertAccept, HandoffOps
<1>4. ASSUME NEW u \in Users, NEW h \in HandoffIds, BeginReject(s, u, h)
      PROVE  IndInv'
  BY <1>2, <1>4, BeginHandoffKeeps DEF BeginReject, AssertReject, HandoffOps
<1>5. ASSUME NEW u \in Users, NEW h \in HandoffIds, BeginWithdraw(s, u, h)
      PROVE  IndInv'
  BY <1>2, <1>5, BeginHandoffKeeps DEF BeginWithdraw, AssertCancel, HandoffOps
<1> QED  BY <1>1, <1>3, <1>4, <1>5 DEF HandoffBegin

(* A handoff transaction ends, having written at most its ticket and the   *)
(* requests about it.                                                      *)
LEMMA EndHandoffKeeps ==
  ASSUME IndInv, NEW s \in Slots, RunningHandoff(s), EndHandoff(s),
         UNCHANGED <<req, adm, dreq, reminderVars>>,
         tickets' \in [TicketIds -> TicketRow \cup {NoTicket}],
         handoffs' \in [HandoffIds -> HandoffRow \cup {NoHandoff}],
         tickets'[hreq[s].ticket] # NoTicket,
         \A x \in TicketIds \ {hreq[s].ticket} : tickets'[x] = tickets[x],
         \A g \in HandoffIds :
           handoffs'[g] # handoffs[g] =>
             /\ handoffs'[g].ticket = hreq[s].ticket
             /\ \/ g = hreq[s].handoff
                \/ IsPending(g) /\ handoffs[g].ticket = hreq[s].ticket
  PROVE  TypeOK' /\ RowsKnown' /\ RequestsKnown' /\ HandoffsLocked' /\ AdminLocked'
<1> DEFINE t == hreq[s].ticket
           h == hreq[s].handoff
<1>0. TypeOK /\ RowsKnown /\ RequestsKnown /\ HandoffsLocked /\ AdminLocked
  BY DEF IndInv
<1>1. /\ t \in TicketIds /\ h \in HandoffIds /\ HandoffReads(s) /\ lock[t] = s
      /\ Exists(t) /\ ~RunningAdmin(s)
  BY <1>0, Rows DEF HandoffTx, HandoffsLocked, HandoffReads
<1>2. /\ lock' = [lock EXCEPT ![t] = NoSlot] /\ hreq' = [hreq EXCEPT ![s] = NoHandoffTx]
      /\ UNCHANGED <<users, members, activeDepts, log, req, adm, dreq, candidates, sent>>
  BY DEF EndHandoff, reminderVars
<1>3. /\ \A x \in TicketIds \ {t} : lock'[x] = lock[x]
      /\ hreq'[s] = NoHandoffTx /\ \A x \in Slots \ {s} : hreq'[x] = hreq[x]
  BY <1>0, <1>2 DEF TypeOK, StoreTypeOK, HandoffTypeOK
<1>4. \A x \in TicketIds : Exists(x)' <=> Exists(x)
  BY <1>1 DEF Exists
<1>5. TypeOK'
  <2>1. HandoffTypeOK' /\ lock' \in [TicketIds -> Slots \cup {NoSlot}]
    BY <1>0, <1>2 DEF TypeOK, StoreTypeOK, HandoffTypeOK
  <2> QED  BY <1>0, <1>2, <2>1
     DEF TypeOK, StoreTypeOK, LifecycleTypeOK, AdminTypeOK, DepartmentTypeOK, ReminderTypeOK
<1>6. RowsKnown'
  <2>1. \A g \in HandoffIds : handoffs'[g] # NoHandoff =>
                                 tickets'[handoffs'[g].ticket] # NoTicket
    <3> SUFFICES ASSUME NEW g \in HandoffIds, handoffs'[g] # NoHandoff
                 PROVE  tickets'[handoffs'[g].ticket] # NoTicket
      OBVIOUS
    <3>1. CASE handoffs'[g] = handoffs[g]
      BY <1>0, <1>4, <3>1, Rows DEF RowsKnown, HandoffRow, Exists
    <3>2. CASE handoffs'[g] # handoffs[g]
      BY <3>2
    <3> QED  BY <3>1, <3>2
  <2>2. \A w \in Workers : \A c \in candidates[w] : c.ticket \in TicketIds
    BY <1>0 DEF TypeOK, ReminderTypeOK, Candidate
  <2> QED  BY <1>0, <1>2, <1>4, <2>1, <2>2 DEF RowsKnown, Exists
<1>7. RequestsKnown'
  <2>1. \A x \in Slots : Serving(x) => req[x].ticket \in TicketIds
    BY <1>0, Rows DEF LifecycleRequest
  <2> QED  BY <1>0, <1>2, <1>4, <2>1 DEF RequestsKnown, Serving
<1>8. \A x \in Slots : RunningHandoff(x)' => x # s /\ RunningHandoff(x)
  BY <1>3 DEF RunningHandoff, NoHandoffTx
<1>9. HandoffsLocked'
  <2> SUFFICES ASSUME NEW x \in Slots, RunningHandoff(x)'  PROVE HandoffReads(x)'
    BY DEF HandoffsLocked
  <2>1. x # s /\ RunningHandoff(x) /\ hreq'[x] = hreq[x] /\ HandoffReads(x)
    BY <1>0, <1>3, <1>8 DEF HandoffsLocked
  <2>2. hreq[x].ticket \in TicketIds \ {t} /\ hreq[x].handoff \in HandoffIds
    BY <1>0, <1>1, <2>1, Rows DEF HandoffReads, HandoffTx
  <2>3. RunningAdmin(x)' = RunningAdmin(x)
    BY <1>2 DEF RunningAdmin
  <2>4. tickets'[hreq[x].ticket] = tickets[hreq[x].ticket]
    BY <2>2
  <2>5. handoffs'[hreq[x].handoff] = handoffs[hreq[x].handoff]
    BY <1>1, <2>1, <2>2, NullRows DEF HandoffReads, IsPending, NoHandoff
  <2>6. \A g \in HandoffIds :
          IsPending(g)' /\ handoffs'[g].ticket = hreq[x].ticket => handoffs'[g] = handoffs[g]
    BY <2>2
  <2> HIDE DEF t, h
  <2> QED  BY <1>3, <1>4, <1>8, <2>1, <2>2, <2>3, <2>4, <2>5, <2>6 DEF HandoffReads, IsPending
<1>10. AdminLocked'
  <2> SUFFICES ASSUME NEW x \in Slots, RunningAdmin(x), NEW y \in TicketIds
               PROVE  /\ adm[x].act[y] # "none" => lock'[y] = x
                      /\ Deserved(adm[x].act[y], tickets'[y], adm[x].user)
                      /\ y \in adm[x].todo /\ adm[x].sweep.kind \in {"userTickets", "deptClaims"}
                           => Exists(y)'
    BY <1>2 DEF AdminLocked, RunningAdmin
  <2>1. x # s
    BY <1>1
  <2>2. y = t => adm[x].act[y] = "none"
    BY <1>0, <1>1, <2>1 DEF AdminLocked
  <2> QED  BY <1>0, <1>3, <1>4, <2>2 DEF AdminLocked, Deserved
<1> QED  BY <1>5, <1>6, <1>7, <1>9, <1>10

(* What a running handoff transaction still knows when it writes. *)
LEMMA HandoffFacts ==
  ASSUME IndInv, NEW s \in Slots, RunningHandoff(s)
  PROVE  LET r == hreq[s] IN
         /\ r.ticket \in TicketIds /\ r.handoff \in HandoffIds
         /\ r.actor \in Users /\ r.target \in Users
         /\ HandoffReads(s) /\ Exists(r.ticket) /\ tickets[r.ticket] \in TicketRow
         /\ r.op # "request" =>
              /\ handoffs[r.handoff] \in HandoffRow /\ handoffs[r.handoff].ticket = r.ticket
              /\ IsPending(r.handoff) /\ HandoffLive(tickets[r.ticket], handoffs[r.handoff])
<1>1. TypeOK /\ HandoffsLocked /\ PendingHandoffsLive
  BY DEF IndInv
<1>2. hreq[s] \in HandoffTx /\ HandoffReads(s)
  BY <1>1, Rows DEF HandoffsLocked
<1> QED  BY <1>1, <1>2, Rows DEF HandoffTx, HandoffReads, PendingHandoffsLive

LEMMA CommitRequestKeeps ==
  ASSUME IndInv, NEW s \in Slots, CommitRequest(s),
         UNCHANGED <<req, adm, dreq, reminderVars>>
  PROVE  IndInv'
<1> DEFINE r == hreq[s]
           new == [status |-> "PENDING", ticket |-> hreq[s].ticket,
                   requester |-> hreq[s].actor, target |-> hreq[s].target]
<1>0. TypeOK /\ TicketsConsistent /\ PendingHandoffsLive /\ NoDuplicatePending
  BY DEF IndInv
<1>1. /\ r.op = "request" /\ RunningHandoff(s) /\ EndHandoff(s)
      /\ handoffs' = [handoffs EXCEPT ![r.handoff] = new] /\ UNCHANGED tickets
  BY DEF CommitRequest, RunningHandoff
<1>2. /\ r.ticket \in TicketIds /\ r.handoff \in HandoffIds
      /\ r.actor \in Users /\ r.target \in Users /\ HandoffReads(s) /\ Exists(r.ticket)
  BY <1>1, HandoffFacts
<1>3. new \in HandoffRow /\ new.ticket = r.ticket /\ new.status = "PENDING"
      /\ new.requester = r.actor /\ new.target = r.target
  BY <1>2 DEF HandoffRow, HandoffStatus
<1> HIDE DEF new
<1>4. /\ handoffs' \in [HandoffIds -> HandoffRow \cup {NoHandoff}]
      /\ handoffs'[r.handoff] = new
      /\ \A g \in HandoffIds \ {r.handoff} : handoffs'[g] = handoffs[g]
  BY <1>0, <1>1, <1>2, <1>3 DEF TypeOK, StoreTypeOK
<1>5. TypeOK' /\ RowsKnown' /\ RequestsKnown' /\ HandoffsLocked' /\ AdminLocked'
  BY <1>0, <1>1, <1>2, <1>3, <1>4, EndHandoffKeeps DEF Exists, TypeOK, StoreTypeOK
<1>6. TicketsConsistent'
  BY <1>0, <1>1 DEF TicketsConsistent, Exists
<1>7. HandoffLive(tickets[r.ticket], new)
  BY <1>1, <1>2, <1>3 DEF HandoffLive, HandoffReads, Exists
<1>8. PendingHandoffsLive'
  BY <1>0, <1>1, <1>3, <1>4, <1>7 DEF PendingHandoffsLive, IsPending
<1>9. NoDuplicatePending'
  <2>1. \A g \in HandoffIds \ {r.handoff} :
          IsPending(g) /\ handoffs[g].ticket = r.ticket => handoffs[g].target # r.target
    BY <1>1, <1>2 DEF HandoffReads
  <2> SUFFICES ASSUME NEW g \in HandoffIds, NEW h \in HandoffIds, g # h,
                      handoffs'[g].status = "PENDING", handoffs'[h].status = "PENDING",
                      handoffs'[g].ticket = handoffs'[h].ticket
               PROVE  handoffs'[g].target # handoffs'[h].target
    BY DEF NoDuplicatePending, IsPending
  <2>2. CASE g = r.handoff
    BY <1>3, <1>4, <2>1, <2>2 DEF IsPending
  <2>3. CASE h = r.handoff
    BY <1>3, <1>4, <2>1, <2>3 DEF IsPending
  <2>4. CASE g # r.handoff /\ h # r.handoff
    BY <1>0, <1>4, <2>4 DEF NoDuplicatePending, IsPending
  <2> QED  BY <2>2, <2>3, <2>4
<1> QED  BY <1>5, <1>6, <1>8, <1>9 DEF IndInv

LEMMA CommitAcceptKeeps ==
  ASSUME IndInv, NEW s \in Slots, CommitAccept(s),
         UNCHANGED <<req, adm, dreq, reminderVars>>
  PROVE  IndInv'
<1> DEFINE r == hreq[s]
           t == hreq[s].ticket
           row == [tickets[t] EXCEPT !.agent = hreq[s].target, !.status = "CLAIMED"]
           swept == CancelPendingForTicket({t})
<1>0. TypeOK /\ TicketsConsistent /\ PendingHandoffsLive /\ NoDuplicatePending
  BY DEF IndInv
<1>1. /\ r.op = "accept" /\ RunningHandoff(s) /\ EndHandoff(s)
      /\ tickets' = [tickets EXCEPT ![t] = row]
      /\ handoffs' = [swept EXCEPT ![r.handoff].status = "ACCEPTED"]
  BY DEF CommitAccept, RunningHandoff
<1>2. /\ t \in TicketIds /\ r.handoff \in HandoffIds /\ r.target \in Users
      /\ tickets[t] \in TicketRow /\ handoffs[r.handoff] \in HandoffRow
      /\ handoffs[r.handoff].ticket = t /\ IsPending(r.handoff) /\ Exists(t)
      /\ HandoffLive(tickets[t], handoffs[r.handoff])
  BY <1>1, HandoffFacts
<1>3. row \in TicketRow /\ RowConsistent(row)
  BY <1>0, <1>2, WrittenRows, WrittenRowsConsistent DEF TicketsConsistent, HandoffLive
<1>4. /\ tickets' \in [TicketIds -> TicketRow \cup {NoTicket}]
      /\ tickets'[t] = row /\ \A x \in TicketIds \ {t} : tickets'[x] = tickets[x]
  <2> HIDE DEF row
  <2> QED  BY <1>0, <1>1, <1>2, <1>3 DEF TypeOK, StoreTypeOK
<1>5. /\ swept \in [HandoffIds -> HandoffRow \cup {NoHandoff}]
      /\ \A g \in HandoffIds :
           /\ swept[g] # handoffs[g] =>
                IsPending(g) /\ handoffs[g].ticket = t
           /\ swept[g].status = "PENDING" => swept[g] = handoffs[g] /\ handoffs[g].ticket # t
  BY <1>0, <1>2, Cancelled
<1>6. swept[r.handoff] = [handoffs[r.handoff] EXCEPT !.status = "CANCELLED"]
  BY <1>2 DEF CancelPendingForTicket, PendingOf
<1>7. \A g \in HandoffIds : swept[g] # handoffs[g] => swept[g].ticket = t
  <2> SUFFICES ASSUME NEW g \in HandoffIds, swept[g] # handoffs[g]  PROVE swept[g].ticket = t
    OBVIOUS
  <2>1. IsPending(g) /\ handoffs[g].ticket = t /\ handoffs[g] \in HandoffRow
    BY <1>0, <1>5, Rows
  <2>2. swept[g] = [handoffs[g] EXCEPT !.status = "CANCELLED"]
    BY <2>1 DEF CancelPendingForTicket, PendingOf
  <2> QED  BY <2>1, <2>2 DEF HandoffRow
<1>8. /\ handoffs' \in [HandoffIds -> HandoffRow \cup {NoHandoff}]
      /\ handoffs'[r.handoff].status = "ACCEPTED" /\ handoffs'[r.handoff].ticket = t
      /\ \A g \in HandoffIds \ {r.handoff} : handoffs'[g] = swept[g]
  <2>1. [swept[r.handoff] EXCEPT !.status = "ACCEPTED"] \in HandoffRow
        /\ [swept[r.handoff] EXCEPT !.status = "ACCEPTED"].status = "ACCEPTED"
        /\ [swept[r.handoff] EXCEPT !.status = "ACCEPTED"].ticket = t
    BY <1>2, <1>6 DEF HandoffRow, HandoffStatus
  <2> HIDE DEF swept
  <2> QED  BY <1>1, <1>2, <1>5, <2>1
<1> HIDE DEF t, row, swept
<1>9. TypeOK' /\ RowsKnown' /\ RequestsKnown' /\ HandoffsLocked' /\ AdminLocked'
  <2>1. tickets'[t] # NoTicket
    BY <1>3, <1>4, NullRows
  <2>2. \A g \in HandoffIds : handoffs'[g] # handoffs[g] =>
          handoffs'[g].ticket = t /\ (g = r.handoff \/ (IsPending(g) /\ handoffs[g].ticket = t))
    <3> SUFFICES ASSUME NEW g \in HandoffIds, handoffs'[g] # handoffs[g]
                 PROVE  /\ handoffs'[g].ticket = t
                        /\ g = r.handoff \/ (IsPending(g) /\ handoffs[g].ticket = t)
      OBVIOUS
    <3>1. CASE g = r.handoff
      BY <1>8, <3>1
    <3>2. CASE g # r.handoff
      <4>1. handoffs'[g] = swept[g]
        BY <1>8, <3>2
      <4> QED  BY <1>5, <1>7, <4>1
    <3> QED  BY <3>1, <3>2
  <2> QED  BY <1>1, <1>4, <1>8, <2>1, <2>2, EndHandoffKeeps DEF t
<1>10. TicketsConsistent'
  BY <1>0, <1>3, <1>4 DEF TicketsConsistent, Exists
<1>11. \A g \in HandoffIds : IsPending(g)' =>
          IsPending(g) /\ handoffs'[g] = handoffs[g] /\ handoffs[g].ticket # t
  BY <1>5, <1>8 DEF IsPending
<1>12. PendingHandoffsLive'
  <2>1. \A g \in HandoffIds : IsPending(g) => handoffs[g].ticket \in TicketIds
    BY <1>0, Rows DEF HandoffRow
  <2> QED  BY <1>0, <1>4, <1>11, <2>1 DEF PendingHandoffsLive
<1>13. NoDuplicatePending'
  BY <1>0, <1>11 DEF NoDuplicatePending
<1> QED  BY <1>9, <1>10, <1>12, <1>13 DEF IndInv

LEMMA CommitResolveKeeps ==
  ASSUME IndInv, NEW s \in Slots, CommitResolve(s),
         UNCHANGED <<req, adm, dreq, reminderVars>>
  PROVE  IndInv'
<1> DEFINE r == hreq[s]
           status == IF r.op = "reject" THEN "REJECTED" ELSE "CANCELLED"
           new == [handoffs[r.handoff] EXCEPT !.status = status]
<1>0. TypeOK /\ TicketsConsistent /\ PendingHandoffsLive /\ NoDuplicatePending
  BY DEF IndInv
<1>1. /\ r.op # "request" /\ RunningHandoff(s) /\ EndHandoff(s) /\ UNCHANGED tickets
      /\ handoffs' = [handoffs EXCEPT ![r.handoff].status = status]
  BY DEF CommitResolve, RunningHandoff
<1>2. /\ r.ticket \in TicketIds /\ r.handoff \in HandoffIds /\ Exists(r.ticket)
      /\ handoffs[r.handoff] \in HandoffRow /\ handoffs[r.handoff].ticket = r.ticket
  BY <1>1, HandoffFacts
<1>3. new \in HandoffRow /\ new.ticket = r.ticket /\ new.status # "PENDING"
  BY <1>2 DEF HandoffRow, HandoffStatus
<1>4. handoffs' = [handoffs EXCEPT ![r.handoff] = new]
  BY <1>0, <1>1, <1>2 DEF TypeOK, StoreTypeOK
<1> HIDE DEF new, status
<1>5. /\ handoffs' \in [HandoffIds -> HandoffRow \cup {NoHandoff}]
      /\ handoffs'[r.handoff] = new
      /\ \A g \in HandoffIds \ {r.handoff} : handoffs'[g] = handoffs[g]
  BY <1>0, <1>2, <1>3, <1>4 DEF TypeOK, StoreTypeOK
<1>6. TypeOK' /\ RowsKnown' /\ RequestsKnown' /\ HandoffsLocked' /\ AdminLocked'
  BY <1>0, <1>1, <1>2, <1>3, <1>5, EndHandoffKeeps DEF Exists, TypeOK, StoreTypeOK
<1>7. TicketsConsistent'
  BY <1>0, <1>1 DEF TicketsConsistent, Exists
<1>8. \A g \in HandoffIds : IsPending(g)' => IsPending(g) /\ handoffs'[g] = handoffs[g]
  BY <1>3, <1>5 DEF IsPending
<1>9. PendingHandoffsLive' /\ NoDuplicatePending'
  BY <1>0, <1>1, <1>8 DEF PendingHandoffsLive, NoDuplicatePending
<1> QED  BY <1>6, <1>7, <1>9 DEF IndInv

LEMMA AbortHandoffKeeps ==
  ASSUME IndInv, NEW s \in Slots, AbortHandoff(s),
         UNCHANGED <<req, adm, dreq, reminderVars>>
  PROVE  IndInv'
<1>1. RunningHandoff(s) /\ EndHandoff(s) /\ UNCHANGED <<tickets, handoffs>>
  BY DEF AbortHandoff
<1>2. hreq[s].ticket \in TicketIds /\ Exists(hreq[s].ticket)
  BY <1>1, HandoffFacts
<1>3. TypeOK
  BY DEF IndInv
<1>4. TypeOK' /\ RowsKnown' /\ RequestsKnown' /\ HandoffsLocked' /\ AdminLocked'
  BY <1>1, <1>2, <1>3, EndHandoffKeeps DEF Exists, TypeOK, StoreTypeOK
<1> QED  BY <1>1, <1>4, KeepRows DEF IndInv

LEMMA HandoffKeeps ==
  ASSUME IndInv, NEW s \in Slots, HandoffNext(s)
  PROVE  IndInv'
  BY HandoffBeginKeeps, CommitRequestKeeps, CommitAcceptKeeps, CommitResolveKeeps,
     AbortHandoffKeeps
     DEF HandoffNext, HandoffCommit

-----------------------------------------------------------------------------
(* UserReconciliation: the steps before the commit. *)

LEMMA Plans ==
  /\ DeactivationPlan \in Seq(Sweep)
  /\ \A d \in Departments : RemovalPlan(d) \in Seq(Sweep)
  /\ \A d \in Departments : S("deptClaims", d) \in Sweep
<1>1. \A k \in SweepKinds, d \in Departments : S(k, d) \in Sweep
  BY DEF S, Sweep
<1>2. Administration \in Departments
  BY StoreAssumption
<1>3. \A d \in Departments : /\ S("userTickets", d) \in Sweep /\ S("userHandoffs", d) \in Sweep
                             /\ S("memberships", d) \in Sweep /\ S("administration", d) \in Sweep
                             /\ S("deptHandoffs", d) \in Sweep /\ S("deptClaims", d) \in Sweep
  BY <1>1 DEF SweepKinds
<1>4. DeactivationPlan \in Seq(Sweep)
  BY <1>2, <1>3 DEF DeactivationPlan
<1>5. \A d \in Departments : RemovalPlan(d) \in Seq(Sweep)
  BY <1>3 DEF RemovalPlan
<1> QED  BY <1>3, <1>4, <1>5

(* The transaction s changes what it remembers, but neither the user it is *)
(* about nor what it decided on a ticket.                                  *)
LEMMA AdminLocalKeeps ==
  ASSUME IndInv, NEW s \in Slots, NEW a \in AdminTx,
         \/ Free(s) /\ \A t \in TicketIds : a.act[t] = "none"
         \/ RunningAdmin(s) /\ a.act = adm[s].act /\ a.user = adm[s].user,
         adm' = [adm EXCEPT ![s] = a],
         \A t \in TicketIds :
           t \in a.todo /\ a.sweep.kind \in {"userTickets", "deptClaims"} => Exists(t),
         UNCHANGED <<storeVars, req, hreq, dreq, reminderVars>>
  PROVE  IndInv'
<1>0. TypeOK /\ AdminLocked /\ HandoffsLocked
  BY DEF IndInv
<1>1. UNCHANGED <<tickets, handoffs, users, members, activeDepts, lock, log, req, hreq, dreq,
                  candidates, sent>>
  BY DEF storeVars, tables, reminderVars
<1>2. adm'[s] = a /\ \A x \in Slots \ {s} : adm'[x] = adm[x]
  BY <1>0 DEF TypeOK, AdminTypeOK
<1>3. TypeOK'
  <2>1. AdminTypeOK'
    BY <1>0 DEF TypeOK, AdminTypeOK
  <2> QED  BY <1>0, <1>1, <2>1
     DEF TypeOK, StoreTypeOK, LifecycleTypeOK, HandoffTypeOK, DepartmentTypeOK, ReminderTypeOK
<1>4. TicketsConsistent' /\ PendingHandoffsLive' /\ NoDuplicatePending' /\ RowsKnown'
      /\ RequestsKnown'
  BY <1>1, KeepRows, KeepKnown, KeepRequests DEF IndInv
<1>5. HandoffsLocked'
  <2>1. ~RunningHandoff(s)
    BY <1>0 DEF Free, HandoffsLocked, HandoffReads
  <2>2. \A x \in Slots : RunningHandoff(x) => (RunningAdmin(x)' => RunningAdmin(x))
    BY <1>2, <2>1 DEF RunningAdmin
  <2> QED  BY <1>0, <1>1, <2>2, KeepHandoffs
<1>6. AdminLocked'
  <2> SUFFICES ASSUME NEW x \in Slots, RunningAdmin(x)', NEW t \in TicketIds
               PROVE  /\ adm'[x].act[t] # "none" => lock[t] = x
                      /\ Deserved(adm'[x].act[t], tickets[t], adm'[x].user)
                      /\ t \in adm'[x].todo
                         /\ adm'[x].sweep.kind \in {"userTickets", "deptClaims"} => Exists(t)
    BY <1>1 DEF AdminLocked, Exists
  <2>1. CASE x # s
    BY <1>0, <1>2, <2>1 DEF AdminLocked, RunningAdmin
  <2>2. CASE x = s /\ \A y \in TicketIds : a.act[y] = "none"
    BY <1>2, <2>2 DEF Deserved
  <2>3. CASE x = s /\ RunningAdmin(s) /\ a.act = adm[s].act /\ a.user = adm[s].user
    BY <1>0, <1>2, <2>3 DEF AdminLocked
  <2> QED  BY <2>1, <2>2, <2>3
<1> QED  BY <1>3, <1>4, <1>5, <1>6 DEF IndInv

LEMMA BeginAdminKeeps ==
  ASSUME IndInv, NEW s \in Slots, Free(s), NEW op \in RowOps \cup MemberOps,
         NEW u \in Users, NEW d \in Departments, NEW role \in Roles,
         NEW plan \in Seq(Sweep), BeginAdmin(s, op, u, d, role, plan),
         UNCHANGED <<req, hreq, dreq, reminderVars>>
  PROVE  IndInv'
<1> DEFINE a == [op |-> op, user |-> u, dept |-> d, role |-> role,
                 before |-> users[u].role, started |-> op \in MemberOps,
                 plan |-> plan, sweep |-> S("deptClaims", d),
                 todo |-> {}, depts |-> {}, act |-> [t \in TicketIds |-> "none"],
                 dropAdministration |-> FALSE, dropMemberships |-> FALSE]
<1>1. users[u].role \in Roles
  BY DEF IndInv, TypeOK, StoreTypeOK, UserRow
<1>2. a \in AdminTx
  <2>1. S("deptClaims", d) \in Sweep /\ (op \in MemberOps) \in BOOLEAN
    BY Plans
  <2>2. [t \in TicketIds |-> "none"] \in [TicketIds -> Acts]
    BY DEF Acts
  <2> QED  BY <1>1, <2>1, <2>2 DEF AdminTx
<1>3. adm' = [adm EXCEPT ![s] = a] /\ UNCHANGED storeVars
  BY DEF BeginAdmin
<1>4. (\A t \in TicketIds : a.act[t] = "none") /\ a.todo = {}
  OBVIOUS
<1> HIDE DEF a
<1> QED  BY <1>2, <1>3, <1>4, AdminLocalKeeps

LEMMA AdminBeginKeeps ==
  ASSUME IndInv, NEW s \in Slots, Free(s), AdminBegin(s),
         UNCHANGED <<req, hreq, dreq, reminderVars>>
  PROVE  IndInv'
<1>0. Administration \in Departments /\ \A u \in Users : users[u].role \in Roles
  BY StoreAssumption DEF IndInv, TypeOK, StoreTypeOK, UserRow
<1>1. ASSUME NEW u \in Users, NEW role \in Roles, BeginSetRole(s, u, role)
      PROVE  IndInv'
  <2> DEFINE drop == IF users[u].role = "Admin"
                     THEN <<S("administration", Administration)>> ELSE <<>>
             sweep == IF role = "Employee"
                      THEN <<S("userHandoffs", Administration),
                             S("memberships", Administration)>> ELSE <<>>
  <2>1. S("administration", Administration) \in Sweep /\ S("userHandoffs", Administration) \in Sweep
        /\ S("memberships", Administration) \in Sweep
    BY <1>0 DEF S, Sweep, SweepKinds
  <2>2. drop \in Seq(Sweep) /\ sweep \in Seq(Sweep)
    BY <2>1
  <2>3. drop \o sweep \in Seq(Sweep)
    BY <2>2
  <2>4. BeginAdmin(s, "setRole", u, Administration, role, drop \o sweep)
    BY <1>1 DEF BeginSetRole
  <2> HIDE DEF drop, sweep
  <2> QED  BY <1>0, <2>3, <2>4, BeginAdminKeeps DEF RowOps
<1>2. ASSUME NEW u \in Users, BeginDeactivate(s, u)
      PROVE  IndInv'
  BY <1>0, <1>2, Plans, BeginAdminKeeps DEF BeginDeactivate, RowOps
<1>3. ASSUME NEW u \in Users, BeginActivate(s, u)
      PROVE  IndInv'
  <2>1. <<>> \in Seq(Sweep)
    OBVIOUS
  <2> QED  BY <1>0, <1>3, <2>1, BeginAdminKeeps DEF BeginActivate, RowOps
<1>4. ASSUME NEW u \in Users, NEW d \in Departments, BeginAddMember(s, u, d)
      PROVE  IndInv'
  <2>1. <<>> \in Seq(Sweep)
    OBVIOUS
  <2> QED  BY <1>0, <1>4, <2>1, BeginAdminKeeps DEF BeginAddMember, MemberOps
<1>5. ASSUME NEW u \in Users, NEW d \in Departments, BeginRemoveMember(s, u, d)
      PROVE  IndInv'
  BY <1>0, <1>5, Plans, BeginAdminKeeps DEF BeginRemoveMember, MemberOps
<1> QED  BY <1>1, <1>2, <1>3, <1>4, <1>5 DEF AdminBegin

(* What is known of a running administration transaction. *)
LEMMA AdminFacts ==
  ASSUME IndInv, NEW s \in Slots, RunningAdmin(s)
  PROVE  /\ adm[s] \in AdminTx
         /\ adm[s].user \in Users /\ adm[s].dept \in Departments
         /\ adm[s].plan \in Seq(Sweep) /\ adm[s].sweep \in Sweep
         /\ adm[s].todo \in SUBSET TicketIds /\ adm[s].depts \in SUBSET Departments
         /\ adm[s].act \in [TicketIds -> Acts]
         /\ ~RunningHandoff(s)
<1>1. TypeOK /\ HandoffsLocked
  BY DEF IndInv
<1>2. adm[s] \in AdminTx
  BY <1>1, Rows
<1>3. ~RunningHandoff(s)
  BY <1>1 DEF HandoffsLocked, HandoffReads
<1> QED  BY <1>2, <1>3 DEF AdminTx

LEMMA SelectedTickets ==
  ASSUME IndInv, NEW s \in Slots, NEW k \in Sweep,
         k.kind \notin {"memberships", "administration"}
  PROVE  /\ Selected(s, k) \in SUBSET TicketIds
         /\ k.kind \in {"userTickets", "deptClaims"} =>
              \A t \in Selected(s, k) : Exists(t)
<1>1. k.kind \in {"userTickets", "userHandoffs", "deptHandoffs", "deptClaims"}
  BY DEF Sweep, SweepKinds
<1>2. CASE k.kind = "userTickets"
  BY <1>2 DEF Selected
<1>3. CASE k.kind = "userHandoffs"
  BY <1>3 DEF Selected
<1>4. CASE k.kind = "deptHandoffs"
  BY <1>4 DEF Selected
<1>5. CASE k.kind = "deptClaims"
  BY <1>5 DEF Selected
<1> QED  BY <1>1, <1>2, <1>3, <1>4, <1>5

LEMMA StartSweepKeeps ==
  ASSUME IndInv, NEW s \in Slots, StartSweep(s),
         UNCHANGED <<req, hreq, dreq, reminderVars>>
  PROVE  IndInv'
<1> DEFINE k == Head(adm[s].plan)
           a == [adm[s] EXCEPT !.sweep = k, !.todo = Selected(s, k),
                               !.plan = Tail(adm[s].plan)]
<1>1. /\ RunningAdmin(s) /\ adm[s].plan # <<>>
      /\ k.kind \notin {"memberships", "administration"}
      /\ adm' = [adm EXCEPT ![s] = a] /\ UNCHANGED storeVars
  BY DEF StartSweep
<1>2. adm[s] \in AdminTx /\ adm[s].plan \in Seq(Sweep)
  BY <1>1, AdminFacts
<1>3. k \in Sweep /\ Tail(adm[s].plan) \in Seq(Sweep)
  BY <1>1, <1>2
<1>4. /\ Selected(s, k) \in SUBSET TicketIds
      /\ k.kind \in {"userTickets", "deptClaims"} => \A t \in Selected(s, k) : Exists(t)
  BY <1>1, <1>3, SelectedTickets
<1> HIDE DEF k
<1>5. /\ a \in AdminTx /\ a.act = adm[s].act /\ a.user = adm[s].user
      /\ a.todo = Selected(s, k) /\ a.sweep = k
  BY <1>2, <1>3, <1>4 DEF AdminTx
<1> HIDE DEF a
<1> QED  BY <1>1, <1>4, <1>5, AdminLocalKeeps

(* A step that leaves the sweep as it is. *)
LEMMA SameSweepKeeps ==
  ASSUME IndInv, NEW s \in Slots, RunningAdmin(s), NEW a \in AdminTx,
         a.act = adm[s].act, a.user = adm[s].user, a.todo = adm[s].todo,
         a.sweep = adm[s].sweep,
         adm' = [adm EXCEPT ![s] = a],
         UNCHANGED <<storeVars, req, hreq, dreq, reminderVars>>
  PROVE  IndInv'
<1>1. \A t \in TicketIds :
        t \in a.todo /\ a.sweep.kind \in {"userTickets", "deptClaims"} => Exists(t)
  BY DEF IndInv, AdminLocked
<1> QED  BY <1>1, AdminLocalKeeps

LEMMA ReadingsKeep ==
  ASSUME IndInv, NEW s \in Slots,
         UpdateUser(s) \/ ReadMemberships(s) \/ SweepDepartment(s) \/ ReadAdministration(s),
         UNCHANGED <<req, hreq, dreq, reminderVars>>
  PROVE  IndInv'
<1>1. CASE UpdateUser(s)
  <2> DEFINE a == [adm[s] EXCEPT !.started = TRUE]
  <2>1. RunningAdmin(s) /\ adm' = [adm EXCEPT ![s] = a] /\ UNCHANGED storeVars
    BY <1>1 DEF UpdateUser, RunningAdmin, RowOps
  <2>2. adm[s] \in AdminTx
    BY <2>1, AdminFacts
  <2>3. /\ a \in AdminTx /\ a.act = adm[s].act /\ a.user = adm[s].user
        /\ a.todo = adm[s].todo /\ a.sweep = adm[s].sweep
    BY <2>2 DEF AdminTx
  <2> HIDE DEF a
  <2> QED  BY <2>1, <2>3, SameSweepKeeps
<1>2. CASE ReadMemberships(s)
  <2> DEFINE found == {d \in Departments : IsMember(adm[s].user, d)}
                      \ (IF adm[s].dropAdministration THEN {Administration} ELSE {})
             a == [adm[s] EXCEPT !.depts = found, !.dropMemberships = found # {},
                                 !.plan = Tail(adm[s].plan)]
  <2>1. /\ RunningAdmin(s) /\ adm[s].plan # <<>>
        /\ adm' = [adm EXCEPT ![s] = a] /\ UNCHANGED storeVars
    BY <1>2 DEF ReadMemberships
  <2>2. adm[s] \in AdminTx /\ adm[s].plan \in Seq(Sweep)
    BY <2>1, AdminFacts
  <2>3. Tail(adm[s].plan) \in Seq(Sweep) /\ found \in SUBSET Departments
        /\ (found # {}) \in BOOLEAN
    BY <2>1, <2>2
  <2> HIDE DEF found
  <2>4. /\ a \in AdminTx /\ a.act = adm[s].act /\ a.user = adm[s].user
        /\ a.todo = adm[s].todo /\ a.sweep = adm[s].sweep
    BY <2>2, <2>3 DEF AdminTx
  <2> HIDE DEF a
  <2> QED  BY <2>1, <2>4, SameSweepKeeps
<1>3. CASE SweepDepartment(s)
  <2>1. PICK d \in adm[s].depts :
          adm' = [adm EXCEPT ![s].depts = adm[s].depts \ {d}, ![s].plan = RemovalPlan(d)]
    BY <1>3 DEF SweepDepartment
  <2> DEFINE a == [adm[s] EXCEPT !.depts = adm[s].depts \ {d}, !.plan = RemovalPlan(d)]
  <2>2. RunningAdmin(s) /\ adm' = [adm EXCEPT ![s] = a] /\ UNCHANGED storeVars
    BY <1>3, <2>1 DEF SweepDepartment
  <2>3. adm[s] \in AdminTx /\ adm[s].depts \in SUBSET Departments
    BY <2>2, AdminFacts
  <2>4. RemovalPlan(d) \in Seq(Sweep) /\ adm[s].depts \ {d} \in SUBSET Departments
    BY <2>3, Plans
  <2>5. /\ a \in AdminTx /\ a.act = adm[s].act /\ a.user = adm[s].user
        /\ a.todo = adm[s].todo /\ a.sweep = adm[s].sweep
    BY <2>3, <2>4 DEF AdminTx
  <2> HIDE DEF a
  <2> QED  BY <2>2, <2>5, SameSweepKeeps
<1>4. CASE ReadAdministration(s)
  <2> DEFINE member == IsMember(adm[s].user, Administration)
             first == IF member THEN RemovalPlan(Administration) ELSE <<>>
             a == [adm[s] EXCEPT !.dropAdministration = member,
                                 !.plan = first \o Tail(adm[s].plan)]
  <2>1. /\ RunningAdmin(s) /\ adm[s].plan # <<>>
        /\ adm' = [adm EXCEPT ![s] = a] /\ UNCHANGED storeVars
    BY <1>4 DEF ReadAdministration
  <2>2. adm[s] \in AdminTx /\ adm[s].plan \in Seq(Sweep)
    BY <2>1, AdminFacts
  <2>3. first \in Seq(Sweep) /\ Tail(adm[s].plan) \in Seq(Sweep)
    <3>1. RemovalPlan(Administration) \in Seq(Sweep) /\ <<>> \in Seq(Sweep)
      BY StoreAssumption, Plans
    <3> QED  BY <2>1, <2>2, <3>1
  <2>4. member \in BOOLEAN
    BY DEF IsMember
  <2> HIDE DEF first, member
  <2>5. first \o Tail(adm[s].plan) \in Seq(Sweep)
    BY <2>3
  <2>6. /\ a \in AdminTx /\ a.act = adm[s].act /\ a.user = adm[s].user
        /\ a.todo = adm[s].todo /\ a.sweep = adm[s].sweep
    BY <2>2, <2>4, <2>5 DEF AdminTx
  <2> HIDE DEF a
  <2> QED  BY <2>1, <2>6, SameSweepKeeps
<1> QED  BY <1>1, <1>2, <1>3, <1>4

(* What is decided on a locked ticket is deserved by its row. *)
LEMMA DecisionDeserved ==
  ASSUME IndInv, NEW s \in Slots, RunningAdmin(s), NEW t \in adm[s].todo
  PROVE  /\ Decision(s, t) \in Acts
         /\ Deserved(Decision(s, t), tickets[t], adm[s].user)
<1> DEFINE k == adm[s].sweep.kind
           u == adm[s].user
           row == tickets[t]
<1>1. t \in TicketIds /\ adm[s].act[t] \in Acts /\ k \in SweepKinds
  BY AdminFacts DEF Sweep
<1>2. /\ Deserved(adm[s].act[t], row, u)
      /\ k \in {"userTickets", "deptClaims"} => row # NoTicket
  BY <1>1 DEF IndInv, AdminLocked, Exists
<1>3. CASE k = "userTickets" /\ row.active /\ (SubmittedBy(row, u) \/ ClaimedBy(row, u))
  BY <1>2, <1>3 DEF Decision, Deserved, Acts
<1>4. CASE k = "deptClaims" /\ row.active /\ ClaimedBy(row, u)
  BY <1>2, <1>4 DEF Decision, Deserved, Acts
<1>5. CASE k \in {"userHandoffs", "deptHandoffs"} /\ adm[s].act[t] = "none"
  BY <1>5 DEF Decision, Deserved, Acts
<1>6. CASE /\ ~(k = "userTickets" /\ row.active /\ (SubmittedBy(row, u) \/ ClaimedBy(row, u)))
           /\ ~(k = "deptClaims" /\ row.active /\ ClaimedBy(row, u))
           /\ ~(k \in {"userHandoffs", "deptHandoffs"} /\ adm[s].act[t] = "none")
  BY <1>1, <1>2, <1>6 DEF Decision
<1> QED  BY <1>3, <1>4, <1>5, <1>6

LEMMA LockNextKeeps ==
  ASSUME IndInv, NEW s \in Slots, LockNext(s),
         UNCHANGED <<req, hreq, dreq, reminderVars>>
  PROVE  IndInv'
<1>0. TypeOK /\ AdminLocked /\ HandoffsLocked
  BY DEF IndInv
<1>1. PICK t \in adm[s].todo :
        /\ CanLock(s, t)
        /\ lock' = [lock EXCEPT ![t] = s]
        /\ adm' = [adm EXCEPT ![s].todo = adm[s].todo \ {t}, ![s].act[t] = Decision(s, t)]
  BY DEF LockNext
<1>2. /\ RunningAdmin(s)
      /\ UNCHANGED <<tickets, handoffs, users, members, activeDepts, log, req, hreq, dreq,
                     candidates, sent>>
  BY DEF LockNext, tables, reminderVars
<1> DEFINE act == [adm[s].act EXCEPT ![t] = Decision(s, t)]
           a == [adm[s] EXCEPT !.todo = adm[s].todo \ {t}, !.act = act]
<1>3. /\ adm[s] \in AdminTx /\ adm[s].todo \in SUBSET TicketIds /\ t \in TicketIds
      /\ adm[s].act \in [TicketIds -> Acts] /\ ~RunningHandoff(s)
  BY <1>2, AdminFacts
<1>4. Decision(s, t) \in Acts /\ Deserved(Decision(s, t), tickets[t], adm[s].user)
  BY <1>2, DecisionDeserved
<1>5. /\ act \in [TicketIds -> Acts] /\ act[t] = Decision(s, t)
      /\ \A y \in TicketIds \ {t} : act[y] = adm[s].act[y]
  BY <1>3, <1>4
<1>6. adm' = [adm EXCEPT ![s] = a]
  BY <1>0, <1>1, <1>3 DEF TypeOK, AdminTypeOK
<1> HIDE DEF act
<1>7. /\ a \in AdminTx /\ a.act = act /\ a.user = adm[s].user
      /\ a.todo = adm[s].todo \ {t} /\ a.sweep = adm[s].sweep
  BY <1>3, <1>5 DEF AdminTx
<1> HIDE DEF a
<1>8. /\ adm' \in [Slots -> AdminTx \cup {NoAdminTx}] /\ adm'[s] = a
      /\ \A x \in Slots \ {s} : adm'[x] = adm[x]
  BY <1>0, <1>6, <1>7 DEF TypeOK, AdminTypeOK
<1>9. /\ lock' \in [TicketIds -> Slots \cup {NoSlot}] /\ lock'[t] = s
      /\ \A y \in TicketIds \ {t} : lock'[y] = lock[y]
  BY <1>0, <1>1, <1>3 DEF TypeOK, StoreTypeOK
<1>10. lock[t] = NoSlot \/ lock[t] = s
  BY <1>1 DEF CanLock
<1>11. NoSlot \notin Slots
  BY StoreAssumption
<1>12. TypeOK'
  BY <1>0, <1>2, <1>8, <1>9
     DEF TypeOK, StoreTypeOK, LifecycleTypeOK, HandoffTypeOK, AdminTypeOK, DepartmentTypeOK,
         ReminderTypeOK
<1>13. TicketsConsistent' /\ PendingHandoffsLive' /\ NoDuplicatePending' /\ RowsKnown'
       /\ RequestsKnown'
  BY <1>2, KeepRows, KeepKnown, KeepRequests DEF IndInv
<1>14. HandoffsLocked'
  <2> SUFFICES ASSUME NEW x \in Slots, RunningHandoff(x)'
               PROVE  HandoffReads(x)'
    BY DEF HandoffsLocked
  <2>1. RunningHandoff(x) /\ x # s /\ HandoffReads(x) /\ hreq[x] \in HandoffTx
    BY <1>0, <1>2, <1>3, Rows DEF HandoffsLocked, RunningHandoff
  <2>2. hreq[x].ticket \in TicketIds /\ hreq[x].ticket # t
    BY <1>10, <1>11, <2>1 DEF HandoffReads, HandoffTx
  <2>3. lock'[hreq[x].ticket] = lock[hreq[x].ticket] /\ adm'[x] = adm[x]
    BY <1>8, <1>9, <2>1, <2>2
  <2> QED  BY <1>2, <2>1, <2>3 DEF HandoffReads, RunningHandoff, RunningAdmin, Exists, IsPending
<1>15. AdminLocked'
  <2> SUFFICES ASSUME NEW x \in Slots, RunningAdmin(x)', NEW y \in TicketIds
               PROVE  /\ adm'[x].act[y] # "none" => lock'[y] = x
                      /\ Deserved(adm'[x].act[y], tickets[y], adm'[x].user)
                      /\ y \in adm'[x].todo
                         /\ adm'[x].sweep.kind \in {"userTickets", "deptClaims"} => Exists(y)
    BY <1>2 DEF AdminLocked, Exists
  <2>1. CASE x # s
    <3>1. adm'[x] = adm[x] /\ RunningAdmin(x)
      BY <1>8, <2>1 DEF RunningAdmin
    <3>2. adm[x].act[y] # "none" => y # t
      BY <1>0, <1>10, <1>11, <2>1, <3>1 DEF AdminLocked
    <3> QED  BY <1>0, <1>9, <3>1, <3>2 DEF AdminLocked
  <2>2. CASE x = s /\ y = t
    BY <1>4, <1>5, <1>7, <1>8, <1>9, <2>2
  <2>3. CASE x = s /\ y # t
    BY <1>0, <1>2, <1>5, <1>7, <1>8, <1>9, <2>3 DEF AdminLocked
  <2> QED  BY <2>1, <2>2, <2>3
<1> QED  BY <1>12, <1>13, <1>14, <1>15 DEF IndInv

-----------------------------------------------------------------------------
(* UserReconciliation: the end of the transaction. *)

LEMMA FinishKeeps ==
  ASSUME IndInv, NEW s \in Slots, RunningAdmin(s), Finish(s),
         UNCHANGED <<req, hreq, dreq, candidates, sent, log>>,
         tickets' \in [TicketIds -> TicketRow \cup {NoTicket}],
         handoffs' \in [HandoffIds -> HandoffRow \cup {NoHandoff}],
         users' \in [Users -> UserRow], members' \subseteq Users \X Departments,
         activeDepts' = activeDepts,
         \A t \in TicketIds :
           /\ Exists(t)' <=> Exists(t)
           /\ adm[s].act[t] = "none" => tickets'[t] = tickets[t],
         \A h \in HandoffIds :
           handoffs'[h] # handoffs[h] =>
             /\ IsPending(h) /\ ~IsPending(h)'
             /\ handoffs'[h].ticket = handoffs[h].ticket
             /\ adm[s].act[handoffs[h].ticket] # "none"
  PROVE  TypeOK' /\ RowsKnown' /\ RequestsKnown' /\ HandoffsLocked' /\ AdminLocked'
<1>0. TypeOK /\ RowsKnown /\ RequestsKnown /\ HandoffsLocked /\ AdminLocked
  BY DEF IndInv
<1>1. /\ adm' = [adm EXCEPT ![s] = NoAdminTx]
      /\ lock' = [t \in TicketIds |-> IF lock[t] = s THEN NoSlot ELSE lock[t]]
  BY DEF Finish
<1>2. /\ adm' \in [Slots -> AdminTx \cup {NoAdminTx}] /\ adm'[s] = NoAdminTx
      /\ \A x \in Slots \ {s} : adm'[x] = adm[x]
  BY <1>0, <1>1 DEF TypeOK, AdminTypeOK
<1>3. /\ lock' \in [TicketIds -> Slots \cup {NoSlot}]
      /\ \A t \in TicketIds : lock[t] # s => lock'[t] = lock[t]
  BY <1>0, <1>1 DEF TypeOK, StoreTypeOK
<1>4. \A x \in Slots : RunningAdmin(x)' => x # s /\ RunningAdmin(x)
  BY <1>2 DEF RunningAdmin, NoAdminTx
<1>5. ~RunningHandoff(s)
  BY AdminFacts
<1>6. TypeOK'
  BY <1>0, <1>2, <1>3
     DEF TypeOK, StoreTypeOK, LifecycleTypeOK, HandoffTypeOK, AdminTypeOK, DepartmentTypeOK,
         ReminderTypeOK
<1>7. RowsKnown'
  <2>1. \A h \in HandoffIds : handoffs'[h] # NoHandoff =>
          handoffs[h] # NoHandoff /\ handoffs'[h].ticket = handoffs[h].ticket
    BY <1>0, Rows
  <2>2. \A h \in HandoffIds : handoffs[h] # NoHandoff => handoffs[h].ticket \in TicketIds
    BY <1>0, Rows DEF HandoffRow
  <2>3. \A w \in Workers : \A c \in candidates[w] : c.ticket \in TicketIds
    BY <1>0 DEF TypeOK, ReminderTypeOK, Candidate
  <2> QED  BY <1>0, <2>1, <2>2, <2>3 DEF RowsKnown
<1>8. RequestsKnown'
  <2>1. \A x \in Slots : Serving(x) => req[x].ticket \in TicketIds
    BY <1>0, Rows DEF LifecycleRequest
  <2> QED  BY <1>0, <2>1 DEF RequestsKnown, Serving
<1>9. HandoffsLocked'
  <2> SUFFICES ASSUME NEW x \in Slots, RunningHandoff(x)'  PROVE HandoffReads(x)'
    BY DEF HandoffsLocked
  <2>1. RunningHandoff(x) /\ HandoffReads(x) /\ hreq'[x] = hreq[x] /\ x # s
    BY <1>0, <1>5 DEF HandoffsLocked, RunningHandoff
  <2>2. hreq[x].ticket \in TicketIds /\ hreq[x].handoff \in HandoffIds
    BY <1>0, <2>1, Rows DEF HandoffTx
  <2>3. adm[s].act[hreq[x].ticket] = "none"
    BY <1>0, <2>1, <2>2 DEF AdminLocked, HandoffReads
  <2>4. /\ lock'[hreq[x].ticket] = x /\ tickets'[hreq[x].ticket] = tickets[hreq[x].ticket]
        /\ ~RunningAdmin(x)'
    BY <1>3, <1>4, <2>1, <2>2, <2>3 DEF HandoffReads
  <2>5. handoffs'[hreq[x].handoff] = handoffs[hreq[x].handoff]
    <3>1. CASE hreq[x].op = "request"
      BY <2>1, <2>2, <3>1 DEF HandoffReads, IsPending, NoHandoff
    <3>2. CASE hreq[x].op # "request"
      BY <2>1, <2>2, <2>3, <3>2 DEF HandoffReads
    <3> QED  BY <3>1, <3>2
  <2>6. \A g \in HandoffIds :
          IsPending(g)' => handoffs'[g] = handoffs[g]
    OBVIOUS
  <2> QED  BY <2>1, <2>2, <2>4, <2>5, <2>6
       DEF HandoffReads, IsPending, Exists, RunningHandoff, RunningAdmin
<1>10. AdminLocked'
  <2> SUFFICES ASSUME NEW x \in Slots, RunningAdmin(x)', NEW y \in TicketIds
               PROVE  /\ adm'[x].act[y] # "none" => lock'[y] = x
                      /\ Deserved(adm'[x].act[y], tickets'[y], adm'[x].user)
                      /\ y \in adm'[x].todo
                         /\ adm'[x].sweep.kind \in {"userTickets", "deptClaims"} => Exists(y)'
    BY DEF AdminLocked
  <2>1. x # s /\ RunningAdmin(x) /\ adm'[x] = adm[x]
    BY <1>2, <1>4
  <2>2. adm[x].act[y] # "none" => lock[y] = x /\ adm[s].act[y] = "none"
    BY <1>0, <2>1 DEF AdminLocked
  <2>3. CASE adm[x].act[y] = "none"
    BY <1>0, <2>1, <2>3 DEF AdminLocked, Deserved
  <2>4. CASE adm[x].act[y] # "none"
    BY <1>0, <1>3, <2>1, <2>2, <2>4 DEF AdminLocked
  <2> QED  BY <2>3, <2>4
<1> QED  BY <1>6, <1>7, <1>8, <1>9, <1>10

LEMMA AbortAdminKeeps ==
  ASSUME IndInv, NEW s \in Slots, AbortAdmin(s),
         UNCHANGED <<req, hreq, dreq, reminderVars>>
  PROVE  IndInv'
<1>1. /\ RunningAdmin(s) /\ Finish(s)
      /\ UNCHANGED <<tickets, handoffs, users, members, activeDepts, log, req, hreq, dreq,
                     candidates, sent>>
  BY DEF AbortAdmin, tables, reminderVars
<1>2. TypeOK' /\ RowsKnown' /\ RequestsKnown' /\ HandoffsLocked' /\ AdminLocked'
  BY <1>1, FinishKeeps DEF IndInv, TypeOK, StoreTypeOK, Exists
<1>3. TicketsConsistent' /\ PendingHandoffsLive' /\ NoDuplicatePending'
  BY <1>1, KeepRows DEF IndInv
<1> QED  BY <1>2, <1>3 DEF IndInv

(* The rows a reconciliation writes. *)
LEMMA CommitAdminRows ==
  ASSUME IndInv, NEW s \in Slots, CommitAdmin(s)
  PROVE  /\ tickets' \in [TicketIds -> TicketRow \cup {NoTicket}]
         /\ TicketsConsistent'
         /\ \A t \in TicketIds :
              /\ Exists(t)' <=> Exists(t)
              /\ adm[s].act[t] = "none" => tickets'[t] = tickets[t]
<1>0. TypeOK /\ TicketsConsistent /\ AdminLocked
  BY DEF IndInv
<1>1. /\ RunningAdmin(s)
      /\ tickets' = [t \in TicketIds |->
                       IF adm[s].act[t] \in {"close", "deactivate"}
                       THEN ReconciledRow(tickets[t], adm[s].act[t]) ELSE tickets[t]]
  BY DEF CommitAdmin
<1>2. ASSUME NEW t \in TicketIds, adm[s].act[t] \in {"close", "deactivate"}
      PROVE  /\ Exists(t)
             /\ ReconciledRow(tickets[t], adm[s].act[t]) \in TicketRow
             /\ RowConsistent(ReconciledRow(tickets[t], adm[s].act[t]))
  <2>1. Exists(t)
    BY <1>0, <1>1, <1>2 DEF AdminLocked, Deserved, Exists
  <2>2. tickets[t] \in TicketRow
    BY <1>0, <2>1, Rows
  <2>3. CASE adm[s].act[t] = "close"
    <3>1. /\ ReconciledRow(tickets[t], "close") \in TicketRow
          /\ RowConsistent(ReconciledRow(tickets[t], "close"))
      <4>1. adm[s].user \in Users
        BY <1>1, AdminFacts
      <4> QED  BY <2>2, <4>1, WrittenRows, WrittenRowsConsistent
    <3> QED  BY <2>1, <2>3, <3>1
  <2>4. CASE adm[s].act[t] = "deactivate"
    <3>1. /\ ReconciledRow(tickets[t], "deactivate") \in TicketRow
          /\ RowConsistent(ReconciledRow(tickets[t], "deactivate"))
      <4>1. adm[s].user \in Users
        BY <1>1, AdminFacts
      <4> QED  BY <2>2, <4>1, WrittenRows, WrittenRowsConsistent
    <3> QED  BY <2>1, <2>4, <3>1
  <2> QED  BY <1>2, <2>3, <2>4
<1>3. \A t \in TicketIds : tickets[t] \in TicketRow \cup {NoTicket}
  BY <1>0 DEF TypeOK, StoreTypeOK
<1>4. tickets' \in [TicketIds -> TicketRow \cup {NoTicket}]
  BY <1>1, <1>2, <1>3
<1>5. TicketsConsistent'
  BY <1>0, <1>1, <1>2 DEF TicketsConsistent, Exists
<1>6. \A t \in TicketIds : Exists(t)' <=> Exists(t)
  BY <1>1, <1>2, NullRows DEF Exists
<1>7. \A t \in TicketIds : adm[s].act[t] = "none" => tickets'[t] = tickets[t]
  BY <1>1
<1> QED  BY <1>4, <1>5, <1>6, <1>7

LEMMA UserAndMembersAfter ==
  ASSUME IndInv, NEW s \in Slots, RunningAdmin(s)
  PROVE  UserAfter(adm[s]) \in UserRow /\ MembersAfter(adm[s]) \subseteq Users \X Departments
<1>1. adm[s] \in AdminTx /\ adm[s].user \in Users /\ adm[s].dept \in Departments
  BY AdminFacts
<1>2. /\ users[adm[s].user] \in UserRow /\ members \subseteq Users \X Departments
      /\ Administration \in Departments
  BY <1>1, StoreAssumption DEF IndInv, TypeOK, StoreTypeOK
<1>3. UserAfter(adm[s]) \in UserRow
  BY <1>1, <1>2 DEF UserAfter, UserRow, AdminTx
<1>4. MembersAfter(adm[s]) \subseteq Users \X Departments
  BY <1>1, <1>2 DEF MembersAfter
<1> QED  BY <1>3, <1>4

LEMMA CommitAdminKeeps ==
  ASSUME IndInv, NEW s \in Slots, CommitAdmin(s),
         UNCHANGED <<req, hreq, dreq, reminderVars>>
  PROVE  IndInv'
<1> DEFINE T == SweptTickets(adm[s])
<1>0. TypeOK /\ PendingHandoffsLive /\ NoDuplicatePending
  BY DEF IndInv
<1>1. /\ RunningAdmin(s) /\ Finish(s)
      /\ handoffs' = CancelPendingForTicket(T)
      /\ users' = [users EXCEPT ![adm[s].user] = UserAfter(adm[s])]
      /\ members' = MembersAfter(adm[s])
      /\ UNCHANGED <<activeDepts, log, req, hreq, dreq, candidates, sent>>
  BY DEF CommitAdmin, reminderVars
<1>2. /\ tickets' \in [TicketIds -> TicketRow \cup {NoTicket}]
      /\ TicketsConsistent'
      /\ \A t \in TicketIds :
           /\ Exists(t)' <=> Exists(t)
           /\ adm[s].act[t] = "none" => tickets'[t] = tickets[t]
  BY CommitAdminRows
<1>3. users' \in [Users -> UserRow] /\ members' \subseteq Users \X Departments
  BY <1>0, <1>1, UserAndMembersAfter DEF TypeOK, StoreTypeOK
<1>4. T \in SUBSET TicketIds /\ \A t \in TicketIds : t \in T <=> adm[s].act[t] # "none"
  BY DEF SweptTickets
<1> HIDE DEF T
<1>5. /\ handoffs' \in [HandoffIds -> HandoffRow \cup {NoHandoff}]
      /\ \A h \in HandoffIds :
           /\ handoffs'[h] # handoffs[h] => IsPending(h) /\ handoffs[h].ticket \in T
           /\ handoffs'[h].status = "PENDING" =>
                handoffs'[h] = handoffs[h] /\ handoffs[h].ticket \notin T
  BY <1>0, <1>1, <1>4, Cancelled
<1>6. \A h \in HandoffIds : IsPending(h) => handoffs[h].ticket \in TicketIds
  BY <1>0, Rows DEF HandoffRow
<1>7. \A h \in HandoffIds :
        handoffs'[h] # handoffs[h] =>
          /\ IsPending(h) /\ ~IsPending(h)'
          /\ handoffs'[h].ticket = handoffs[h].ticket
          /\ adm[s].act[handoffs[h].ticket] # "none"
  <2> SUFFICES ASSUME NEW h \in HandoffIds, handoffs'[h] # handoffs[h]
               PROVE  /\ IsPending(h) /\ ~IsPending(h)'
                      /\ handoffs'[h].ticket = handoffs[h].ticket
                      /\ adm[s].act[handoffs[h].ticket] # "none"
    OBVIOUS
  <2>1. IsPending(h) /\ ~IsPending(h)' /\ adm[s].act[handoffs[h].ticket] # "none"
    BY <1>4, <1>5, <1>6 DEF IsPending
  <2>2. handoffs'[h] = [handoffs[h] EXCEPT !.status = "CANCELLED"]
    BY <1>1 DEF CancelPendingForTicket
  <2>3. handoffs[h] \in HandoffRow
    BY <1>0, <2>1, Rows
  <2> QED  BY <2>1, <2>2, <2>3 DEF HandoffRow
<1>8. TypeOK' /\ RowsKnown' /\ RequestsKnown' /\ HandoffsLocked' /\ AdminLocked'
  BY <1>1, <1>2, <1>3, <1>5, <1>7, FinishKeeps
<1>9. \A h \in HandoffIds : IsPending(h)' =>
        /\ IsPending(h) /\ handoffs'[h] = handoffs[h]
        /\ tickets'[handoffs[h].ticket] = tickets[handoffs[h].ticket]
  BY <1>2, <1>4, <1>5, <1>6 DEF IsPending
<1>10. PendingHandoffsLive' /\ NoDuplicatePending'
  BY <1>0, <1>9 DEF PendingHandoffsLive, NoDuplicatePending
<1> QED  BY <1>2, <1>8, <1>10 DEF IndInv

LEMMA AdminKeeps ==
  ASSUME IndInv, NEW s \in Slots, AdminNext(s)
  PROVE  IndInv'
  BY AdminBeginKeeps, StartSweepKeeps, ReadingsKeep, LockNextKeeps, CommitAdminKeeps,
     AbortAdminKeeps
     DEF AdminNext, AdminStep

-----------------------------------------------------------------------------
(* DepartmentStatus, ReminderWorker, and crashes. *)

LEMMA DepartmentKeeps ==
  ASSUME IndInv, NEW s \in Slots, DepartmentNext(s)
  PROVE  IndInv'
<1>0. TypeOK
  BY DEF IndInv
<1>1. UNCHANGED <<tickets, handoffs, users, members, lock, log, req, hreq, adm, candidates, sent>>
  BY DEF DepartmentNext, DepartmentBegin, BeginSetDepartment, CommitSetDepartment, storeVars,
         tables, reminderVars
<1>2. DepartmentTypeOK' /\ activeDepts' \subseteq Departments
  <2>1. ASSUME NEW d \in Departments, NEW active \in BOOLEAN, BeginSetDepartment(s, d, active)
        PROVE  DepartmentTypeOK' /\ activeDepts' = activeDepts
    <3>1. [op |-> "setDepartment", dept |-> d, active |-> active] \in DepartmentTx
      BY DEF DepartmentTx
    <3> QED  BY <1>0, <2>1, <3>1
       DEF BeginSetDepartment, TypeOK, DepartmentTypeOK, storeVars, tables
  <2>2. CASE CommitSetDepartment(s)
    <3>1. dreq[s].dept \in Departments
      BY <1>0, <2>2, Rows DEF CommitSetDepartment, DepartmentTx
    <3> QED  BY <1>0, <2>2, <3>1
       DEF CommitSetDepartment, TypeOK, StoreTypeOK, DepartmentTypeOK
  <2>3. activeDepts \subseteq Departments
    BY <1>0 DEF TypeOK, StoreTypeOK
  <2> QED  BY <2>1, <2>2, <2>3 DEF DepartmentNext, DepartmentBegin
<1>3. TypeOK'
  BY <1>0, <1>1, <1>2
     DEF TypeOK, StoreTypeOK, LifecycleTypeOK, HandoffTypeOK, AdminTypeOK, ReminderTypeOK
<1>4. \A x \in Slots : RunningAdmin(x)' = RunningAdmin(x)
  BY <1>1 DEF RunningAdmin
<1> QED  BY <1>1, <1>3, <1>4, KeepRows, KeepKnown, KeepRequests, KeepHandoffs, KeepAdmin DEF IndInv

LEMMA RemindKeeps ==
  ASSUME IndInv, NEW w \in Workers, NEW c \in candidates[w], Remind(w, c),
         UNCHANGED <<req, hreq, adm, dreq>>
  PROVE  IndInv'
<1> DEFINE t == c.ticket
           row == [tickets[t] EXCEPT !.reminded = TRUE]
<1>0. /\ TypeOK /\ TicketsConsistent /\ PendingHandoffsLive /\ RowsKnown /\ RequestsKnown
  BY DEF IndInv
<1>1. /\ Unlocked(t) /\ AwaitsReminder(tickets[t])
      /\ tickets' = [tickets EXCEPT ![t] = row]
      /\ sent' = [sent EXCEPT ![t][c.since] = IF @ < MaxSent THEN @ + 1 ELSE @]
      /\ candidates' = [candidates EXCEPT ![w] = @ \ {c}]
      /\ UNCHANGED <<handoffs, users, members, activeDepts, lock, log>>
  BY DEF Remind, MarkReminderSent
<1>2. c \in Candidate /\ t \in TicketIds /\ c.since \in Lifecycles /\ Exists(t)
  BY <1>0 DEF TypeOK, ReminderTypeOK, Candidate, RowsKnown
<1>3. tickets[t] \in TicketRow /\ RowConsistent(tickets[t])
  BY <1>0, <1>2, Rows DEF TicketsConsistent
<1>4. row \in TicketRow /\ RowConsistent(row)
  <2>1. tickets[t].submitter \in Users
    BY <1>3 DEF TicketRow
  <2> QED  BY <1>1, <1>3, <2>1, WrittenRows, WrittenRowsConsistent
<1>5. PendingOf({t}) = {}
  BY <1>0, <1>1 DEF PendingOf, PendingHandoffsLive, HandoffLive, AwaitsReminder
<1>6. /\ \A s \in Slots : RunningHandoff(s) => hreq[s].ticket # t
      /\ \A s \in Slots : RunningAdmin(s) => adm[s].act[t] \notin {"close", "deactivate"}
  BY <1>1, <1>2, UnlockedTicket
<1> HIDE DEF row
<1>7. /\ tickets' \in [TicketIds -> TicketRow \cup {NoTicket}]
      /\ handoffs' \in [HandoffIds -> HandoffRow \cup {NoHandoff}]
      /\ TicketsConsistent' /\ PendingHandoffsLive' /\ NoDuplicatePending'
      /\ HandoffsLocked' /\ AdminLocked'
      /\ \A x \in TicketIds : Exists(x)' <=> Exists(x)
  <2>1. /\ tickets' \in [TicketIds -> TicketRow \cup {NoTicket}]
        /\ handoffs' \in [HandoffIds -> HandoffRow \cup {NoHandoff}]
        /\ TicketsConsistent' /\ PendingHandoffsLive' /\ NoDuplicatePending'
        /\ HandoffsLocked' /\ AdminLocked'
        /\ \A x \in TicketIds : Exists(x)' <=> Exists(x) \/ x = t
    BY <1>1, <1>2, <1>4, <1>5, <1>6, WriteTicket
  <2> QED  BY <1>2, <2>1
<1>8. candidates' \in [Workers -> SUBSET Candidate]
      /\ \A v \in Workers : candidates'[v] \subseteq candidates[v]
  BY <1>0, <1>1 DEF TypeOK, ReminderTypeOK
<1>9. sent' \in [TicketIds -> [Lifecycles -> 0 .. MaxSent]]
  <2>1. sent[t] \in [Lifecycles -> 0 .. MaxSent] /\ sent[t][c.since] \in 0 .. MaxSent
        /\ sent \in [TicketIds -> [Lifecycles -> 0 .. MaxSent]]
    BY <1>0, <1>2 DEF TypeOK, ReminderTypeOK
  <2> DEFINE n == IF sent[t][c.since] < MaxSent THEN sent[t][c.since] + 1 ELSE sent[t][c.since]
  <2>2. n \in 0 .. MaxSent
    BY <2>1 DEF MaxSent
  <2>3. sent' = [sent EXCEPT ![t] = [sent[t] EXCEPT ![c.since] = n]]
    BY <1>1, <1>2, <2>1
  <2> HIDE DEF n
  <2> QED  BY <2>1, <2>2, <2>3
<1>10. TypeOK'
  BY <1>0, <1>1, <1>7, <1>8, <1>9
     DEF TypeOK, StoreTypeOK, LifecycleTypeOK, HandoffTypeOK, AdminTypeOK, DepartmentTypeOK,
         ReminderTypeOK
<1>11. RowsKnown'
  <2>1. \A h \in HandoffIds : handoffs[h] # NoHandoff => handoffs[h].ticket \in TicketIds
    BY <1>0, Rows DEF HandoffRow
  <2>2. \A v \in Workers : \A d \in candidates[v] : d.ticket \in TicketIds
    BY <1>0 DEF TypeOK, ReminderTypeOK, Candidate
  <2> QED  BY <1>0, <1>1, <1>7, <1>8, <2>1, <2>2 DEF RowsKnown
<1>12. RequestsKnown'
  <2>1. \A x \in Slots : Serving(x) => req[x].ticket \in TicketIds
    BY <1>0, Rows DEF LifecycleRequest
  <2> QED  BY <1>0, <1>7, <2>1 DEF RequestsKnown, Serving
<1> QED  BY <1>7, <1>10, <1>11, <1>12 DEF IndInv

LEMMA WorkerKeeps ==
  ASSUME IndInv, WorkerNext
  PROVE  IndInv'
<1>0. TypeOK /\ RowsKnown /\ TicketsConsistent
  BY DEF IndInv
<1>1. ASSUME UNCHANGED <<tickets, handoffs, users, members, activeDepts, lock, log, req, hreq,
                         adm, dreq, sent>>,
             candidates' \in [Workers -> SUBSET Candidate],
             \A w \in Workers : \A c \in candidates'[w] : Exists(c.ticket)
      PROVE  IndInv'
  <2>1. TypeOK'
    BY <1>0, <1>1
       DEF TypeOK, StoreTypeOK, LifecycleTypeOK, HandoffTypeOK, AdminTypeOK, DepartmentTypeOK,
           ReminderTypeOK
  <2>2. RowsKnown'
    BY <1>0, <1>1 DEF RowsKnown, Exists
  <2>3. \A x \in Slots : RunningAdmin(x)' = RunningAdmin(x)
    BY <1>1 DEF RunningAdmin
  <2> QED  BY <1>1, <2>1, <2>2, <2>3, KeepRows, KeepRequests, KeepHandoffs, KeepAdmin DEF IndInv
<1>2. ASSUME NEW w \in Workers, FindCandidates(w), UNCHANGED <<req, hreq, adm, dreq>>
      PROVE  IndInv'
  <2> DEFINE found == {[ticket |-> t, since |-> tickets[t].unclaimedSince] :
                         t \in {x \in TicketIds : Exists(x) /\ AwaitsReminder(tickets[x])}}
  <2>1. /\ candidates' = [candidates EXCEPT ![w] = found]
        /\ UNCHANGED <<tickets, handoffs, users, members, activeDepts, lock, log, sent>>
    BY <1>2 DEF FindCandidates, storeVars, tables
  <2>2. \A t \in TicketIds : Exists(t) /\ AwaitsReminder(tickets[t]) =>
          tickets[t].unclaimedSince \in Lifecycles
    BY <1>0, Rows, StoreAssumption DEF TicketRow, AwaitsReminder, Lifecycles
  <2>3. found \in SUBSET Candidate /\ \A c \in found : Exists(c.ticket)
    BY <2>2 DEF Candidate
  <2> HIDE DEF found
  <2>4. /\ candidates' \in [Workers -> SUBSET Candidate]
        /\ candidates'[w] = found
        /\ \A v \in Workers \ {w} : candidates'[v] = candidates[v]
    BY <1>0, <2>1, <2>3 DEF TypeOK, ReminderTypeOK
  <2>5. \A v \in Workers : \A c \in candidates'[v] : Exists(c.ticket)
    BY <1>0, <2>3, <2>4 DEF RowsKnown
  <2> QED  BY <1>1, <1>2, <2>1, <2>4, <2>5
<1>3. ASSUME NEW w \in Workers, NEW c \in candidates[w], Skip(w, c),
             UNCHANGED <<req, hreq, adm, dreq>>
      PROVE  IndInv'
  <2>1. /\ candidates' = [candidates EXCEPT ![w] = @ \ {c}]
        /\ UNCHANGED <<tickets, handoffs, users, members, activeDepts, lock, log, sent>>
    BY <1>3 DEF Skip, storeVars, tables
  <2>2. /\ candidates' \in [Workers -> SUBSET Candidate]
        /\ \A v \in Workers : candidates'[v] \subseteq candidates[v]
    BY <1>0, <2>1 DEF TypeOK, ReminderTypeOK
  <2>3. \A v \in Workers : \A d \in candidates'[v] : Exists(d.ticket)
    BY <1>0, <2>2 DEF RowsKnown
  <2> QED  BY <1>1, <1>3, <2>1, <2>2, <2>3
<1> QED  BY <1>2, <1>3, RemindKeeps DEF WorkerNext, ReminderNext

LEMMA CrashKeeps ==
  ASSUME IndInv, Crash
  PROVE  IndInv'
<1>0. TypeOK /\ RowsKnown /\ RequestsKnown /\ HandoffsLocked /\ AdminLocked
  BY DEF IndInv
<1>1. PICK S1 \in SUBSET Slots, w \in Workers :
        /\ req' = [s \in Slots |-> IF s \in S1 THEN NoRequest ELSE req[s]]
        /\ hreq' = [s \in Slots |-> IF s \in S1 THEN NoHandoffTx ELSE hreq[s]]
        /\ adm' = [s \in Slots |-> IF s \in S1 THEN NoAdminTx ELSE adm[s]]
        /\ dreq' = [s \in Slots |-> IF s \in S1 THEN NoDepartmentTx ELSE dreq[s]]
        /\ candidates' = [candidates EXCEPT ![w] = {}]
        /\ lock' = [t \in TicketIds |-> IF lock[t] \in S1 THEN NoSlot ELSE lock[t]]
        /\ UNCHANGED <<tickets, handoffs, users, members, activeDepts, log, sent>>
  BY DEF Crash, tables
<1>2. TypeOK'
  BY <1>0, <1>1
     DEF TypeOK, StoreTypeOK, LifecycleTypeOK, HandoffTypeOK, AdminTypeOK, DepartmentTypeOK,
         ReminderTypeOK
<1>3. TicketsConsistent' /\ PendingHandoffsLive' /\ NoDuplicatePending'
  BY <1>1, KeepRows DEF IndInv
<1>4. RowsKnown'
  <2>1. \A v \in Workers : candidates'[v] \subseteq candidates[v]
    BY <1>0, <1>1 DEF TypeOK, ReminderTypeOK
  <2> QED  BY <1>0, <1>1, <2>1 DEF RowsKnown, Exists
<1>5. /\ \A s \in Slots : Serving(s)' => Serving(s) /\ req'[s] = req[s]
      /\ \A s \in Slots : RunningHandoff(s)' => s \notin S1 /\ RunningHandoff(s) /\ hreq'[s] = hreq[s]
      /\ \A s \in Slots : RunningAdmin(s)' => s \notin S1 /\ RunningAdmin(s) /\ adm'[s] = adm[s]
  BY <1>1 DEF Serving, NoRequest, RunningHandoff, NoHandoffTx, RunningAdmin, NoAdminTx
<1>6. RequestsKnown'
  BY <1>0, <1>1, <1>5 DEF RequestsKnown, Exists
<1>7. \A s \in Slots, t \in TicketIds : s \notin S1 /\ lock[t] = s => lock'[t] = s
  BY <1>1
<1>8. HandoffsLocked'
  <2> SUFFICES ASSUME NEW x \in Slots, RunningHandoff(x)'  PROVE HandoffReads(x)'
    BY DEF HandoffsLocked
  <2>1. /\ RunningHandoff(x) /\ HandoffReads(x) /\ hreq'[x] = hreq[x] /\ x \notin S1
        /\ hreq[x].ticket \in TicketIds
    BY <1>0, <1>5, Rows DEF HandoffsLocked, HandoffTx
  <2>2. lock'[hreq[x].ticket] = x /\ ~RunningAdmin(x)'
    BY <1>5, <1>7, <2>1 DEF HandoffReads
  <2> QED  BY <1>1, <1>5, <2>1, <2>2 DEF HandoffReads, Exists, IsPending
<1>9. AdminLocked'
  BY <1>0, <1>1, <1>5, <1>7 DEF AdminLocked, Exists
<1> QED  BY <1>2, <1>3, <1>4, <1>6, <1>8, <1>9 DEF IndInv

-----------------------------------------------------------------------------
(* The inductive invariant, and what follows from it. *)

LEMMA InitIndInv == Init => IndInv
<1> SUFFICES ASSUME Init  PROVE IndInv
  OBVIOUS
<1>1. TypeOK
  BY TypeInit
<1>2. /\ \A t \in TicketIds : tickets[t] = NoTicket /\ log[t] = NoLog
      /\ \A h \in HandoffIds : handoffs[h] = NoHandoff
      /\ \A w \in Workers : candidates[w] = {}
      /\ \A s \in Slots : /\ req[s] = NoRequest /\ hreq[s] = NoHandoffTx
                          /\ adm[s] = NoAdminTx
  BY DEF Init, StoreInit, LifecycleInit, HandoffInit, AdminInit, ReminderInit
<1>3. /\ \A h \in HandoffIds : ~IsPending(h)
      /\ \A s \in Slots : ~Serving(s) /\ ~RunningHandoff(s) /\ ~RunningAdmin(s)
  BY <1>2 DEF IsPending, NoHandoff, Serving, NoRequest, RunningHandoff, NoHandoffTx,
              RunningAdmin, NoAdminTx
<1>4. TicketsConsistent /\ PendingHandoffsLive /\ NoDuplicatePending
  BY <1>2, <1>3 DEF TicketsConsistent, PendingHandoffsLive, NoDuplicatePending, Exists
<1>5. RowsKnown
  BY <1>2 DEF RowsKnown, Exists
<1>6. RequestsKnown /\ HandoffsLocked /\ AdminLocked
  BY <1>3 DEF RequestsKnown, HandoffsLocked, AdminLocked
<1> QED  BY <1>1, <1>4, <1>5, <1>6 DEF IndInv

LEMMA StutterKeeps ==
  ASSUME IndInv, UNCHANGED vars
  PROVE  IndInv'
<1>1. UNCHANGED <<tickets, handoffs, users, members, activeDepts, lock, log, req, hreq, adm, dreq,
                  candidates, sent>>
  BY DEF vars, storeVars, tables, reminderVars
<1>2. TypeOK'
  BY <1>1 DEF IndInv, TypeOK, StoreTypeOK, LifecycleTypeOK, HandoffTypeOK, AdminTypeOK,
              DepartmentTypeOK, ReminderTypeOK
<1>3. \A s \in Slots : RunningAdmin(s)' = RunningAdmin(s)
  BY <1>1 DEF RunningAdmin
<1> QED  BY <1>1, <1>2, <1>3, KeepRows, KeepKnown, KeepRequests, KeepHandoffs, KeepAdmin
         DEF IndInv

LEMMA NextIndInv == IndInv /\ [Next]_vars => IndInv'
<1> SUFFICES ASSUME IndInv, [Next]_vars  PROVE IndInv'
  OBVIOUS
<1>1. ASSUME NEW s \in Slots, LifecycleNext(s)  PROVE IndInv'
  BY <1>1, LifecycleKeeps
<1>2. ASSUME NEW s \in Slots, HandoffNext(s)  PROVE IndInv'
  BY <1>2, HandoffKeeps
<1>3. ASSUME NEW s \in Slots, AdminNext(s)  PROVE IndInv'
  BY <1>3, AdminKeeps
<1>4. ASSUME NEW s \in Slots, DepartmentNext(s)  PROVE IndInv'
  BY <1>4, DepartmentKeeps
<1>5. CASE WorkerNext
  BY <1>5, WorkerKeeps
<1>6. CASE Crash
  BY <1>6, CrashKeeps
<1>7. CASE UNCHANGED vars
  BY <1>7, StutterKeeps
<1> QED  BY <1>1, <1>2, <1>3, <1>4, <1>5, <1>6, <1>7 DEF Next

(* The invariant that the others are read off: it says of every request    *)
(* what its handler still knows of the rows it read, and of every          *)
(* reconciliation what it has locked.                                      *)
THEOREM Invariance == Spec => []IndInv
<1>1. Init => IndInv
  BY InitIndInv
<1>2. IndInv /\ [Next]_vars => IndInv'
  BY NextIndInv
<1> QED  BY <1>1, <1>2, PTL DEF Spec

(* Every table, request and transaction has its type in every reachable    *)
(* state: no handler writes a row that the schema does not allow.          *)
THEOREM TypeCorrect == Spec => []TypeOK
<1>1. IndInv => TypeOK
  BY DEF IndInv
<1> QED  BY <1>1, Invariance, PTL

(* An agent belongs to an active CLAIMED ticket and an unclaimed_since     *)
(* timestamp to an active unclaimed one, although saves write whole copies *)
(* read before the row was locked.                                         *)
THEOREM ConsistentTickets == Spec => []TicketsConsistent
<1>1. IndInv => TicketsConsistent
  BY DEF IndInv
<1> QED  BY <1>1, Invariance, PTL

(* A pending handoff request is about an active CLAIMED ticket of the agent *)
(* who made the request.                                                   *)
THEOREM LiveHandoffs == Spec => []PendingHandoffsLive
<1>1. IndInv => PendingHandoffsLive
  BY DEF IndInv
<1> QED  BY <1>1, Invariance, PTL

(* An agent is asked at most once at a time to take a ticket over.         *)
THEOREM SinglePending == Spec => []NoDuplicatePending
<1>1. IndInv => NoDuplicatePending
  BY DEF IndInv
<1> QED  BY <1>1, Invariance, PTL

-----------------------------------------------------------------------------
(* One reminder for each lifecycle.                                        *)

(* No reminder was delivered for a lifecycle that has not begun, and none  *)
(* for the present one while the row does not record it.                   *)
LifecyclesCounted(t) ==
  /\ \A n \in Lifecycles :
       sent[t][n] <= 1 /\ (n > log[t].opened => sent[t][n] = 0)
  /\ Exists(t) =>
       /\ tickets[t].unclaimedSince <= log[t].opened
       /\ tickets[t].unclaimedSince # 0 /\ ~tickets[t].reminded
            => sent[t][tickets[t].unclaimedSince] = 0

(* Without modifications no request keeps the timestamps of a lifecycle:   *)
(* a submission begins the first, and the others end one or number the     *)
(* next when they save.                                                    *)
NoStaleLifecycle ==
  \A s \in Slots :
    Serving(s) =>
      req[s].op # "modify" /\ (req[s].op = "submit" => req[s].row.unclaimedSince = 1)

RemindersInv == (\A t \in TicketIds : LifecyclesCounted(t)) /\ NoStaleLifecycle

(* What a step other than a reminder may do to the timestamps of a ticket: *)
(* leave them, clear them, or begin the next lifecycle.                    *)
LifecyclesNumbered(t) ==
  /\ log'[t].opened \in {log[t].opened, log[t].opened + 1}
  /\ Exists(t)' =>
       \/ tickets'[t].unclaimedSince = 0
       \/ /\ tickets'[t].unclaimedSince = log[t].opened + 1
          /\ log'[t].opened = log[t].opened + 1
       \/ /\ Exists(t) /\ tickets'[t].unclaimedSince = tickets[t].unclaimedSince
          /\ tickets'[t].reminded = tickets[t].reminded

(* How often a ticket was opened is a number, and its timestamp names a    *)
(* lifecycle.                                                              *)
LEMMA LifecycleNumbers ==
  ASSUME TypeOK, NEW t \in TicketIds
  PROVE  /\ log[t].opened \in Nat
         /\ Exists(t) => tickets[t].unclaimedSince \in Nat /\ tickets[t].reminded \in BOOLEAN
         /\ Exists(t) /\ tickets[t].unclaimedSince # 0 => tickets[t].unclaimedSince \in Lifecycles
         /\ \A n \in Lifecycles : n \in Nat /\ n # 0 /\ sent[t][n] \in 0 .. 2
<1>1. log[t] \in TicketLog \cup {NoLog}
  BY DEF TypeOK, StoreTypeOK
<1>2. log[t].opened \in Nat
  BY <1>1 DEF TicketLog, NoLog
<1>3. Exists(t) => tickets[t] \in TicketRow
  BY Rows
<1>4. \A n \in Lifecycles : n \in Nat /\ n # 0 /\ sent[t][n] \in 0 .. 2
  <2>1. \A n \in Lifecycles : n \in Nat /\ n # 0
    BY StoreAssumption DEF Lifecycles
  <2>2. \A n \in Lifecycles : sent[t][n] \in 0 .. 2
    BY DEF TypeOK, ReminderTypeOK, MaxSent
  <2> QED  BY <2>1, <2>2
<1>5. MaxLifecycles \in Nat
  BY StoreAssumption
<1> QED  BY <1>2, <1>3, <1>4, <1>5 DEF TicketRow, Lifecycles

LEMMA CountKept ==
  ASSUME TypeOK, TypeOK', NEW t \in TicketIds, LifecyclesCounted(t), LifecyclesNumbered(t), sent' = sent
  PROVE  LifecyclesCounted(t)'
<1> USE DEF LifecyclesNumbered
<1>1. PICK k \in Nat : k = log[t].opened
  BY LifecycleNumbers
<1>2. PICK m \in Nat : m = log'[t].opened
  BY <1>1
<1>3. m = k \/ m = k + 1
  BY <1>1, <1>2
<1>4. ASSUME NEW n \in Lifecycles
      PROVE  sent'[t][n] <= 1 /\ (n > log'[t].opened => sent'[t][n] = 0)
  <2>1. n > m => n > k
    BY <1>3, LifecycleNumbers
  <2> QED  BY <1>1, <1>2, <2>1 DEF LifecyclesCounted
<1>5. ASSUME Exists(t)'
      PROVE  /\ tickets'[t].unclaimedSince <= log'[t].opened
             /\ tickets'[t].unclaimedSince # 0 /\ ~tickets'[t].reminded
                  => sent'[t][tickets'[t].unclaimedSince] = 0
  <2>1. PICK since \in Nat : since = tickets'[t].unclaimedSince
    <3>1. (tickets[t].unclaimedSince \in Nat)' \/ ~Exists(t)'
      <4>1. (Exists(t) => tickets[t] \in TicketRow)'
        BY DEF TypeOK, StoreTypeOK, Exists
      <4> QED  BY <4>1, StoreAssumption DEF TicketRow
    <3> QED  BY <1>5, <3>1
  <2>2. CASE since = 0
    BY <1>2, <2>1, <2>2
  <2>3. CASE since = k + 1 /\ m = k + 1
    <3>1. since \in Lifecycles
      <4>1. (Exists(t) => tickets[t] \in TicketRow)'
        BY DEF TypeOK, StoreTypeOK, Exists
      <4>2. since \in 0 .. MaxLifecycles
        BY <1>5, <2>1, <4>1 DEF TicketRow
      <4> QED  BY <2>3, <4>2, StoreAssumption DEF Lifecycles
    <3>2. since > k
      BY <2>3
    <3> QED  BY <1>1, <1>2, <2>1, <2>3, <3>1, <3>2 DEF LifecyclesCounted
  <2>4. CASE Exists(t) /\ since = tickets[t].unclaimedSince /\ tickets'[t].reminded = tickets[t].reminded
    BY <1>1, <1>2, <1>3, <2>1, <2>4 DEF LifecyclesCounted
  <2> QED  BY <1>1, <1>2, <1>5, <2>1, <2>2, <2>3, <2>4
<1> QED  BY <1>4, <1>5 DEF LifecyclesCounted

(* A request that begins is no modification, and writes what its handler   *)
(* computed.                                                               *)
LEMMA LifecycleStartUpToDate ==
  ASSUME "modify" \notin Workload, NoStaleLifecycle, TypeOK, NEW s \in Slots, LifecycleStart(s)
  PROVE  NoStaleLifecycle' /\ UNCHANGED <<tickets, log>>
<1>1. PICK u \in Users, t \in TicketIds :
        \/ StartClaim(s, u, t) \/ StartClose(s, u, t) \/ StartCancel(s, u, t)
        \/ \E c \in Contents : StartReopen(s, u, t, c)
        \/ \E c \in Contents, d \in Departments :
             StartSubmit(s, u, t, d, c) \/ StartModify(s, u, t, c, d)
  BY DEF LifecycleStart
<1>2. ~\E c \in Contents, d \in Departments : StartModify(s, u, t, c, d)
  BY DEF StartModify, Begin
<1>3. req'[s].op # "modify" /\ (req'[s].op = "submit" => req'[s].row.unclaimedSince = 1)
  <2>1. s \in DOMAIN req
    BY DEF TypeOK, LifecycleTypeOK
  <2>2. CASE \E c \in Contents, d \in Departments : StartSubmit(s, u, t, d, c)
    BY <2>1, <2>2 DEF StartSubmit, Begin
  <2>3. CASE \/ StartClaim(s, u, t) \/ StartClose(s, u, t) \/ StartCancel(s, u, t)
             \/ \E c \in Contents : StartReopen(s, u, t, c)
    <3>1. CASE StartClaim(s, u, t)
      BY <2>1, <3>1 DEF StartClaim, Begin
    <3>2. CASE StartClose(s, u, t)
      BY <2>1, <3>2 DEF StartClose, Begin
    <3>3. CASE StartCancel(s, u, t)
      BY <2>1, <3>3 DEF StartCancel, Begin
    <3>4. CASE \E c \in Contents : StartReopen(s, u, t, c)
      BY <2>1, <3>4 DEF StartReopen, Begin
    <3> QED  BY <2>3, <3>1, <3>2, <3>3, <3>4
  <2> QED  BY <1>1, <1>2, <2>2, <2>3
<1>4. \A x \in Slots \ {s} : req'[x] = req[x]
  BY <1>1, <1>2 DEF StartClaim, StartClose, StartCancel, StartReopen, StartSubmit, Begin,
                    TypeOK, LifecycleTypeOK
<1>5. storeVars' = storeVars
  BY <1>1, <1>2 DEF StartClaim, StartClose, StartCancel, StartReopen, StartSubmit, Begin
<1>6. UNCHANGED <<tickets, log>>
  BY <1>5 DEF storeVars, tables
<1> QED  BY <1>3, <1>4, <1>6 DEF NoStaleLifecycle, Serving

(* Every step but a reminder moves each ticket along its lifecycles.       *)
LEMMA SameTickets ==
  ASSUME TypeOK, UNCHANGED <<tickets, log>>
  PROVE  \A t \in TicketIds : LifecyclesNumbered(t)
  BY DEF LifecyclesNumbered, Exists

LEMMA DoneUpToDate ==
  ASSUME NoStaleLifecycle, TypeOK, NEW s \in Slots, Done(s)
  PROVE  NoStaleLifecycle'
<1>1. /\ req'[s] = NoRequest
      /\ \A x \in Slots \ {s} : req'[x] = req[x]
  BY DEF Done, TypeOK, LifecycleTypeOK
<1>2. ~Serving(s)'
  BY <1>1 DEF Serving, NoRequest
<1> QED  BY <1>1, <1>2 DEF NoStaleLifecycle, Serving

LEMMA OneTicketMoves ==
  ASSUME TypeOK, NEW t \in TicketIds, LifecyclesNumbered(t),
         \A x \in TicketIds \ {t} : tickets'[x] = tickets[x] /\ log'[x] = log[x]
  PROVE  \A x \in TicketIds : LifecyclesNumbered(x)
  BY DEF LifecyclesNumbered, Exists

LEMMA LifecycleCommitMoves ==
  ASSUME IndInv, NoStaleLifecycle, NEW s \in Slots, LifecycleCommit(s)
  PROVE  (\A t \in TicketIds : LifecyclesNumbered(t)) /\ NoStaleLifecycle'
<1>0. TypeOK /\ RowsKnown /\ RequestsKnown
  BY DEF IndInv
<1>1. NoStaleLifecycle'
  BY <1>0, DoneUpToDate DEF LifecycleCommit, CommitSubmit, CommitClaim, CommitSave, Conflict
<1>2. CASE Conflict(s)
  BY <1>0, <1>1, <1>2, SameTickets DEF Conflict, storeVars, tables
<1>3. SUFFICES ASSUME CommitSubmit(s) \/ CommitClaim(s) \/ CommitSave(s)
               PROVE  \A t \in TicketIds : LifecyclesNumbered(t)
  BY <1>1, <1>2 DEF LifecycleCommit
<1>4. Serving(s)
  BY <1>3 DEF Serving, CommitSubmit, CommitClaim, CommitSave, SaveOps
<1>5. req[s] \in LifecycleRequest
  BY <1>0, <1>4, Rows
<1>6. PICK t \in TicketIds : t = req[s].ticket
  BY <1>5 DEF LifecycleRequest
<1>7. /\ Serving(s) /\ t = req[s].ticket /\ req[s].row \in TicketRow
      /\ tickets \in [TicketIds -> TicketRow \cup {NoTicket}]
      /\ log \in [TicketIds -> TicketLog \cup {NoLog}]
  BY <1>0, <1>4, <1>5, <1>6 DEF LifecycleRequest, TypeOK, StoreTypeOK
<1>8. CASE CommitSubmit(s)
  <2>1. /\ req[s].op = "submit" /\ tickets' = [tickets EXCEPT ![t] = req[s].row]
        /\ log' = [log EXCEPT ![t] = Opened(t, req[s].row.content)]
    BY <1>7, <1>8 DEF CommitSubmit
  <2>2. ~Exists(t) /\ req[s].row.unclaimedSince = 1
    BY <1>0, <1>7, <2>1 DEF RequestsKnown, NoStaleLifecycle
  <2>3. log[t].opened = 0
    BY <1>0, <1>7, <2>1, <2>2 DEF RowsKnown, NoLog
  <2>4. tickets'[t] = req[s].row /\ log'[t].opened = log[t].opened + 1
    BY <1>7, <2>1 DEF Opened
  <2>5. LifecyclesNumbered(t)
    BY <2>2, <2>3, <2>4 DEF LifecyclesNumbered
  <2>6. \A x \in TicketIds \ {t} : tickets'[x] = tickets[x] /\ log'[x] = log[x]
    BY <1>7, <2>1
  <2> QED  BY <1>0, <1>1, <1>7, <2>1, <2>5, <2>6, OneTicketMoves
<1>9. CASE CommitClaim(s)
  <2>1. /\ req[s].op = "claim" /\ log' = log
        /\ tickets' = [tickets EXCEPT ![t] = ClaimedRow(@, req[s].actor)]
    BY <1>7, <1>9 DEF CommitClaim
  <2>2. Exists(t)
    BY <1>0, <1>7, <2>1 DEF RequestsKnown
  <2>3. tickets[t] \in TicketRow
    BY <1>0, <1>7, <2>1, <2>2, Rows
  <2>4. tickets'[t].unclaimedSince = 0
    BY <1>7, <2>1, <2>3 DEF ClaimedRow, TicketRow
  <2>5. LifecyclesNumbered(t)
    BY <2>1, <2>4 DEF LifecyclesNumbered
  <2>6. \A x \in TicketIds \ {t} : tickets'[x] = tickets[x] /\ log'[x] = log[x]
    BY <1>7, <2>1
  <2> QED  BY <1>0, <1>1, <1>7, <2>1, <2>5, <2>6, OneTicketMoves
<1>10. CASE CommitSave(s)
  <2>1. /\ req[s].op \in SaveOps /\ req[s].op # "idle" /\ req[s].op # "submit"
        /\ tickets' = [tickets EXCEPT ![t] = SavedRow(req[s])]
        /\ log' = [log EXCEPT ![t] = LogAfter(req[s])]
    BY <1>7, <1>10 DEF CommitSave, SaveOps
  <2>2. RowConsistent(req[s].row) /\ WritesFor(req[s].op, req[s].row) /\ req[s].op # "modify"
    BY <1>0, <1>7, <2>1 DEF RequestsKnown, NoStaleLifecycle
  <2>3. tickets'[t] = SavedRow(req[s]) /\ log'[t] = LogAfter(req[s])
    BY <1>7, <2>1
  <2>4. LifecyclesNumbered(t)
    <3>1. CASE req[s].op = "reopen"
      <4>1. /\ log'[t].opened = log[t].opened + 1
            /\ tickets'[t].unclaimedSince = log[t].opened + 1
        BY <1>7, <2>1, <2>3, <3>1 DEF LogAfter, Opened, SavedRow, TicketRow
      <4> QED  BY <4>1 DEF LifecyclesNumbered
    <3>2. CASE req[s].op \in {"close", "cancel"}
      <4>1. log'[t] = log[t] /\ tickets'[t] = req[s].row
        BY <1>7, <2>3, <3>2 DEF LogAfter, SavedRow
      <4>2. req[s].row.unclaimedSince = 0
        BY <2>2, <3>2 DEF RowConsistent, WritesFor
      <4> QED  BY <4>1, <4>2 DEF LifecyclesNumbered
    <3> QED  BY <2>1, <2>2, <3>1, <3>2 DEF SaveOps
  <2>5. \A x \in TicketIds \ {t} : tickets'[x] = tickets[x] /\ log'[x] = log[x]
    BY <1>7, <2>1
  <2> QED  BY <1>0, <1>1, <1>7, <2>4, <2>5, OneTicketMoves
<1> QED  BY <1>3, <1>8, <1>9, <1>10

(* An acceptance keeps the timestamps of the ticket.                       *)
LEMMA HandoffMoves ==
  ASSUME IndInv, NEW s \in Slots, HandoffNext(s)
  PROVE  \A t \in TicketIds : LifecyclesNumbered(t)
<1>0. TypeOK /\ HandoffsLocked
  BY DEF IndInv
<1>1. CASE HandoffBegin(s)
  BY <1>0, <1>1, SameTickets
     DEF HandoffBegin, BeginRequest, BeginAccept, BeginReject, BeginWithdraw, BeginHandoff, tables
<1>2. CASE CommitRequest(s) \/ CommitResolve(s) \/ AbortHandoff(s)
  BY <1>0, <1>2, SameTickets DEF CommitRequest, CommitResolve, AbortHandoff, EndHandoff
<1>3. CASE CommitAccept(s)
  <2>1. RunningHandoff(s)
    BY <1>3 DEF RunningHandoff, CommitAccept
  <2>2. PICK t \in TicketIds : t = hreq[s].ticket
    BY <1>0, <2>1, Rows DEF HandoffTx
  <2>3. /\ Exists(t) /\ log' = log
        /\ tickets' = [tickets EXCEPT ![t] =
                         [@ EXCEPT !.agent = hreq[s].target, !.status = "CLAIMED"]]
    BY <1>0, <1>3, <2>1, <2>2 DEF CommitAccept, EndHandoff, HandoffsLocked, HandoffReads
  <2>4. tickets[t] \in TicketRow /\ tickets \in [TicketIds -> TicketRow \cup {NoTicket}]
    BY <1>0, <2>3, Rows DEF TypeOK, StoreTypeOK
  <2>5. /\ tickets'[t].unclaimedSince = tickets[t].unclaimedSince
        /\ tickets'[t].reminded = tickets[t].reminded
    BY <2>3, <2>4 DEF TicketRow
  <2>6. LifecyclesNumbered(t)
    BY <2>3, <2>5 DEF LifecyclesNumbered
  <2>7. \A x \in TicketIds \ {t} : tickets'[x] = tickets[x] /\ log'[x] = log[x]
    BY <2>3, <2>4
  <2> QED  BY <1>0, <2>3, <2>6, <2>7, OneTicketMoves
<1> QED  BY <1>1, <1>2, <1>3 DEF HandoffNext, HandoffCommit

(* A reconciliation clears the timestamps of the tickets it takes away.    *)
LEMMA AdminLifecycles ==
  ASSUME IndInv, NEW s \in Slots, AdminNext(s)
  PROVE  \A t \in TicketIds : LifecyclesNumbered(t)
<1>0. TypeOK /\ AdminLocked
  BY DEF IndInv
<1>1. CASE AdminBegin(s)
  BY <1>0, <1>1, SameTickets
     DEF AdminBegin, BeginSetRole, BeginDeactivate, BeginActivate, BeginAddMember,
         BeginRemoveMember, BeginAdmin, storeVars, tables
<1>2. CASE UpdateUser(s) \/ StartSweep(s) \/ ReadMemberships(s) \/ SweepDepartment(s)
           \/ ReadAdministration(s) \/ LockNext(s) \/ AbortAdmin(s)
  BY <1>0, <1>2, SameTickets
     DEF UpdateUser, StartSweep, ReadMemberships, SweepDepartment, ReadAdministration, LockNext,
         AbortAdmin, storeVars, tables
<1>3. CASE CommitAdmin(s)
  <2>1. /\ log' = log /\ RunningAdmin(s)
        /\ tickets' = [t \in TicketIds |->
                         IF adm[s].act[t] \in {"close", "deactivate"}
                         THEN ReconciledRow(tickets[t], adm[s].act[t]) ELSE tickets[t]]
    BY <1>3 DEF CommitAdmin
  <2> SUFFICES ASSUME NEW t \in TicketIds  PROVE LifecyclesNumbered(t)
    OBVIOUS
  <2>2. CASE adm[s].act[t] \in {"close", "deactivate"}
    <3>1. Deserved(adm[s].act[t], tickets[t], adm[s].user)
      BY <1>0, <2>1 DEF AdminLocked
    <3>2. tickets[t] \in TicketRow
      BY <1>0, <2>2, <3>1, Rows DEF Deserved, Exists
    <3>3. tickets'[t] = ReconciledRow(tickets[t], adm[s].act[t])
      BY <2>1, <2>2
    <3>4. tickets'[t].unclaimedSince = 0
      BY <2>2, <3>2, <3>3 DEF ReconciledRow, TicketRow
    <3> QED  BY <2>1, <3>4 DEF LifecyclesNumbered
  <2>3. CASE adm[s].act[t] \notin {"close", "deactivate"}
    BY <2>1, <2>3 DEF LifecyclesNumbered, Exists
  <2> QED  BY <2>2, <2>3
<1> QED  BY <1>1, <1>2, <1>3 DEF AdminNext, AdminStep

(* A reminder is delivered only while the row says that the present        *)
(* lifecycle has had none, and is recorded before.                         *)
LEMMA RemindCounts ==
  ASSUME IndInv, RemindersInv, NEW w \in Workers, NEW c \in candidates[w], Remind(w, c)
  PROVE  \A t \in TicketIds : LifecyclesCounted(t)'
<1>0. TypeOK /\ RowsKnown
  BY DEF IndInv
<1>1. PICK t \in TicketIds, since \in Lifecycles : t = c.ticket /\ since = c.since
  BY <1>0 DEF TypeOK, ReminderTypeOK, Candidate
<1>2. /\ AwaitsReminder(tickets[t]) /\ tickets[t].unclaimedSince = since
      /\ tickets' = [tickets EXCEPT ![t] = [@ EXCEPT !.reminded = TRUE]]
      /\ sent' = [sent EXCEPT ![t][since] = IF @ < MaxSent THEN @ + 1 ELSE @]
      /\ log' = log
  BY <1>1 DEF Remind, MarkReminderSent
<1>3. Exists(t) /\ tickets \in [TicketIds -> TicketRow \cup {NoTicket}] /\ tickets[t] \in TicketRow
  BY <1>0, <1>1, Rows DEF RowsKnown, TypeOK, StoreTypeOK
<1>4. sent \in [TicketIds -> [Lifecycles -> 0 .. 2]]
  BY <1>0 DEF TypeOK, ReminderTypeOK, MaxSent
<1>5. since # 0 /\ since \in Nat /\ since <= log[t].opened /\ sent[t][since] = 0
  BY <1>0, <1>2, <1>3, LifecycleNumbers DEF RemindersInv, LifecyclesCounted, AwaitsReminder
<1>6. /\ sent'[t][since] = 1
      /\ \A n \in Lifecycles \ {since} : sent'[t][n] = sent[t][n]
      /\ \A x \in TicketIds \ {t} : sent'[x] = sent[x]
  BY <1>2, <1>4, <1>5 DEF MaxSent
<1>7. LifecyclesCounted(t)'
  <2>1. /\ tickets'[t].unclaimedSince = since /\ tickets'[t].reminded
    BY <1>2, <1>3 DEF TicketRow
  <2>2. \A n \in Lifecycles \ {since} :
          sent'[t][n] <= 1 /\ (n > log'[t].opened => sent'[t][n] = 0)
    BY <1>2, <1>6 DEF RemindersInv, LifecyclesCounted
  <2>3. sent'[t][since] <= 1 /\ ~(since > log'[t].opened)
    BY <1>0, <1>2, <1>5, <1>6, LifecycleNumbers
  <2> QED  BY <1>2, <1>5, <2>1, <2>2, <2>3 DEF LifecyclesCounted
<1>8. \A x \in TicketIds \ {t} : LifecyclesCounted(x)'
  <2> SUFFICES ASSUME NEW x \in TicketIds \ {t}  PROVE LifecyclesCounted(x)'
    OBVIOUS
  <2>1. tickets'[x] = tickets[x] /\ log'[x] = log[x] /\ sent'[x] = sent[x]
    BY <1>2, <1>3, <1>6
  <2> QED  BY <2>1 DEF RemindersInv, LifecyclesCounted, Exists
<1> QED  BY <1>7, <1>8

LEMMA NextRemindersInv ==
  ASSUME "modify" \notin Workload, IndInv, IndInv', RemindersInv, [Next]_vars
  PROVE  RemindersInv'
<1>0. TypeOK /\ TypeOK' /\ NoStaleLifecycle
  BY DEF IndInv, RemindersInv
<1>1. ASSUME sent' = sent, \A t \in TicketIds : LifecyclesNumbered(t), NoStaleLifecycle'
      PROVE  RemindersInv'
  BY <1>0, <1>1, CountKept DEF RemindersInv
<1>2. ASSUME req' = req  PROVE NoStaleLifecycle'
  BY <1>0, <1>2 DEF NoStaleLifecycle, Serving
<1>3. ASSUME NEW s \in Slots, LifecycleNext(s)  PROVE RemindersInv'
  <2>1. sent' = sent
    BY <1>3 DEF LifecycleNext, reminderVars
  <2>2. CASE LifecycleStart(s)
    BY <1>0, <1>1, <2>1, <2>2, SameTickets, LifecycleStartUpToDate
  <2>3. CASE LifecycleCommit(s)
    BY <1>0, <1>1, <2>1, <2>3, LifecycleCommitMoves
  <2> QED  BY <1>3, <2>2, <2>3 DEF LifecycleNext
<1>4. ASSUME NEW s \in Slots, HandoffNext(s)  PROVE RemindersInv'
  <2>1. sent' = sent /\ req' = req
    BY <1>4 DEF HandoffNext, reminderVars
  <2> QED  BY <1>1, <1>2, <1>4, <2>1, HandoffMoves
<1>5. ASSUME NEW s \in Slots, AdminNext(s)  PROVE RemindersInv'
  <2>1. sent' = sent /\ req' = req
    BY <1>5 DEF AdminNext, reminderVars
  <2> QED  BY <1>1, <1>2, <1>5, <2>1, AdminLifecycles
<1>6. ASSUME NEW s \in Slots, DepartmentNext(s)  PROVE RemindersInv'
  <2>1. sent' = sent /\ req' = req /\ UNCHANGED <<tickets, log>>
    BY <1>6 DEF DepartmentNext, DepartmentBegin, BeginSetDepartment, CommitSetDepartment,
                reminderVars, storeVars, tables
  <2> QED  BY <1>0, <1>1, <1>2, <2>1, SameTickets
<1>7. CASE WorkerNext
  <2>1. req' = req
    BY <1>7 DEF WorkerNext
  <2>2. CASE \E w \in Workers : \E c \in candidates[w] : Remind(w, c)
    BY <1>2, <2>1, <2>2, RemindCounts DEF RemindersInv
  <2>3. CASE \E w \in Workers : FindCandidates(w) \/ \E c \in candidates[w] : Skip(w, c)
    <3>1. sent' = sent /\ UNCHANGED <<tickets, log>>
      BY <2>3 DEF FindCandidates, Skip, storeVars, tables
    <3> QED  BY <1>0, <1>1, <1>2, <2>1, <3>1, SameTickets
  <2> QED  BY <1>7, <2>2, <2>3 DEF WorkerNext, ReminderNext
<1>8. CASE Crash
  <2>1. sent' = sent /\ UNCHANGED <<tickets, log>>
    BY <1>8 DEF Crash, tables
  <2>2. \A s \in Slots : req'[s] \in {req[s], NoRequest}
    BY <1>8 DEF Crash
  <2>3. NoStaleLifecycle'
    BY <1>0, <2>2 DEF NoStaleLifecycle, Serving, NoRequest
  <2> QED  BY <1>0, <1>1, <2>1, <2>3, SameTickets
<1>9. CASE UNCHANGED vars
  <2>1. UNCHANGED <<sent, req, tickets, log>>
    BY <1>9 DEF vars, storeVars, tables, reminderVars
  <2> QED  BY <1>0, <1>1, <1>2, <2>1, SameTickets
<1> QED  BY <1>3, <1>4, <1>5, <1>6, <1>7, <1>8, <1>9 DEF Next

(* However many instances of the worker select the same ticket, die and    *)
(* start again, and whatever requests do meanwhile, a lifecycle gets one   *)
(* reminder; a modification is excluded because its stale copy clears what *)
(* markReminderSent recorded.                                              *)
THEOREM OneReminder ==
  ASSUME "modify" \notin Workload
  PROVE  Spec => []OneReminderPerLifecycle
<1>1. Init => RemindersInv
  <2> SUFFICES ASSUME Init  PROVE RemindersInv
    OBVIOUS
  <2>1. /\ \A t \in TicketIds : ~Exists(t) /\ \A n \in Lifecycles : sent[t][n] = 0
        /\ \A s \in Slots : ~Serving(s)
    BY DEF Init, StoreInit, LifecycleInit, ReminderInit, Exists, Serving, NoRequest
  <2> QED  BY <2>1 DEF RemindersInv, LifecyclesCounted, NoStaleLifecycle
<1>2. IndInv /\ IndInv' /\ RemindersInv /\ [Next]_vars => RemindersInv'
  BY NextRemindersInv
<1>3. RemindersInv => OneReminderPerLifecycle
  BY DEF RemindersInv, LifecyclesCounted, OneReminderPerLifecycle
<1> QED  BY <1>1, <1>2, <1>3, Invariance, PTL DEF Spec

-----------------------------------------------------------------------------
(* Requests that do not overlap.                                           *)

OneAtATime == \A s, x \in Slots : s = x

(* The users before the first request are as the documents require.        *)
InitiallyRight ==
  /\ \E u \in Users : InitialUsers[u].active /\ InitialUsers[u].role = "Admin"
  /\ \A u \in Users, d \in Departments :
       <<u, d>> \in InitialMembers => InitialUsers[u].role # "Employee"

(* A slot serves one request.                                              *)
OneKind(s) ==
  /\ Serving(s) => ~RunningHandoff(s) /\ ~RunningAdmin(s) /\ ~RunningDepartment(s)
  /\ RunningHandoff(s) => ~RunningAdmin(s) /\ ~RunningDepartment(s)
  /\ RunningAdmin(s) => ~RunningDepartment(s)

(* What a lifecycle handler read is still so when it writes.               *)
LifecycleRight(s) ==
  LET r == req[s] IN
  Serving(s) =>
    /\ r.op = "claim" => Eligible(r.actor, tickets[r.ticket].dept)
    /\ r.op # "claim" /\ r.row.active => r.row.dept \in activeDepts
    /\ r.op \in {"close", "cancel"} => r.row.content = tickets[r.ticket].content

HandoffRight(s) ==
  RunningHandoff(s) /\ hreq[s].op = "request" =>
    /\ Eligible(hreq[s].actor, tickets[hreq[s].ticket].dept)
    /\ Eligible(hreq[s].target, tickets[hreq[s].ticket].dept)

DepartmentRight(s) ==
  RunningDepartment(s) /\ ~dreq[s].active => ~HasActiveTicket(dreq[s].dept)

Elements(q) == {q[i] : i \in DOMAIN q}

Planned(a, kind) == \E k \in Elements(a.plan) : k.kind = kind

(* The departments whose tickets and requests the user of a gives up.      *)
GivesUp(a, d) ==
  \/ a.op = "deactivate"
  \/ a.op = "setRole" /\ a.role = "Employee"
  \/ a.op = "setRole" /\ a.before = "Admin" /\ d = Administration
  \/ a.op = "removeMember" /\ d = a.dept

ClaimSweeps == {"userTickets", "deptClaims"}

OfferSweeps == {"userHandoffs", "deptHandoffs"}

(* A sweep of one of the kinds has selected t, or will.                    *)
SweepAhead(a, t, kinds) ==
  LET d == tickets[t].dept IN
  \/ t \in a.todo /\ a.sweep.kind \in kinds
  \/ \E k \in Elements(a.plan) :
       k.kind \in kinds /\ (k.kind \in {"deptClaims", "deptHandoffs"} => k.dept = d)
  \/ d \in a.depts /\ ~(a.dropAdministration /\ d = Administration)
  \/ Planned(a, "memberships") /\ ~(a.dropAdministration /\ d = Administration)
  \/ Planned(a, "administration") /\ d = Administration

ClaimsSwept(a) ==
  \A t \in TicketIds :
    Exists(t) /\ tickets[t].agent = a.user /\ GivesUp(a, tickets[t].dept) =>
      a.act[t] \in {"close", "deactivate"} \/ SweepAhead(a, t, ClaimSweeps)

OffersSwept(a) ==
  \A h \in HandoffIds :
    LET t == handoffs[h].ticket IN
    /\ IsPending(h) /\ a.user \in {handoffs[h].requester, handoffs[h].target}
    /\ GivesUp(a, tickets[t].dept)
    => a.act[t] # "none" \/ SweepAhead(a, t, OfferSweeps)

(* Whoever becomes an employee leaves every department.                    *)
LeavesAll(a) ==
  \/ Planned(a, "memberships") \/ a.dropMemberships
  \/ \A d \in Departments :
       IsMember(a.user, d) => a.dropAdministration /\ d = Administration

DropsFor(a) ==
  /\ Planned(a, "administration") \/ a.dropAdministration =>
       a.op = "setRole" /\ a.before = "Admin"
  /\ Planned(a, "memberships") \/ a.dropMemberships =>
       a.op = "deactivate" \/ (a.op = "setRole" /\ a.role = "Employee")

AdminRight(s) ==
  LET a == adm[s] IN
  RunningAdmin(s) =>
    /\ a.before = users[a.user].role
    /\ a.op \in {"setRole", "deactivate"} /\ a.before = "Admin" =>
         ActiveAdminsExcept(a.user) # {}
    /\ a.op = "addMember" => a.before # "Employee"
    /\ a.op = "setRole" /\ a.role = "Employee" => LeavesAll(a)
    /\ DropsFor(a) /\ ClaimsSwept(a) /\ OffersSwept(a)

RequestRight(s) ==
  /\ OneKind(s) /\ LifecycleRight(s) /\ HandoffRight(s) /\ DepartmentRight(s) /\ AdminRight(s)

TablesRight ==
  /\ AgentsEligible /\ PartiesEligible /\ SomeActiveAdmin /\ EmployeesHaveNoDepartment
  /\ ActiveTicketsInActiveDepartments /\ HistoryReproducesContent

SerialInv == TablesRight /\ \A s \in Slots : RequestRight(s)
(* A slot that is idle knows nothing.                                      *)
LEMMA IdleRight ==
  ASSUME NEW s \in Slots,
         ~Serving(s), ~RunningHandoff(s), ~RunningAdmin(s), ~RunningDepartment(s)
  PROVE  RequestRight(s)
  BY DEF RequestRight, OneKind, LifecycleRight, HandoffRight, DepartmentRight, AdminRight

(* The columns that the properties read.                                   *)
SameColumns ==
  \A t \in TicketIds :
    /\ Exists(t)' <=> Exists(t)
    /\ tickets'[t].agent = tickets[t].agent /\ tickets'[t].dept = tickets[t].dept
    /\ tickets'[t].active = tickets[t].active /\ tickets'[t].content = tickets[t].content

LEMMA SameTablesRight ==
  ASSUME IndInv, TablesRight, SameColumns,
         UNCHANGED <<handoffs, users, members, activeDepts, log>>
  PROVE  TablesRight'
<1>0. \A h \in HandoffIds : IsPending(h) => handoffs[h].ticket \in TicketIds
  BY Rows DEF IndInv, HandoffRow
<1>1. \A u \in Users, d \in Departments : Eligible(u, d)' <=> Eligible(u, d)
  BY DEF Eligible, IsMember
<1>2. AgentsEligible'
  BY DEF TablesRight, AgentsEligible, SameColumns, Eligible, IsMember
<1>3. PartiesEligible'
  BY <1>0 DEF TablesRight, PartiesEligible, SameColumns, Eligible, IsMember, IsPending
<1>4. SomeActiveAdmin' /\ EmployeesHaveNoDepartment'
  BY DEF TablesRight, SomeActiveAdmin, EmployeesHaveNoDepartment, IsMember
<1>5. ActiveTicketsInActiveDepartments'
  BY DEF TablesRight, ActiveTicketsInActiveDepartments, SameColumns
<1>6. HistoryReproducesContent'
  BY DEF TablesRight, HistoryReproducesContent, SameColumns
<1> QED  BY <1>2, <1>3, <1>4, <1>5, <1>6 DEF TablesRight

(* A step of the worker, or of nobody, leaves a request what it knew.      *)
LEMMA SameRequestRight ==
  ASSUME IndInv, NEW s \in Slots, RequestRight(s), SameColumns,
         UNCHANGED <<handoffs, users, members, activeDepts>>,
         req'[s] = req[s], hreq'[s] = hreq[s], adm'[s] = adm[s], dreq'[s] = dreq[s]
  PROVE  RequestRight(s)'
<1>0. /\ \A h \in HandoffIds : IsPending(h) => handoffs[h].ticket \in TicketIds
      /\ Serving(s) => req[s].ticket \in TicketIds
      /\ RunningHandoff(s) => hreq[s].ticket \in TicketIds
  BY Rows DEF IndInv, HandoffRow, LifecycleRequest, HandoffTx
<1>1. OneKind(s)'
  BY DEF RequestRight, OneKind, Serving, RunningHandoff, RunningAdmin, RunningDepartment
<1>2. LifecycleRight(s)'
  BY <1>0 DEF RequestRight, LifecycleRight, Serving, SameColumns, Eligible, IsMember
<1>3. HandoffRight(s)'
  BY <1>0 DEF RequestRight, HandoffRight, RunningHandoff, SameColumns, Eligible, IsMember
<1>4. DepartmentRight(s)'
  BY DEF RequestRight, DepartmentRight, RunningDepartment, SameColumns, HasActiveTicket
<1>5. AdminRight(s)'
  <2> SUFFICES ASSUME RunningAdmin(s)'  PROVE AdminRight(s)'
    BY DEF AdminRight
  <2>1. RunningAdmin(s) /\ AdminRight(s)
    BY DEF RunningAdmin, RequestRight
  <2>2. PICK a : a = adm[s]
    OBVIOUS
  <2>3. a = adm'[s]
    BY <2>2
  <2>4. \A t \in TicketIds, kinds \in {ClaimSweeps, OfferSweeps} :
          SweepAhead(a, t, kinds)' <=> SweepAhead(a, t, kinds)
    BY DEF SweepAhead, SameColumns
  <2>5. \A t \in TicketIds : GivesUp(a, tickets'[t].dept) <=> GivesUp(a, tickets[t].dept)
    BY DEF SameColumns
  <2>6. ClaimsSwept(a) => ClaimsSwept(a)'
    BY <2>4, <2>5 DEF ClaimsSwept, SameColumns
  <2>7. OffersSwept(a) => OffersSwept(a)'
    BY <1>0, <2>4, <2>5 DEF OffersSwept, IsPending
  <2>8. LeavesAll(a)' <=> LeavesAll(a)
    BY DEF LeavesAll, IsMember
  <2>9. ActiveAdminsExcept(a.user)' = ActiveAdminsExcept(a.user)
    BY DEF ActiveAdminsExcept
  <2> QED  BY <2>1, <2>2, <2>3, <2>6, <2>7, <2>8, <2>9 DEF AdminRight, RunningAdmin
<1> QED  BY <1>1, <1>2, <1>3, <1>4, <1>5 DEF RequestRight

(* A request that begins, with nobody else served.                         *)
LEMMA SameTables ==
  ASSUME IndInv, SerialInv, UNCHANGED <<tickets, handoffs, users, members, activeDepts, log>>,
         \A s \in Slots : RequestRight(s)'
  PROVE  SerialInv'
<1>1. SameColumns
  BY DEF SameColumns, Exists
<1> QED  BY <1>1, SameTablesRight DEF SerialInv

-----------------------------------------------------------------------------
(* TicketLifecycle *)

LEMMA FreeSlots ==
  ASSUME OneAtATime, NEW s \in Slots, Free(s)
  PROVE  \A x \in Slots : /\ ~Serving(x) /\ ~RunningHandoff(x)
                          /\ ~RunningAdmin(x) /\ ~RunningDepartment(x)
  BY DEF OneAtATime, Free

(* Reading the actor, the ticket and its department.                       *)
LEMMA LifecycleStartRight ==
  ASSUME OneAtATime, IndInv, SerialInv, NEW s \in Slots, Free(s), LifecycleStart(s),
         UNCHANGED <<hreq, adm, dreq>>
  PROVE  SerialInv'
<1>0. TypeOK /\ TicketsConsistent /\ TablesRight
  BY DEF IndInv, SerialInv
<1>1. PICK u \in Users, t \in TicketIds :
        \/ StartClaim(s, u, t) \/ StartClose(s, u, t) \/ StartCancel(s, u, t)
        \/ \E c \in Contents : StartReopen(s, u, t, c)
        \/ \E c \in Contents, d \in Departments :
             StartSubmit(s, u, t, d, c) \/ StartModify(s, u, t, c, d)
  BY DEF LifecycleStart
<1>2. storeVars' = storeVars
  BY <1>1 DEF StartClaim, StartClose, StartCancel, StartReopen, StartSubmit, StartModify, Begin
<1>3. UNCHANGED <<tickets, handoffs, users, members, activeDepts, log>>
  BY <1>2 DEF storeVars, tables
<1>4. ~RunningHandoff(s)' /\ ~RunningAdmin(s)' /\ ~RunningDepartment(s)'
  BY DEF Free, RunningHandoff, RunningAdmin, RunningDepartment
<1>5. s \in DOMAIN req
  BY <1>0 DEF TypeOK, LifecycleTypeOK
<1>6. Exists(t) => tickets[t] \in TicketRow
  BY <1>0, Rows
<1>7. ASSUME req'[s].op = "claim" => Eligible(req'[s].actor, tickets[req'[s].ticket].dept),
             req'[s].op # "claim" /\ req'[s].row.active => req'[s].row.dept \in activeDepts,
             req'[s].op \in {"close", "cancel"} =>
               req'[s].row.content = tickets[req'[s].ticket].content
      PROVE  SerialInv'
  <2>1. LifecycleRight(s)'
    BY <1>3, <1>7 DEF LifecycleRight, Serving, Eligible, IsMember
  <2>2. RequestRight(s)'
    BY <1>4, <2>1 DEF RequestRight, OneKind, HandoffRight, AdminRight, DepartmentRight
  <2>3. \A x \in Slots : RequestRight(x)'
    BY <2>2 DEF OneAtATime
  <2> QED  BY <1>3, <2>3, SameTables
<1>8. CASE StartClaim(s, u, t)
  <2>1. /\ req'[s].op = "claim" /\ req'[s].actor = u /\ req'[s].ticket = t
        /\ ClaimTicketPolicy(tickets[t], u) /\ users[u].active /\ Exists(t)
    BY <1>5, <1>8 DEF StartClaim, Begin
  <2>2. tickets[t].dept \in Departments
    BY <1>6, <2>1 DEF TicketRow
  <2>3. IsMember(u, tickets[t].dept)
    BY <2>1 DEF ClaimTicketPolicy, ActorDepartments
  <2>4. users[u].role # "Employee" /\ users[u].role \in Roles
    BY <1>0, <2>2, <2>3
       DEF TablesRight, EmployeesHaveNoDepartment, TypeOK, StoreTypeOK, UserRow
  <2>5. Eligible(u, tickets[t].dept)
    BY <2>1, <2>3, <2>4 DEF Eligible, Roles
  <2> QED  BY <1>7, <2>1, <2>5
<1>9. ASSUME StartClose(s, u, t) \/ StartCancel(s, u, t) \/ (\E c \in Contents : StartReopen(s, u, t, c))
      PROVE  tickets[t].active /\ Exists(t) /\ tickets[t].dept \in activeDepts
  <2>1. tickets[t].active /\ Exists(t)
    BY <1>9 DEF StartClose, StartCancel, StartReopen, CloseTicketPolicy, CancelTicketPolicy,
                ReopenTicketPolicy
  <2> QED  BY <1>0, <2>1 DEF TablesRight, ActiveTicketsInActiveDepartments
<1>10. CASE StartClose(s, u, t)
  <2>1. /\ req'[s].op = "close" /\ req'[s].ticket = t
        /\ req'[s].row = [tickets[t] EXCEPT !.status = "CLOSED", !.agent = NoUser,
                                            !.unclaimedSince = 0, !.reminded = FALSE]
    BY <1>5, <1>10 DEF StartClose, Begin
  <2>2. req'[s].row.dept = tickets[t].dept /\ req'[s].row.content = tickets[t].content
    BY <1>6, <1>9, <1>10, <2>1 DEF TicketRow
  <2> QED  BY <1>7, <1>9, <1>10, <2>1, <2>2
<1>11. CASE StartCancel(s, u, t)
  <2>1. /\ req'[s].op = "cancel" /\ req'[s].ticket = t
        /\ req'[s].row = [tickets[t] EXCEPT !.active = FALSE, !.unclaimedSince = 0,
                                            !.reminded = FALSE]
    BY <1>5, <1>11 DEF StartCancel, Begin
  <2>2. req'[s].row.dept = tickets[t].dept /\ req'[s].row.content = tickets[t].content
    BY <1>6, <1>9, <1>11, <2>1 DEF TicketRow
  <2> QED  BY <1>7, <1>9, <1>11, <2>1, <2>2
<1>12. ASSUME NEW c \in Contents, StartReopen(s, u, t, c)  PROVE SerialInv'
  <2>1. /\ req'[s].op = "reopen" /\ req'[s].ticket = t
        /\ req'[s].row = [tickets[t] EXCEPT !.status = "REOPENED", !.agent = NoUser,
                                            !.unclaimedSince = 1, !.reminded = FALSE,
                                            !.content = c]
    BY <1>5, <1>12 DEF StartReopen, Begin
  <2>2. req'[s].row.dept = tickets[t].dept
    BY <1>6, <1>9, <1>12, <2>1 DEF TicketRow
  <2> QED  BY <1>7, <1>9, <1>12, <2>1, <2>2
<1>13. ASSUME NEW c \in Contents, NEW d \in Departments, StartSubmit(s, u, t, d, c)
       PROVE  SerialInv'
  <2>1. req'[s].op = "submit" /\ req'[s].row.dept = d /\ d \in activeDepts
    BY <1>5, <1>13 DEF StartSubmit, Begin, SubmitTicketPolicy
  <2> QED  BY <1>7, <2>1
<1>14. ASSUME NEW c \in Contents, NEW d \in Departments, StartModify(s, u, t, c, d)
       PROVE  SerialInv'
  <2>1. /\ req'[s].op = "modify" /\ req'[s].row = [tickets[t] EXCEPT !.content = c, !.dept = d]
        /\ Exists(t) /\ tickets[t].active /\ (d # tickets[t].dept => d \in activeDepts)
    BY <1>5, <1>14 DEF StartModify, Begin, ModifyTicketPolicy
  <2>2. req'[s].row.dept = d
    BY <1>6, <2>1 DEF TicketRow
  <2>3. d \in activeDepts
    BY <1>0, <2>1 DEF TablesRight, ActiveTicketsInActiveDepartments
  <2> QED  BY <1>7, <2>1, <2>2, <2>3
<1> QED  BY <1>1, <1>8, <1>10, <1>11, <1>12, <1>13, <1>14

(* One ticket is written, and every pending request on it keeps its        *)
(* department.                                                             *)
LEMMA TicketWritten ==
  ASSUME IndInv, TablesRight, NEW t \in TicketIds, UNCHANGED <<users, members, activeDepts>>,
         Exists(t)' => /\ tickets'[t].agent # NoUser
                            => Eligible(tickets'[t].agent, tickets'[t].dept)
                       /\ tickets'[t].active => tickets'[t].dept \in activeDepts
                       /\ log'[t].content = tickets'[t].content,
         \A x \in TicketIds \ {t} : tickets'[x] = tickets[x] /\ log'[x] = log[x],
         \A h \in HandoffIds : IsPending(h)' =>
           /\ IsPending(h) /\ handoffs'[h] = handoffs[h]
           /\ handoffs[h].ticket = t => tickets'[t].dept = tickets[t].dept
  PROVE  TablesRight'
<1>0. \A h \in HandoffIds : IsPending(h) => handoffs[h].ticket \in TicketIds
  BY Rows DEF IndInv, HandoffRow
<1>1. AgentsEligible'
  BY DEF TablesRight, AgentsEligible, Exists, Eligible, IsMember
<1>2. PartiesEligible'
  <2> SUFFICES ASSUME NEW h \in HandoffIds, IsPending(h)'
               PROVE  (LET d == tickets[handoffs[h].ticket].dept IN
                       Eligible(handoffs[h].requester, d) /\ Eligible(handoffs[h].target, d))'
    BY DEF PartiesEligible
  <2>1. /\ IsPending(h) /\ handoffs'[h] = handoffs[h]
        /\ tickets'[handoffs[h].ticket].dept = tickets[handoffs[h].ticket].dept
    BY <1>0
  <2> QED  BY <2>1 DEF TablesRight, PartiesEligible, Eligible, IsMember
<1>3. SomeActiveAdmin' /\ EmployeesHaveNoDepartment'
  BY DEF TablesRight, SomeActiveAdmin, EmployeesHaveNoDepartment, IsMember
<1>4. ActiveTicketsInActiveDepartments' /\ HistoryReproducesContent'
  BY DEF TablesRight, ActiveTicketsInActiveDepartments, HistoryReproducesContent, Exists
<1> QED  BY <1>1, <1>2, <1>3, <1>4 DEF TablesRight

(* What was read is still so, because nobody else has written since.       *)
LEMMA LifecycleCommitRight ==
  ASSUME OneAtATime, IndInv, IndInv', SerialInv, NEW s \in Slots, LifecycleCommit(s),
         UNCHANGED <<hreq, adm, dreq>>
  PROVE  SerialInv'
<1>0. /\ TypeOK /\ RowsKnown /\ RequestsKnown /\ TablesRight /\ RequestRight(s)
      /\ PendingHandoffsLive /\ PendingHandoffsLive'
  BY DEF IndInv, SerialInv
<1>1. Serving(s)
  BY DEF LifecycleCommit, CommitSubmit, CommitClaim, CommitSave, Conflict, Serving, SaveOps
<1>2. ~Serving(s)' /\ ~RunningHandoff(s)' /\ ~RunningAdmin(s)' /\ ~RunningDepartment(s)'
  <2>1. Done(s)
    BY DEF LifecycleCommit, CommitSubmit, CommitClaim, CommitSave, Conflict
  <2>2. req'[s] = NoRequest
    BY <1>0, <2>1 DEF Done, TypeOK, LifecycleTypeOK
  <2>3. ~RunningHandoff(s) /\ ~RunningAdmin(s) /\ ~RunningDepartment(s)
    BY <1>0, <1>1 DEF RequestRight, OneKind
  <2> QED  BY <2>2, <2>3 DEF Serving, NoRequest, RunningHandoff, RunningAdmin, RunningDepartment
<1>3. \A x \in Slots : RequestRight(x)'
  <2>1. RequestRight(s)'
    BY <1>2, IdleRight DEF RequestRight, OneKind, LifecycleRight, HandoffRight, DepartmentRight,
                           AdminRight
  <2> QED  BY <2>1 DEF OneAtATime
<1>4. SUFFICES TablesRight'
  BY <1>3 DEF SerialInv
<1>5. PICK r \in LifecycleRequest : r = req[s]
  BY <1>0, <1>1, Rows
<1>6. PICK t \in TicketIds : t = r.ticket
  BY <1>5 DEF LifecycleRequest
<1>7. /\ r.op = "claim" => Eligible(r.actor, tickets[t].dept)
      /\ r.op # "claim" /\ r.row.active => r.row.dept \in activeDepts
      /\ r.op \in {"close", "cancel"} => r.row.content = tickets[t].content
  BY <1>0, <1>1, <1>5, <1>6 DEF RequestRight, LifecycleRight
<1>8. /\ r.op = "submit" => ~Exists(t)
      /\ r.op # "submit" => Exists(t)
      /\ RowConsistent(r.row) /\ WritesFor(r.op, r.row)
  BY <1>0, <1>1, <1>5, <1>6 DEF RequestsKnown
<1>9. /\ tickets \in [TicketIds -> TicketRow \cup {NoTicket}]
      /\ log \in [TicketIds -> TicketLog \cup {NoLog}]
      /\ Exists(t) => tickets[t] \in TicketRow /\ log[t] \in TicketLog
      /\ r.row \in TicketRow
      /\ \A h \in HandoffIds : IsPending(h) => Exists(handoffs[h].ticket)
  <2>1. /\ Exists(t) => tickets[t] \in TicketRow /\ log[t] \in TicketLog
        /\ \A h \in HandoffIds : IsPending(h) => Exists(handoffs[h].ticket)
    BY <1>0, Rows DEF RowsKnown
  <2> QED  BY <1>0, <2>1 DEF TypeOK, StoreTypeOK, LifecycleRequest
<1>10. r.op # "claim" => r.row.agent = NoUser /\ ~(r.row.active /\ r.row.status = "CLAIMED")
  <2>1. r.op \in {"submit", "close", "reopen", "modify", "cancel", "claim"}
    BY DEF LifecycleRequest, LifecycleOps, SaveOps
  <2> QED  BY <1>8, <2>1 DEF WritesFor, RowConsistent
<1>11. CASE Conflict(s)
  <2>1. UNCHANGED <<tickets, handoffs, users, members, activeDepts, log>>
    BY <1>11 DEF Conflict, storeVars, tables
  <2>2. SameColumns
    BY <2>1 DEF SameColumns, Exists
  <2> QED  BY <1>0, <2>1, <2>2, SameTablesRight
<1>12. CASE CommitSubmit(s)
  <2>1. /\ r.op = "submit" /\ tickets' = [tickets EXCEPT ![t] = r.row]
        /\ log' = [log EXCEPT ![t] = Opened(t, r.row.content)]
        /\ UNCHANGED <<handoffs, users, members, activeDepts>>
    BY <1>5, <1>6, <1>12 DEF CommitSubmit
  <2>2. tickets'[t] = r.row /\ log'[t].content = r.row.content
    BY <1>9, <2>1 DEF Opened
  <2>3. \A x \in TicketIds \ {t} : tickets'[x] = tickets[x] /\ log'[x] = log[x]
    BY <1>9, <2>1
  <2>4. \A h \in HandoffIds : IsPending(h)' =>
          IsPending(h) /\ handoffs'[h] = handoffs[h] /\ handoffs[h].ticket # t
    BY <1>8, <1>9, <2>1 DEF IsPending
  <2> QED  BY <1>0, <1>7, <1>10, <2>1, <2>2, <2>3, <2>4, TicketWritten
<1>13. CASE CommitClaim(s)
  <2>1. /\ r.op = "claim" /\ ClaimIfAvailable(tickets[t])
        /\ tickets' = [tickets EXCEPT ![t] = ClaimedRow(@, r.actor)]
        /\ UNCHANGED <<handoffs, users, members, activeDepts, log>>
    BY <1>5, <1>6, <1>13 DEF CommitClaim
  <2>2. /\ tickets'[t].agent = r.actor /\ tickets'[t].dept = tickets[t].dept
        /\ tickets'[t].active = tickets[t].active /\ tickets'[t].content = tickets[t].content
    BY <1>8, <1>9, <2>1 DEF ClaimedRow, TicketRow
  <2>3. \A x \in TicketIds \ {t} : tickets'[x] = tickets[x] /\ log'[x] = log[x]
    BY <1>9, <2>1
  <2>4. \A h \in HandoffIds : IsPending(h)' => IsPending(h) /\ handoffs'[h] = handoffs[h]
    BY <2>1 DEF IsPending
  <2>5. /\ tickets[t].active => tickets[t].dept \in activeDepts
        /\ log[t].content = tickets[t].content
    BY <1>0, <1>8, <2>1
       DEF TablesRight, ActiveTicketsInActiveDepartments, HistoryReproducesContent
  <2> QED  BY <1>0, <1>7, <2>1, <2>2, <2>3, <2>4, <2>5, TicketWritten
<1>14. CASE CommitSave(s)
  <2>1. /\ r.op \in SaveOps /\ SaveAllowed(r, tickets[t])
        /\ tickets' = [tickets EXCEPT ![t] = SavedRow(r)]
        /\ log' = [log EXCEPT ![t] = LogAfter(r)]
        /\ handoffs' = IF r.op = "close" \/ ~r.row.active
                       THEN CancelPendingForTicket({t}) ELSE handoffs
        /\ UNCHANGED <<users, members, activeDepts>>
    BY <1>5, <1>6, <1>14 DEF CommitSave
  <2>2. r.op # "claim" /\ r.op # "submit" /\ Exists(t)
    BY <1>8, <2>1 DEF SaveOps
  <2>3. tickets'[t] = SavedRow(r) /\ log'[t] = LogAfter(r)
    BY <1>9, <2>1
  <2>4. /\ tickets'[t].agent = r.row.agent /\ tickets'[t].dept = r.row.dept
        /\ tickets'[t].active = r.row.active /\ tickets'[t].content = r.row.content
        /\ tickets'[t].status = r.row.status
    BY <1>9, <2>3 DEF SavedRow, TicketRow
  <2>5. log'[t].content = r.row.content
    <3>1. CASE r.op = "reopen"
      BY <1>6, <2>3, <3>1 DEF LogAfter, Opened
    <3>2. CASE r.op = "modify"
      BY <1>6, <1>9, <2>2, <2>3, <3>2 DEF LogAfter, Recorded, TicketLog
    <3>3. CASE r.op \in {"close", "cancel"}
      <4>1. log'[t] = log[t]
        <5>1. r.op # "reopen" /\ r.op # "modify"
          BY <3>3
        <5> QED  BY <1>6, <2>3, <5>1 DEF LogAfter
      <4>2. log[t].content = tickets[t].content
        BY <1>0, <2>2 DEF TablesRight, HistoryReproducesContent
      <4> QED  BY <1>7, <3>3, <4>1, <4>2
    <3> QED  BY <2>1, <3>1, <3>2, <3>3 DEF SaveOps
  <2>6. \A x \in TicketIds \ {t} : tickets'[x] = tickets[x] /\ log'[x] = log[x]
    BY <1>9, <2>1
  <2>7. \A h \in HandoffIds : IsPending(h)' =>
          IsPending(h) /\ handoffs'[h] = handoffs[h] /\ handoffs[h].ticket # t
    <3> SUFFICES ASSUME NEW h \in HandoffIds, IsPending(h)'
                 PROVE  IsPending(h) /\ handoffs'[h] = handoffs[h] /\ handoffs[h].ticket # t
      OBVIOUS
    <3>1. IsPending(h) /\ handoffs'[h] = handoffs[h]
      <4>1. CASE handoffs' = handoffs
        BY <4>1 DEF IsPending
      <4>2. CASE handoffs' = CancelPendingForTicket({t})
        BY <1>0, <4>2, Cancelled DEF IsPending
      <4> QED  BY <2>1, <4>1, <4>2
    <3>2. tickets'[handoffs[h].ticket].active /\ tickets'[handoffs[h].ticket].status = "CLAIMED"
      BY <1>0, <3>1 DEF PendingHandoffsLive, HandoffLive
    <3> QED  BY <1>10, <2>2, <2>4, <3>1, <3>2
  <2> QED  BY <1>0, <1>7, <1>10, <2>1, <2>2, <2>4, <2>5, <2>6, <2>7, TicketWritten
<1> QED  BY <1>11, <1>12, <1>13, <1>14 DEF LifecycleCommit

-----------------------------------------------------------------------------
(* HandoffLifecycle, DepartmentStatus, the worker and crashes *)

LEMMA HandoffRightKept ==
  ASSUME OneAtATime, IndInv, IndInv', SerialInv, NEW s \in Slots, HandoffNext(s)
  PROVE  SerialInv'
<1>0. TypeOK /\ HandoffsLocked /\ TablesRight /\ RequestRight(s)
  BY DEF IndInv, SerialInv
<1>1. UNCHANGED <<req, adm, dreq>>
  BY DEF HandoffNext
<1>2. ASSUME Free(s), NEW u \in Users, NEW h \in HandoffIds, NEW t \in TicketIds,
             NEW op \in HandoffOps, NEW v \in Users, BeginHandoff(s, op, u, t, h, v),
             op = "request" => Eligible(u, tickets[t].dept) /\ Eligible(v, tickets[t].dept)
      PROVE  SerialInv'
  <2>1. UNCHANGED <<tickets, handoffs, users, members, activeDepts, log>>
    BY <1>2 DEF BeginHandoff, tables
  <2>2. hreq'[s] = [op |-> op, actor |-> u, ticket |-> t, handoff |-> h, target |-> v]
    BY <1>0, <1>2 DEF BeginHandoff, TypeOK, HandoffTypeOK
  <2>3. ~Serving(s)' /\ ~RunningAdmin(s)' /\ ~RunningDepartment(s)'
    BY <1>1, <1>2 DEF Free, Serving, RunningAdmin, RunningDepartment
  <2>4. HandoffRight(s)'
    BY <1>2, <2>1, <2>2 DEF HandoffRight, Eligible, IsMember
  <2>5. RequestRight(s)'
    BY <2>3, <2>4 DEF RequestRight, OneKind, LifecycleRight, AdminRight, DepartmentRight
  <2>6. \A x \in Slots : RequestRight(x)'
    BY <2>5 DEF OneAtATime
  <2> QED  BY <2>1, <2>6, SameTables
<1>3. ASSUME Free(s), HandoffBegin(s)  PROVE SerialInv'
  <2>1. ASSUME NEW u \in Users, NEW t \in TicketIds, NEW v \in Users, NEW h \in HandoffIds,
               BeginRequest(s, u, t, v, h)
        PROVE  SerialInv'
    <3>1. Eligible(u, tickets[t].dept) /\ Eligible(v, tickets[t].dept)
      BY <2>1 DEF BeginRequest, AssertRequest, EligibleUser, IsActiveMember, ActorDepartments,
                  Eligible
    <3> QED  BY <1>2, <1>3, <2>1, <3>1 DEF BeginRequest, HandoffOps
  <2>2. ASSUME NEW u \in Users, NEW h \in HandoffIds,
               BeginAccept(s, u, h) \/ BeginReject(s, u, h) \/ BeginWithdraw(s, u, h)
        PROVE  SerialInv'
    <3>1. handoffs[h] \in HandoffRow
      BY <1>0, <2>2, Rows DEF BeginAccept, BeginReject, BeginWithdraw
    <3>2. handoffs[h].ticket \in TicketIds /\ handoffs[h].target \in Users
      BY <3>1 DEF HandoffRow
    <3>3. \E op \in {"accept", "reject", "withdraw"}, v \in Users :
            BeginHandoff(s, op, u, handoffs[h].ticket, h, v)
      BY <2>2, <3>2 DEF BeginAccept, BeginReject, BeginWithdraw
    <3> QED  BY <1>2, <1>3, <3>2, <3>3 DEF HandoffOps
  <2> QED  BY <1>3, <2>1, <2>2 DEF HandoffBegin
<1>4. ASSUME HandoffCommit(s) \/ AbortHandoff(s)
      PROVE  RunningHandoff(s) /\ \A x \in Slots : RequestRight(x)'
  <2>1. RunningHandoff(s) /\ EndHandoff(s)
    BY <1>4 DEF HandoffCommit, AbortHandoff, CommitRequest, CommitAccept, CommitResolve,
                RunningHandoff
  <2>2. hreq'[s] = NoHandoffTx
    BY <1>0, <2>1 DEF EndHandoff, TypeOK, HandoffTypeOK
  <2>3. ~Serving(s) /\ ~RunningAdmin(s) /\ ~RunningDepartment(s)
    BY <1>0, <2>1 DEF RequestRight, OneKind
  <2>4. ~Serving(s)' /\ ~RunningHandoff(s)' /\ ~RunningAdmin(s)' /\ ~RunningDepartment(s)'
    BY <1>1, <2>2, <2>3
       DEF Serving, RunningHandoff, NoHandoffTx, RunningAdmin, RunningDepartment
  <2>5. RequestRight(s)'
    BY <2>4 DEF RequestRight, OneKind, LifecycleRight, HandoffRight, DepartmentRight, AdminRight
  <2> QED  BY <2>1, <2>5 DEF OneAtATime
<1>5. CASE AbortHandoff(s)
  BY <1>4, <1>5, SameTables DEF AbortHandoff, EndHandoff
<1>6. ASSUME HandoffCommit(s)
      PROVE  /\ hreq[s].ticket \in TicketIds /\ hreq[s].handoff \in HandoffIds
             /\ handoffs \in [HandoffIds -> HandoffRow \cup {NoHandoff}]
             /\ HandoffReads(s)
             /\ UNCHANGED <<users, members, activeDepts, log>>
  <2>1. hreq[s] \in HandoffTx /\ HandoffReads(s)
    BY <1>0, <1>4, <1>6, Rows DEF HandoffsLocked
  <2>2. EndHandoff(s)
    BY <1>6 DEF HandoffCommit, CommitRequest, CommitAccept, CommitResolve
  <2> QED  BY <1>0, <2>1, <2>2 DEF HandoffTx, TypeOK, StoreTypeOK, EndHandoff
<1>7. ASSUME HandoffCommit(s), UNCHANGED tickets,
             \A h \in HandoffIds : IsPending(h)' =>
               \/ IsPending(h) /\ handoffs'[h] = handoffs[h]
               \/ /\ handoffs'[h].ticket \in TicketIds
                  /\ Eligible(handoffs'[h].requester, tickets[handoffs'[h].ticket].dept)
                  /\ Eligible(handoffs'[h].target, tickets[handoffs'[h].ticket].dept)
      PROVE  SerialInv'
  <2>1. PartiesEligible'
    BY <1>0, <1>6, <1>7 DEF TablesRight, PartiesEligible, IsPending, Eligible, IsMember
  <2>2. AgentsEligible'
    BY <1>0, <1>6, <1>7 DEF TablesRight, AgentsEligible, Exists, Eligible, IsMember
  <2>3. /\ SomeActiveAdmin' /\ EmployeesHaveNoDepartment' /\ ActiveTicketsInActiveDepartments'
        /\ HistoryReproducesContent'
    BY <1>0, <1>6, <1>7
       DEF TablesRight, SomeActiveAdmin, EmployeesHaveNoDepartment,
           ActiveTicketsInActiveDepartments, HistoryReproducesContent, IsMember, Exists
  <2> QED  BY <1>4, <1>7, <2>1, <2>2, <2>3 DEF SerialInv, TablesRight
<1>8. CASE CommitRequest(s)
  <2>1. PICK r \in HandoffTx : r = hreq[s]
    BY <1>0, <1>4, <1>8, Rows DEF HandoffCommit
  <2>2. /\ r.op = "request" /\ UNCHANGED tickets
        /\ handoffs' = [handoffs EXCEPT ![r.handoff] =
             [status |-> "PENDING", ticket |-> r.ticket, requester |-> r.actor,
              target |-> r.target]]
    BY <1>8, <2>1 DEF CommitRequest
  <2>3. Eligible(r.actor, tickets[r.ticket].dept) /\ Eligible(r.target, tickets[r.ticket].dept)
    BY <1>0, <1>4, <1>8, <2>1, <2>2 DEF HandoffCommit, RequestRight, HandoffRight
  <2>4. \A h \in HandoffIds \ {r.handoff} : handoffs'[h] = handoffs[h]
    BY <1>6, <1>8, <2>2 DEF HandoffCommit
  <2>5. /\ handoffs'[r.handoff].ticket = r.ticket /\ handoffs'[r.handoff].requester = r.actor
        /\ handoffs'[r.handoff].target = r.target /\ r.ticket \in TicketIds
    BY <1>6, <1>8, <2>1, <2>2 DEF HandoffCommit
  <2> QED  BY <1>7, <1>8, <2>2, <2>3, <2>4, <2>5 DEF HandoffCommit, IsPending
<1>9. CASE CommitResolve(s)
  <2>1. /\ UNCHANGED tickets
        /\ \A h \in HandoffIds : IsPending(h)' => handoffs'[h] = handoffs[h]
    <3>1. /\ handoffs' = [handoffs EXCEPT ![hreq[s].handoff].status =
                            IF hreq[s].op = "reject" THEN "REJECTED" ELSE "CANCELLED"]
          /\ UNCHANGED tickets /\ hreq[s].op # "request"
      BY <1>9 DEF CommitResolve
    <3>2. handoffs[hreq[s].handoff] \in HandoffRow
      BY <1>0, <1>6, <1>9, <3>1, Rows DEF HandoffCommit, HandoffReads
    <3>3. handoffs'[hreq[s].handoff].status \in {"REJECTED", "CANCELLED"}
      BY <1>6, <1>9, <3>1, <3>2 DEF HandoffCommit, HandoffRow
    <3>4. \A h \in HandoffIds : h # hreq[s].handoff => handoffs'[h] = handoffs[h]
      BY <1>6, <1>9, <3>1 DEF HandoffCommit
    <3> QED  BY <3>1, <3>3, <3>4 DEF IsPending
  <2> QED  BY <1>7, <1>9, <2>1 DEF HandoffCommit, IsPending
<1>10. CASE CommitAccept(s)
  <2>1. PICK r \in HandoffTx : r = hreq[s]
    BY <1>0, <1>4, <1>10, Rows DEF HandoffCommit
  <2>2. PICK t \in TicketIds : t = r.ticket
    BY DEF HandoffTx
  <2>3. /\ r.op = "accept" /\ UNCHANGED <<users, members, activeDepts, log>>
        /\ tickets' = [tickets EXCEPT ![t] = [@ EXCEPT !.agent = r.target, !.status = "CLAIMED"]]
        /\ handoffs' = [CancelPendingForTicket({t}) EXCEPT ![r.handoff].status = "ACCEPTED"]
    BY <1>6, <1>10, <2>1, <2>2 DEF CommitAccept, HandoffCommit
  <2>4. /\ Exists(t) /\ IsPending(r.handoff) /\ r.handoff \in HandoffIds
        /\ handoffs[r.handoff].ticket = t /\ handoffs[r.handoff].target = r.target
    BY <1>6, <1>10, <2>1, <2>2, <2>3 DEF HandoffCommit, HandoffReads
  <2>5. Eligible(r.target, tickets[t].dept)
    BY <1>0, <2>4 DEF TablesRight, PartiesEligible
  <2>6. tickets[t] \in TicketRow /\ tickets \in [TicketIds -> TicketRow \cup {NoTicket}]
    BY <1>0, <2>4, Rows DEF TypeOK, StoreTypeOK
  <2>7. /\ tickets'[t].agent = r.target /\ tickets'[t].dept = tickets[t].dept
        /\ tickets'[t].active = tickets[t].active /\ tickets'[t].content = tickets[t].content
    BY <2>3, <2>6 DEF TicketRow
  <2>8. \A x \in TicketIds \ {t} : tickets'[x] = tickets[x] /\ log'[x] = log[x]
    BY <2>3, <2>6
  <2>9. /\ tickets[t].active => tickets[t].dept \in activeDepts
        /\ log[t].content = tickets[t].content
    BY <1>0, <2>4 DEF TablesRight, ActiveTicketsInActiveDepartments, HistoryReproducesContent
  <2>10. \A h \in HandoffIds : IsPending(h)' => IsPending(h) /\ handoffs'[h] = handoffs[h]
    <3>1. PICK new : new = CancelPendingForTicket({t})
      OBVIOUS
    <3>2. /\ new \in [HandoffIds -> HandoffRow \cup {NoHandoff}]
          /\ \A h \in HandoffIds : new[h].status = "PENDING" => new[h] = handoffs[h]
      BY <1>0, <3>1, Cancelled
    <3>3. handoffs[r.handoff] \in HandoffRow
      BY <1>0, <2>4, Rows
    <3>4. /\ new[r.handoff] \in HandoffRow
          /\ handoffs' = [new EXCEPT ![r.handoff].status = "ACCEPTED"]
      BY <2>3, <2>4, <3>1, <3>3
         DEF CancelPendingForTicket, PendingOf, HandoffRow, HandoffStatus
    <3>5. handoffs'[r.handoff].status = "ACCEPTED"
      BY <2>4, <3>2, <3>4 DEF HandoffRow
    <3>6. \A h \in HandoffIds \ {r.handoff} : handoffs'[h] = new[h]
      BY <3>2, <3>4
    <3> QED  BY <3>2, <3>5, <3>6 DEF IsPending
  <2>11. TablesRight'
    BY <1>0, <2>3, <2>5, <2>7, <2>8, <2>9, <2>10, TicketWritten
  <2> QED  BY <1>4, <1>10, <2>11 DEF HandoffCommit, SerialInv
<1> QED  BY <1>3, <1>5, <1>8, <1>9, <1>10 DEF HandoffNext, HandoffCommit

(* A department without active tickets has none when it is deactivated.    *)
LEMMA DepartmentRightKept ==
  ASSUME OneAtATime, IndInv, SerialInv, NEW s \in Slots, DepartmentNext(s)
  PROVE  SerialInv'
<1>0. TypeOK /\ TablesRight /\ RequestRight(s)
  BY DEF IndInv, SerialInv
<1>1. UNCHANGED <<req, hreq, adm>>
  BY DEF DepartmentNext
<1>2. CASE Free(s) /\ DepartmentBegin(s)
  <2>1. PICK d \in Departments, active \in BOOLEAN : BeginSetDepartment(s, d, active)
    BY <1>2 DEF DepartmentBegin
  <2>2. UNCHANGED <<tickets, handoffs, users, members, activeDepts, log>>
    BY <2>1 DEF BeginSetDepartment, storeVars, tables
  <2>3. dreq'[s] = [op |-> "setDepartment", dept |-> d, active |-> active]
        /\ (~active => ~HasActiveTicket(d))
    BY <1>0, <2>1 DEF BeginSetDepartment, TypeOK, DepartmentTypeOK
  <2>4. ~Serving(s)' /\ ~RunningHandoff(s)' /\ ~RunningAdmin(s)'
    BY <1>1, <1>2 DEF Free, Serving, RunningHandoff, RunningAdmin
  <2>5. DepartmentRight(s)'
    BY <2>2, <2>3 DEF DepartmentRight, HasActiveTicket, Exists
  <2>6. RequestRight(s)'
    BY <2>4, <2>5 DEF RequestRight, OneKind, LifecycleRight, HandoffRight, AdminRight
  <2>7. \A x \in Slots : RequestRight(x)'
    BY <2>6 DEF OneAtATime
  <2> QED  BY <2>2, <2>7, SameTables
<1>3. CASE CommitSetDepartment(s)
  <2>1. PICK d \in DepartmentTx : d = dreq[s]
    BY <1>0, <1>3, Rows DEF CommitSetDepartment
  <2>2. /\ RunningDepartment(s) /\ dreq' = [dreq EXCEPT ![s] = NoDepartmentTx]
        /\ activeDepts' = IF d.active THEN activeDepts \cup {d.dept} ELSE activeDepts \ {d.dept}
        /\ UNCHANGED <<tickets, handoffs, users, members, log>>
    BY <1>3, <2>1 DEF CommitSetDepartment
  <2>3. ~d.active => ~HasActiveTicket(d.dept)
    BY <1>0, <2>1, <2>2 DEF RequestRight, DepartmentRight
  <2>4. ActiveTicketsInActiveDepartments'
    BY <1>0, <2>2, <2>3
       DEF TablesRight, ActiveTicketsInActiveDepartments, HasActiveTicket, Exists
  <2>5. AgentsEligible' /\ SomeActiveAdmin' /\ EmployeesHaveNoDepartment' /\ HistoryReproducesContent'
    BY <1>0, <2>2
       DEF TablesRight, AgentsEligible, SomeActiveAdmin, EmployeesHaveNoDepartment,
           HistoryReproducesContent, Exists, Eligible, IsMember
  <2>6. PartiesEligible'
    BY <1>0, <2>2 DEF TablesRight, PartiesEligible, IsPending, Eligible, IsMember
  <2>7. ~Serving(s)' /\ ~RunningHandoff(s)' /\ ~RunningAdmin(s)' /\ ~RunningDepartment(s)'
    <3>1. dreq'[s] = NoDepartmentTx
      BY <1>0, <2>2 DEF TypeOK, DepartmentTypeOK
    <3>2. ~Serving(s) /\ ~RunningHandoff(s) /\ ~RunningAdmin(s)
      BY <1>0, <2>2 DEF RequestRight, OneKind
    <3> QED  BY <1>1, <3>1, <3>2
             DEF Serving, RunningHandoff, RunningAdmin, RunningDepartment, NoDepartmentTx
  <2>8. RequestRight(s)'
    BY <2>7 DEF RequestRight, OneKind, LifecycleRight, HandoffRight, DepartmentRight, AdminRight
  <2>9. \A x \in Slots : RequestRight(x)'
    BY <2>8 DEF OneAtATime
  <2> QED  BY <2>4, <2>5, <2>6, <2>9 DEF SerialInv, TablesRight
<1> QED  BY <1>2, <1>3 DEF DepartmentNext

(* The worker records reminders only, which no handler reads.              *)
LEMMA WorkerRightKept ==
  ASSUME IndInv, SerialInv, WorkerNext
  PROVE  SerialInv'
<1>0. TypeOK /\ TablesRight
  BY DEF IndInv, SerialInv
<1>1. UNCHANGED <<req, hreq, adm, dreq, handoffs, users, members, activeDepts, log>>
  BY DEF WorkerNext, ReminderNext, FindCandidates, Skip, Remind, storeVars, tables
<1>2. SameColumns
  <2>1. CASE UNCHANGED tickets
    BY <2>1 DEF SameColumns, Exists
  <2>2. ASSUME NEW w \in Workers, NEW c \in candidates[w], Remind(w, c)  PROVE SameColumns
    <3>1. PICK t \in TicketIds : t = c.ticket /\ Exists(t)
      BY <2>2 DEF IndInv, TypeOK, ReminderTypeOK, Candidate, RowsKnown
    <3>2. tickets[t] \in TicketRow /\ tickets \in [TicketIds -> TicketRow \cup {NoTicket}]
      BY <1>0, <3>1, Rows DEF TypeOK, StoreTypeOK
    <3>3. tickets' = [tickets EXCEPT ![t] = [@ EXCEPT !.reminded = TRUE]]
      BY <2>2, <3>1 DEF Remind
    <3>4. tickets'[t] = [tickets[t] EXCEPT !.reminded = TRUE]
      BY <3>2, <3>3
    <3>5. tickets'[t] \in TicketRow
      BY <3>2, <3>4 DEF TicketRow
    <3>6. \A x \in TicketIds \ {t} : tickets'[x] = tickets[x]
      BY <3>2, <3>3
    <3>7. tickets'[t] # NoTicket
      BY <3>5, NullRows
    <3>8. /\ tickets'[t].agent = tickets[t].agent /\ tickets'[t].dept = tickets[t].dept
          /\ tickets'[t].active = tickets[t].active /\ tickets'[t].content = tickets[t].content
      BY <3>2, <3>4 DEF TicketRow
    <3> QED  BY <3>1, <3>6, <3>7, <3>8 DEF SameColumns, Exists
  <2> QED  BY <2>1, <2>2 DEF WorkerNext, ReminderNext, FindCandidates, Skip, storeVars, tables
<1> QED  BY <1>0, <1>1, <1>2, SameTablesRight, SameRequestRight DEF SerialInv

(* A crash ends requests and changes no table.                             *)
LEMMA CrashRightKept ==
  ASSUME IndInv, SerialInv, Crash
  PROVE  SerialInv'
<1>1. PICK S1 \in SUBSET Slots :
        /\ req' = [s \in Slots |-> IF s \in S1 THEN NoRequest ELSE req[s]]
        /\ hreq' = [s \in Slots |-> IF s \in S1 THEN NoHandoffTx ELSE hreq[s]]
        /\ adm' = [s \in Slots |-> IF s \in S1 THEN NoAdminTx ELSE adm[s]]
        /\ dreq' = [s \in Slots |-> IF s \in S1 THEN NoDepartmentTx ELSE dreq[s]]
        /\ UNCHANGED <<tickets, handoffs, users, members, activeDepts, log>>
  BY DEF Crash, tables
<1>2. SameColumns
  BY <1>1 DEF SameColumns, Exists
<1>3. ASSUME NEW s \in Slots  PROVE RequestRight(s)'
  <2>1. CASE s \in S1
    BY <1>1, <2>1
       DEF RequestRight, OneKind, LifecycleRight, HandoffRight, DepartmentRight, AdminRight,
           Serving, RunningHandoff, RunningAdmin, RunningDepartment, NoRequest, NoHandoffTx,
           NoAdminTx, NoDepartmentTx
  <2>2. CASE s \notin S1
    BY <1>1, <1>2, <2>2, SameRequestRight DEF SerialInv
  <2> QED  BY <2>1, <2>2
<1> QED  BY <1>1, <1>3, SameTables

-----------------------------------------------------------------------------
(* UserReconciliation *)

(* The sweeps of a plan. *)
LEMMA ElementsOfTail ==
  ASSUME NEW q \in Seq(Sweep), q # <<>>
  PROVE  /\ Head(q) \in Sweep /\ Tail(q) \in Seq(Sweep)
         /\ Elements(q) = {Head(q)} \cup Elements(Tail(q))
<1>1. PICK n \in Nat : n = Len(q) /\ n >= 1 /\ DOMAIN q = 1 .. n
  OBVIOUS
<1>2. /\ Head(q) = q[1] /\ Tail(q) \in Seq(Sweep) /\ DOMAIN Tail(q) = 1 .. (n - 1)
      /\ \A i \in 1 .. (n - 1) : Tail(q)[i] = q[i + 1]
  BY <1>1
<1>3. ASSUME NEW k \in Elements(q)  PROVE k = Head(q) \/ k \in Elements(Tail(q))
  <2>1. PICK i \in 1 .. n : k = q[i]
    BY <1>1, <1>3 DEF Elements
  <2>2. CASE i = 1
    BY <1>2, <2>1, <2>2
  <2>3. CASE i # 1
    <3>1. i - 1 \in 1 .. (n - 1) /\ (i - 1) + 1 = i
      BY <1>1, <2>3
    <3>2. Tail(q)[i - 1] = q[i]
      BY <1>2, <3>1
    <3> QED  BY <1>2, <2>1, <3>1, <3>2 DEF Elements
  <2> QED  BY <2>2, <2>3
<1>4. Head(q) \in Elements(q)
  BY <1>1, <1>2 DEF Elements
<1>5. ASSUME NEW k \in Elements(Tail(q))  PROVE k \in Elements(q)
  <2>1. PICK i \in 1 .. (n - 1) : k = Tail(q)[i]
    BY <1>2, <1>5 DEF Elements
  <2>2. i + 1 \in 1 .. n /\ k = q[i + 1]
    BY <1>1, <1>2, <2>1
  <2> QED  BY <1>1, <2>2 DEF Elements
<1>6. Head(q) \in Sweep
  BY <1>1, <1>2
<1> QED  BY <1>2, <1>3, <1>4, <1>5, <1>6

LEMMA ElementsOfJoin ==
  ASSUME NEW p \in Seq(Sweep), NEW q \in Seq(Sweep)
  PROVE  p \o q \in Seq(Sweep) /\ Elements(p \o q) = Elements(p) \cup Elements(q)
<1>1. PICK m \in Nat, n \in Nat : /\ m = Len(p) /\ DOMAIN p = 1 .. m
                                  /\ n = Len(q) /\ DOMAIN q = 1 .. n
  OBVIOUS
<1>2. /\ p \o q \in Seq(Sweep) /\ DOMAIN (p \o q) = 1 .. (m + n)
      /\ \A i \in 1 .. (m + n) : (p \o q)[i] = IF i <= m THEN p[i] ELSE q[i - m]
  BY <1>1
<1>3. ASSUME NEW k \in Elements(p \o q)  PROVE k \in Elements(p) \/ k \in Elements(q)
  <2>1. PICK i \in 1 .. (m + n) : k = (p \o q)[i]
    BY <1>2, <1>3 DEF Elements
  <2>2. CASE i <= m
    <3>1. i \in 1 .. m /\ k = p[i]
      BY <1>2, <2>1, <2>2
    <3> QED  BY <1>1, <3>1 DEF Elements
  <2>3. CASE ~(i <= m)
    <3>1. i - m \in 1 .. n /\ k = q[i - m]
      BY <1>1, <1>2, <2>1, <2>3
    <3> QED  BY <1>1, <3>1 DEF Elements
  <2> QED  BY <2>2, <2>3
<1>4. ASSUME NEW k \in Elements(p)  PROVE k \in Elements(p \o q)
  <2>1. PICK i \in 1 .. m : k = p[i]
    BY <1>1, <1>4 DEF Elements
  <2>2. i \in 1 .. (m + n) /\ i <= m
    BY <1>1
  <2>3. k = (p \o q)[i]
    BY <1>2, <2>1, <2>2
  <2> QED  BY <1>2, <2>2, <2>3 DEF Elements
<1>5. ASSUME NEW k \in Elements(q)  PROVE k \in Elements(p \o q)
  <2>1. PICK i \in 1 .. n : k = q[i]
    BY <1>1, <1>5 DEF Elements
  <2>2. i + m \in 1 .. (m + n) /\ ~(i + m <= m) /\ (i + m) - m = i
    BY <1>1
  <2>3. k = (p \o q)[i + m]
    BY <1>2, <2>1, <2>2
  <2> QED  BY <1>2, <2>2, <2>3 DEF Elements
<1> QED  BY <1>2, <1>3, <1>4, <1>5

LEMMA ElementsOfPlans ==
  /\ Elements(<<>>) = {}
  /\ \A k \in Sweep : Elements(<<k>>) = {k}
  /\ \A j, k \in Sweep : Elements(<<j, k>>) = {j, k}
  /\ \A j, k, l \in Sweep : Elements(<<j, k, l>>) = {j, k, l}
<1>1. Elements(<<>>) = {}
  BY DEF Elements
<1>2. \A k \in Sweep : Elements(<<k>>) = {k}
  BY DEF Elements
<1>3. ASSUME NEW j \in Sweep, NEW k \in Sweep  PROVE Elements(<<j, k>>) = {j, k}
  <2>1. DOMAIN <<j, k>> = {1, 2}
    OBVIOUS
  <2> QED  BY <2>1 DEF Elements
<1>4. ASSUME NEW j \in Sweep, NEW k \in Sweep, NEW l \in Sweep
      PROVE  Elements(<<j, k, l>>) = {j, k, l}
  <2>1. DOMAIN <<j, k, l>> = {1, 2, 3}
    OBVIOUS
  <2> QED  BY <2>1 DEF Elements
<1> QED  BY <1>1, <1>2, <1>3, <1>4

(* The transaction changes what it remembers and no table.  What it has to *)
(* take away is still to be swept or decided about.                        *)
LEMMA AdminMemory ==
  ASSUME OneAtATime, IndInv, SerialInv, NEW s \in Slots, NEW b \in AdminTx,
         Free(s) \/ RunningAdmin(s),
         adm'[s] = b,
         UNCHANGED <<tickets, handoffs, users, members, activeDepts, log, req, hreq, dreq>>,
         /\ b.before = users[b.user].role
         /\ b.op \in {"setRole", "deactivate"} /\ b.before = "Admin" =>
              ActiveAdminsExcept(b.user) # {}
         /\ b.op = "addMember" => b.before # "Employee"
         /\ b.op = "setRole" /\ b.role = "Employee" => LeavesAll(b)
         /\ DropsFor(b) /\ ClaimsSwept(b) /\ OffersSwept(b)
  PROVE  SerialInv'
<1>1. ~Serving(s) /\ ~RunningHandoff(s) /\ ~RunningDepartment(s)
  BY DEF SerialInv, RequestRight, OneKind, Free
<1>2. \A t \in TicketIds : Exists(t)' <=> Exists(t)
  BY DEF Exists
<1>3. \A t \in TicketIds, kinds \in {ClaimSweeps, OfferSweeps} :
        SweepAhead(b, t, kinds)' <=> SweepAhead(b, t, kinds)
  BY DEF SweepAhead
<1>4. ClaimsSwept(b)'
  BY <1>2, <1>3 DEF ClaimsSwept
<1>5. OffersSwept(b)'
  <2>1. \A h \in HandoffIds : IsPending(h) => handoffs[h].ticket \in TicketIds
    BY Rows DEF IndInv, HandoffRow
  <2> QED  BY <1>3, <2>1 DEF OffersSwept, IsPending
<1>6. (LeavesAll(b)' <=> LeavesAll(b)) /\ ActiveAdminsExcept(b.user)' = ActiveAdminsExcept(b.user)
  BY DEF LeavesAll, IsMember, ActiveAdminsExcept
<1>7. AdminRight(s)'
  BY <1>4, <1>5, <1>6 DEF AdminRight
<1>8. ~Serving(s)' /\ ~RunningHandoff(s)' /\ ~RunningDepartment(s)'
  BY <1>1 DEF Serving, RunningHandoff, RunningDepartment
<1>9. RequestRight(s)'
  BY <1>7, <1>8 DEF RequestRight, OneKind, LifecycleRight, HandoffRight, DepartmentRight
<1>10. \A x \in Slots : RequestRight(x)'
  BY <1>9 DEF OneAtATime
<1> QED  BY <1>10, SameTables

(* The plan of each operation reaches whatever the user gives up.          *)
LEMMA BeginAdminRight ==
  ASSUME OneAtATime, IndInv, SerialInv, NEW s \in Slots, Free(s),
         NEW op \in RowOps \cup MemberOps, NEW u \in Users, NEW d \in Departments,
         NEW role \in Roles, NEW plan \in Seq(Sweep), BeginAdmin(s, op, u, d, role, plan),
         UNCHANGED <<req, hreq, dreq>>,
         op \in {"setRole", "deactivate"} /\ users[u].role = "Admin" => ActiveAdminsExcept(u) # {},
         op = "addMember" => users[u].role # "Employee",
         op = "setRole" /\ role = "Employee" => \E k \in Elements(plan) : k.kind = "memberships",
         \A k \in Elements(plan) :
           /\ k.kind = "administration" => op = "setRole" /\ users[u].role = "Admin"
           /\ k.kind = "memberships" => op = "deactivate" \/ (op = "setRole" /\ role = "Employee"),
         op = "deactivate" => \E k \in Elements(plan) : k.kind = "memberships",
         op = "setRole" /\ users[u].role = "Admin" =>
           \E k \in Elements(plan) : k.kind = "administration",
         op = "removeMember" =>
           /\ S("deptHandoffs", d) \in Elements(plan) /\ S("deptClaims", d) \in Elements(plan)
  PROVE  SerialInv'
<1> DEFINE a == [op |-> op, user |-> u, dept |-> d, role |-> role,
                 before |-> users[u].role, started |-> op \in MemberOps,
                 plan |-> plan, sweep |-> S("deptClaims", d),
                 todo |-> {}, depts |-> {}, act |-> [t \in TicketIds |-> "none"],
                 dropAdministration |-> FALSE, dropMemberships |-> FALSE]
<1>1. adm'[s] = a /\ UNCHANGED <<tickets, handoffs, users, members, activeDepts, log>>
  BY DEF BeginAdmin, IndInv, TypeOK, AdminTypeOK, storeVars, tables
<1>2. users[u].role \in Roles
  BY DEF IndInv, TypeOK, StoreTypeOK, UserRow
<1>3. a \in AdminTx
  <2>1. S("deptClaims", d) \in Sweep /\ (op \in MemberOps) \in BOOLEAN
    BY Plans
  <2>2. [t \in TicketIds |-> "none"] \in [TicketIds -> Acts]
    BY DEF Acts
  <2> QED  BY <1>2, <2>1, <2>2 DEF AdminTx
<1>4. PICK b \in AdminTx : b = a
  BY <1>3
<1>5. /\ b.op = op /\ b.user = u /\ b.dept = d /\ b.role = role /\ b.before = users[u].role
      /\ b.plan = plan /\ b.todo = {} /\ b.depts = {}
      /\ b.dropAdministration = FALSE /\ b.dropMemberships = FALSE
  BY <1>4
<1> HIDE DEF a
<1>6. b.op = "setRole" /\ b.role = "Employee" => LeavesAll(b)
  BY <1>5 DEF LeavesAll, Planned
<1>7. DropsFor(b)
  BY <1>5 DEF DropsFor, Planned
<1>8. ASSUME NEW t \in TicketIds, GivesUp(b, tickets[t].dept), NEW kinds \in {ClaimSweeps, OfferSweeps}
      PROVE  SweepAhead(b, t, kinds)
  <2>1. CASE op = "deactivate" \/ (op = "setRole" /\ role = "Employee")
    BY <1>5, <2>1 DEF SweepAhead, Planned
  <2>2. CASE op = "setRole" /\ users[u].role = "Admin" /\ tickets[t].dept = Administration
    BY <1>5, <2>2 DEF SweepAhead, Planned
  <2>3. CASE op = "removeMember" /\ tickets[t].dept = d
    <3>1. /\ S("deptHandoffs", d).kind = "deptHandoffs" /\ S("deptHandoffs", d).dept = d
          /\ S("deptClaims", d).kind = "deptClaims" /\ S("deptClaims", d).dept = d
      BY DEF S
    <3> QED  BY <1>5, <2>3, <3>1 DEF SweepAhead, ClaimSweeps, OfferSweeps
  <2> QED  BY <1>5, <1>8, <2>1, <2>2, <2>3 DEF GivesUp
<1>9. ClaimsSwept(b)
  BY <1>8 DEF ClaimsSwept
<1>10. OffersSwept(b)
  <2>1. \A h \in HandoffIds : IsPending(h) => handoffs[h].ticket \in TicketIds
    BY Rows DEF IndInv, HandoffRow
  <2> QED  BY <1>8, <2>1 DEF OffersSwept
<1> QED  BY <1>1, <1>4, <1>5, <1>6, <1>7, <1>9, <1>10, AdminMemory

LEMMA AdminBeginRight ==
  ASSUME OneAtATime, IndInv, SerialInv, NEW s \in Slots, Free(s), AdminBegin(s),
         UNCHANGED <<req, hreq, dreq>>
  PROVE  SerialInv'
<1>0. /\ Administration \in Departments
      /\ \A k \in SweepKinds, d \in Departments :
           S(k, d) \in Sweep /\ S(k, d).kind = k /\ S(k, d).dept = d
  BY StoreAssumption DEF S, Sweep
<1>1. PICK drop \in Sweep, offers \in Sweep, all \in Sweep, mine \in Sweep :
        /\ drop = S("administration", Administration)
        /\ offers = S("userHandoffs", Administration)
        /\ all = S("memberships", Administration)
        /\ mine = S("userTickets", Administration)
  BY <1>0 DEF SweepKinds
<1>2. /\ drop.kind = "administration" /\ offers.kind = "userHandoffs"
      /\ all.kind = "memberships" /\ mine.kind = "userTickets"
  BY <1>1 DEF S
<1>3. \A u \in Users : users[u].role \in Roles
  BY DEF IndInv, TypeOK, StoreTypeOK, UserRow
<1>4. ASSUME NEW u \in Users, NEW role \in Roles, BeginSetRole(s, u, role)
      PROVE  SerialInv'
  <2>1. PICK p \in Seq(Sweep), q \in Seq(Sweep) :
          /\ p = IF users[u].role = "Admin" THEN <<drop>> ELSE <<>>
          /\ q = IF role = "Employee" THEN <<offers, all>> ELSE <<>>
    <3>1. <<drop>> \in Seq(Sweep) /\ <<offers, all>> \in Seq(Sweep) /\ <<>> \in Seq(Sweep)
      OBVIOUS
    <3>2. PICK p \in Seq(Sweep) : p = IF users[u].role = "Admin" THEN <<drop>> ELSE <<>>
      BY <3>1
    <3>3. PICK q \in Seq(Sweep) : q = IF role = "Employee" THEN <<offers, all>> ELSE <<>>
      BY <3>1
    <3> QED  BY <3>2, <3>3
  <2>2. /\ Elements(p) = IF users[u].role = "Admin" THEN {drop} ELSE {}
        /\ Elements(q) = IF role = "Employee" THEN {offers, all} ELSE {}
    BY <2>1, ElementsOfPlans
  <2>3. p \o q \in Seq(Sweep) /\ Elements(p \o q) = Elements(p) \cup Elements(q)
    BY ElementsOfJoin
  <2>4. /\ BeginAdmin(s, "setRole", u, Administration, role, p \o q)
        /\ users[u].role = "Admin" => ActiveAdminsExcept(u) # {}
    BY <1>1, <1>4, <2>1 DEF BeginSetRole, AssertNotLastAdmin
  <2>5. PICK plan \in Seq(Sweep) : plan = p \o q
    BY <2>3
  <2>6. /\ \A k \in Elements(plan) :
             /\ k.kind = "administration" => users[u].role = "Admin"
             /\ k.kind = "memberships" => role = "Employee"
        /\ role = "Employee" => all \in Elements(plan)
        /\ users[u].role = "Admin" => drop \in Elements(plan)
    BY <1>2, <2>2, <2>3, <2>5
  <2>7. BeginAdmin(s, "setRole", u, Administration, role, plan)
    BY <2>4, <2>5
  <2> QED  BY <1>0, <1>2, <2>4, <2>6, <2>7, BeginAdminRight DEF RowOps
<1>5. ASSUME NEW u \in Users, BeginDeactivate(s, u)
      PROVE  SerialInv'
  <2>1. /\ DeactivationPlan \in Seq(Sweep)
        /\ Elements(DeactivationPlan) = {mine, offers, all}
    BY <1>1, Plans, ElementsOfPlans DEF DeactivationPlan
  <2>2. /\ BeginAdmin(s, "deactivate", u, Administration, users[u].role, DeactivationPlan)
        /\ users[u].role = "Admin" => ActiveAdminsExcept(u) # {}
    BY <1>5 DEF BeginDeactivate, AssertNotLastAdmin
  <2>3. /\ all \in Elements(DeactivationPlan) /\ all.kind = "memberships"
        /\ \A k \in Elements(DeactivationPlan) : k.kind # "administration"
    BY <1>2, <2>1
  <2>4. users[u].role \in Roles /\ "deactivate" \in RowOps \cup MemberOps
    BY <1>3 DEF RowOps
  <2> HIDE DEF DeactivationPlan
  <2> QED  BY <1>0, <2>1, <2>2, <2>3, <2>4, BeginAdminRight
<1>6. ASSUME NEW u \in Users, BeginActivate(s, u)
      PROVE  SerialInv'
  <2>1. <<>> \in Seq(Sweep) /\ Elements(<<>>) = {}
    BY ElementsOfPlans
  <2>2. BeginAdmin(s, "activate", u, Administration, users[u].role, <<>>)
    BY <1>6 DEF BeginActivate
  <2> QED  BY <1>0, <1>3, <2>1, <2>2, BeginAdminRight DEF RowOps
<1>7. ASSUME NEW u \in Users, NEW d \in Departments, BeginAddMember(s, u, d)
      PROVE  SerialInv'
  <2>1. <<>> \in Seq(Sweep) /\ Elements(<<>>) = {}
    BY ElementsOfPlans
  <2>2. BeginAdmin(s, "addMember", u, d, users[u].role, <<>>) /\ users[u].role # "Employee"
    BY <1>7 DEF BeginAddMember, AssertCanJoinDepartment
  <2> QED  BY <1>3, <2>1, <2>2, BeginAdminRight DEF MemberOps
<1>8. ASSUME NEW u \in Users, NEW d \in Departments, BeginRemoveMember(s, u, d)
      PROVE  SerialInv'
  <2>1. /\ RemovalPlan(d) \in Seq(Sweep)
        /\ Elements(RemovalPlan(d)) = {S("deptHandoffs", d), S("deptClaims", d)}
    BY <1>0, Plans, ElementsOfPlans DEF RemovalPlan, SweepKinds
  <2>2. BeginAdmin(s, "removeMember", u, d, users[u].role, RemovalPlan(d))
    BY <1>8 DEF BeginRemoveMember
  <2>3. \A k \in Elements(RemovalPlan(d)) : k.kind \in {"deptHandoffs", "deptClaims"}
    BY <2>1 DEF S
  <2> QED  BY <1>3, <2>1, <2>2, <2>3, BeginAdminRight DEF MemberOps
<1> QED  BY <1>4, <1>5, <1>6, <1>7, <1>8 DEF AdminBegin

(* A step of a running transaction about the same user.                    *)
LEMMA AdminStepRight ==
  ASSUME OneAtATime, IndInv, SerialInv, NEW s \in Slots, RunningAdmin(s), NEW b \in AdminTx,
         adm'[s] = b,
         UNCHANGED <<tickets, handoffs, users, members, activeDepts, log, req, hreq, dreq>>,
         /\ b.op = adm[s].op /\ b.user = adm[s].user /\ b.dept = adm[s].dept
         /\ b.role = adm[s].role /\ b.before = adm[s].before,
         adm[s].op = "setRole" /\ adm[s].role = "Employee" /\ LeavesAll(adm[s]) => LeavesAll(b),
         DropsFor(adm[s]) => DropsFor(b),
         \A t \in TicketIds :
           /\ Exists(t) /\ tickets[t].agent = adm[s].user /\ GivesUp(adm[s], tickets[t].dept)
           /\ adm[s].act[t] \in {"close", "deactivate"} \/ SweepAhead(adm[s], t, ClaimSweeps)
           => b.act[t] \in {"close", "deactivate"} \/ SweepAhead(b, t, ClaimSweeps),
         \A h \in HandoffIds :
           LET t == handoffs[h].ticket IN
           /\ IsPending(h) /\ adm[s].user \in {handoffs[h].requester, handoffs[h].target}
           /\ GivesUp(adm[s], tickets[t].dept)
           /\ adm[s].act[t] # "none" \/ SweepAhead(adm[s], t, OfferSweeps)
           => b.act[t] # "none" \/ SweepAhead(b, t, OfferSweeps)
  PROVE  SerialInv'
<1>1. PICK a \in AdminTx : a = adm[s]
  BY AdminFacts
<1>2. AdminRight(s)
  BY DEF SerialInv, RequestRight
<1>3. /\ a.before = users[a.user].role
      /\ a.op \in {"setRole", "deactivate"} /\ a.before = "Admin" =>
           ActiveAdminsExcept(a.user) # {}
      /\ a.op = "addMember" => a.before # "Employee"
      /\ a.op = "setRole" /\ a.role = "Employee" => LeavesAll(a)
      /\ DropsFor(a) /\ ClaimsSwept(a) /\ OffersSwept(a)
  BY <1>1, <1>2 DEF AdminRight
<1>4. \A d : GivesUp(b, d) <=> GivesUp(a, d)
  BY <1>1 DEF GivesUp
<1>5. ClaimsSwept(b)
  BY <1>1, <1>3, <1>4 DEF ClaimsSwept
<1>6. OffersSwept(b)
  <2>1. \A h \in HandoffIds : IsPending(h) => handoffs[h].ticket \in TicketIds
    BY Rows DEF IndInv, HandoffRow
  <2> QED  BY <1>1, <1>3, <1>4, <2>1 DEF OffersSwept
<1> QED  BY <1>1, <1>3, <1>5, <1>6, AdminMemory

(* What the running transaction is, before and after one of its steps.     *)
LEMMA AdminStepTypes ==
  ASSUME IndInv, IndInv', SerialInv, NEW s \in Slots, RunningAdmin(s), RunningAdmin(s)'
  PROVE  /\ adm[s] \in AdminTx /\ adm'[s] \in AdminTx
         /\ adm \in [Slots -> AdminTx \cup {NoAdminTx}]
         /\ \A t \in TicketIds : Exists(t) /\ tickets[t].agent = adm[s].user =>
              /\ tickets[t].active /\ ClaimedBy(tickets[t], adm[s].user)
              /\ IsMember(adm[s].user, tickets[t].dept) /\ tickets[t].dept \in Departments
         /\ \A h \in HandoffIds : IsPending(h) =>
              /\ handoffs[h].ticket \in TicketIds /\ Exists(handoffs[h].ticket)
              /\ tickets[handoffs[h].ticket].dept \in Departments
              /\ adm[s].user \in {handoffs[h].requester, handoffs[h].target} =>
                   IsMember(adm[s].user, tickets[handoffs[h].ticket].dept)
<1>0. TypeOK /\ TypeOK' /\ TicketsConsistent /\ RowsKnown /\ TablesRight
  BY DEF IndInv, SerialInv
<1>1. adm[s] \in AdminTx /\ adm[s].user \in Users
  BY AdminFacts
<1>2. adm'[s] \in AdminTx
  BY <1>0 DEF TypeOK, AdminTypeOK, RunningAdmin, NoAdminTx
<1>3. adm \in [Slots -> AdminTx \cup {NoAdminTx}]
  BY <1>0 DEF TypeOK, AdminTypeOK
<1>4. ASSUME NEW t \in TicketIds, Exists(t), tickets[t].agent = adm[s].user
      PROVE  /\ tickets[t].active /\ ClaimedBy(tickets[t], adm[s].user)
             /\ IsMember(adm[s].user, tickets[t].dept) /\ tickets[t].dept \in Departments
  <2>1. tickets[t] \in TicketRow /\ tickets[t].agent # NoUser
    BY <1>0, <1>1, <1>4, Rows, StoreAssumption
  <2>2. tickets[t].active /\ tickets[t].status = "CLAIMED"
    BY <1>0, <1>4, <2>1 DEF TicketsConsistent, RowConsistent
  <2>3. Eligible(adm[s].user, tickets[t].dept)
    BY <1>0, <1>4, <2>1 DEF TablesRight, AgentsEligible
  <2> QED  BY <1>4, <2>1, <2>2, <2>3 DEF ClaimedBy, Eligible, TicketRow
<1>5. ASSUME NEW h \in HandoffIds, IsPending(h)
      PROVE  /\ handoffs[h].ticket \in TicketIds /\ Exists(handoffs[h].ticket)
             /\ tickets[handoffs[h].ticket].dept \in Departments
             /\ adm[s].user \in {handoffs[h].requester, handoffs[h].target} =>
                  IsMember(adm[s].user, tickets[handoffs[h].ticket].dept)
  <2>1. handoffs[h] \in HandoffRow /\ Exists(handoffs[h].ticket)
    BY <1>0, <1>5, Rows DEF RowsKnown
  <2>2. handoffs[h].ticket \in TicketIds
    BY <2>1 DEF HandoffRow
  <2>3. tickets[handoffs[h].ticket].dept \in Departments
    BY <1>0, <2>1, <2>2, Rows DEF TicketRow
  <2>4. /\ Eligible(handoffs[h].requester, tickets[handoffs[h].ticket].dept)
        /\ Eligible(handoffs[h].target, tickets[handoffs[h].ticket].dept)
    BY <1>0, <1>5 DEF TablesRight, PartiesEligible
  <2> QED  BY <2>1, <2>2, <2>3, <2>4 DEF Eligible
<1> QED  BY <1>1, <1>2, <1>3, <1>4, <1>5

(* The next sweep selects what it was planned for.                         *)
LEMMA StartSweepRight ==
  ASSUME OneAtATime, IndInv, IndInv', SerialInv, NEW s \in Slots, StartSweep(s),
         UNCHANGED <<req, hreq, dreq>>
  PROVE  SerialInv'
<1>1. RunningAdmin(s) /\ Idle(s) /\ adm[s].plan # <<>>
      /\ UNCHANGED <<tickets, handoffs, users, members, activeDepts, log>>
  BY DEF StartSweep, storeVars, tables
<1>2. PICK a \in AdminTx : a = adm[s]
  BY <1>1, AdminFacts
<1>3. PICK k \in Sweep : k = Head(a.plan) /\ a.plan # <<>> /\ a.plan \in Seq(Sweep)
  BY <1>1, <1>2, ElementsOfTail DEF AdminTx
<1>4. /\ Elements(a.plan) = {k} \cup Elements(Tail(a.plan))
      /\ k.kind \notin {"memberships", "administration"}
  BY <1>2, <1>3, ElementsOfTail DEF StartSweep
<1>5. adm'[s] = [a EXCEPT !.sweep = k, !.todo = Selected(s, k), !.plan = Tail(a.plan)]
  BY <1>2, <1>3 DEF StartSweep, IndInv, TypeOK, AdminTypeOK
<1>6. PICK b : b = adm'[s]
  OBVIOUS
<1>7. /\ b.op = a.op /\ b.user = a.user /\ b.dept = a.dept /\ b.role = a.role
      /\ b.before = a.before /\ b.sweep = k /\ b.todo = Selected(s, k) /\ b.plan = Tail(a.plan)
      /\ b.depts = a.depts /\ b.act = a.act /\ b.dropAdministration = a.dropAdministration
      /\ b.dropMemberships = a.dropMemberships
  BY <1>5, <1>6 DEF AdminTx
<1>8. RunningAdmin(s)'
  BY <1>1, <1>2, <1>6, <1>7 DEF RunningAdmin
<1>9. b \in AdminTx /\ a.todo = {} /\ a.act \in [TicketIds -> Acts]
  BY <1>1, <1>2, <1>6, <1>8, AdminStepTypes DEF Idle, AdminTx
<1>10. \A kind \in {"memberships", "administration"} : Planned(b, kind) <=> Planned(a, kind)
  BY <1>4, <1>7 DEF Planned
<1>11. (LeavesAll(a) => LeavesAll(b)) /\ (DropsFor(a) => DropsFor(b))
  BY <1>7, <1>10 DEF LeavesAll, DropsFor
<1>12. ASSUME NEW t \in TicketIds, NEW kinds \in {ClaimSweeps, OfferSweeps},
              SweepAhead(a, t, kinds)
       PROVE  \/ SweepAhead(b, t, kinds)
              \/ k.kind \in kinds /\ (k.kind \in {"deptClaims", "deptHandoffs"} => k.dept = tickets[t].dept)
  BY <1>4, <1>7, <1>9, <1>10, <1>12 DEF SweepAhead
<1>13. ASSUME NEW t \in TicketIds, Exists(t), tickets[t].agent = a.user,
              SweepAhead(a, t, ClaimSweeps)
       PROVE  b.act[t] \in {"close", "deactivate"} \/ SweepAhead(b, t, ClaimSweeps)
  <2>1. tickets[t].active /\ ClaimedBy(tickets[t], a.user)
    BY <1>1, <1>2, <1>8, <1>13, AdminStepTypes
  <2>2. SUFFICES ASSUME k.kind \in ClaimSweeps, k.kind = "deptClaims" => k.dept = tickets[t].dept,
                        a.act[t] \notin {"close", "deactivate"}
                 PROVE  t \in Selected(s, k)
    BY <1>7, <1>12, <1>13 DEF SweepAhead
  <2>3. a.act[t] \in {"none", "handoffs"}
    BY <1>9, <2>2 DEF Acts
  <2>4. CASE k.kind = "userTickets"
    BY <1>2, <1>13, <2>1, <2>4 DEF Selected
  <2>5. CASE k.kind = "deptClaims"
    BY <1>2, <1>13, <2>1, <2>2, <2>3, <2>5 DEF Selected
  <2> QED  BY <2>2, <2>4, <2>5 DEF ClaimSweeps
<1>14. ASSUME NEW h \in HandoffIds, IsPending(h),
              a.user \in {handoffs[h].requester, handoffs[h].target},
              SweepAhead(a, handoffs[h].ticket, OfferSweeps)
       PROVE  \/ b.act[handoffs[h].ticket] # "none"
              \/ SweepAhead(b, handoffs[h].ticket, OfferSweeps)
  <2>1. PICK t \in TicketIds : t = handoffs[h].ticket /\ Exists(t)
    BY <1>1, <1>8, <1>14, AdminStepTypes
  <2>2. SUFFICES ASSUME k.kind \in OfferSweeps, k.kind = "deptHandoffs" => k.dept = tickets[t].dept,
                        a.act[t] = "none"
                 PROVE  t \in Selected(s, k)
    BY <1>7, <1>12, <1>14, <2>1 DEF SweepAhead
  <2>3. CASE k.kind = "userHandoffs"
    BY <1>2, <1>14, <2>1, <2>2, <2>3 DEF Selected
  <2>4. CASE k.kind = "deptHandoffs"
    BY <1>2, <1>14, <2>1, <2>2, <2>4 DEF Selected
  <2> QED  BY <2>2, <2>3, <2>4 DEF OfferSweeps
<1> QED  BY <1>1, <1>2, <1>6, <1>7, <1>9, <1>11, <1>13, <1>14, AdminStepRight

(* The departments of the user are read: all that the sweeps before have   *)
(* not taken care of.                                                      *)
LEMMA ReadMembershipsRight ==
  ASSUME OneAtATime, IndInv, IndInv', SerialInv, NEW s \in Slots, ReadMemberships(s),
         UNCHANGED <<req, hreq, dreq>>
  PROVE  SerialInv'
<1>1. RunningAdmin(s) /\ Idle(s) /\ adm[s].plan # <<>>
      /\ UNCHANGED <<tickets, handoffs, users, members, activeDepts, log>>
  BY DEF ReadMemberships, storeVars, tables
<1>2. PICK a \in AdminTx : a = adm[s]
  BY <1>1, AdminFacts
<1>3. PICK k \in Sweep : k = Head(a.plan) /\ a.plan # <<>> /\ a.plan \in Seq(Sweep)
  BY <1>1, <1>2, ElementsOfTail DEF AdminTx
<1>4. Elements(a.plan) = {k} \cup Elements(Tail(a.plan)) /\ k.kind = "memberships"
  BY <1>2, <1>3, ElementsOfTail DEF ReadMemberships
<1>5. PICK found : found = {d \in Departments : IsMember(a.user, d)}
                           \ (IF a.dropAdministration THEN {Administration} ELSE {})
  OBVIOUS
<1>6. adm'[s] = [a EXCEPT !.depts = found, !.dropMemberships = found # {},
                          !.plan = Tail(a.plan)]
  <2>1. s \in DOMAIN adm
    BY DEF IndInv, TypeOK, AdminTypeOK
  <2>2. adm' = [adm EXCEPT ![s].depts = found, ![s].dropMemberships = found # {},
                           ![s].plan = Tail(adm[s].plan)]
    BY <1>2, <1>5, Zenon DEF ReadMemberships
  <2> QED  BY <1>2, <2>1, <2>2
<1>7. PICK b : b = adm'[s]
  OBVIOUS
<1>8. /\ b.op = a.op /\ b.user = a.user /\ b.dept = a.dept /\ b.role = a.role
      /\ b.before = a.before /\ b.sweep = a.sweep /\ b.todo = a.todo /\ b.plan = Tail(a.plan)
      /\ b.depts = found /\ b.act = a.act /\ b.dropAdministration = a.dropAdministration
      /\ b.dropMemberships = (found # {})
  BY <1>6, <1>7 DEF AdminTx
<1>9. RunningAdmin(s)'
  BY <1>1, <1>2, <1>7, <1>8 DEF RunningAdmin
<1>10. b \in AdminTx /\ a.todo = {}
  BY <1>1, <1>2, <1>7, <1>9, AdminStepTypes DEF Idle
<1>11. Planned(a, "memberships") /\ (Planned(b, "memberships") => Planned(a, "memberships"))
       /\ (Planned(b, "administration") <=> Planned(a, "administration"))
  BY <1>4, <1>8 DEF Planned
<1>12. LeavesAll(b)
  BY <1>5, <1>8 DEF LeavesAll
<1>13. DropsFor(a) => DropsFor(b)
  BY <1>8, <1>11 DEF DropsFor
<1>14. ASSUME NEW t \in TicketIds, NEW kinds \in {ClaimSweeps, OfferSweeps},
              SweepAhead(a, t, kinds), IsMember(a.user, tickets[t].dept),
              tickets[t].dept \in Departments
       PROVE  SweepAhead(b, t, kinds)
  <2>1. k.kind \notin kinds
    BY <1>4, <1>14 DEF ClaimSweeps, OfferSweeps
  <2>2. CASE ~(a.dropAdministration /\ tickets[t].dept = Administration)
    <3>1. tickets[t].dept \in found
      BY <1>5, <1>14, <2>2
    <3> QED  BY <1>8, <2>2, <3>1 DEF SweepAhead
  <2>3. CASE a.dropAdministration /\ tickets[t].dept = Administration
    BY <1>4, <1>8, <1>10, <1>11, <1>14, <2>1, <2>3 DEF SweepAhead
  <2> QED  BY <2>2, <2>3
<1>15. ASSUME NEW t \in TicketIds, Exists(t), tickets[t].agent = a.user,
              SweepAhead(a, t, ClaimSweeps)
       PROVE  SweepAhead(b, t, ClaimSweeps)
  BY <1>1, <1>2, <1>9, <1>14, <1>15, AdminStepTypes
<1>16. ASSUME NEW h \in HandoffIds, IsPending(h),
              a.user \in {handoffs[h].requester, handoffs[h].target},
              SweepAhead(a, handoffs[h].ticket, OfferSweeps)
       PROVE  SweepAhead(b, handoffs[h].ticket, OfferSweeps)
  BY <1>1, <1>2, <1>9, <1>14, <1>16, AdminStepTypes
<1> QED  BY <1>1, <1>2, <1>7, <1>8, <1>10, <1>12, <1>13, <1>15, <1>16, AdminStepRight

LEMMA RemovalElements ==
  ASSUME NEW d \in Departments
  PROVE  /\ RemovalPlan(d) \in Seq(Sweep)
         /\ Elements(RemovalPlan(d)) = {S("deptHandoffs", d), S("deptClaims", d)}
         /\ S("deptHandoffs", d).kind = "deptHandoffs" /\ S("deptHandoffs", d).dept = d
         /\ S("deptClaims", d).kind = "deptClaims" /\ S("deptClaims", d).dept = d
<1>1. S("deptHandoffs", d) \in Sweep /\ S("deptClaims", d) \in Sweep
  BY DEF S, Sweep, SweepKinds
<1> QED  BY <1>1, Plans, ElementsOfPlans DEF RemovalPlan, S

(* One of the departments read is swept.                                   *)
LEMMA SweepDepartmentRight ==
  ASSUME OneAtATime, IndInv, IndInv', SerialInv, NEW s \in Slots, SweepDepartment(s),
         UNCHANGED <<req, hreq, dreq>>
  PROVE  SerialInv'
<1>1. RunningAdmin(s) /\ Idle(s) /\ adm[s].plan = <<>>
      /\ UNCHANGED <<tickets, handoffs, users, members, activeDepts, log>>
  BY DEF SweepDepartment, storeVars, tables
<1>2. PICK a \in AdminTx : a = adm[s] /\ a.plan = <<>> /\ a.depts \subseteq Departments
  BY <1>1, AdminFacts
<1>3. PICK d \in a.depts : adm'[s] = [a EXCEPT !.depts = a.depts \ {d}, !.plan = RemovalPlan(d)]
  BY <1>2 DEF SweepDepartment, IndInv, TypeOK, AdminTypeOK
<1>4. d \in Departments
  BY <1>2
<1>5. PICK b : b = adm'[s]
  OBVIOUS
<1>6. /\ b.op = a.op /\ b.user = a.user /\ b.dept = a.dept /\ b.role = a.role
      /\ b.before = a.before /\ b.sweep = a.sweep /\ b.todo = a.todo /\ b.plan = RemovalPlan(d)
      /\ b.depts = a.depts \ {d} /\ b.act = a.act /\ b.dropAdministration = a.dropAdministration
      /\ b.dropMemberships = a.dropMemberships
  BY <1>3, <1>5 DEF AdminTx
<1>7. RunningAdmin(s)'
  BY <1>1, <1>2, <1>5, <1>6 DEF RunningAdmin
<1>8. b \in AdminTx /\ a.todo = {}
  BY <1>1, <1>2, <1>5, <1>7, AdminStepTypes DEF Idle
<1>9. Elements(a.plan) = {} /\ Elements(b.plan) = {S("deptHandoffs", d), S("deptClaims", d)}
  BY <1>2, <1>4, <1>6, ElementsOfPlans, RemovalElements
<1>10. \A kind \in {"memberships", "administration"} : ~Planned(a, kind) /\ ~Planned(b, kind)
  BY <1>4, <1>9, RemovalElements DEF Planned
<1>11. (LeavesAll(a) => LeavesAll(b)) /\ (DropsFor(a) => DropsFor(b))
  BY <1>6, <1>10 DEF LeavesAll, DropsFor
<1>12. ASSUME NEW t \in TicketIds, NEW kinds \in {ClaimSweeps, OfferSweeps},
              SweepAhead(a, t, kinds)
       PROVE  SweepAhead(b, t, kinds)
  <2>1. /\ tickets[t].dept \in a.depts
        /\ ~(a.dropAdministration /\ tickets[t].dept = Administration)
    BY <1>8, <1>9, <1>10, <1>12 DEF SweepAhead
  <2>2. CASE tickets[t].dept # d
    BY <1>6, <2>1, <2>2 DEF SweepAhead
  <2>3. CASE tickets[t].dept = d
    BY <1>4, <1>9, <1>12, <2>3, RemovalElements DEF SweepAhead, ClaimSweeps, OfferSweeps
  <2> QED  BY <2>2, <2>3
<1>13. \A h \in HandoffIds : IsPending(h) => handoffs[h].ticket \in TicketIds
  BY <1>1, <1>7, AdminStepTypes
<1> QED  BY <1>1, <1>2, <1>5, <1>6, <1>8, <1>11, <1>12, <1>13, AdminStepRight

(* An administrator's membership in Administration is read.                *)
LEMMA ReadAdministrationRight ==
  ASSUME OneAtATime, IndInv, IndInv', SerialInv, NEW s \in Slots, ReadAdministration(s),
         UNCHANGED <<req, hreq, dreq>>
  PROVE  SerialInv'
<1>0. Administration \in Departments
  BY StoreAssumption
<1>1. RunningAdmin(s) /\ Idle(s) /\ adm[s].plan # <<>>
      /\ UNCHANGED <<tickets, handoffs, users, members, activeDepts, log>>
  BY DEF ReadAdministration, storeVars, tables
<1>2. PICK a \in AdminTx : a = adm[s]
  BY <1>1, AdminFacts
<1>3. PICK k \in Sweep, rest \in Seq(Sweep) :
        /\ k = Head(a.plan) /\ rest = Tail(a.plan)
        /\ Elements(a.plan) = {k} \cup Elements(rest)
  BY <1>1, <1>2, ElementsOfTail DEF AdminTx
<1>4. k.kind = "administration"
  BY <1>2, <1>3 DEF ReadAdministration
<1>5. PICK member \in BOOLEAN, p \in Seq(Sweep) :
        /\ member = IsMember(a.user, Administration)
        /\ p = IF member THEN RemovalPlan(Administration) ELSE <<>>
  <2>1. RemovalPlan(Administration) \in Seq(Sweep) /\ <<>> \in Seq(Sweep)
    BY <1>0, RemovalElements
  <2>2. IsMember(a.user, Administration) \in BOOLEAN
    BY DEF IsMember
  <2> QED  BY <2>1, <2>2
<1>6. adm'[s] = [a EXCEPT !.dropAdministration = member, !.plan = p \o rest]
  BY <1>2, <1>3, <1>5 DEF ReadAdministration, IndInv, TypeOK, AdminTypeOK
<1>7. PICK b : b = adm'[s]
  OBVIOUS
<1>8. /\ b.op = a.op /\ b.user = a.user /\ b.dept = a.dept /\ b.role = a.role
      /\ b.before = a.before /\ b.sweep = a.sweep /\ b.todo = a.todo /\ b.plan = p \o rest
      /\ b.depts = a.depts /\ b.act = a.act /\ b.dropAdministration = member
      /\ b.dropMemberships = a.dropMemberships
  BY <1>6, <1>7 DEF AdminTx
<1>9. RunningAdmin(s)'
  BY <1>1, <1>2, <1>7, <1>8 DEF RunningAdmin
<1>10. b \in AdminTx /\ a.todo = {}
  BY <1>1, <1>2, <1>7, <1>9, AdminStepTypes DEF Idle
<1>11. /\ Elements(b.plan) = Elements(p) \cup Elements(rest)
       /\ Elements(p) = IF member
                        THEN {S("deptHandoffs", Administration), S("deptClaims", Administration)}
                        ELSE {}
  <2>1. Elements(b.plan) = Elements(p) \cup Elements(rest)
    BY <1>8, ElementsOfJoin
  <2>2. CASE member
    BY <1>0, <1>5, <2>1, <2>2, RemovalElements
  <2>3. CASE ~member
    BY <1>5, <2>1, <2>3, ElementsOfPlans
  <2> QED  BY <2>2, <2>3
<1>12. /\ Planned(a, "administration")
       /\ Planned(b, "administration") => Planned(a, "administration")
       /\ Planned(b, "memberships") <=> Planned(a, "memberships")
  BY <1>0, <1>3, <1>4, <1>11, RemovalElements DEF Planned
<1>13. LeavesAll(a) => LeavesAll(b)
  BY <1>5, <1>8, <1>12 DEF LeavesAll
<1>14. DropsFor(a) => DropsFor(b)
  BY <1>8, <1>12 DEF DropsFor
<1>15. ASSUME NEW t \in TicketIds, NEW kinds \in {ClaimSweeps, OfferSweeps},
              SweepAhead(a, t, kinds), IsMember(a.user, tickets[t].dept)
       PROVE  SweepAhead(b, t, kinds)
  <2>1. k.kind \notin kinds
    BY <1>4, <1>15 DEF ClaimSweeps, OfferSweeps
  <2>2. CASE tickets[t].dept = Administration
    <3>1. member
      BY <1>5, <1>15, <2>2
    <3>2. /\ S("deptHandoffs", Administration) \in Elements(b.plan)
          /\ S("deptClaims", Administration) \in Elements(b.plan)
      BY <1>11, <3>1
    <3> QED  BY <1>0, <1>15, <2>2, <3>2, RemovalElements DEF SweepAhead, ClaimSweeps, OfferSweeps
  <2>3. CASE tickets[t].dept # Administration
    BY <1>3, <1>8, <1>10, <1>11, <1>12, <1>15, <2>1, <2>3 DEF SweepAhead
  <2> QED  BY <2>2, <2>3
<1>16. ASSUME NEW t \in TicketIds, Exists(t), tickets[t].agent = a.user,
              SweepAhead(a, t, ClaimSweeps)
       PROVE  SweepAhead(b, t, ClaimSweeps)
  BY <1>1, <1>2, <1>9, <1>15, <1>16, AdminStepTypes
<1>17. ASSUME NEW h \in HandoffIds, IsPending(h),
              a.user \in {handoffs[h].requester, handoffs[h].target},
              SweepAhead(a, handoffs[h].ticket, OfferSweeps)
       PROVE  SweepAhead(b, handoffs[h].ticket, OfferSweeps)
  BY <1>1, <1>2, <1>9, <1>15, <1>17, AdminStepTypes
<1> QED  BY <1>1, <1>2, <1>7, <1>8, <1>10, <1>13, <1>14, <1>16, <1>17, AdminStepRight

(* The row of the user is updated: nothing the sweeps depend on.           *)
LEMMA UpdateUserRight ==
  ASSUME OneAtATime, IndInv, IndInv', SerialInv, NEW s \in Slots, UpdateUser(s),
         UNCHANGED <<req, hreq, dreq>>
  PROVE  SerialInv'
<1>1. RunningAdmin(s) /\ UNCHANGED <<tickets, handoffs, users, members, activeDepts, log>>
  BY DEF UpdateUser, storeVars, tables, RunningAdmin, RowOps
<1>2. PICK a \in AdminTx : a = adm[s]
  BY <1>1, AdminFacts
<1>3. adm'[s] = [a EXCEPT !.started = TRUE]
  BY <1>2 DEF UpdateUser, IndInv, TypeOK, AdminTypeOK
<1>4. PICK b : b = adm'[s]
  OBVIOUS
<1>5. /\ b.op = a.op /\ b.user = a.user /\ b.dept = a.dept /\ b.role = a.role
      /\ b.before = a.before /\ b.sweep = a.sweep /\ b.todo = a.todo /\ b.plan = a.plan
      /\ b.depts = a.depts /\ b.act = a.act /\ b.dropAdministration = a.dropAdministration
      /\ b.dropMemberships = a.dropMemberships
  BY <1>3, <1>4 DEF AdminTx
<1>6. RunningAdmin(s)'
  BY <1>1, <1>2, <1>4, <1>5 DEF RunningAdmin
<1>7. b \in AdminTx
  BY <1>1, <1>4, <1>6, AdminStepTypes
<1>8. (LeavesAll(a) => LeavesAll(b)) /\ (DropsFor(a) => DropsFor(b))
  BY <1>5 DEF LeavesAll, DropsFor, Planned
<1>9. \A t \in TicketIds, kinds \in {ClaimSweeps, OfferSweeps} :
        SweepAhead(a, t, kinds) => SweepAhead(b, t, kinds)
  BY <1>5 DEF SweepAhead, Planned
<1>10. \A h \in HandoffIds : IsPending(h) => handoffs[h].ticket \in TicketIds
  BY <1>1, <1>6, AdminStepTypes
<1> QED  BY <1>1, <1>2, <1>4, <1>5, <1>7, <1>8, <1>9, <1>10, AdminStepRight

(* A locked ticket is decided about as its sweep was meant to.             *)
LEMMA LockNextRight ==
  ASSUME OneAtATime, IndInv, IndInv', SerialInv, NEW s \in Slots, LockNext(s),
         UNCHANGED <<req, hreq, dreq>>
  PROVE  SerialInv'
<1>1. RunningAdmin(s) /\ UNCHANGED <<tickets, handoffs, users, members, activeDepts, log>>
  BY DEF LockNext, tables
<1>2. PICK a \in AdminTx : a = adm[s] /\ a.todo \subseteq TicketIds
                           /\ a.act \in [TicketIds -> Acts] /\ a.sweep \in Sweep
  BY <1>1, AdminFacts
<1>3. PICK t \in TicketIds, act \in Acts :
        /\ t \in a.todo /\ act = Decision(s, t)
        /\ adm'[s] = [a EXCEPT !.todo = a.todo \ {t}, !.act[t] = act]
  <2>1. PICK t \in a.todo :
          adm' = [adm EXCEPT ![s].todo = adm[s].todo \ {t}, ![s].act[t] = Decision(s, t)]
    BY <1>2 DEF LockNext
  <2>2. PICK act \in Acts : act = Decision(s, t)
    BY <1>1, <1>2, <2>1, DecisionDeserved
  <2>3. s \in DOMAIN adm
    BY DEF IndInv, TypeOK, AdminTypeOK
  <2>4. adm' = [adm EXCEPT ![s].todo = a.todo \ {t}, ![s].act[t] = act]
    BY <1>2, <2>1, <2>2
  <2>5. adm'[s] = [a EXCEPT !.todo = a.todo \ {t}, !.act[t] = act]
    BY <1>2, <2>3, <2>4
  <2> QED  BY <1>2, <2>1, <2>2, <2>5
<1>4. PICK b : b = adm'[s]
  OBVIOUS
<1>5. /\ b.op = a.op /\ b.user = a.user /\ b.dept = a.dept /\ b.role = a.role
      /\ b.before = a.before /\ b.sweep = a.sweep /\ b.todo = a.todo \ {t} /\ b.plan = a.plan
      /\ b.depts = a.depts /\ b.dropAdministration = a.dropAdministration
      /\ b.dropMemberships = a.dropMemberships
      /\ b.act[t] = act /\ \A x \in TicketIds \ {t} : b.act[x] = a.act[x]
  BY <1>2, <1>3, <1>4 DEF AdminTx
<1>6. RunningAdmin(s)'
  BY <1>1, <1>2, <1>4, <1>5 DEF RunningAdmin
<1>7. b \in AdminTx
  BY <1>1, <1>4, <1>6, AdminStepTypes
<1>8. (LeavesAll(a) => LeavesAll(b)) /\ (DropsFor(a) => DropsFor(b))
  BY <1>5 DEF LeavesAll, DropsFor, Planned
<1>9. ASSUME NEW x \in TicketIds, NEW kinds \in {ClaimSweeps, OfferSweeps},
             SweepAhead(a, x, kinds)
      PROVE  SweepAhead(b, x, kinds) \/ (x = t /\ a.sweep.kind \in kinds)
  BY <1>5, <1>9 DEF SweepAhead, Planned
<1>10. a.act[t] \in {"none", "handoffs", "close", "deactivate"}
  BY <1>2 DEF Acts
<1>11. a.act[t] # "none" \/ a.sweep.kind \in OfferSweeps => act # "none"
  BY <1>2, <1>3, <1>10 DEF Decision, OfferSweeps
<1>12. ASSUME Exists(t), tickets[t].agent = a.user,
              a.act[t] \in {"close", "deactivate"} \/ a.sweep.kind \in ClaimSweeps
       PROVE  act \in {"close", "deactivate"}
  <2>1. tickets[t].active /\ ClaimedBy(tickets[t], a.user)
    BY <1>1, <1>2, <1>6, <1>12, AdminStepTypes
  <2>2. CASE a.sweep.kind = "userTickets"
    BY <1>2, <1>3, <2>1, <2>2 DEF Decision
  <2>3. CASE a.sweep.kind = "deptClaims"
    BY <1>2, <1>3, <2>1, <2>3 DEF Decision
  <2>4. CASE a.sweep.kind \notin ClaimSweeps
    BY <1>2, <1>3, <1>12, <2>4 DEF Decision, ClaimSweeps
  <2> QED  BY <2>2, <2>3, <2>4 DEF ClaimSweeps
<1>13. ASSUME NEW x \in TicketIds, Exists(x), tickets[x].agent = a.user,
              a.act[x] \in {"close", "deactivate"} \/ SweepAhead(a, x, ClaimSweeps)
       PROVE  b.act[x] \in {"close", "deactivate"} \/ SweepAhead(b, x, ClaimSweeps)
  <2>1. CASE x = t
    BY <1>5, <1>9, <1>12, <1>13, <2>1
  <2>2. CASE x # t
    BY <1>5, <1>9, <1>13, <2>2
  <2> QED  BY <2>1, <2>2
<1>14. ASSUME NEW x \in TicketIds, a.act[x] # "none" \/ SweepAhead(a, x, OfferSweeps)
       PROVE  b.act[x] # "none" \/ SweepAhead(b, x, OfferSweeps)
  <2>1. CASE x = t
    BY <1>5, <1>9, <1>11, <1>14, <2>1
  <2>2. CASE x # t
    BY <1>5, <1>9, <1>14, <2>2
  <2> QED  BY <2>1, <2>2
<1>15. \A h \in HandoffIds : IsPending(h) => handoffs[h].ticket \in TicketIds
  BY <1>1, <1>6, AdminStepTypes
<1> QED  BY <1>1, <1>2, <1>4, <1>5, <1>7, <1>8, <1>13, <1>14, <1>15, AdminStepRight

(* The slot is idle again.                                                 *)
LEMMA FinishRight ==
  ASSUME OneAtATime, IndInv, SerialInv, NEW s \in Slots, RunningAdmin(s), Finish(s),
         UNCHANGED <<req, hreq, dreq>>
  PROVE  \A x \in Slots : RequestRight(x)'
<1>1. adm'[s] = NoAdminTx
  BY DEF Finish, IndInv, TypeOK, AdminTypeOK
<1>2. ~Serving(s) /\ ~RunningHandoff(s) /\ ~RunningDepartment(s)
  BY DEF SerialInv, RequestRight, OneKind
<1>3. ~Serving(s)' /\ ~RunningHandoff(s)' /\ ~RunningDepartment(s)' /\ ~RunningAdmin(s)'
  BY <1>1, <1>2 DEF Serving, RunningHandoff, RunningDepartment, RunningAdmin, NoAdminTx
<1>4. RequestRight(s)'
  BY <1>3 DEF RequestRight, OneKind, LifecycleRight, HandoffRight, DepartmentRight, AdminRight
<1> QED  BY <1>4 DEF OneAtATime

(* Who keeps what: the commit takes the eligibility for a department from  *)
(* its user only, and only where GivesUp says so.                          *)
LEMMA EligibleAfter ==
  ASSUME IndInv, NEW s \in Slots, RunningAdmin(s), DropsFor(adm[s]),
         users' = [users EXCEPT ![adm[s].user] = UserAfter(adm[s])],
         members' = MembersAfter(adm[s]),
         NEW v \in Users, NEW d \in Departments, Eligible(v, d),
         v = adm[s].user => ~GivesUp(adm[s], d)
  PROVE  Eligible(v, d)'
<1>1. PICK a \in AdminTx : a = adm[s] /\ a.user \in Users /\ DropsFor(a)
                           /\ (v = a.user => ~GivesUp(a, d))
  BY AdminFacts
<1>2. /\ users \in [Users -> UserRow]
      /\ users[v].active /\ users[v].role \in {"Agent", "Admin"} /\ <<v, d>> \in members
  BY DEF IndInv, TypeOK, StoreTypeOK, Eligible, IsMember
<1>3. /\ users' = [users EXCEPT ![a.user] = UserAfter(a)] /\ members' = MembersAfter(a)
  BY <1>1
<1>4. CASE v # a.user
  <2>1. users'[v] = users[v]
    BY <1>1, <1>2, <1>3, <1>4
  <2>2. <<v, d>> \in members'
    BY <1>2, <1>3, <1>4 DEF MembersAfter
  <2> QED  BY <1>2, <2>1, <2>2 DEF Eligible, IsMember
<1>5. CASE v = a.user
  <2>1. /\ a.op # "deactivate" /\ ~(a.op = "setRole" /\ a.role = "Employee")
        /\ ~(a.op = "setRole" /\ a.before = "Admin" /\ d = Administration)
        /\ ~(a.op = "removeMember" /\ d = a.dept)
    BY <1>1, <1>5 DEF GivesUp
  <2>2. ~a.dropMemberships /\ ~(a.dropAdministration /\ d = Administration)
    BY <1>1, <2>1 DEF DropsFor
  <2>3. <<v, d>> \in members'
    BY <1>2, <1>3, <1>5, <2>1, <2>2 DEF MembersAfter
  <2>4. users'[v] = UserAfter(a) /\ users[v] \in UserRow
    BY <1>1, <1>2, <1>3, <1>5
  <2>5. UserAfter(a).active /\ UserAfter(a).role \in {"Agent", "Admin"}
    <3>1. CASE a.op = "setRole"
      <4>1. a.role \in {"Agent", "Admin"}
        BY <2>1, <3>1 DEF AdminTx, Roles
      <4> QED  BY <1>2, <1>5, <2>4, <3>1, <4>1 DEF UserAfter, UserRow
    <3>2. CASE a.op = "activate"
      BY <1>2, <1>5, <2>4, <3>2 DEF UserAfter, UserRow
    <3>3. CASE a.op \notin {"setRole", "activate"}
      BY <1>2, <1>5, <2>1, <3>3 DEF UserAfter
    <3> QED  BY <3>1, <3>2, <3>3
  <2> QED  BY <2>3, <2>4, <2>5 DEF Eligible, IsMember
<1> QED  BY <1>4, <1>5

(* The users that remain: an administrator among them, and no member who   *)
(* became an employee.                                                     *)
LEMMA RolesAfter ==
  ASSUME IndInv, NEW s \in Slots, RunningAdmin(s), AdminRight(s), TablesRight,
         adm[s].plan = <<>>,
         users' = [users EXCEPT ![adm[s].user] = UserAfter(adm[s])],
         members' = MembersAfter(adm[s])
  PROVE  SomeActiveAdmin' /\ EmployeesHaveNoDepartment'
<1>1. PICK a \in AdminTx : a = adm[s] /\ a.user \in Users /\ a.plan = <<>>
  BY AdminFacts
<1>2. /\ a.before = users[a.user].role
      /\ a.op \in {"setRole", "deactivate"} /\ a.before = "Admin" =>
           ActiveAdminsExcept(a.user) # {}
      /\ a.op = "addMember" => a.before # "Employee"
      /\ a.op = "setRole" /\ a.role = "Employee" => LeavesAll(a)
  BY <1>1 DEF AdminRight
<1>3. /\ users \in [Users -> UserRow] /\ users[a.user] \in UserRow
      /\ users' = [users EXCEPT ![a.user] = UserAfter(a)] /\ members' = MembersAfter(a)
  BY <1>1 DEF IndInv, TypeOK, StoreTypeOK
<1>4. \A v \in Users \ {a.user} : users'[v] = users[v]
  BY <1>1, <1>3
<1>5. users'[a.user] = UserAfter(a)
  BY <1>1, <1>3
<1>6. /\ a.op = "setRole" => /\ UserAfter(a).role = a.role
                             /\ UserAfter(a).active = users[a.user].active
      /\ a.op = "deactivate" => UserAfter(a).role = users[a.user].role
      /\ a.op = "activate" => UserAfter(a).role = users[a.user].role /\ UserAfter(a).active
      /\ a.op \notin {"setRole", "deactivate", "activate"} => UserAfter(a) = users[a.user]
  BY <1>3 DEF UserAfter, UserRow
<1>7. SomeActiveAdmin'
  <2>1. PICK v \in Users : users[v].active /\ users[v].role = "Admin"
    BY DEF TablesRight, SomeActiveAdmin
  <2>2. CASE v # a.user
    BY <1>4, <2>1, <2>2 DEF SomeActiveAdmin
  <2>3. CASE v = a.user /\ a.op \in {"setRole", "deactivate"}
    <3>1. PICK w \in Users \ {a.user} : users[w].active /\ users[w].role = "Admin"
      BY <1>2, <2>1, <2>3 DEF ActiveAdminsExcept
    <3> QED  BY <1>4, <3>1 DEF SomeActiveAdmin
  <2>4. CASE v = a.user /\ a.op \notin {"setRole", "deactivate"}
    <3>1. users'[v].active /\ users'[v].role = "Admin"
      BY <1>5, <1>6, <2>1, <2>4
    <3> QED  BY <3>1 DEF SomeActiveAdmin
  <2> QED  BY <2>2, <2>3, <2>4
<1>8. ASSUME NEW v \in Users, NEW d \in Departments, IsMember(v, d)'
      PROVE  users'[v].role # "Employee"
  <2>1. CASE v # a.user
    <3>1. <<v, d>> \in members
      BY <1>3, <1>8, <2>1 DEF MembersAfter, IsMember
    <3> QED  BY <1>4, <2>1, <3>1 DEF TablesRight, EmployeesHaveNoDepartment, IsMember
  <2>2. CASE v = a.user
    <3>1. \/ <<v, d>> \in members
          \/ a.op = "addMember"
          \/ a.op = "setRole" /\ a.role = "Admin"
          \/ a.op \in {"deactivate", "activate"} /\ a.before = "Admin"
      BY <1>3, <1>8 DEF MembersAfter, IsMember
    <3>2. CASE a.op = "setRole" /\ a.role = "Employee"
      <4>1. ~Planned(a, "memberships")
        BY <1>1, ElementsOfPlans DEF Planned
      <4>2. a.dropMemberships \/ ~IsMember(v, d) \/ (a.dropAdministration /\ d = Administration)
        BY <1>2, <2>2, <3>2, <4>1 DEF LeavesAll
      <4>3. <<v, d>> \notin MembersAfter(a)
        BY <2>2, <3>2, <4>2 DEF MembersAfter, IsMember
      <4> QED  BY <1>3, <1>8, <4>3 DEF IsMember
    <3>3. CASE a.op = "setRole" /\ a.role # "Employee"
      BY <1>5, <1>6, <2>2, <3>3
    <3>4. CASE a.op # "setRole"
      <4>1. users[v].role # "Employee"
        BY <1>2, <2>2, <3>1, <3>4 DEF TablesRight, EmployeesHaveNoDepartment, IsMember
      <4> QED  BY <1>5, <1>6, <2>2, <3>4, <4>1
    <3> QED  BY <3>2, <3>3, <3>4
  <2> QED  BY <2>1, <2>2
<1>9. EmployeesHaveNoDepartment'
  BY <1>8 DEF EmployeesHaveNoDepartment
<1> QED  BY <1>7, <1>9

(* The sweeps have found whatever the user gives up.                       *)
LEMMA CommitAdminRight ==
  ASSUME OneAtATime, IndInv, IndInv', SerialInv, NEW s \in Slots, CommitAdmin(s),
         UNCHANGED <<req, hreq, dreq>>
  PROVE  SerialInv'
<1>1. /\ RunningAdmin(s) /\ Finish(s) /\ Idle(s) /\ adm[s].plan = <<>> /\ adm[s].depts = {}
      /\ tickets' = [t \in TicketIds |->
                       IF adm[s].act[t] \in {"close", "deactivate"}
                       THEN ReconciledRow(tickets[t], adm[s].act[t]) ELSE tickets[t]]
      /\ handoffs' = CancelPendingForTicket(SweptTickets(adm[s]))
      /\ users' = [users EXCEPT ![adm[s].user] = UserAfter(adm[s])]
      /\ members' = MembersAfter(adm[s])
      /\ UNCHANGED <<activeDepts, log>>
  BY DEF CommitAdmin
<1>2. PICK a \in AdminTx : a = adm[s] /\ a.user \in Users /\ a.plan = <<>> /\ a.depts = {}
                           /\ a.todo = {} /\ a.act \in [TicketIds -> Acts]
  BY <1>1, AdminFacts DEF Idle
<1>3. TypeOK /\ TablesRight /\ AdminRight(s) /\ DropsFor(a) /\ ClaimsSwept(a) /\ OffersSwept(a)
  BY <1>1, <1>2 DEF IndInv, SerialInv, RequestRight, AdminRight
<1>4. \A t \in TicketIds, kinds \in {ClaimSweeps, OfferSweeps} : ~SweepAhead(a, t, kinds)
  BY <1>2, ElementsOfPlans DEF SweepAhead, Planned
<1>5. \A v \in Users, d \in Departments :
        Eligible(v, d) /\ (v = a.user => ~GivesUp(a, d)) => Eligible(v, d)'
  BY <1>1, <1>2, <1>3, EligibleAfter
<1>6. ASSUME NEW t \in TicketIds, Exists(t)
      PROVE  /\ tickets'[t].dept = tickets[t].dept /\ tickets'[t].content = tickets[t].content
             /\ tickets'[t].active => tickets[t].active
             /\ a.act[t] \in {"close", "deactivate"} => tickets'[t].agent = NoUser
             /\ a.act[t] \notin {"close", "deactivate"} => tickets'[t].agent = tickets[t].agent
             /\ tickets[t].dept \in Departments /\ tickets[t].agent \in Users \cup {NoUser}
  <2>1. tickets[t] \in TicketRow
    BY <1>3, <1>6, Rows
  <2>2. CASE a.act[t] = "close"
    BY <1>1, <1>2, <2>1, <2>2 DEF ReconciledRow, TicketRow
  <2>3. CASE a.act[t] = "deactivate"
    BY <1>1, <1>2, <2>1, <2>3 DEF ReconciledRow, TicketRow
  <2>4. CASE a.act[t] \notin {"close", "deactivate"}
    BY <1>1, <1>2, <2>1, <2>4 DEF TicketRow
  <2> QED  BY <2>2, <2>3, <2>4
<1>7. \A t \in TicketIds : Exists(t)' <=> Exists(t)
  BY CommitAdminRows
<1>8. AgentsEligible'
  <2> SUFFICES ASSUME NEW t \in TicketIds, Exists(t)', tickets'[t].agent # NoUser
               PROVE  Eligible(tickets[t].agent, tickets[t].dept)'
    BY DEF AgentsEligible
  <2>1. /\ Exists(t) /\ a.act[t] \notin {"close", "deactivate"}
        /\ tickets'[t].agent = tickets[t].agent /\ tickets'[t].dept = tickets[t].dept
        /\ tickets[t].agent \in Users /\ tickets[t].dept \in Departments
    BY <1>6, <1>7
  <2>2. PICK v \in Users, d \in Departments : v = tickets[t].agent /\ d = tickets[t].dept
    BY <2>1
  <2>3. Eligible(v, d)
    BY <1>3, <2>1, <2>2 DEF TablesRight, AgentsEligible
  <2>4. v = a.user => ~GivesUp(a, d)
    BY <1>3, <1>4, <2>1, <2>2 DEF ClaimsSwept
  <2>5. Eligible(v, d)'
    BY <1>5, <2>3, <2>4
  <2> QED  BY <2>1, <2>2, <2>5
<1>9. PartiesEligible'
  <2> SUFFICES ASSUME NEW h \in HandoffIds, IsPending(h)'
               PROVE  /\ Eligible(handoffs[h].requester, tickets[handoffs[h].ticket].dept)'
                      /\ Eligible(handoffs[h].target, tickets[handoffs[h].ticket].dept)'
    BY DEF PartiesEligible
  <2>1. SweptTickets(adm[s]) \in SUBSET TicketIds
    BY DEF SweptTickets
  <2>2. IsPending(h) /\ handoffs'[h] = handoffs[h] /\ handoffs[h].ticket \notin SweptTickets(a)
    BY <1>1, <1>2, <1>3, <2>1, Cancelled DEF IsPending
  <2>3. handoffs[h] \in HandoffRow /\ Exists(handoffs[h].ticket)
    BY <1>3, <2>2, Rows DEF IndInv, RowsKnown
  <2>4. PICK t \in TicketIds, v \in Users, w \in Users :
          t = handoffs[h].ticket /\ v = handoffs[h].requester /\ w = handoffs[h].target
    BY <2>3 DEF HandoffRow
  <2>5. PICK d \in Departments : d = tickets[t].dept /\ d = tickets'[t].dept
    BY <1>6, <2>3, <2>4
  <2>6. a.act[t] = "none"
    BY <2>2, <2>4 DEF SweptTickets
  <2>7. Eligible(v, d) /\ Eligible(w, d)
    BY <1>3, <2>2, <2>4, <2>5 DEF TablesRight, PartiesEligible
  <2>8. a.user \in {v, w} => ~GivesUp(a, d)
    BY <1>3, <1>4, <2>2, <2>4, <2>5, <2>6 DEF OffersSwept
  <2>9. Eligible(v, d)' /\ Eligible(w, d)'
    BY <1>5, <2>7, <2>8
  <2> QED  BY <2>2, <2>4, <2>5, <2>9
<1>10. SomeActiveAdmin' /\ EmployeesHaveNoDepartment'
  BY <1>1, <1>3, RolesAfter
<1>11. ActiveTicketsInActiveDepartments' /\ HistoryReproducesContent'
  BY <1>1, <1>3, <1>6, <1>7
     DEF TablesRight, ActiveTicketsInActiveDepartments, HistoryReproducesContent
<1>12. \A x \in Slots : RequestRight(x)'
  BY <1>1, FinishRight
<1> QED  BY <1>8, <1>9, <1>10, <1>11, <1>12 DEF SerialInv, TablesRight

LEMMA AdminRightKept ==
  ASSUME OneAtATime, IndInv, IndInv', SerialInv, NEW s \in Slots, AdminNext(s)
  PROVE  SerialInv'
<1>1. UNCHANGED <<req, hreq, dreq>>
  BY DEF AdminNext
<1>2. CASE AbortAdmin(s)
  BY <1>1, <1>2, FinishRight, SameTables DEF AbortAdmin, tables
<1> QED  BY <1>1, <1>2, AdminBeginRight, UpdateUserRight, StartSweepRight, ReadMembershipsRight,
            SweepDepartmentRight, ReadAdministrationRight, LockNextRight, CommitAdminRight
         DEF AdminNext, AdminStep

-----------------------------------------------------------------------------
(* The invariant of requests that do not overlap, and what follows from it. *)

LEMMA InitSerialInv ==
  ASSUME InitiallyRight, Init
  PROVE  SerialInv
<1>1. /\ \A t \in TicketIds : tickets[t] = NoTicket
      /\ \A h \in HandoffIds : handoffs[h] = NoHandoff
      /\ users = InitialUsers /\ members = InitialMembers
      /\ \A s \in Slots : /\ req[s] = NoRequest /\ hreq[s] = NoHandoffTx
                          /\ adm[s] = NoAdminTx /\ dreq[s] = NoDepartmentTx
  BY DEF Init, StoreInit, LifecycleInit, HandoffInit, AdminInit, DepartmentInit
<1>2. AgentsEligible /\ ActiveTicketsInActiveDepartments /\ HistoryReproducesContent
  BY <1>1 DEF AgentsEligible, ActiveTicketsInActiveDepartments, HistoryReproducesContent, Exists
<1>3. PartiesEligible
  BY <1>1 DEF PartiesEligible, IsPending, NoHandoff
<1>4. SomeActiveAdmin /\ EmployeesHaveNoDepartment
  BY <1>1 DEF InitiallyRight, SomeActiveAdmin, EmployeesHaveNoDepartment, IsMember
<1>5. \A s \in Slots : RequestRight(s)
  BY <1>1, IdleRight
     DEF Serving, RunningHandoff, RunningAdmin, RunningDepartment, NoRequest, NoHandoffTx,
         NoAdminTx, NoDepartmentTx
<1> QED  BY <1>2, <1>3, <1>4, <1>5 DEF SerialInv, TablesRight

LEMMA NextSerialInv ==
  ASSUME OneAtATime, IndInv, SerialInv, [Next]_vars
  PROVE  SerialInv'
<1>0. IndInv'
  BY NextIndInv
<1>1. ASSUME NEW s \in Slots, LifecycleNext(s)  PROVE SerialInv'
  BY <1>0, <1>1, LifecycleStartRight, LifecycleCommitRight DEF LifecycleNext
<1>2. ASSUME NEW s \in Slots, HandoffNext(s)  PROVE SerialInv'
  BY <1>0, <1>2, HandoffRightKept
<1>3. ASSUME NEW s \in Slots, AdminNext(s)  PROVE SerialInv'
  BY <1>0, <1>3, AdminRightKept
<1>4. ASSUME NEW s \in Slots, DepartmentNext(s)  PROVE SerialInv'
  BY <1>4, DepartmentRightKept
<1>5. CASE WorkerNext
  BY <1>5, WorkerRightKept
<1>6. CASE Crash
  BY <1>6, CrashRightKept
<1>7. CASE UNCHANGED vars
  <2>1. UNCHANGED <<tickets, handoffs, users, members, activeDepts, log, req, hreq, adm, dreq>>
    BY <1>7 DEF vars, storeVars, tables
  <2>2. SameColumns
    BY <2>1 DEF SameColumns, Exists
  <2>3. \A x \in Slots : RequestRight(x)'
    BY <2>1, <2>2, SameRequestRight DEF SerialInv
  <2> QED  BY <2>1, <2>3, SameTables
<1> QED  BY <1>1, <1>2, <1>3, <1>4, <1>5, <1>6, <1>7 DEF Next

LEMMA SerialInvariance ==
  ASSUME OneAtATime, InitiallyRight
  PROVE  Spec => []SerialInv
<1>1. Init => SerialInv
  BY InitSerialInv
<1>2. IndInv /\ SerialInv /\ [Next]_vars => SerialInv'
  BY NextSerialInv
<1> QED  BY <1>1, <1>2, Invariance, PTL DEF Spec

(* While requests do not overlap, the agent of a ticket is an active agent *)
(* or administrator of its department: a lost role, account or membership  *)
(* takes the tickets with it, and a modification moves unclaimed ones only. *)
THEOREM EligibleAgents ==
  ASSUME OneAtATime, InitiallyRight
  PROVE  Spec => []AgentsEligible
<1>1. SerialInv => AgentsEligible
  BY DEF SerialInv, TablesRight
<1> QED  BY <1>1, SerialInvariance, PTL

(* While requests do not overlap, both parties of a pending handoff        *)
(* request are eligible for its ticket.                                    *)
THEOREM EligibleParties ==
  ASSUME OneAtATime, InitiallyRight
  PROVE  Spec => []PartiesEligible
<1>1. SerialInv => PartiesEligible
  BY DEF SerialInv, TablesRight
<1> QED  BY <1>1, SerialInvariance, PTL

(* While requests do not overlap, counting the other administrators before *)
(* the first statement is enough to keep one.                              *)
THEOREM AdministratorRemains ==
  ASSUME OneAtATime, InitiallyRight
  PROVE  Spec => []SomeActiveAdmin
<1>1. SerialInv => SomeActiveAdmin
  BY DEF SerialInv, TablesRight
<1> QED  BY <1>1, SerialInvariance, PTL

(* While requests do not overlap, no employee is left in a department.     *)
THEOREM EmployeesOutside ==
  ASSUME OneAtATime, InitiallyRight
  PROVE  Spec => []EmployeesHaveNoDepartment
<1>1. SerialInv => EmployeesHaveNoDepartment
  BY DEF SerialInv, TablesRight
<1> QED  BY <1>1, SerialInvariance, PTL

(* While requests do not overlap, a department with active tickets stays   *)
(* active.                                                                 *)
THEOREM DepartmentsOfTickets ==
  ASSUME OneAtATime, InitiallyRight
  PROVE  Spec => []ActiveTicketsInActiveDepartments
<1>1. SerialInv => ActiveTicketsInActiveDepartments
  BY DEF SerialInv, TablesRight
<1> QED  BY <1>1, SerialInvariance, PTL

(* While requests do not overlap, the events of a ticket reproduce its     *)
(* content: no save writes an older copy over a newer one.                 *)
THEOREM FaithfulHistory ==
  ASSUME OneAtATime, InitiallyRight
  PROVE  Spec => []HistoryReproducesContent
<1>1. SerialInv => HistoryReproducesContent
  BY DEF SerialInv, TablesRight
<1> QED  BY <1>1, SerialInvariance, PTL

-----------------------------------------------------------------------------
(* TicketQueries: what is shown of the tables in such a state. *)

(* What the queries rest on.                                               *)
LEMMA TicketFacts ==
  ASSUME IndInv, SerialInv, NEW t \in TicketIds, Exists(t)
  PROVE  /\ tickets[t] \in TicketRow /\ RowConsistent(tickets[t])
         /\ tickets[t].dept \in Departments
         /\ tickets[t].active => tickets[t].dept \in activeDepts
         /\ tickets[t].agent # NoUser => /\ Eligible(tickets[t].agent, tickets[t].dept)
                                         /\ tickets[t].active /\ tickets[t].status = "CLAIMED"
<1>1. tickets[t] \in TicketRow /\ RowConsistent(tickets[t])
  BY Rows DEF IndInv, TicketsConsistent
<1> QED  BY <1>1 DEF SerialInv, TablesRight, AgentsEligible, ActiveTicketsInActiveDepartments,
                     RowConsistent, TicketRow

(* A list without a search has no ticket its reader may not open.          *)
LEMMA ListedViewable ==
  ASSUME IndInv, SerialInv
  PROVE  ListedAreViewable
<1> SUFFICES ASSUME NEW u \in Users, NEW t \in TicketIds, Exists(t),
                    NEW scope \in Scopes, NEW f \in Unsearched, t \in FindList(u, scope, f)
             PROVE  AssertCanViewTicket(u, tickets[t])
  BY DEF ListedAreViewable, Known
<1>1. PICK row : row = tickets[t] /\ ListWhere(u, scope, f, row)
  BY DEF FindList
<1>2. /\ row.agent # NoUser => Eligible(row.agent, row.dept) /\ row.active
      /\ row.active => row.dept \in activeDepts
      /\ NoUser \notin Users
  BY <1>1, TicketFacts, StoreAssumption
<1>3. /\ row.active \/ Role(u) = "Admin"
      /\ ScopeWhere(u, scope, f, row)
  BY <1>1 DEF ListWhere, Unsearched
<1>4. \A d : d \in ActorDepartments(u) => Role(u) \in {"Agent", "Admin"}
  <2>1. users[u].role \in Roles /\ activeDepts \subseteq Departments
    BY DEF IndInv, TypeOK, StoreTypeOK, UserRow
  <2> QED  BY <2>1 DEF ActorDepartments, SerialInv, TablesRight, EmployeesHaveNoDepartment, Role, Roles
<1>5. CanView(u, row)
  <2>1. CASE scope = "submitted"
    BY <1>3, <2>1 DEF ScopeWhere, CanView
  <2>2. CASE scope = "claimed"
    <3>1. Eligible(u, row.dept) /\ row.dept \in activeDepts
      BY <1>2, <1>3, <2>2 DEF ScopeWhere
    <3> QED  BY <3>1 DEF Eligible, CanView, Role, ActorDepartments
  <2>3. CASE scope \in {"department", "pool"}
    <3>1. row.dept \in ScopedDepartments(u, f)
      BY <1>3, <2>3 DEF ScopeWhere
    <3>2. row.dept \in ActorDepartments(u)
      BY <3>1 DEF ScopedDepartments
    <3> QED  BY <1>4, <3>2 DEF CanView
  <2>4. CASE scope = "all"
    BY <1>3, <2>4 DEF ScopeWhere
  <2> QED  BY <2>1, <2>2, <2>3, <2>4 DEF Scopes
<1> QED  BY <1>1, <1>3, <1>5 DEF AssertCanViewTicket, CanViewCancelledTicket

(* The six conditions of the mapper and those of the handlers.             *)
LEMMA ActionsAccepted ==
  ASSUME IndInv, SerialInv
  PROVE  OfferedActionsAccepted
<1> SUFFICES ASSUME NEW u \in Users, users[u].active, NEW t \in TicketIds, Exists(t)
             PROVE  LET row == tickets[t] IN
                    /\ CanModify(u, row) <=> ModifyTicketPolicy(row, u, row.dept)
                    /\ CanModify(u, row) <=> CancelTicketPolicy(row, u)
                    /\ CanClaim(u, row)  <=> ClaimTicketPolicy(row, u)
                    /\ CanClose(u, row)  <=> CloseTicketPolicy(row, u)
                    /\ CanReopen(u, row) <=> ReopenTicketPolicy(row, u)
                    /\ CanRequestHandoff(u, row) <=> AssertRequester(row, u)
                    /\ ListEligibleAgents(u, row) = {v \in Users : AssertRequest(row, u, v)}
  BY DEF OfferedActionsAccepted, Known
<1>1. PICK row : row = tickets[t]
  OBVIOUS
<1>2. /\ row.agent # NoUser => Eligible(row.agent, row.dept)
      /\ row.agent # NoUser <=> row.active /\ row.status = "CLAIMED"
      /\ NoUser \notin Users
  BY <1>1, TicketFacts, StoreAssumption DEF RowConsistent
<1>3. row.dept \in ActorDepartments(u) => CanWorkTickets(u)
  <2>1. users[u].role \in Roles /\ activeDepts \subseteq Departments
    BY DEF IndInv, TypeOK, StoreTypeOK, UserRow
  <2> QED  BY <2>1 DEF ActorDepartments, SerialInv, TablesRight, EmployeesHaveNoDepartment, Role,
                       Roles, CanWorkTickets
<1>4. /\ CanModify(u, row) <=> ModifyTicketPolicy(row, u, row.dept)
      /\ CanModify(u, row) <=> CancelTicketPolicy(row, u)
      /\ CanReopen(u, row) <=> ReopenTicketPolicy(row, u)
  BY DEF CanModify, ModifyTicketPolicy, CancelTicketPolicy, CanReopen, ReopenTicketPolicy
<1>5. CanClaim(u, row) <=> ClaimTicketPolicy(row, u)
  BY <1>3 DEF CanClaim, ClaimTicketPolicy, UnclaimedStatus, Unclaimed
<1>6. CanClose(u, row) <=> CloseTicketPolicy(row, u)
  BY <1>2 DEF CanClose, CloseTicketPolicy, CanWorkTickets, Role, Eligible
<1>7. CanRequestHandoff(u, row) <=> AssertRequester(row, u)
  BY DEF CanRequestHandoff, AssertRequester, CanWorkTickets, Role, EligibleUser, IsActiveMember
<1>8. ListEligibleAgents(u, row) = {v \in Users : AssertRequest(row, u, v)}
  BY DEF ListEligibleAgents, AssertRequester, FindEligibleAgents, AssertRequest
<1> QED  BY <1>1, <1>4, <1>5, <1>6, <1>7, <1>8

(* Each number counts the set that its list shows.                         *)
LEMMA Counted ==
  ASSUME IndInv, SerialInv
  PROVE  CountsAgree
<1> DEFINE given(f) == f.status = AnyValue /\ f.dept = AnyValue /\ ~f.inactive
<1>1. PICK all \in Unsearched : all = (CHOOSE f \in Unsearched : given(f)) /\ given(all)
  <2> DEFINE none == [status |-> AnyValue, dept |-> AnyValue, search |-> AnyValue,
                      priority |-> AnyValue, inactive |-> FALSE]
  <2>1. none \in Filters
    <3>1. /\ AnyValue \in TicketStatus \cup {AnyValue}
          /\ AnyValue \in Departments \cup {AnyValue}
          /\ AnyValue \in (SUBSET (Contents \X Users)) \cup {AnyValue}
          /\ AnyValue \in (SUBSET Contents) \cup {AnyValue}
      OBVIOUS
    <3> QED  BY <3>1, Zenon DEF Filters
  <2>2. none \in Unsearched /\ given(none)
    BY <2>1 DEF Unsearched
  <2> QED  BY <2>2
<1>2. /\ all.status = AnyValue /\ all.dept = AnyValue /\ ~all.inactive
      /\ all.search = AnyValue /\ all.priority = AnyValue
  BY <1>1 DEF Unsearched
<1>3. SUFFICES ASSUME NEW u \in Users, users[u].active
      PROVE
        /\ CanWorkTickets(u) =>
             /\ CountPool(u) = Cardinality(FindList(u, "pool", all))
             /\ Cardinality(AssignedTickets(u)) = CountByStatus(AssignedTickets(u), "CLAIMED")
             /\ Cardinality(AssignedTickets(u)) = Cardinality(FindList(u, "claimed", all))
        /\ PendingIncoming(u) = PendingCount(u, "incoming", AnyValue, AnyValue, AnyValue)
        /\ PendingOutgoing(u) = PendingCount(u, "outgoing", "PENDING", AnyValue, AnyValue)
        /\ \A t \in Known :
             CanRequestHandoff(u, tickets[t]) =>
               {h \in ListForTicket(u, t) : IsPending(h)}
                 \subseteq FindHandoffs(u, "outgoing", "PENDING", AnyValue, AnyValue)
        /\ FindParticipants(u) \cup {u} =
             (UNION {{handoffs[h].requester, handoffs[h].target} :
                       h \in FindHandoffs(u, "all", AnyValue, AnyValue, AnyValue)}) \cup {u}
        /\ \A d \in DashboardDepartments(u) :
             UnclaimedIn(d) = Cardinality({t \in PoolTickets(u) : tickets[t].dept = d})
  BY <1>1 DEF CountsAgree
<1>4. /\ NoUser \notin Users /\ AnyValue # "PENDING"
      /\ \A h \in HandoffIds : handoffs[h] \in HandoffRow \cup {NoHandoff}
      /\ \A h \in HandoffIds : IsPending(h) => handoffs[h] # NoHandoff
  BY StoreAssumption, FilterAssumption
     DEF HandoffStatus, IndInv, TypeOK, StoreTypeOK, IsPending, NoHandoff
<1>5. ASSUME CanWorkTickets(u)
      PROVE  /\ CountPool(u) = Cardinality(FindList(u, "pool", all))
             /\ Cardinality(AssignedTickets(u)) = CountByStatus(AssignedTickets(u), "CLAIMED")
             /\ Cardinality(AssignedTickets(u)) = Cardinality(FindList(u, "claimed", all))
  <2>1. ~ListRefused(u, "pool") /\ ~ListRefused(u, "claimed")
    BY <1>5 DEF ListRefused, CanWorkTickets
  <2>2. ASSUME NEW t \in Known
        PROVE  /\ ListWhere(u, "pool", all, tickets[t]) <=>
                    /\ tickets[t].active /\ Unclaimed(tickets[t])
                    /\ tickets[t].dept \in ActorDepartments(u)
               /\ ListWhere(u, "claimed", all, tickets[t]) <=>
                    tickets[t].active /\ tickets[t].agent = u
    <3>1. TicketFilterWhere(all, tickets[t])
      BY <1>2 DEF TicketFilterWhere
    <3>2. ScopedDepartments(u, all) = ActorDepartments(u)
      BY <1>2 DEF ScopedDepartments
    <3> QED  BY <1>2, <3>1, <3>2 DEF ListWhere, ScopeWhere, Unclaimed, UnclaimedStatus
  <2>3. FindList(u, "pool", all) =
          {t \in Known : /\ tickets[t].active /\ Unclaimed(tickets[t])
                         /\ tickets[t].dept \in ActorDepartments(u)}
    BY <2>1, <2>2 DEF FindList
  <2>4. FindList(u, "claimed", all) = AssignedTickets(u)
    BY <2>1, <2>2 DEF FindList, AssignedTickets
  <2>5. {t \in AssignedTickets(u) : tickets[t].status = "CLAIMED"} = AssignedTickets(u)
    BY <1>4, TicketFacts DEF AssignedTickets, Known
  <2> QED  BY <2>3, <2>4, <2>5 DEF CountPool, CountByStatus
<1>6. PendingIncoming(u) = PendingCount(u, "incoming", AnyValue, AnyValue, AnyValue)
  <2>1. {h \in HandoffIds : IsPending(h) /\ handoffs[h].target = u}
          = FindHandoffs(u, "incoming", "PENDING", AnyValue, AnyValue)
    BY <1>4 DEF FindHandoffs, HandoffWhere, IdentityWhere, Sent, IsPending
  <2> QED  BY <2>1 DEF PendingIncoming, PendingCount
<1>7. /\ {h \in HandoffIds : IsPending(h) /\ handoffs[h].requester = u}
           = FindHandoffs(u, "outgoing", "PENDING", AnyValue, AnyValue)
      /\ PendingOutgoing(u) = PendingCount(u, "outgoing", "PENDING", AnyValue, AnyValue)
  <2>1. {h \in HandoffIds : IsPending(h) /\ handoffs[h].requester = u}
          = FindHandoffs(u, "outgoing", "PENDING", AnyValue, AnyValue)
    BY <1>4 DEF FindHandoffs, HandoffWhere, IdentityWhere, Sent, IsPending
  <2> QED  BY <2>1 DEF PendingOutgoing, PendingCount
<1>8. ASSUME NEW t \in Known, CanRequestHandoff(u, tickets[t])
      PROVE  {h \in ListForTicket(u, t) : IsPending(h)}
               \subseteq FindHandoffs(u, "outgoing", "PENDING", AnyValue, AnyValue)
  <2>1. ASSUME NEW h \in ListForTicket(u, t), IsPending(h)
        PROVE  h \in HandoffIds /\ handoffs[h].requester = u
    <3>1. h \in HandoffIds /\ handoffs[h].ticket = t
      BY <2>1 DEF ListForTicket, Sent
    <3>2. tickets[t].agent = handoffs[h].requester
      BY <2>1, <3>1 DEF IndInv, PendingHandoffsLive, HandoffLive
    <3> QED  BY <1>8, <3>1, <3>2 DEF CanRequestHandoff
  <2> QED  BY <1>7, <2>1
<1>9. FindParticipants(u) \cup {u} =
        (UNION {{handoffs[h].requester, handoffs[h].target} :
                  h \in FindHandoffs(u, "all", AnyValue, AnyValue, AnyValue)}) \cup {u}
  <2>1. FindHandoffs(u, "all", AnyValue, AnyValue, AnyValue)
          = {h \in Sent : u \in {handoffs[h].requester, handoffs[h].target}}
    BY DEF FindHandoffs, HandoffWhere, IdentityWhere
  <2>2. \A h \in Sent : handoffs[h].requester \in Users /\ handoffs[h].target \in Users
    BY <1>4 DEF Sent, HandoffRow
  <2> DEFINE shown == UNION {{handoffs[h].requester, handoffs[h].target} :
                               h \in FindHandoffs(u, "all", AnyValue, AnyValue, AnyValue)}
  <2>3. ASSUME NEW v \in FindParticipants(u)  PROVE v \in shown
    <3>1. PICK h \in Sent : {u, v} = {handoffs[h].requester, handoffs[h].target}
      BY <2>3 DEF FindParticipants
    <3>2. /\ u \in {handoffs[h].requester, handoffs[h].target}
          /\ v \in {handoffs[h].requester, handoffs[h].target}
      BY <3>1
    <3> QED  BY <2>1, <3>2
  <2>4. ASSUME NEW v \in shown, v # u  PROVE v \in FindParticipants(u)
    <3>1. PICK h \in Sent : /\ u \in {handoffs[h].requester, handoffs[h].target}
                            /\ v \in {handoffs[h].requester, handoffs[h].target}
      BY <2>1, <2>4
    <3>2. v \in Users /\ {u, v} = {handoffs[h].requester, handoffs[h].target}
      BY <2>2, <2>4, <3>1
    <3> QED  BY <3>1, <3>2 DEF FindParticipants
  <2> HIDE DEF shown
  <2>5. FindParticipants(u) \cup {u} = shown \cup {u}
    BY <2>3, <2>4
  <2> QED  BY <2>5 DEF shown
<1>10. ASSUME NEW d \in DashboardDepartments(u)
       PROVE  UnclaimedIn(d) = Cardinality({t \in PoolTickets(u) : tickets[t].dept = d})
  <2>1. {t \in PoolTickets(u) : tickets[t].dept = d}
          = {t \in Known : /\ tickets[t].active /\ Unclaimed(tickets[t]) /\ tickets[t].dept = d}
    BY <1>10 DEF PoolTickets
  <2> QED  BY <2>1 DEF UnclaimedIn
<1> QED  BY <1>5, <1>6, <1>7, <1>8, <1>9, <1>10

(* The agent and the submitter of a claimed ticket.                        *)
LEMMA PartiesTalk ==
  ASSUME IndInv, SerialInv
  PROVE  PartiesCanTalk
<1> SUFFICES ASSUME NEW t \in TicketIds, Exists(t), tickets[t].active,
                    tickets[t].status = "CLAIMED",
                    NEW u \in {tickets[t].agent, tickets[t].submitter}, users[u].active
             PROVE  GetTicketChatContext(u, tickets[t]) /\ AssertCanSend(u, tickets[t])
  BY DEF PartiesCanTalk, Known
<1>1. PICK row : row = tickets[t]
  OBVIOUS
<1>2. /\ row.agent # NoUser /\ Eligible(row.agent, row.dept) /\ row.dept \in activeDepts
      /\ row.active /\ row.status = "CLAIMED"
  BY <1>1, TicketFacts DEF RowConsistent
<1>3. u = row.agent => row.dept \in ActorDepartments(u) /\ Role(u) \in {"Agent", "Admin"}
  BY <1>2 DEF Eligible, Role, ActorDepartments
<1>4. CanView(u, row)
  BY <1>1, <1>3 DEF CanView
<1> QED  BY <1>1, <1>2, <1>3, <1>4 DEF GetTicketChatContext, AssertCanSend, AssertCanViewChat

(* While requests do not overlap, no list without a search shows a ticket  *)
(* that its reader cannot open.                                            *)
THEOREM ListsStayViewable ==
  ASSUME OneAtATime, InitiallyRight
  PROVE  Spec => []ListedAreViewable
<1>1. IndInv /\ SerialInv => ListedAreViewable
  BY ListedViewable
<1> QED  BY <1>1, Invariance, SerialInvariance, PTL

(* While requests do not overlap, what the responses offer and count is    *)
(* what the handlers accept and the lists hold, and both parties of a      *)
(* claimed ticket can talk.                                                *)
THEOREM ViewsStayTrue ==
  ASSUME OneAtATime, InitiallyRight
  PROVE  Spec => []ViewsAgree
<1>1. IndInv /\ SerialInv => ViewsAgree
  BY ActionsAccepted, Counted, PartiesTalk DEF ViewsAgree
<1> QED  BY <1>1, Invariance, SerialInvariance, PTL
=============================================================================
