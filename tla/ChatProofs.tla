------------------------------ MODULE ChatProofs ------------------------------
(***************************************************************************)
(* Type correctness of ChatMessages and its safety properties, for any     *)
(* number of people, texts, attempts and faults.                           *)
(***************************************************************************)
EXTENDS ChatMessages, TLAPS

(* All attempts of a text carry its identifier. *)
KeysKept ==
  /\ \A r \in posts : r.key = 1
  /\ \A i \in DOMAIN messages : messages[i].key = 1

(* What holds while a transaction has the lock of the ticket's row. *)
LockHeld ==
  \A r \in posts : r.step = "locked" =>
    /\ claimed /\ r.text \notin Stored
    /\ \A q \in posts : q.step = "locked" => q = r

AnswersStored == \A r \in posts : r.step = "stored" => r.text \in Stored

ServerInv == KeysKept /\ LockHeld /\ AnswersStored /\ MessageOnce

-----------------------------------------------------------------------------
ActiveTask(t) == task[t].step # "idle"

Begun(t) == ActiveTask(t) \/ task[t].attempts > 0

Settled(t) == t \in Stored \/ t \in excused

(* A text is being posted as long as one request for it is awaited. *)
PostingAwaited ==
  /\ \A r \in posts : r.awaited =>
       /\ task[r.text].step = "posting"
       /\ \A q \in posts : q.awaited /\ q.text = r.text => q = r
  /\ \A t \in Texts : task[t].step = "posting" =>
       task[t].after = 0 /\ \E r \in posts : r.text = t /\ r.awaited

(* A text waits for one that has not ended, of the same author. *)
ChainsActive ==
  /\ \A t \in Texts : task[t].after # 0 =>
       ActiveTask(t) /\ ActiveTask(task[t].after) /\ Author[task[t].after] = Author[t]
  /\ \A p \in People : tail[p] # 0 => ActiveTask(tail[p]) /\ Author[tail[p]] = p

(* Only what was sent is stored, and what ended is stored or excused. *)
AttemptsCounted ==
  /\ \A r \in posts : task[r.text].attempts > 0
  /\ \A t \in Stored : task[t].attempts > 0
  /\ \A t \in Texts : task[t].step = "waiting" => task[t].attempts < MaxAttempts
  /\ \A t \in Texts : (~ActiveTask(t) /\ task[t].attempts > 0) => Settled(t)

TaskInv == PostingAwaited /\ ChainsActive /\ AttemptsCounted

-----------------------------------------------------------------------------
(* The panel of its author, and no other, shows how a text is being sent;   *)
(* what is shown as stored is stored, and a closed panel shows nothing.    *)
ShownRight(p, t) ==
  LET shown == panel[p].shown[t] IN
    /\ shown \in {"sending", "failed"} => Author[t] = p
    /\ shown = "sending" => ActiveTask(t)
    /\ shown = "failed" => ~ActiveTask(t) /\ t \in excused /\ task[t].attempts > 0
    /\ shown = "stored" => t \in Stored
    /\ shown # "none" => panel[p].open

PanelsRight == \A p \in People, t \in Texts : ShownRight(p, t)

(* What is pushed or loaded is stored. *)
Received(p) == socket[p].pushes \subseteq Stored /\ panel[p].fetch.found \subseteq Stored

ReceivedStored == \A p \in People : Received(p)

ShownInv == PanelsRight /\ ReceivedStored

-----------------------------------------------------------------------------
(* What a panel is told of while its socket is in the room. *)
InStep(p, told) ==
  \A t \in PageOf(1) : panel[p].shown[t] = "stored" \/ t \in socket[p].pushes \/ t \in told

PanelInStep(p) ==
  LET f == panel[p].fetch IN
    /\ panel[p].synced => InStep(p, {})
    /\ f.read /\ f.inRoom /\ f.page = 1 => InStep(p, f.found)
    /\ panel[p].synced \/ f.inRoom => socket[p].room
    /\ ~panel[p].open => ~panel[p].synced /\ ~panel[p].more /\ f.page = 0 /\ ~f.read
    /\ ~socket[p].up => socket[p].joins = 0 /\ ~socket[p].room

PanelsInStep == \A p \in People : PanelInStep(p)

-----------------------------------------------------------------------------
(* Texts are sent in their order, and one is posted when those before it   *)
(* are stored or excused.                                                  *)
Before(u, t) == u < t /\ Author[u] = Author[t]

SentInOrder ==
  /\ \A t, u \in Texts : Before(u, t) /\ Begun(t) => Begun(u)
  /\ \A r \in posts, u \in Texts : Before(u, r.text) => Settled(u)
  /\ \A t \in Stored, u \in Texts : Before(u, t) => Settled(u)

(* rank orders the texts by when they joined a chain of promises: what     *)
(* came later than a text that is under way is behind it in the chain.     *)
Chain(rank) ==
  \A u \in Texts : ActiveTask(u) /\ ~Settled(u) =>
    /\ tail[Author[u]] # 0 /\ rank[u] <= rank[tail[Author[u]]]
    /\ \A t \in Texts \ {u} : ActiveTask(t) /\ Author[t] = Author[u] =>
         /\ u < t => rank[u] <= rank[t]
         /\ rank[u] <= rank[t] =>
              task[t].after # 0 /\ rank[u] <= rank[task[t].after]

ChainOrdered ==
  \E rank \in [Texts -> Nat], next \in Nat :
    (\A t \in Texts : rank[t] < next) /\ Chain(rank)

OrderInv == SentInOrder /\ ChainOrdered /\ OrderKept

ChatInv ==
  ChatTypeOK /\ ServerInv /\ TaskInv /\ ShownInv /\ PanelsInStep /\ OrderInv

-----------------------------------------------------------------------------
(* Types *)

Statuses == [Texts -> DeliveryStatus]

(* What a panel shows is a function on the texts, whatever is merged in.   *)
LEMMA ShownOperators ==
  ASSUME NEW shown \in Statuses, NEW found, NEW t
  PROVE  /\ Merge(shown, found) \in Statuses
         /\ \A u \in Texts : Merge(shown, found)[u] =
                             IF u \in found THEN "stored" ELSE shown[u]
         /\ MarkFailed(shown, t) \in Statuses
         /\ \A u \in Texts : MarkFailed(shown, t)[u] =
                             IF u = t /\ shown[t] = "sending" THEN "failed" ELSE shown[u]
<1> USE DEF Statuses, DeliveryStatus
<1>1. Merge(shown, found) \in Statuses
  <2>1. \A u \in Texts : (IF u \in found THEN "stored" ELSE shown[u]) \in DeliveryStatus
    OBVIOUS
  <2> QED
    BY <2>1 DEF Merge
<1>2. MarkFailed(shown, t) \in Statuses
  <2>1. [shown EXCEPT ![t] = "failed"] \in Statuses
    OBVIOUS
  <2> QED
    BY <2>1 DEF MarkFailed
<1>3. \A u \in Texts : Merge(shown, found)[u] = IF u \in found THEN "stored" ELSE shown[u]
  BY DEF Merge
<1>4. \A u \in Texts : MarkFailed(shown, t)[u] =
                       IF u = t /\ shown[t] = "sending" THEN "failed" ELSE shown[u]
  BY DEF MarkFailed
<1> QED
  BY <1>1, <1>2, <1>3, <1>4

(* What is stored are texts. *)
LEMMA StoredTexts == ASSUME ChatTypeOK PROVE Stored \subseteq Texts
<1>1. \A i \in DOMAIN messages : messages[i] \in Message
  BY DEF ChatTypeOK
<1>2. \A m \in Message : m.text \in Texts
  BY DEF Message
<1> QED
  BY <1>1, <1>2 DEF Stored

(* A page of the history lists stored texts. *)
LEMMA PageStored == ASSUME NEW n PROVE PageOf(n) \subseteq Stored
BY DEF PageOf, Stored

(* A panel that opens shows nothing and has read nothing. *)
LEMMA NewPanelType ==
  ASSUME NEW open \in BOOLEAN, NEW writable \in BOOLEAN
  PROVE  /\ NewPanel(open, writable) \in Panel
         /\ NewPanel(open, writable).open = open
         /\ NewPanel(open, writable).shown = [t \in Texts |-> "none"]
         /\ ~NewPanel(open, writable).synced
         /\ ~NewPanel(open, writable).fetch.read
         /\ ~NewPanel(open, writable).fetch.inRoom
         /\ NewPanel(open, writable).fetch.found = {}
         /\ ~NewPanel(open, writable).more
         /\ ~open => NewPanel(open, writable).fetch.page = 0
<1>1. NoFetch \in Fetch /\ [NoFetch EXCEPT !.page = 1] \in Fetch
  BY DEF NoFetch, Fetch
<1>2. [t \in Texts |-> "none"] \in [Texts -> DeliveryStatus]
  BY DEF DeliveryStatus
<1> QED
  BY <1>1, <1>2 DEF NewPanel, Panel, NoFetch

(* The requests for a page of the history. *)
LEMMA FetchTypes ==
  /\ NoFetch \in Fetch
  /\ \A n \in Nat : [NoFetch EXCEPT !.page = n] \in Fetch
BY DEF NoFetch, Fetch

(* Initially nobody has sent or opened anything. *)
LEMMA InitChat == ChatInit => ChatInv
<1> SUFFICES ASSUME ChatInit PROVE ChatInv
  OBVIOUS
<1> USE ChatAssumption DEF ChatInit
<1>0. Stored = {}
  BY DEF Stored
<1>p. \A p \in People : panel[p] = NewPanel(FALSE, TRUE)
  OBVIOUS
<1>1. ChatTypeOK
  <2>1. panel \in [People -> Panel]
    BY NewPanelType
  <2> QED
    <3>1. socket \in [People -> Socket]
      BY DEF Socket
    <3>2. task \in [Texts -> Task]
      BY DEF Task
    <3>3. messages \in Seq(Message) /\ tail \in [People -> 0 .. NumTexts]
      OBVIOUS
    <3>4. chatFaults \in 0 .. MaxChatFaults
      OBVIOUS
    <3> QED
      BY <2>1, <3>1, <3>2, <3>3, <3>4 DEF ChatTypeOK
<1>2. ServerInv
  BY DEF ServerInv, KeysKept, LockHeld, AnswersStored, MessageOnce
<1>3. TaskInv
  BY <1>0 DEF TaskInv, PostingAwaited, ChainsActive, AttemptsCounted, ActiveTask
<1>4. ShownInv
  <2>1. \A p \in People : /\ panel[p].shown = [t \in Texts |-> "none"]
                          /\ panel[p].fetch.found = {} /\ socket[p].pushes = {}
    <3>1. FALSE \in BOOLEAN /\ TRUE \in BOOLEAN
      OBVIOUS
    <3>2. \A p \in People : socket[p].pushes = {}
      OBVIOUS
    <3> QED
      BY <1>p, <3>1, <3>2, NewPanelType
  <2> HIDE DEF ChatInit
  <2>2. \A p \in People, t \in Texts : panel[p].shown[t] = "none"
    BY <2>1
  <2>3. PanelsRight
    BY <2>2 DEF PanelsRight, ShownRight
  <2>4. ReceivedStored
    BY <2>1 DEF ReceivedStored, Received
  <2> QED
    BY <2>3, <2>4 DEF ShownInv
<1>5. PanelsInStep
  <2> SUFFICES ASSUME NEW p \in People PROVE PanelInStep(p)
    BY DEF PanelsInStep
  <2>1. /\ ~panel[p].synced /\ ~panel[p].more /\ panel[p].fetch.page = 0
        /\ ~panel[p].fetch.read /\ ~panel[p].fetch.inRoom
    BY <1>p, NewPanelType
  <2>2. socket[p].up
    OBVIOUS
  <2> HIDE DEF ChatInit
  <2> QED
    BY <2>1, <2>2 DEF PanelInStep
<1>6. SentInOrder /\ OrderKept
  BY <1>0 DEF SentInOrder, OrderKept, Before, Begun, ActiveTask
<1>7. ChainOrdered
  <2> DEFINE rank == [t \in Texts |-> 0]
  <2>1. Chain(rank)
    BY DEF Chain, ActiveTask
  <2>2. rank \in [Texts -> Nat] /\ \A t \in Texts : rank[t] < 1
    OBVIOUS
  <2> QED
    BY <2>1, <2>2 DEF ChainOrdered
<1> QED
  BY <1>1, <1>2, <1>3, <1>4, <1>5, <1>6, <1>7 DEF ChatInv, OrderInv

-----------------------------------------------------------------------------
(* What the author sends keeps the types.  *)
LEMMA SendsType ==
  ASSUME ChatTypeOK, AttemptsCounted, NEW p \in People, Sends(p)
  PROVE  ChatTypeOK'
<1>0. /\ task \in [Texts -> Task] /\ tail \in [People -> 0 .. NumTexts]
      /\ panel \in [People -> Panel] /\ posts \subseteq Post
      /\ panel[p] \in Panel /\ panel[p].shown \in Statuses
  BY DEF ChatTypeOK, Panel, Statuses
<1>a. ASSUME NEW t \in Texts, Enqueue(p, t)
      PROVE  task' \in [Texts -> Task] /\ tail' \in [People -> 0 .. NumTexts]
  <2>1. [task[t] EXCEPT !.step = "waiting", !.after = tail[p]] \in Task
    BY <1>0 DEF Task
  <2>2. task' = [task EXCEPT ![t] = [task[t] EXCEPT !.step = "waiting", !.after = tail[p]]]
    BY <1>0, <1>a DEF Enqueue, Previous, Task
  <2>3. t \in 0 .. NumTexts
    BY ChatAssumption DEF Texts
  <2> QED
    BY <1>0, <1>a, <2>1, <2>2, <2>3 DEF Enqueue
<1>b. ASSUME NEW shown \in Statuses, panel' = [panel EXCEPT ![p].shown = shown]
      PROVE  panel' \in [People -> Panel]
  <2>1. [panel[p] EXCEPT !.shown = shown] \in Panel
    BY <1>0 DEF Panel, Statuses
  <2> QED
    BY <1>0, <1>b, <2>1
<1>c. ASSUME NEW t \in Texts, NEW status \in DeliveryStatus, Show(p, t, status)
      PROVE  panel' \in [People -> Panel]
  <2>1. [panel[p].shown EXCEPT ![t] = status] \in Statuses
    BY <1>0 DEF Statuses
  <2> QED
    BY <1>b, <1>c, <2>1 DEF Show
<1>d. ASSUME NEW t \in Texts, EndTask(p, t)
      PROVE  task' \in [Texts -> Task] /\ tail' \in [People -> 0 .. NumTexts]
  <2>1. ASSUME NEW u \in Texts
        PROVE  /\ [task[u] EXCEPT !.step = "idle"] \in Task
               /\ [task[u] EXCEPT !.after = 0] \in Task
    <3>1. task[u] \in Task
      BY <1>0
    <3> QED
      BY <3>1, ChatAssumption DEF Task
  <2>2. TasksAfter(t) \in [Texts -> Task]
    BY <1>0, <2>1 DEF TasksAfter
  <2> QED
    BY <1>0, <1>d, <2>2, ChatAssumption DEF EndTask
<1>1. ASSUME NEW t \in Texts, HandleSend(p, t) PROVE ChatTypeOK'
  BY <1>1, <1>a, <1>c DEF HandleSend, chatServer, DeliveryStatus, ChatTypeOK
<1>2. ASSUME NEW t \in Texts, HandleRetry(p, t) PROVE ChatTypeOK'
  BY <1>2, <1>a, <1>c DEF HandleRetry, chatServer, DeliveryStatus, ChatTypeOK
<1>3. ASSUME NEW t \in Texts, SendOptimisticMessage(p, t) PROVE ChatTypeOK'
  <2> DEFINE n == task[t].attempts + 1
  <2>1. n \in Attempts /\ n \in 0 .. MaxAttempts /\ ClientMessageId(t, n) \in Attempts
    BY <1>0, <1>3, ChatAssumption
       DEF SendOptimisticMessage, AttemptsCounted, Attempts, Task, ClientMessageId
  <2>2. posts' \subseteq Post
    <3>1. [text |-> t, attempt |-> n, key |-> ClientMessageId(t, n),
           step |-> "sent", awaited |-> TRUE] \in Post
      BY <2>1 DEF Post
    <3> QED
      BY <1>0, <1>3, <3>1 DEF SendOptimisticMessage
  <2>3. task' \in [Texts -> Task]
    <3>1. [task[t] EXCEPT !.step = "posting", !.attempts = n] \in Task
      BY <1>0, <2>1 DEF Task
    <3>2. task' = [task EXCEPT ![t] = [task[t] EXCEPT !.step = "posting", !.attempts = n]]
      BY <1>0, <1>3 DEF SendOptimisticMessage, Task
    <3> QED
      BY <1>0, <3>1, <3>2
  <2> QED
    BY <1>3, <2>2, <2>3 DEF SendOptimisticMessage, ChatTypeOK
<1>4. ASSUME NEW r \in posts, AnswerArrives(p, r) PROVE ChatTypeOK'
  <2>1. r.text \in Texts
    BY <1>0 DEF Post
  <2> DEFINE old == panel[p].shown
             new == IF old[r.text] = "none" THEN old
                    ELSE IF r.step = "stored" THEN Merge(old, {r.text})
                    ELSE MarkFailed(old, r.text)
  <2>2. new \in Statuses
    BY <1>0, ShownOperators
  <2>3. panel' = [panel EXCEPT ![p].shown = new]
    BY <1>4 DEF AnswerArrives
  <2>4. panel' \in [People -> Panel]
    BY <2>2, <2>3, <1>b
  <2>5. task' \in [Texts -> Task] /\ tail' \in [People -> 0 .. NumTexts]
    BY <1>4, <1>d, <2>1 DEF AnswerArrives
  <2> QED
    BY <1>4, <2>1, <2>4, <2>5 DEF AnswerArrives, ChatTypeOK
<1>5. ASSUME NEW r \in posts, AnswerLost(p, r) PROVE ChatTypeOK'
  <2>1. r.text \in Texts
    BY <1>0 DEF Post
  <2>2. panel' \in [People -> Panel]
    <3>1. MarkFailed(panel[p].shown, r.text) \in Statuses
      BY <1>0, ShownOperators
    <3>2. panel' = [panel EXCEPT ![p].shown = MarkFailed(panel[p].shown, r.text)]
      BY <1>5 DEF AnswerLost
    <3> QED
      BY <1>b, <3>1, <3>2
  <2>3. posts' \subseteq Post
    BY <1>0, <1>5 DEF AnswerLost, Post
  <2>4. task' \in [Texts -> Task] /\ tail' \in [People -> 0 .. NumTexts]
    BY <1>5, <1>d, <2>1 DEF AnswerLost
  <2> QED
    BY <1>5, <2>1, <2>2, <2>3, <2>4, ChatAssumption DEF AnswerLost, ChatFault, ChatTypeOK
<1> QED
  BY <1>1, <1>2, <1>3, <1>4, <1>5 DEF Sends

(* The steps of the chat service keep the types. *)
LEMMA ServesType == ASSUME ChatTypeOK, Serves PROVE ChatTypeOK'
<1> USE ChatAssumption DEF ChatTypeOK
<1>0. PICK r \in posts : BeginCreate(r) \/ CommitCreate(r) \/ FailCreate(r)
  BY DEF Serves
<1>1. ASSUME NEW step \in {"sent", "locked", "stored", "refused"}, Moves(r, step)
      PROVE  posts' \subseteq Post
  BY <1>1 DEF Moves, Post
<1>2. CASE BeginCreate(r)
  BY <1>1, <1>2 DEF BeginCreate
<1>3. CASE CommitCreate(r)
  <2>1. messages' \in Seq(Message)
    BY <1>3 DEF CommitCreate, Message, Post
  <2>2. socket' \in [People -> Socket]
    BY <1>3 DEF CommitCreate, Socket, Post
  <2> QED
    BY <1>1, <1>3, <2>1, <2>2 DEF CommitCreate
<1>4. CASE FailCreate(r)
  BY <1>1, <1>4 DEF FailCreate, ChatFault
<1> QED
  BY <1>0, <1>2, <1>3, <1>4

DownSockets == \A p \in People : ~socket[p].up => socket[p].joins = 0 /\ ~socket[p].room

(* What a socket becomes is a socket.  *)
LEMMA SocketOperators ==
  ASSUME ChatTypeOK, NEW s \in Socket
  PROVE  /\ Leaves(s) \in Socket /\ [s EXCEPT !.up = TRUE] \in Socket
         /\ (s.up => s.joins < MaxJoins) => Joins(s) \in Socket
         /\ s.joins > 0 => [s EXCEPT !.joins = @ - 1, !.room = TRUE] \in Socket
         /\ \A t \in Texts : [s EXCEPT !.pushes = @ \ {t}] \in Socket
<1> USE ChatAssumption DEF Socket
<1>1. Leaves(s) \in Socket /\ [s EXCEPT !.up = TRUE] \in Socket
  BY DEF Leaves
<1>2. ASSUME s.up => s.joins < MaxJoins PROVE Joins(s) \in Socket
  <2>1. (IF s.up THEN s.joins + 1 ELSE s.joins) \in 0 .. MaxJoins
    BY <1>2
  <2> QED
    BY <2>1 DEF Joins
<1>3. ASSUME s.joins > 0 PROVE [s EXCEPT !.joins = @ - 1, !.room = TRUE] \in Socket
  <2>1. s.joins - 1 \in 0 .. MaxJoins
    BY <1>3
  <2> QED
    BY <2>1
<1>4. \A t \in Texts : [s EXCEPT !.pushes = @ \ {t}] \in Socket
  OBVIOUS
<1> QED
  BY <1>1, <1>2, <1>3, <1>4

(* So does the panel, when its socket leaves the room or a page is loaded. *)
LEMMA PanelOperators ==
  ASSUME ChatTypeOK, NEW p \in People
  PROVE  /\ OutOfSync(p) \in Panel /\ OutOfSync(p).shown = panel[p].shown
         /\ OutOfSync(p).open = panel[p].open /\ ~OutOfSync(p).synced
         /\ ~OutOfSync(p).fetch.inRoom
         /\ OutOfSync(p).fetch.found = panel[p].fetch.found
         /\ OutOfSync(p).fetch.page = panel[p].fetch.page
         /\ OutOfSync(p).fetch.read = panel[p].fetch.read
         /\ \A f \in Fetch : [panel[p] EXCEPT !.fetch = f] \in Panel
         /\ \A shown \in Statuses : [panel[p] EXCEPT !.shown = shown] \in Panel
<1>0. panel[p] \in Panel
  BY DEF ChatTypeOK
<1>1. [panel[p].fetch EXCEPT !.inRoom = FALSE] \in Fetch
  BY <1>0 DEF Panel, Fetch
<1>2. OutOfSync(p) = [panel[p] EXCEPT !.synced = FALSE,
                                      !.fetch = [panel[p].fetch EXCEPT !.inRoom = FALSE]]
  BY <1>0 DEF OutOfSync, Panel
<1> QED
  BY <1>0, <1>1, <1>2 DEF Panel, Fetch, Statuses

(* The steps of a socket keep the types. *)
LEMMA ConnectsType ==
  ASSUME ChatTypeOK, DownSockets, NEW p \in People, Connects(p)
  PROVE  ChatTypeOK'
<1>0. /\ socket \in [People -> Socket] /\ socket[p] \in Socket
      /\ panel \in [People -> Panel] /\ panel[p] \in Panel
      /\ panel[p].shown \in Statuses /\ chatFaults \in 0 .. MaxChatFaults
  BY DEF ChatTypeOK, Panel, Statuses
<1>1. ASSUME socket' \in [People -> Socket], panel' \in [People -> Panel],
             chatFaults' \in 0 .. MaxChatFaults, UNCHANGED <<chatServer, task, tail, excused>>
      PROVE  ChatTypeOK'
  BY <1>1 DEF ChatTypeOK, chatServer
<1>2. CASE Disconnect(p)
  <2>1. [up |-> FALSE, room |-> FALSE, joins |-> 0, pushes |-> {}] \in Socket
    BY ChatAssumption DEF Socket
  <2> QED
    BY <1>0, <1>1, <1>2, <2>1, PanelOperators, ChatAssumption DEF Disconnect, ChatFault
<1>3. CASE Connect(p)
  <2> DEFINE s == [socket[p] EXCEPT !.up = TRUE]
  <2>1. s \in Socket /\ Joins(s) \in Socket
    <3>1. s \in Socket /\ s.joins = 0
      BY <1>0, <1>3 DEF Connect, DownSockets, Socket
    <3> QED
      <4>1. s.joins < MaxJoins
        BY <3>1, ChatAssumption
      <4> HIDE DEF s
      <4> QED
        BY <3>1, <4>1, SocketOperators
  <2>2. panel' \in [People -> Panel]
    <3>1. [NoFetch EXCEPT !.page = 1] \in Fetch
      BY FetchTypes
    <3>2. [panel[p] EXCEPT !.fetch = [NoFetch EXCEPT !.page = 1]] \in Panel
      BY <3>1, PanelOperators
    <3> QED
      BY <1>0, <1>3, <3>2 DEF Connect
  <2> QED
    BY <1>0, <1>1, <1>3, <2>1, <2>2 DEF Connect
<1>4. CASE JoinChatRoom(p)
  <2>1. [socket[p] EXCEPT !.joins = @ - 1, !.room = TRUE] \in Socket
    BY <1>0, <1>4, SocketOperators DEF JoinChatRoom
  <2>2. socket' = [socket EXCEPT ![p] = [socket[p] EXCEPT !.joins = @ - 1, !.room = TRUE]]
    BY <1>0, <1>4 DEF JoinChatRoom, Socket
  <2> QED
    BY <1>0, <1>1, <1>4, <2>1, <2>2 DEF JoinChatRoom
<1>5. ASSUME NEW t \in Texts, MessagePushed(p, t) PROVE ChatTypeOK'
  <2>1. [socket[p] EXCEPT !.pushes = @ \ {t}] \in Socket
    BY <1>0, SocketOperators
  <2>2. [panel[p] EXCEPT !.shown = WithPush(p, t)] \in Panel
    BY <1>0, ShownOperators, PanelOperators DEF WithPush
  <2> QED
    BY <1>0, <1>1, <1>5, <2>1, <2>2 DEF MessagePushed
<1> QED
  BY <1>2, <1>3, <1>4, <1>5 DEF Connects

(* The steps of a panel keep the types. *)
LEMMA ShowsType ==
  ASSUME ChatTypeOK, DownSockets, NEW p \in People, Shows(p)
  PROVE  ChatTypeOK'
<1>0. /\ socket \in [People -> Socket] /\ socket[p] \in Socket
      /\ panel \in [People -> Panel] /\ panel[p] \in Panel
      /\ panel[p].shown \in Statuses /\ panel[p].fetch \in Fetch
      /\ tail \in [People -> 0 .. NumTexts] /\ excused \subseteq Texts
      /\ claimed \in BOOLEAN /\ chatFaults \in 0 .. MaxChatFaults
  BY DEF ChatTypeOK, Panel, Statuses
<1>1. ASSUME socket' \in [People -> Socket], panel' \in [People -> Panel],
             tail' \in [People -> 0 .. NumTexts], excused' \subseteq Texts,
             chatFaults' \in 0 .. MaxChatFaults, UNCHANGED <<chatServer, task>>
      PROVE  ChatTypeOK'
  BY <1>1 DEF ChatTypeOK, chatServer
<1>2. CASE OpenPanel(p)
  <2>1. Joins(socket[p]) \in Socket
    BY <1>0, <1>2, SocketOperators DEF OpenPanel, CanJoin
  <2>2. NewPanel(TRUE, claimed) \in Panel
    BY <1>0, NewPanelType
  <2> QED
    BY <1>0, <1>1, <1>2, <2>1, <2>2 DEF OpenPanel
<1>3. CASE ClosePanel(p)
  <2>1. Leaves(socket[p]) \in Socket
    BY <1>0, SocketOperators
  <2>2. NewPanel(FALSE, TRUE) \in Panel
    BY NewPanelType
  <2>3. tail' \in [People -> 0 .. NumTexts] /\ chatFaults' \in 0 .. MaxChatFaults
    BY <1>0, <1>3, ChatAssumption DEF ClosePanel, ChatFault
  <2> QED
    BY <1>0, <1>1, <1>3, <2>1, <2>2, <2>3 DEF ClosePanel
<1>4. CASE StatusShown(p)
  <2>1. Joins(Leaves(socket[p])) \in Socket
    <3>1. /\ Leaves(socket[p]) \in Socket /\ Leaves(socket[p]).up = socket[p].up
          /\ Leaves(socket[p]).joins = socket[p].joins
      BY <1>0 DEF Leaves, Socket
    <3> QED
      BY <1>4, <3>1, SocketOperators DEF StatusShown, CanJoin
  <2>2. [OutOfSync(p) EXCEPT !.writable = claimed] \in Panel
    <3>1. OutOfSync(p) \in Panel
      BY PanelOperators
    <3> QED
      BY <1>0, <3>1 DEF Panel
  <2> QED
    BY <1>0, <1>1, <1>4, <2>1, <2>2 DEF StatusShown
<1>5. CASE ListMessages(p)
  <2> DEFINE n == panel[p].fetch.page
             more == Len(messages) > n * PageSize
             f == [page |-> n, read |-> TRUE, found |-> PageOf(n),
                   more |-> more, inRoom |-> socket[p].room]
  <2>1. f \in Fetch
    <3>1. PageOf(n) \subseteq Texts /\ n \in Nat /\ socket[p].room \in BOOLEAN
      BY <1>0, PageStored, StoredTexts DEF Fetch, Socket
    <3>2. more \in BOOLEAN
      OBVIOUS
    <3> HIDE DEF more, n
    <3> QED
      BY <3>1, <3>2 DEF Fetch
  <2>2. panel' = [panel EXCEPT ![p] = [panel[p] EXCEPT !.fetch = f]]
    BY <1>5 DEF ListMessages
  <2> HIDE DEF f
  <2>3. panel' \in [People -> Panel]
    BY <1>0, <2>1, <2>2, PanelOperators
  <2> QED
    BY <1>0, <1>1, <1>5, <2>3 DEF ListMessages
<1>6. CASE PageArrives(p)
  <2> DEFINE f == panel[p].fetch
             q == panel[p]
             next == [q EXCEPT !.shown = Merge(q.shown, f.found),
                        !.page = IF f.page > q.page THEN f.page ELSE q.page,
                        !.more = IF f.page >= q.page THEN f.more ELSE q.more,
                        !.synced = q.synced \/ (f.page = 1 /\ f.inRoom),
                        !.fetch = NoFetch]
  <2>1. next \in Panel
    <3>1. Merge(q.shown, f.found) \in [Texts -> DeliveryStatus]
      BY <1>0, ShownOperators DEF Statuses
    <3>2. (IF f.page > q.page THEN f.page ELSE q.page) \in Nat \ {0}
      BY <1>0 DEF Panel, Fetch
    <3>3. (IF f.page >= q.page THEN f.more ELSE q.more) \in BOOLEAN
      BY <1>0 DEF Panel, Fetch
    <3>4. (q.synced \/ (f.page = 1 /\ f.inRoom)) \in BOOLEAN
      OBVIOUS
    <3> QED
      BY <1>0, <3>1, <3>2, <3>3, <3>4, FetchTypes DEF Panel
  <2>2. panel' = [panel EXCEPT ![p] = next]
    BY <1>0, <1>6 DEF PageArrives, Panel
  <2>3. UNCHANGED <<chatServer, socket, task, tail, chatFaults, excused>>
    BY <1>6 DEF PageArrives
  <2> HIDE DEF next
  <2>4. panel' \in [People -> Panel]
    BY <1>0, <2>1, <2>2
  <2> QED
    BY <1>0, <1>1, <2>3, <2>4
<1>7. CASE PageFails(p)
  <2>1. panel' \in [People -> Panel]
    BY <1>0, <1>7, FetchTypes, PanelOperators DEF PageFails
  <2> QED
    BY <1>0, <1>1, <1>7, <2>1, ChatAssumption DEF PageFails, ChatFault
<1>8. CASE LoadOlder(p)
  <2>1. [panel[p] EXCEPT !.fetch = [NoFetch EXCEPT !.page = panel[p].page + 1]] \in Panel
    <3>1. panel[p].page + 1 \in Nat
      BY <1>0 DEF Panel
    <3> QED
      BY <3>1, FetchTypes, PanelOperators
  <2>2. panel' = [panel EXCEPT ![p] =
                    [panel[p] EXCEPT !.fetch = [NoFetch EXCEPT !.page = panel[p].page + 1]]]
    BY <1>8 DEF LoadOlder
  <2> QED
    BY <1>0, <1>1, <1>8, <2>1, <2>2 DEF LoadOlder
<1> QED
  BY <1>2, <1>3, <1>4, <1>5, <1>6, <1>7, <1>8 DEF Shows

(* Every step keeps the types. *)
LEMMA ChatTypeStep ==
  ASSUME ChatTypeOK, AttemptsCounted, DownSockets, [ChatNext]_chatVars
  PROVE  ChatTypeOK'
<1>1. CASE TicketChanges
  BY <1>1 DEF TicketChanges, ChatTypeOK
<1>2. CASE UNCHANGED chatVars
  BY <1>2 DEF chatVars, ChatTypeOK
<1> QED
  BY <1>1, <1>2, SendsType, ServesType, ConnectsType, ShowsType DEF ChatNext

-----------------------------------------------------------------------------
(* The service *)

(* A message is appended behind those that are there.  *)
LEMMA StoredAppend ==
  ASSUME ChatTypeOK, NEW m \in Message, messages' = Append(messages, m)
  PROVE  /\ Stored' = Stored \cup {m.text}
         /\ Len(messages') = Len(messages) + 1
         /\ messages'[Len(messages) + 1] = m
         /\ DOMAIN messages = 1 .. Len(messages)
         /\ DOMAIN messages' = 1 .. Len(messages) + 1
         /\ \A i \in DOMAIN messages : messages'[i] = messages[i]
<1>0. messages \in Seq(Message) /\ messages' \in Seq(Message)
  BY DEF ChatTypeOK
<1>1. /\ Len(messages') = Len(messages) + 1 /\ messages'[Len(messages) + 1] = m
      /\ DOMAIN messages = 1 .. Len(messages)
      /\ DOMAIN messages' = 1 .. Len(messages) + 1
      /\ \A i \in DOMAIN messages : messages'[i] = messages[i]
  BY <1>0
<1>2. Len(messages) \in Nat
  BY <1>0
<1>3. \A i \in DOMAIN messages' : i \in DOMAIN messages \/ i = Len(messages) + 1
  BY <1>1, <1>2
<1>4. \A i \in DOMAIN messages : i \in DOMAIN messages'
  BY <1>1, <1>2
<1>5. Len(messages) + 1 \in DOMAIN messages'
  BY <1>1, <1>2
<1>6. Stored' = Stored \cup {m.text}
  BY <1>1, <1>3, <1>4, <1>5 DEF Stored
<1> QED
  BY <1>1, <1>6

(* What the service does to a request. *)
LEMMA MovesPosts ==
  ASSUME ChatTypeOK, NEW r \in posts,
         NEW step \in {"sent", "locked", "stored", "refused"}, Moves(r, step)
  PROVE  \E q \in Post :
           /\ q.text = r.text /\ q.key = r.key /\ q.step = step
           /\ q.awaited = r.awaited /\ q.attempt = r.attempt
           /\ \/ posts' = (posts \ {r}) \cup {q}
              \/ posts' = posts \ {r} /\ ~r.awaited /\ step \in {"stored", "refused"}
<1> DEFINE q == [r EXCEPT !.step = step]
<1>1. /\ q \in Post /\ q.text = r.text /\ q.key = r.key /\ q.step = step
      /\ q.awaited = r.awaited /\ q.attempt = r.attempt
  BY DEF ChatTypeOK, Post
<1>2. \/ posts' = (posts \ {r}) \cup {q}
      \/ posts' = posts \ {r} /\ ~r.awaited /\ step \in {"stored", "refused"}
  BY DEF Moves
<1> HIDE DEF q
<1> QED
  BY <1>1, <1>2

(* What the panel does with its requests: one is new, or one is not        *)
(* awaited any more.                                                       *)
LEMMA SendsPosts ==
  ASSUME ChatTypeOK, AttemptsCounted, NEW p \in People, Sends(p)
  PROVE  /\ UNCHANGED <<claimed, messages>>
         /\ \/ UNCHANGED posts
            \/ \E q \in Post : posts' = posts \cup {q} /\ q.step = "sent" /\ q.key = 1
            \/ \E r \in posts :
                 \/ posts' = posts \ {r}
                 \/ \E q \in Post :
                      /\ posts' = (posts \ {r}) \cup {q} /\ ~q.awaited
                      /\ q.text = r.text /\ q.key = r.key /\ q.step = r.step
<1>1. CASE \E t \in Texts : HandleSend(p, t) \/ HandleRetry(p, t)
  BY <1>1 DEF HandleSend, HandleRetry, chatServer
<1>2. ASSUME NEW t \in Texts, SendOptimisticMessage(p, t)
      PROVE  /\ UNCHANGED <<claimed, messages>>
             /\ \E q \in Post : posts' = posts \cup {q} /\ q.step = "sent" /\ q.key = 1
  <2> DEFINE n == task[t].attempts + 1
             q == [text |-> t, attempt |-> n, key |-> ClientMessageId(t, n),
                   step |-> "sent", awaited |-> TRUE]
  <2>1. posts' = posts \cup {q} /\ UNCHANGED <<claimed, messages>>
    BY <1>2 DEF SendOptimisticMessage
  <2>2. q \in Post /\ q.step = "sent" /\ q.key = 1
    <3>1. posts' \subseteq Post
      BY SendsType DEF ChatTypeOK
    <3> QED
      BY <2>1, <3>1 DEF ClientMessageId
  <2> HIDE DEF q
  <2> QED
    BY <2>1, <2>2
<1>3. ASSUME NEW r \in posts, AnswerArrives(p, r)
      PROVE  UNCHANGED <<claimed, messages>> /\ posts' = posts \ {r}
  BY <1>3 DEF AnswerArrives
<1>4. ASSUME NEW r \in posts, AnswerLost(p, r)
      PROVE  /\ UNCHANGED <<claimed, messages>>
             /\ \/ posts' = posts \ {r}
                \/ \E q \in Post :
                     /\ posts' = (posts \ {r}) \cup {q} /\ ~q.awaited
                     /\ q.text = r.text /\ q.key = r.key /\ q.step = r.step
  <2> DEFINE q == [r EXCEPT !.awaited = FALSE]
  <2>1. /\ q \in Post /\ ~q.awaited
        /\ q.text = r.text /\ q.key = r.key /\ q.step = r.step
    BY DEF ChatTypeOK, Post
  <2>2. /\ UNCHANGED <<claimed, messages>>
        /\ posts' = posts \ {r} \/ posts' = (posts \ {r}) \cup {q}
    BY <1>4 DEF AnswerLost
  <2> HIDE DEF q
  <2> QED
    BY <2>1, <2>2
<1> QED
  BY <1>1, <1>2, <1>3, <1>4 DEF Sends

(* Every step keeps what holds of the stored messages. *)
LEMMA ServerStep ==
  ASSUME ChatTypeOK, AttemptsCounted, ServerInv, [ChatNext]_chatVars
  PROVE  ServerInv'
<1> USE DEF ServerInv
<1>1. ASSUME UNCHANGED chatServer PROVE ServerInv'
  BY <1>1
     DEF chatServer, KeysKept, LockHeld, AnswersStored, MessageOnce, Stored
<1>2. CASE TicketChanges
  BY <1>2 DEF TicketChanges, RowIsFree, KeysKept, LockHeld, AnswersStored, MessageOnce, Stored
<1>3. ASSUME NEW p \in People, Sends(p) PROVE ServerInv'
  <2>1. UNCHANGED <<claimed, messages>> /\ UNCHANGED Stored
    BY <1>3, SendsPosts DEF Stored
  <2>2. MessageOnce'
    BY <2>1 DEF MessageOnce
  <2>3. CASE UNCHANGED posts
    BY <1>1, <2>1, <2>3 DEF chatServer
  <2>4. ASSUME NEW q \in Post, posts' = posts \cup {q}, q.step = "sent", q.key = 1
        PROVE  KeysKept' /\ LockHeld' /\ AnswersStored'
    BY <2>1, <2>4 DEF KeysKept, LockHeld, AnswersStored
  <2>5. ASSUME NEW r \in posts, posts' = posts \ {r}
        PROVE  KeysKept' /\ LockHeld' /\ AnswersStored'
    BY <2>1, <2>5 DEF KeysKept, LockHeld, AnswersStored
  <2>6. ASSUME NEW r \in posts, NEW q \in Post, posts' = (posts \ {r}) \cup {q},
               q.text = r.text, q.key = r.key, q.step = r.step
        PROVE  KeysKept' /\ LockHeld' /\ AnswersStored'
    BY <2>1, <2>6 DEF KeysKept, LockHeld, AnswersStored
  <2> QED
    BY <1>3, <2>2, <2>3, <2>4, <2>5, <2>6, SendsPosts
<1>4. ASSUME NEW r \in posts, BeginCreate(r) \/ FailCreate(r) PROVE ServerInv'
  <2>1. PICK step \in {"locked", "stored", "refused"} :
          /\ Moves(r, step) /\ UNCHANGED <<claimed, messages>>
          /\ step = "locked" => claimed /\ ~Found(r) /\ RowIsFree
          /\ step = "stored" => Found(r)
    BY <1>4 DEF BeginCreate, FailCreate, AssertCanSend
  <2>2. UNCHANGED Stored
    BY <2>1 DEF Stored
  <2>3. PICK q \in Post :
          /\ q.text = r.text /\ q.key = r.key /\ q.step = step
          /\ posts' = (posts \ {r}) \cup {q} \/ posts' = posts \ {r}
    BY <2>1, MovesPosts
  <2>4. Found(r) <=> r.text \in Stored
    BY DEF Found, KeysKept, Stored
  <2>5. KeysKept' /\ MessageOnce'
    BY <2>1, <2>3 DEF KeysKept, MessageOnce
  <2>6. LockHeld'
    BY <2>1, <2>2, <2>3, <2>4 DEF LockHeld, RowIsFree
  <2>7. AnswersStored'
    BY <2>1, <2>2, <2>3, <2>4 DEF AnswersStored
  <2> QED
    BY <2>5, <2>6, <2>7
<1>5. ASSUME NEW r \in posts, CommitCreate(r) PROVE ServerInv'
  <2> DEFINE m == [text |-> r.text, key |-> r.key]
  <2>1. m \in Message /\ m.text = r.text /\ m.key = 1 /\ messages' = Append(messages, m)
    BY <1>5 DEF CommitCreate, ChatTypeOK, Post, Message, KeysKept
  <2> HIDE DEF m
  <2>2. /\ Stored' = Stored \cup {r.text}
        /\ messages'[Len(messages) + 1] = m
        /\ \A i \in DOMAIN messages' : i \in DOMAIN messages \/ i = Len(messages) + 1
        /\ \A i \in DOMAIN messages : messages'[i] = messages[i]
    <3>1. Len(messages) \in Nat
      BY DEF ChatTypeOK
    <3> QED
      BY <2>1, <3>1, StoredAppend
  <2>3. PICK q \in Post :
          /\ q.text = r.text /\ q.key = r.key /\ q.step = "stored"
          /\ posts' = (posts \ {r}) \cup {q} \/ posts' = posts \ {r}
    BY <1>5, MovesPosts DEF CommitCreate
  <2>4. r.step = "locked" /\ r.text \notin Stored /\ UNCHANGED claimed
    BY <1>5 DEF CommitCreate, LockHeld
  <2>5. KeysKept'
    BY <2>1, <2>2, <2>3 DEF KeysKept
  <2>6. LockHeld'
    BY <2>2, <2>3, <2>4 DEF LockHeld
  <2>7. AnswersStored'
    BY <2>2, <2>3 DEF AnswersStored
  <2>8. MessageOnce'
    <3>1. \A i \in DOMAIN messages : messages[i].text # r.text
      BY <2>4 DEF Stored
    <3> QED
      BY <2>1, <2>2, <3>1 DEF MessageOnce
  <2> QED
    BY <2>5, <2>6, <2>7, <2>8
<1>6. ASSUME NEW p \in People, Connects(p) \/ Shows(p) PROVE UNCHANGED chatServer
  BY <1>6
     DEF Connects, Shows, Disconnect, Connect, JoinChatRoom, MessagePushed, OpenPanel,
         ClosePanel, StatusShown, ListMessages, PageArrives, PageFails, LoadOlder
<1> QED
  BY <1>1, <1>2, <1>3, <1>4, <1>5, <1>6 DEF ChatNext, Serves, chatVars, chatServer

-----------------------------------------------------------------------------
(* The chains of promises *)

(* A text joins its chain behind the last one.  *)
LEMMA EnqueueEffect ==
  ASSUME ChatTypeOK, NEW p \in People, NEW t \in Texts, Enqueue(p, t)
  PROVE  /\ task'[t].step = "waiting" /\ task'[t].after = tail[p]
         /\ task'[t].attempts = task[t].attempts
         /\ \A u \in Texts \ {t} : task'[u] = task[u]
         /\ tail'[p] = t /\ \A q \in People \ {p} : tail'[q] = tail[q]
BY DEF ChatTypeOK, Enqueue, Previous, Task

(* A text leaves its chain, and whatever waited for it can start.  *)
LEMMA EndTaskEffect ==
  ASSUME ChatTypeOK, NEW p \in People, NEW t \in Texts, EndTask(p, t)
  PROVE  /\ task'[t].step = "idle" /\ task'[t].after = task[t].after
         /\ \A u \in Texts : task'[u].attempts = task[u].attempts
         /\ \A u \in Texts \ {t} :
              /\ task'[u].step = task[u].step
              /\ task'[u].after = IF task[u].after = t THEN 0 ELSE task[u].after
         /\ tail'[p] = IF tail[p] = t THEN 0 ELSE tail[p]
         /\ \A q \in People \ {p} : tail'[q] = tail[q]
<1>1. task' = TasksAfter(t)
  BY DEF EndTask
<1>2. \A u \in Texts : task[u] \in Task
  BY DEF ChatTypeOK
<1>3. \A u \in Texts : task'[u] =
        IF u = t THEN [task[t] EXCEPT !.step = "idle"]
        ELSE IF task[u].after = t THEN [task[u] EXCEPT !.after = 0] ELSE task[u]
  BY <1>1 DEF TasksAfter
<1>4. \A k \in Task : /\ [k EXCEPT !.step = "idle"].step = "idle"
                      /\ [k EXCEPT !.step = "idle"].after = k.after
                      /\ [k EXCEPT !.step = "idle"].attempts = k.attempts
                      /\ [k EXCEPT !.after = 0].step = k.step
                      /\ [k EXCEPT !.after = 0].after = 0
                      /\ [k EXCEPT !.after = 0].attempts = k.attempts
  BY DEF Task
<1>5. /\ tail'[p] = IF tail[p] = t THEN 0 ELSE tail[p]
      /\ \A q \in People \ {p} : tail'[q] = tail[q]
  BY DEF EndTask, ChatTypeOK
<1>6. task'[t] = [task[t] EXCEPT !.step = "idle"]
  BY <1>3
<1>7. \A u \in Texts \ {t} :
        task'[u] = IF task[u].after = t THEN [task[u] EXCEPT !.after = 0] ELSE task[u]
  BY <1>3
<1>8. task'[t].step = "idle" /\ task'[t].after = task[t].after
      /\ task'[t].attempts = task[t].attempts
  BY <1>2, <1>4, <1>6
<1>9. ASSUME NEW u \in Texts \ {t}
      PROVE  /\ task'[u].attempts = task[u].attempts /\ task'[u].step = task[u].step
             /\ task'[u].after = IF task[u].after = t THEN 0 ELSE task[u].after
  <2>1. task[u] \in Task
    BY <1>2
  <2> QED
    BY <1>4, <1>7, <2>1
<1> QED
  BY <1>5, <1>8, <1>9

(* What is settled stays so.  *)
LEMMA SettledStays ==
  ASSUME ChatTypeOK, ChatTypeOK', AttemptsCounted, [ChatNext]_chatVars
  PROVE  Stored \subseteq Stored' /\ excused \subseteq excused'
<1>1. CASE UNCHANGED <<messages, excused>>
  BY <1>1 DEF Stored
<1>2. CASE \E r \in posts : CommitCreate(r)
  <2>1. PICK r \in posts : CommitCreate(r)
    BY <1>2
  <2>2. [text |-> r.text, key |-> r.key] \in Message
    BY DEF ChatTypeOK, Post, Message
  <2> QED
    BY <2>1, <2>2, StoredAppend DEF CommitCreate
<1>3. ASSUME NEW p \in People, Sends(p) PROVE Stored \subseteq Stored' /\ excused \subseteq excused'
  <2>1. UNCHANGED messages
    BY <1>3, SendsPosts
  <2>2. excused \subseteq excused'
    BY <1>3 DEF Sends, HandleSend, HandleRetry, SendOptimisticMessage, AnswerArrives, AnswerLost
  <2> QED
    BY <2>1, <2>2 DEF Stored
<1>4. ASSUME NEW p \in People, Connects(p) \/ Shows(p)
      PROVE  Stored \subseteq Stored' /\ excused \subseteq excused'
  <2>1. UNCHANGED messages /\ excused \subseteq excused'
    BY <1>4
       DEF Connects, Shows, Disconnect, Connect, JoinChatRoom, MessagePushed, OpenPanel,
           ClosePanel, StatusShown, ListMessages, PageArrives, PageFails, LoadOlder, chatServer
  <2> QED
    BY <2>1 DEF Stored
<1> QED
  BY <1>1, <1>2, <1>3, <1>4
     DEF ChatNext, Serves, chatVars, TicketChanges, BeginCreate, FailCreate

(* Every step keeps what holds of the chain of sends. *)
LEMMA TaskStep ==
  ASSUME ChatTypeOK, ChatTypeOK', ServerInv, TaskInv, PanelsRight, [ChatNext]_chatVars
  PROVE  TaskInv'
<1> USE ChatAssumption DEF TaskInv
<1>0. /\ Stored \subseteq Stored' /\ excused \subseteq excused'
      /\ \A r \in posts : r.text \in Texts
      /\ Stored \subseteq Texts /\ Stored' \subseteq Texts
      /\ \A t \in Texts : task[t] \in Task /\ task'[t] \in Task
  <2>1. Stored \subseteq Stored' /\ excused \subseteq excused'
    BY SettledStays
  <2>2. Stored \subseteq Texts
    BY StoredTexts
  <2>3. Stored' \subseteq Texts
    <3>1. \A i \in DOMAIN messages' : messages'[i] \in Message
      BY DEF ChatTypeOK
    <3> QED
      BY <3>1 DEF Stored, Message
  <2>4. /\ \A r \in posts : r.text \in Texts
        /\ \A t \in Texts : task[t] \in Task /\ task'[t] \in Task
    BY DEF ChatTypeOK, Post
  <2> QED
    BY <2>1, <2>2, <2>3, <2>4
<1>a. AttemptsCounted
  OBVIOUS
<1>b. /\ \A t \in Texts : task[t].after # 0 => task[t].after \in Texts
      /\ \A t \in Texts : task'[t].after # 0 => task'[t].after \in Texts
      /\ \A p \in People : tail[p] # 0 => tail[p] \in Texts
      /\ 0 \notin Texts
  <2>1. \A n \in 0 .. NumTexts : n # 0 => n \in Texts
    BY DEF Texts
  <2>2. \A k \in Task : k.after \in 0 .. NumTexts
    BY DEF Task
  <2>3. \A p \in People : tail[p] \in 0 .. NumTexts
    BY DEF ChatTypeOK
  <2>4. 0 \notin Texts
    BY DEF Texts
  <2> HIDE ChatAssumption
  <2> QED
    BY <1>0, <2>1, <2>2, <2>3, <2>4
<1>1. ASSUME UNCHANGED <<messages, posts, task>>,
             \A p \in People : tail'[p] # 0 => tail'[p] = tail[p]
      PROVE  TaskInv'
  BY <1>0, <1>1
     DEF PostingAwaited, ChainsActive, AttemptsCounted, ActiveTask, Settled, Stored
<1>2. ASSUME NEW p \in People, NEW t \in Texts, Enqueue(p, t), Author[t] = p,
             ~ActiveTask(t), task[t].attempts < MaxAttempts,
             UNCHANGED <<messages, posts, excused>>
      PROVE  TaskInv'
  <2>1. UNCHANGED Stored
    BY <1>2 DEF Stored
  <2>2. PostingAwaited'
    BY <1>0, <1>2, EnqueueEffect DEF PostingAwaited, ActiveTask
  <2>3. ChainsActive'
    <3>1. /\ task'[t].step = "waiting" /\ task'[t].after = tail[p]
          /\ \A u \in Texts \ {t} : task'[u] = task[u]
          /\ tail'[p] = t /\ \A q \in People \ {p} : tail'[q] = tail[q]
      BY <1>2, EnqueueEffect
    <3>2. \A u \in Texts : ActiveTask(u) => ActiveTask(u)'
      BY <3>1 DEF ActiveTask
    <3>3. ASSUME NEW u \in Texts, task'[u].after # 0
          PROVE  /\ ActiveTask(u)' /\ (ActiveTask(task[u].after))'
                 /\ Author[task'[u].after] = Author[u]
      <4>1. CASE u = t
        <5>1. ActiveTask(tail[p]) /\ Author[tail[p]] = p /\ tail[p] \in Texts
          BY <1>b, <3>1, <3>3, <4>1 DEF ChainsActive
        <5>2. ActiveTask(tail[p])' /\ ActiveTask(t)'
          BY <3>1, <3>2, <5>1 DEF ActiveTask
        <5> QED
          BY <1>2, <3>1, <4>1, <5>1, <5>2 DEF ActiveTask
      <4>2. CASE u # t
        <5>1. /\ ActiveTask(u) /\ ActiveTask(task[u].after)
              /\ Author[task[u].after] = Author[u] /\ task[u].after \in Texts
              /\ task'[u].after = task[u].after
          BY <1>b, <3>1, <3>3, <4>2 DEF ChainsActive
        <5> QED
          BY <3>1, <3>2, <4>2, <5>1 DEF ActiveTask
      <4> QED
        BY <4>1, <4>2
    <3>4. ASSUME NEW q \in People, tail'[q] # 0
          PROVE  (ActiveTask(tail[q]))' /\ Author[tail'[q]] = q
      <4>1. CASE q = p
        BY <1>2, <3>1, <4>1 DEF ActiveTask
      <4>2. CASE q # p
        <5>1. ActiveTask(tail[q]) /\ Author[tail[q]] = q /\ tail[q] \in Texts
              /\ tail'[q] = tail[q]
          BY <1>b, <3>1, <3>4, <4>2 DEF ChainsActive
        <5> QED
          BY <3>2, <5>1 DEF ActiveTask
      <4> QED
        BY <4>1, <4>2
    <3> QED
      BY <3>3, <3>4 DEF ChainsActive
  <2>4. AttemptsCounted'
    BY <1>0, <1>2, <2>1, EnqueueEffect DEF AttemptsCounted, ActiveTask, Settled
  <2> QED
    BY <2>2, <2>3, <2>4
<1>3. ASSUME NEW p \in People, NEW r \in posts, EndTask(p, r.text), r.awaited,
             Author[r.text] = p, UNCHANGED messages, r.text \in Stored \cup excused',
             \E lost \in SUBSET Post :
               posts' = (posts \ {r}) \cup lost
                 /\ \A q \in lost : ~q.awaited /\ q.text = r.text
      PROVE  TaskInv'
  <2> DEFINE t == r.text
  <2>1. UNCHANGED Stored
    BY <1>3 DEF Stored
  <2>a. /\ \A q \in posts' : (q \in posts /\ q # r) \/ (~q.awaited /\ q.text = r.text)
        /\ \A q \in posts : q # r => q \in posts'
    <3>1. PICK lost \in SUBSET Post :
            posts' = (posts \ {r}) \cup lost
              /\ \A q \in lost : ~q.awaited /\ q.text = r.text
      BY <1>3
    <3> QED
      BY <3>1
  <2>2. task[t].step = "posting" /\ task[t].after = 0
    BY <1>0, <1>3 DEF PostingAwaited
  <2>3. PostingAwaited'
    BY <1>0, <1>3, <2>2, <2>a, EndTaskEffect DEF PostingAwaited
  <2>4. ChainsActive'
    <3> HIDE DEF t
    <3>1. /\ task'[t].after = 0
          /\ \A u \in Texts \ {t} :
               /\ task'[u].step = task[u].step
               /\ task'[u].after = IF task[u].after = t THEN 0 ELSE task[u].after
          /\ tail'[p] = IF tail[p] = t THEN 0 ELSE tail[p]
          /\ \A q \in People \ {p} : tail'[q] = tail[q]
          /\ t \in Texts /\ Author[t] = p
      BY <1>0, <1>3, <2>2, EndTaskEffect DEF t
    <3>2. \A u \in Texts \ {t} : ActiveTask(u) => ActiveTask(u)'
      BY <3>1 DEF ActiveTask
    <3>3. ASSUME NEW u \in Texts, task'[u].after # 0
          PROVE  /\ ActiveTask(u)' /\ (ActiveTask(task[u].after))'
                 /\ Author[task'[u].after] = Author[u]
      <4>1. u # t /\ task'[u].after = task[u].after /\ task[u].after # t
        BY <3>1, <3>3
      <4>2. /\ ActiveTask(u) /\ ActiveTask(task[u].after)
            /\ Author[task[u].after] = Author[u] /\ task[u].after \in Texts
        BY <1>b, <3>3, <4>1 DEF ChainsActive
      <4> QED
        BY <3>2, <4>1, <4>2 DEF ActiveTask
    <3>4. ASSUME NEW q \in People, tail'[q] # 0
          PROVE  (ActiveTask(tail[q]))' /\ Author[tail'[q]] = q
      <4>1. tail'[q] = tail[q]
        BY <3>1, <3>4
      <4>2. ActiveTask(tail[q]) /\ Author[tail[q]] = q /\ tail[q] \in Texts
        BY <1>b, <3>4, <4>1 DEF ChainsActive
      <4>3. tail[q] # t
        BY <3>1, <3>4, <4>2
      <4> QED
        BY <3>2, <4>1, <4>2, <4>3 DEF ActiveTask
    <3> QED
      BY <3>3, <3>4 DEF ChainsActive
  <2>5. AttemptsCounted'
    BY <1>0, <1>3, <2>1, <2>a, EndTaskEffect DEF AttemptsCounted, ActiveTask, Settled
  <2> QED
    BY <2>3, <2>4, <2>5
<1>4. ASSUME NEW p \in People, Sends(p) PROVE TaskInv'
  <2>1. ASSUME NEW t \in Texts, HandleSend(p, t) PROVE TaskInv'
    BY <1>2, <2>1 DEF HandleSend, ActiveTask, chatServer
  <2>2. ASSUME NEW t \in Texts, HandleRetry(p, t) PROVE TaskInv'
    BY <1>2, <2>2 DEF HandleRetry, PanelsRight, ShownRight, chatServer
  <2>3. ASSUME NEW t \in Texts, SendOptimisticMessage(p, t) PROVE TaskInv'
    <3> DEFINE n == task[t].attempts + 1
               q == [text |-> t, attempt |-> n, key |-> ClientMessageId(t, n),
                     step |-> "sent", awaited |-> TRUE]
    <3>1. /\ task[t].step = "waiting" /\ task[t].after = 0 /\ Author[t] = p
          /\ UNCHANGED <<messages, tail, excused>>
      BY <2>3 DEF SendOptimisticMessage
    <3>2. /\ task'[t].step = "posting" /\ task'[t].after = 0 /\ task'[t].attempts > 0
          /\ \A u \in Texts \ {t} : task'[u] = task[u]
      BY <1>0, <2>3 DEF SendOptimisticMessage, Task, ChatTypeOK
    <3>3. posts' = posts \cup {q} /\ q.text = t /\ q.awaited
      BY <2>3 DEF SendOptimisticMessage
    <3> HIDE DEF q
    <3>4. PostingAwaited'
      BY <1>0, <3>1, <3>2, <3>3 DEF PostingAwaited
    <3>5. ChainsActive'
      <4>1. \A u \in Texts : /\ ActiveTask(u)' <=> ActiveTask(u)
                             /\ task'[u].after = task[u].after
        BY <3>1, <3>2 DEF ActiveTask
      <4>2. ASSUME NEW u \in Texts, task'[u].after # 0
            PROVE  /\ ActiveTask(u)' /\ (ActiveTask(task[u].after))'
                   /\ Author[task'[u].after] = Author[u]
        <5>1. /\ ActiveTask(u) /\ ActiveTask(task[u].after)
              /\ Author[task[u].after] = Author[u] /\ task[u].after \in Texts
              /\ task'[u].after = task[u].after
          BY <1>b, <4>1, <4>2 DEF ChainsActive
        <5> QED
          BY <4>1, <5>1 DEF ActiveTask
      <4>3. ASSUME NEW w \in People, tail'[w] # 0
            PROVE  (ActiveTask(tail[w]))' /\ Author[tail'[w]] = w
        <5>1. /\ ActiveTask(tail[w]) /\ Author[tail[w]] = w /\ tail[w] \in Texts
              /\ tail'[w] = tail[w]
          BY <1>b, <3>1, <4>3 DEF ChainsActive
        <5> QED
          BY <4>1, <5>1 DEF ActiveTask
      <4> QED
        BY <4>2, <4>3 DEF ChainsActive
    <3>6. AttemptsCounted'
      BY <1>0, <3>1, <3>2, <3>3 DEF AttemptsCounted, ActiveTask, Settled, Stored
    <3> QED
      BY <3>4, <3>5, <3>6
  <2>4. ASSUME NEW r \in posts, AnswerArrives(p, r) PROVE TaskInv'
    <3>1. /\ r.awaited /\ EndTask(p, r.text) /\ Author[r.text] = p
          /\ posts' = posts \ {r} /\ UNCHANGED messages
          /\ r.step = "stored" \/ r.text \in excused'
      BY <2>4 DEF AnswerArrives
    <3>2. r.text \in Stored \cup excused'
      BY <3>1 DEF ServerInv, AnswersStored
    <3>3. \E lost \in SUBSET Post :
            posts' = (posts \ {r}) \cup lost
              /\ \A q \in lost : ~q.awaited /\ q.text = r.text
      <4>1. {} \in SUBSET Post /\ posts' = (posts \ {r}) \cup {}
        BY <3>1
      <4> QED
        BY <4>1
    <3> QED
      BY <1>3, <3>1, <3>2, <3>3
  <2>5. ASSUME NEW r \in posts, AnswerLost(p, r) PROVE TaskInv'
    <3> DEFINE q == [r EXCEPT !.awaited = FALSE]
    <3>1. /\ r.awaited /\ EndTask(p, r.text) /\ Author[r.text] = p
          /\ UNCHANGED messages /\ r.text \in excused'
          /\ posts' = posts \ {r} \/ posts' = (posts \ {r}) \cup {q}
      BY <2>5 DEF AnswerLost
    <3>2. q \in Post /\ ~q.awaited /\ q.text = r.text
      BY DEF ChatTypeOK, Post
    <3> HIDE DEF q
    <3>3. \E lost \in SUBSET Post :
            posts' = (posts \ {r}) \cup lost
              /\ \A k \in lost : ~k.awaited /\ k.text = r.text
      <4>1. CASE posts' = posts \ {r}
        <5>1. {} \in SUBSET Post /\ posts' = (posts \ {r}) \cup {}
          BY <4>1
        <5> QED
          BY <5>1
      <4>2. CASE posts' = (posts \ {r}) \cup {q}
        <5>1. {q} \in SUBSET Post
          BY <3>2
        <5> QED
          BY <3>2, <4>2, <5>1
      <4> QED
        BY <3>1, <4>1, <4>2
    <3>4. r.text \in Stored \cup excused'
      BY <3>1
    <3> QED
      BY <1>3, <3>1, <3>3, <3>4
  <2> QED
    BY <1>4, <2>1, <2>2, <2>3, <2>4, <2>5 DEF Sends
<1>5. CASE Serves
  <2>1. PICK r \in posts, step \in {"locked", "stored", "refused"} :
          /\ Moves(r, step) /\ UNCHANGED <<task, tail, excused>>
          /\ \/ UNCHANGED messages
             \/ messages' = Append(messages, [text |-> r.text, key |-> r.key])
    BY <1>5 DEF Serves, BeginCreate, CommitCreate, FailCreate
  <2>2. PICK q \in Post :
          /\ q.text = r.text /\ q.awaited = r.awaited
          /\ \/ posts' = (posts \ {r}) \cup {q}
             \/ posts' = posts \ {r} /\ ~r.awaited
    BY <2>1, MovesPosts
  <2>3. Stored' \subseteq Stored \cup {r.text}
    <3>1. [text |-> r.text, key |-> r.key] \in Message
      BY DEF ChatTypeOK, Post, Message
    <3> QED
      BY <2>1, <3>1, StoredAppend DEF Stored
  <2>4. PostingAwaited'
    BY <1>0, <2>1, <2>2 DEF PostingAwaited
  <2>5. ChainsActive'
    BY <2>1 DEF ChainsActive, ActiveTask
  <2>6. AttemptsCounted'
    BY <1>0, <2>1, <2>2, <2>3 DEF AttemptsCounted, ActiveTask, Settled
  <2> QED
    BY <2>4, <2>5, <2>6
<1>6. ASSUME NEW p \in People, Connects(p) \/ Shows(p) PROVE TaskInv'
  <2>1. UNCHANGED <<messages, posts, task>>
    BY <1>6
       DEF Connects, Shows, Disconnect, Connect, JoinChatRoom, MessagePushed, OpenPanel,
           ClosePanel, StatusShown, ListMessages, PageArrives, PageFails, LoadOlder, chatServer
  <2>2. CASE ClosePanel(p)
    BY <1>1, <2>1, <2>2 DEF ClosePanel, ChatTypeOK
  <2>3. CASE UNCHANGED tail
    BY <1>1, <2>1, <2>3
  <2> QED
    BY <1>6, <2>2, <2>3
       DEF Connects, Shows, Disconnect, Connect, JoinChatRoom, MessagePushed, OpenPanel,
           StatusShown, ListMessages, PageArrives, PageFails, LoadOlder
<1> QED
  BY <1>1, <1>4, <1>5, <1>6 DEF ChatNext, TicketChanges, chatVars

-----------------------------------------------------------------------------
(* What the panels show *)

(* Only what one panel shows changes. *)
LEMMA ShowEffect ==
  ASSUME ChatTypeOK, NEW p \in People, NEW shown, panel' = [panel EXCEPT ![p].shown = shown]
  PROVE  /\ panel'[p].shown = shown /\ panel'[p].open = panel[p].open
         /\ panel'[p].synced = panel[p].synced /\ panel'[p].more = panel[p].more
         /\ panel'[p].fetch = panel[p].fetch
         /\ \A q \in People \ {p} : panel'[q] = panel[q]
<1>1. panel \in [People -> Panel] /\ panel[p] \in Panel
  BY DEF ChatTypeOK
<1>2. panel'[p] = [panel[p] EXCEPT !.shown = shown]
  BY <1>1
<1> QED
  BY <1>1, <1>2 DEF Panel

(* What a panel shows as stored stays so while it is open. *)
StoredKept(p, t) ==
  (panel[p].shown[t] = "stored" /\ panel'[p].open) => panel'[p].shown[t] = "stored"

(* A text that is shown as before, and whose task is as before if it is    *)
(* shown as being sent or failed, is shown as it should be. *)
LEMMA ShownFrame ==
  ASSUME PanelsRight, Stored \subseteq Stored', excused \subseteq excused',
         NEW p \in People, NEW t \in Texts,
         panel'[p].shown[t] = panel[p].shown[t], panel'[p].open = panel[p].open,
         panel[p].shown[t] \in {"sending", "failed"} =>
           /\ ActiveTask(t)' <=> ActiveTask(t)
           /\ task'[t].attempts = task[t].attempts
  PROVE  ShownRight(p, t)' /\ StoredKept(p, t)
<1>1. ShownRight(p, t)
  BY DEF PanelsRight
<1> QED
  BY <1>1 DEF ShownRight, StoredKept

(* Every step keeps what holds of the texts a panel shows. *)
LEMMA ShownStep ==
  ASSUME ChatTypeOK, ChatTypeOK', ServerInv, TaskInv, ShownInv, PanelsInStep,
         [ChatNext]_chatVars
  PROVE  \A p \in People, t \in Texts : ShownRight(p, t)' /\ StoredKept(p, t)
<1> DEFINE Goal == \A p \in People, t \in Texts : ShownRight(p, t)' /\ StoredKept(p, t)
<1>0. /\ Stored \subseteq Stored' /\ excused \subseteq excused' /\ PanelsRight
      /\ \A r \in posts : r.text \in Texts
      /\ \A p \in People : panel[p].shown \in Statuses
  BY SettledStays DEF TaskInv, ShownInv, ChatTypeOK, Post, Panel, Statuses
<1>1. ASSUME UNCHANGED <<panel, task>> PROVE Goal
  BY <1>0, <1>1, ShownFrame DEF ActiveTask
<1>2. ASSUME NEW p \in People, UNCHANGED task,
             panel'[p].open = panel[p].open, panel[p].open,
             \A q \in People \ {p} : panel'[q] = panel[q],
             NEW found, found \subseteq Stored,
             panel'[p].shown = Merge(panel[p].shown, found)
      PROVE  Goal
  <2> SUFFICES ASSUME NEW q \in People, NEW t \in Texts
               PROVE  ShownRight(q, t)' /\ StoredKept(q, t)
    OBVIOUS
  <2>0. Merge(panel[p].shown, found)[t] = IF t \in found THEN "stored" ELSE panel[p].shown[t]
    <3>1. panel[p].shown \in Statuses
      BY <1>0
    <3> QED
      BY <3>1, ShownOperators
  <2>1. CASE q # p \/ t \notin found
    <3>1. panel'[q].shown[t] = panel[q].shown[t] /\ panel'[q].open = panel[q].open
      BY <1>2, <2>0, <2>1
    <3> QED
      BY <1>0, <1>2, <3>1, ShownFrame DEF ActiveTask
  <2>2. CASE q = p /\ t \in found
    <3>1. panel'[q].shown[t] = "stored" /\ panel'[q].open /\ t \in Stored'
      BY <1>0, <1>2, <2>0, <2>2
    <3> QED
      BY <3>1 DEF ShownRight, StoredKept
  <2> QED
    BY <2>1, <2>2
<1>3. ASSUME NEW p \in People, NEW t \in Texts, Author[t] = p, panel[p].open,
             Show(p, t, "sending"), Enqueue(p, t), panel[p].shown[t] # "stored"
      PROVE  Goal
  <2>1. /\ panel'[p].shown = [panel[p].shown EXCEPT ![t] = "sending"]
        /\ panel'[p].open = panel[p].open
        /\ \A q \in People \ {p} : panel'[q] = panel[q]
    <3>1. panel' = [panel EXCEPT ![p].shown = [panel[p].shown EXCEPT ![t] = "sending"]]
      BY <1>3 DEF Show
    <3> QED
      BY <3>1, ShowEffect
  <2>2. ActiveTask(t)' /\ \A u \in Texts \ {t} : task'[u] = task[u]
    BY <1>3, EnqueueEffect DEF ActiveTask
  <2> SUFFICES ASSUME NEW q \in People, NEW u \in Texts
               PROVE  ShownRight(q, u)' /\ StoredKept(q, u)
    OBVIOUS
  <2>3. CASE q = p /\ u = t
    <3>1. panel'[q].shown[u] = "sending"
      BY <1>0, <2>1, <2>3 DEF Statuses
    <3> QED
      BY <1>3, <2>1, <2>2, <2>3, <3>1 DEF ShownRight, StoredKept
  <2>4. CASE q # p /\ u = t
    <3>1. panel[q].shown[u] \notin {"sending", "failed"}
      BY <1>0, <1>3, <2>4 DEF PanelsRight, ShownRight
    <3> QED
      BY <1>0, <2>1, <2>4, <3>1, ShownFrame
  <2>5. CASE u # t
    <3>1. panel'[q].shown[u] = panel[q].shown[u] /\ panel'[q].open = panel[q].open
      BY <1>0, <2>1, <2>5 DEF Statuses
    <3>2. task'[u] = task[u]
      BY <2>2, <2>5
    <3> QED
      BY <1>0, <3>1, <3>2, ShownFrame DEF ActiveTask
  <2> QED
    BY <2>3, <2>4, <2>5
<1>4. ASSUME NEW p \in People, NEW r \in posts, r.awaited, Author[r.text] = p,
             EndTask(p, r.text), NEW shown \in Statuses,
             panel' = [panel EXCEPT ![p].shown = shown],
             \A u \in Texts \ {r.text} : shown[u] = panel[p].shown[u],
             \/ shown[r.text] = panel[p].shown[r.text] /\ shown[r.text] # "sending"
             \/ shown[r.text] = "stored" /\ r.text \in Stored /\ panel[p].open
             \/ /\ shown[r.text] = "failed" /\ r.text \in excused'
                /\ panel[p].shown[r.text] = "sending"
      PROVE  Goal
  <2> DEFINE t == r.text
  <2>1. t \in Texts /\ ActiveTask(t) /\ task[t].attempts > 0
    BY <1>0, <1>4 DEF TaskInv, PostingAwaited, AttemptsCounted, ActiveTask
  <2>2. /\ ~ActiveTask(t)' /\ task'[t].attempts > 0
        /\ \A u \in Texts \ {t} : /\ ActiveTask(u)' <=> ActiveTask(u)
                                  /\ task'[u].attempts = task[u].attempts
    BY <1>4, <2>1, EndTaskEffect DEF ActiveTask
  <2>3. /\ panel'[p].shown = shown /\ panel'[p].open = panel[p].open
        /\ \A q \in People \ {p} : panel'[q] = panel[q]
    BY <1>4, ShowEffect
  <2> SUFFICES ASSUME NEW q \in People, NEW u \in Texts
               PROVE  ShownRight(q, u)' /\ StoredKept(q, u)
    OBVIOUS
  <2>4. CASE u # t
    <3>1. panel'[q].shown[u] = panel[q].shown[u] /\ panel'[q].open = panel[q].open
      BY <1>4, <2>3, <2>4
    <3> QED
      BY <1>0, <2>2, <2>4, <3>1, ShownFrame
  <2>5. CASE u = t /\ q # p
    <3>1. panel[q].shown[u] \notin {"sending", "failed"}
      BY <1>0, <1>4, <2>5 DEF PanelsRight, ShownRight
    <3> QED
      BY <1>0, <2>3, <2>5, <3>1, ShownFrame
  <2>6. CASE u = t /\ q = p
    <3>0. ShownRight(p, t)
      BY <1>0, <2>1 DEF PanelsRight
    <3>1. CASE shown[t] = panel[p].shown[t] /\ shown[t] # "sending"
      <4>1. shown[t] # "failed"
        BY <2>1, <3>0, <3>1 DEF ShownRight
      <4> QED
        BY <1>0, <2>3, <2>6, <3>1, <4>1, ShownFrame
    <3>2. CASE shown[t] = "stored" /\ t \in Stored /\ panel[p].open
      BY <1>0, <2>3, <2>6, <3>2 DEF ShownRight, StoredKept
    <3>3. CASE shown[t] = "failed" /\ t \in excused' /\ panel[p].shown[t] = "sending"
      BY <1>4, <2>2, <2>3, <2>6, <3>0, <3>3 DEF ShownRight, StoredKept
    <3> QED
      BY <1>4, <3>1, <3>2, <3>3
  <2> QED
    BY <2>4, <2>5, <2>6
<1>5. ASSUME NEW p \in People, Sends(p) PROVE Goal
  <2>1. ASSUME NEW t \in Texts, HandleSend(p, t) PROVE Goal
    <3>1. panel[p].shown[t] # "stored"
      BY <1>0, <2>1 DEF HandleSend, PanelsRight, ShownRight, TaskInv, AttemptsCounted
    <3> QED
      BY <1>3, <2>1, <3>1 DEF HandleSend
  <2>2. ASSUME NEW t \in Texts, HandleRetry(p, t) PROVE Goal
    BY <1>0, <1>3, <2>2 DEF HandleRetry, PanelsRight, ShownRight
  <2>3. ASSUME NEW t \in Texts, SendOptimisticMessage(p, t) PROVE Goal
    <3>1. /\ ActiveTask(t) /\ ActiveTask(t)' /\ UNCHANGED panel
          /\ \A u \in Texts \ {t} : task'[u] = task[u]
      BY <2>3 DEF SendOptimisticMessage, ActiveTask, ChatTypeOK, Task
    <3> SUFFICES ASSUME NEW q \in People, NEW u \in Texts
                 PROVE  ShownRight(q, u)' /\ StoredKept(q, u)
      OBVIOUS
    <3>2. CASE u # t
      BY <1>0, <3>1, <3>2, ShownFrame DEF ActiveTask
    <3>3. CASE u = t
      <4>1. ShownRight(q, t)
        BY <1>0 DEF PanelsRight
      <4> QED
        BY <1>0, <3>1, <3>3, <4>1 DEF ShownRight, StoredKept
    <3> QED
      BY <3>2, <3>3
  <2>4. ASSUME NEW r \in posts, AnswerArrives(p, r) PROVE Goal
    <3> DEFINE old == panel[p].shown
               new == IF old[r.text] = "none" THEN old
                      ELSE IF r.step = "stored" THEN Merge(old, {r.text})
                      ELSE MarkFailed(old, r.text)
    <3>1. /\ r.awaited /\ Author[r.text] = p /\ EndTask(p, r.text)
          /\ panel' = [panel EXCEPT ![p].shown = new]
          /\ r.step = "stored" \/ r.text \in excused'
      BY <2>4 DEF AnswerArrives
    <3>2. new \in Statuses /\ \A u \in Texts \ {r.text} : new[u] = old[u]
      BY <1>0, ShownOperators
    <3>3. r.text \in Texts /\ (r.step = "stored" => r.text \in Stored)
      BY <1>0 DEF ServerInv, AnswersStored
    <3>4. old[r.text] # "none" => panel[p].open
      BY <1>0, <3>3 DEF PanelsRight, ShownRight
    <3>5. \/ new[r.text] = old[r.text] /\ new[r.text] # "sending"
          \/ new[r.text] = "stored" /\ r.text \in Stored /\ panel[p].open
          \/ new[r.text] = "failed" /\ r.text \in excused' /\ old[r.text] = "sending"
      <4>0. /\ Merge(old, {r.text})[r.text] = "stored"
            /\ MarkFailed(old, r.text)[r.text] =
                 IF old[r.text] = "sending" THEN "failed" ELSE old[r.text]
        <5>1. old \in Statuses /\ r.text \in {r.text} /\ r.text \in Texts
          BY <1>0
        <5> HIDE DEF old
        <5>2. \A u \in Texts : Merge(old, {r.text})[u] =
                               IF u \in {r.text} THEN "stored" ELSE old[u]
          BY <5>1, ShownOperators
        <5>3. \A u \in Texts : MarkFailed(old, r.text)[u] =
                 IF u = r.text /\ old[r.text] = "sending" THEN "failed" ELSE old[u]
          BY <5>1, ShownOperators
        <5> QED
          BY <5>1, <5>2, <5>3
      <4>1. CASE old[r.text] = "none"
        BY <4>1
      <4>2. CASE old[r.text] # "none" /\ r.step = "stored"
        BY <3>3, <3>4, <4>0, <4>2
      <4>3. CASE old[r.text] # "none" /\ r.step # "stored"
        <5>1. new[r.text] = IF old[r.text] = "sending" THEN "failed" ELSE old[r.text]
          BY <4>0, <4>3
        <5> QED
          BY <3>1, <4>3, <5>1
      <4> QED
        BY <4>1, <4>2, <4>3
    <3> HIDE DEF new
    <3> QED
      BY <1>4, <3>1, <3>2, <3>5
  <2>5. ASSUME NEW r \in posts, AnswerLost(p, r) PROVE Goal
    <3> DEFINE old == panel[p].shown
               new == MarkFailed(old, r.text)
    <3>1. /\ r.awaited /\ Author[r.text] = p /\ EndTask(p, r.text)
          /\ panel' = [panel EXCEPT ![p].shown = new]
          /\ r.text \in excused'
      BY <2>5 DEF AnswerLost
    <3>2. r.text \in Texts /\ new \in Statuses
          /\ \A u \in Texts \ {r.text} : new[u] = old[u]
      BY <1>0, ShownOperators
    <3>3. new[r.text] = IF old[r.text] = "sending" THEN "failed" ELSE old[r.text]
      BY <1>0, <3>2, ShownOperators
    <3> HIDE DEF new
    <3> QED
      BY <1>4, <3>1, <3>2, <3>3
  <2> QED
    BY <1>5, <2>1, <2>2, <2>3, <2>4, <2>5 DEF Sends
<1>6. CASE Serves
  BY <1>1, <1>6 DEF Serves, BeginCreate, CommitCreate, FailCreate
<1>7. ASSUME NEW p \in People, Connects(p) PROVE Goal
  <2>1. ASSUME Disconnect(p) \/ Connect(p) \/ JoinChatRoom(p) PROVE Goal
    <3>1. /\ UNCHANGED task
          /\ \A q \in People : /\ panel'[q].shown = panel[q].shown
                               /\ panel'[q].open = panel[q].open
      <4>0. panel \in [People -> Panel] /\ panel[p] \in Panel
        BY DEF ChatTypeOK
      <4>1. CASE Disconnect(p)
        BY <4>0, <4>1, PanelOperators DEF Disconnect
      <4>2. CASE Connect(p)
        BY <4>0, <4>2 DEF Connect, Panel
      <4>3. CASE JoinChatRoom(p)
        BY <4>3 DEF JoinChatRoom
      <4> QED
        BY <2>1, <4>1, <4>2, <4>3
    <3> QED
      BY <1>0, <3>1, ShownFrame DEF ActiveTask
  <2>2. ASSUME NEW t \in Texts, MessagePushed(p, t) PROVE Goal
    <3>1. CASE ~panel[p].open
      BY <1>1, <2>2, <3>1 DEF MessagePushed
    <3>2. CASE panel[p].open
      <4>1. /\ panel' = [panel EXCEPT ![p].shown = Merge(panel[p].shown, {t})]
            /\ UNCHANGED task /\ {t} \subseteq Stored
        BY <2>2, <3>2 DEF MessagePushed, WithPush, ShownInv, ReceivedStored, Received
      <4>2. /\ panel'[p].shown = Merge(panel[p].shown, {t})
            /\ panel'[p].open = panel[p].open
            /\ \A q \in People \ {p} : panel'[q] = panel[q]
        BY <4>1, ShowEffect
      <4> QED
        BY <1>2, <3>2, <4>1, <4>2
    <3> QED
      BY <3>1, <3>2
  <2> QED
    BY <1>7, <2>1, <2>2 DEF Connects
<1>8. ASSUME NEW p \in People, Shows(p) PROVE Goal
  <2>0. panel \in [People -> Panel] /\ panel[p] \in Panel
    BY DEF ChatTypeOK
  <2>1. ASSUME OpenPanel(p) \/ ClosePanel(p) PROVE Goal
    <3>1. /\ panel'[p].shown = [t \in Texts |-> "none"]
          /\ panel[p].open => ~panel'[p].open
          /\ UNCHANGED task
          /\ \A q \in People \ {p} : panel'[q] = panel[q]
      <4>1. claimed \in BOOLEAN
        BY DEF ChatTypeOK
      <4> QED
        BY <2>0, <2>1, <4>1, NewPanelType DEF OpenPanel, ClosePanel
    <3> SUFFICES ASSUME NEW q \in People, NEW t \in Texts
                 PROVE  ShownRight(q, t)' /\ StoredKept(q, t)
      OBVIOUS
    <3>2. CASE q # p
      BY <1>0, <3>1, <3>2, ShownFrame DEF ActiveTask
    <3>3. CASE q = p
      <4>1. panel'[q].shown[t] = "none"
        BY <3>1, <3>3
      <4>2. panel[q].shown[t] = "stored" => panel[q].open
        BY <1>0 DEF PanelsRight, ShownRight
      <4> QED
        BY <3>1, <3>3, <4>1, <4>2 DEF ShownRight, StoredKept
    <3> QED
      BY <3>2, <3>3
  <2>2. ASSUME StatusShown(p) \/ ListMessages(p) \/ PageFails(p) \/ LoadOlder(p) PROVE Goal
    <3>1. /\ UNCHANGED task
          /\ \A q \in People : /\ panel'[q].shown = panel[q].shown
                               /\ panel'[q].open = panel[q].open
      <4>1. CASE StatusShown(p)
        <5>1. /\ OutOfSync(p) \in Panel /\ OutOfSync(p).shown = panel[p].shown
              /\ OutOfSync(p).open = panel[p].open
          BY PanelOperators
        <5> QED
          BY <2>0, <4>1, <5>1 DEF StatusShown, Panel
      <4>2. CASE ListMessages(p)
        BY <2>0, <4>2 DEF ListMessages, Panel
      <4>3. CASE PageFails(p)
        BY <2>0, <4>3 DEF PageFails, Panel
      <4>4. CASE LoadOlder(p)
        BY <2>0, <4>4 DEF LoadOlder, Panel
      <4> QED
        BY <2>2, <4>1, <4>2, <4>3, <4>4
    <3> QED
      BY <1>0, <3>1, ShownFrame DEF ActiveTask
  <2>3. ASSUME PageArrives(p) PROVE Goal
    <3> DEFINE found == panel[p].fetch.found
    <3>1. /\ panel'[p].shown = Merge(panel[p].shown, found)
          /\ panel'[p].open = panel[p].open
          /\ UNCHANGED task
          /\ \A q \in People \ {p} : panel'[q] = panel[q]
      BY <2>0, <2>3 DEF PageArrives, Panel
    <3>2. found \subseteq Stored
      BY DEF ShownInv, ReceivedStored, Received
    <3>3. panel[p].open
      BY <2>3 DEF PageArrives, PanelsInStep, PanelInStep, NoFetch
    <3> HIDE DEF found
    <3> QED
      BY <1>2, <3>1, <3>2, <3>3
  <2> QED
    BY <1>8, <2>1, <2>2, <2>3 DEF Shows
<1> QED
  BY <1>1, <1>5, <1>6, <1>7, <1>8 DEF ChatNext, TicketChanges, chatVars

-----------------------------------------------------------------------------
(* The panels and the room *)

(* A panel stays in step when what is new on the first page is pushed to   *)
(* the room, and what it shows as stored stays so. *)
LEMMA PanelFrame ==
  ASSUME ChatTypeOK, NEW p \in People, PanelInStep(p), Received(p),
         Stored \subseteq Stored', \A t \in Texts : StoredKept(p, t),
         panel'[p].open = panel[p].open, panel'[p].synced = panel[p].synced,
         panel'[p].more = panel[p].more, panel'[p].fetch = panel[p].fetch,
         socket'[p].up = socket[p].up, socket'[p].room = socket[p].room,
         socket'[p].joins = socket[p].joins,
         socket[p].pushes \subseteq socket'[p].pushes, socket'[p].pushes \subseteq Stored',
         \A t \in PageOf(1)' : t \in PageOf(1) \/ (socket[p].room => t \in socket'[p].pushes)
  PROVE  PanelInStep(p)' /\ Received(p)'
<1>1. PageOf(1) \subseteq Texts
  BY PageStored, StoredTexts
<1>2. ASSUME NEW told, panel[p].open, socket[p].room, InStep(p, told) PROVE InStep(p, told)'
  <2>1. \A t \in PageOf(1) : panel[p].shown[t] = "stored" => panel'[p].shown[t] = "stored"
    BY <1>1, <1>2 DEF StoredKept
  <2> QED
    BY <1>2, <2>1 DEF InStep
<1>3. panel[p].fetch.read => panel[p].open
  BY DEF PanelInStep, NoFetch
<1>4. panel[p].synced => InStep(p, {})'
  BY <1>2 DEF PanelInStep
<1>5. panel[p].fetch.read /\ panel[p].fetch.inRoom /\ panel[p].fetch.page = 1 =>
        InStep(p, panel[p].fetch.found)'
  BY <1>2, <1>3 DEF PanelInStep
<1>6. Received(p)'
  BY DEF Received
<1> QED
  BY <1>4, <1>5, <1>6 DEF PanelInStep, InStep

(* The chat service stores a posted text, or nothing. *)
LEMMA ServesEffect ==
  ASSUME ChatTypeOK, Serves
  PROVE  /\ UNCHANGED <<claimed, panel, task, tail, excused>>
         /\ \/ UNCHANGED <<messages, socket>>
            \/ \E r \in posts :
                 /\ messages' = Append(messages, [text |-> r.text, key |-> r.key])
                 /\ [text |-> r.text, key |-> r.key] \in Message
                 /\ r.text \in Texts /\ r.step = "locked"
                 /\ socket' = [p \in People |->
                      IF socket[p].room
                      THEN [socket[p] EXCEPT !.pushes = @ \cup {r.text}] ELSE socket[p]]
<1>1. \A r \in posts : r.text \in Texts /\ [text |-> r.text, key |-> r.key] \in Message
  BY DEF ChatTypeOK, Post, Message
<1> QED
  BY <1>1 DEF Serves, BeginCreate, CommitCreate, FailCreate

(* The newest page, when a message is stored, is what it was and the message. *)
LEMMA NewestPage ==
  ASSUME ChatTypeOK, NEW m \in Message, messages' = Append(messages, m)
  PROVE  PageOf(1)' \subseteq PageOf(1) \cup {m.text}
<1> DEFINE N == Len(messages)
<1>1. /\ DOMAIN messages = 1 .. N /\ DOMAIN messages' = 1 .. N + 1 /\ Len(messages') = N + 1
      /\ messages'[N + 1] = m /\ \A i \in DOMAIN messages : messages'[i] = messages[i]
  BY StoredAppend
<1>2. N \in Nat /\ PageSize \in Nat
  BY ChatAssumption DEF ChatTypeOK
<1>3. ASSUME NEW i \in DOMAIN messages', i > N + 1 - 1 * PageSize
      PROVE  messages'[i].text \in PageOf(1) \cup {m.text}
  <2>1. CASE i = N + 1
    BY <1>1, <2>1
  <2>2. CASE i # N + 1
    <3>1. i \in DOMAIN messages
      BY <1>1, <1>2, <2>2
    <3>2. i > N - 1 * PageSize /\ i <= N - (1 - 1) * PageSize
      BY <1>1, <1>2, <1>3, <3>1
    <3> QED
      BY <1>1, <3>1, <3>2 DEF PageOf
  <2> QED
    BY <2>1, <2>2
<1> SUFFICES ASSUME NEW t \in PageOf(1)' PROVE t \in PageOf(1) \cup {m.text}
  OBVIOUS
<1>4. PICK i \in DOMAIN messages' : i > Len(messages') - 1 * PageSize /\ t = messages'[i].text
  BY DEF PageOf
<1> QED
  <2> HIDE DEF N
  <2>1. i > N + 1 - 1 * PageSize
    BY <1>1, <1>2, <1>4
  <2> QED
    BY <1>3, <1>4, <2>1

(* Every step keeps an open panel in step with the room. *)
LEMMA PanelStep ==
  ASSUME ChatTypeOK, ChatTypeOK', ServerInv, TaskInv, ShownInv, PanelsInStep,
         [ChatNext]_chatVars
  PROVE  PanelsInStep' /\ ReceivedStored'
<1> SUFFICES ASSUME NEW q \in People PROVE PanelInStep(q)' /\ Received(q)'
  BY DEF PanelsInStep, ReceivedStored
<1>0. /\ PanelInStep(q) /\ Received(q) /\ Stored \subseteq Stored'
      /\ \A t \in Texts : StoredKept(q, t)
      /\ socket \in [People -> Socket] /\ socket[q] \in Socket
      /\ panel \in [People -> Panel] /\ panel[q] \in Panel
  BY SettledStays, ShownStep DEF PanelsInStep, ShownInv, ReceivedStored, TaskInv, ChatTypeOK
<1>1. ASSUME UNCHANGED messages, socket'[q] = socket[q],
             panel'[q].open = panel[q].open, panel'[q].synced = panel[q].synced,
             panel'[q].more = panel[q].more, panel'[q].fetch = panel[q].fetch
      PROVE  PanelInStep(q)' /\ Received(q)'
  <2>1. PageOf(1)' = PageOf(1)
    BY <1>1 DEF PageOf
  <2>2. socket'[q].pushes \subseteq Stored'
    BY <1>0, <1>1 DEF Received
  <2> QED
    BY <1>0, <1>1, <2>1, <2>2, PanelFrame
<1>2. ASSUME NEW p \in People, Sends(p) PROVE PanelInStep(q)' /\ Received(q)'
  <2>1. UNCHANGED <<messages, socket>>
    <3>1. UNCHANGED socket
      BY <1>2
         DEF Sends, HandleSend, HandleRetry, SendOptimisticMessage, AnswerArrives, AnswerLost
    <3> QED
      BY <1>2, <3>1, SendsPosts DEF TaskInv
  <2>2. \/ UNCHANGED panel
        \/ \E shown : panel' = [panel EXCEPT ![p].shown = shown]
    <3>1. ASSUME NEW t \in Texts, HandleSend(p, t) \/ HandleRetry(p, t)
          PROVE  panel' = [panel EXCEPT ![p].shown = [panel[p].shown EXCEPT ![t] = "sending"]]
      BY <3>1 DEF HandleSend, HandleRetry, Show
    <3>2. ASSUME NEW r \in posts, AnswerArrives(p, r)
          PROVE  \E shown : panel' = [panel EXCEPT ![p].shown = shown]
      BY <3>2 DEF AnswerArrives
    <3>3. ASSUME NEW r \in posts, AnswerLost(p, r)
          PROVE  panel' = [panel EXCEPT ![p].shown = MarkFailed(panel[p].shown, r.text)]
      BY <3>3 DEF AnswerLost
    <3>4. ASSUME NEW t \in Texts, SendOptimisticMessage(p, t) PROVE UNCHANGED panel
      BY <3>4 DEF SendOptimisticMessage
    <3> QED
      BY <1>2, <3>1, <3>2, <3>3, <3>4 DEF Sends
  <2>3. CASE UNCHANGED panel
    BY <1>1, <2>1, <2>3
  <2>4. ASSUME NEW shown, panel' = [panel EXCEPT ![p].shown = shown]
        PROVE  PanelInStep(q)' /\ Received(q)'
    <3>1. /\ panel'[q].open = panel[q].open /\ panel'[q].synced = panel[q].synced
          /\ panel'[q].more = panel[q].more /\ panel'[q].fetch = panel[q].fetch
      BY <2>4, ShowEffect
    <3> QED
      BY <1>1, <2>1, <3>1
  <2> QED
    BY <2>2, <2>3, <2>4
<1>3. CASE Serves
  <2>1. CASE UNCHANGED <<messages, socket>>
    BY <1>1, <1>3, <2>1, ServesEffect
  <2>2. ASSUME NEW r \in posts, NEW m \in Message, m.text = r.text, UNCHANGED panel,
               messages' = Append(messages, m),
               socket' = [p \in People |->
                 IF socket[p].room
                 THEN [socket[p] EXCEPT !.pushes = @ \cup {r.text}] ELSE socket[p]]
        PROVE  PanelInStep(q)' /\ Received(q)'
    <3>1. /\ socket'[q].up = socket[q].up /\ socket'[q].room = socket[q].room
          /\ socket'[q].joins = socket[q].joins
          /\ socket[q].pushes \subseteq socket'[q].pushes
          /\ socket'[q].pushes \subseteq socket[q].pushes \cup {r.text}
          /\ socket[q].room => r.text \in socket'[q].pushes
      BY <1>0, <2>2 DEF Socket
    <3>2. Stored' = Stored \cup {r.text}
      BY <2>2, StoredAppend
    <3>3. PageOf(1)' \subseteq PageOf(1) \cup {r.text}
      BY <2>2, NewestPage
    <3>4. socket'[q].pushes \subseteq Stored'
      BY <1>0, <3>1, <3>2 DEF Received
    <3> QED
      BY <1>0, <2>2, <3>1, <3>3, <3>4, PanelFrame
  <2> QED
    <3>1. \A r \in posts : [text |-> r.text, key |-> r.key].text = r.text
      OBVIOUS
    <3> QED
      BY <1>3, <2>1, <2>2, <3>1, ServesEffect
<1>4. ASSUME NEW p \in People, Connects(p) \/ Shows(p), p # q
      PROVE  PanelInStep(q)' /\ Received(q)'
  <2>1. UNCHANGED messages /\ socket'[q] = socket[q] /\ panel'[q] = panel[q]
    BY <1>0, <1>4
       DEF Connects, Shows, Disconnect, Connect, JoinChatRoom, MessagePushed, OpenPanel,
           ClosePanel, StatusShown, ListMessages, PageArrives, PageFails, LoadOlder, chatServer
  <2> QED
    BY <1>1, <2>1
<1>5. CASE Connects(q) \/ Shows(q)
  <2>0. UNCHANGED messages /\ PageOf(1)' = PageOf(1) /\ Stored' = Stored
    <3>1. UNCHANGED messages
      BY <1>5
         DEF Connects, Shows, Disconnect, Connect, JoinChatRoom, MessagePushed, OpenPanel,
             ClosePanel, StatusShown, ListMessages, PageArrives, PageFails, LoadOlder, chatServer
    <3> QED
      BY <3>1 DEF PageOf, Stored
  <2>a. ASSUME panel'[q].shown = panel[q].shown, socket'[q].pushes = socket[q].pushes,
               NEW told, InStep(q, told)
        PROVE  InStep(q, told)'
    BY <2>0, <2>a DEF InStep
  <2>1. CASE Disconnect(q)
    <3>1. /\ ~panel'[q].synced /\ ~panel'[q].fetch.inRoom
          /\ panel'[q].fetch.found = panel[q].fetch.found /\ panel'[q].open = panel[q].open
          /\ panel'[q].more = panel[q].more
          /\ panel'[q].fetch.page = panel[q].fetch.page
          /\ panel'[q].fetch.read = panel[q].fetch.read
          /\ socket'[q].joins = 0 /\ ~socket'[q].room /\ socket'[q].pushes = {}
      <4>1. panel'[q] = OutOfSync(q) /\ OutOfSync(q).more = panel[q].more
        BY <1>0, <2>1 DEF Disconnect, OutOfSync, Panel
      <4>2. socket'[q] = [up |-> FALSE, room |-> FALSE, joins |-> 0, pushes |-> {}]
        BY <1>0, <2>1 DEF Disconnect
      <4> QED
        BY <4>1, <4>2, PanelOperators
    <3> QED
      BY <1>0, <2>0, <3>1 DEF PanelInStep, Received
  <2>2. CASE Connect(q)
    <3>1. /\ socket'[q].up /\ socket'[q].pushes = socket[q].pushes
          /\ ~panel[q].synced /\ ~panel'[q].synced /\ panel'[q].open = panel[q].open
          /\ panel'[q].more = panel[q].more
          /\ ~panel'[q].fetch.read \/ panel'[q].fetch = panel[q].fetch
          /\ ~panel'[q].fetch.inRoom /\ panel'[q].fetch.found \subseteq panel[q].fetch.found
          /\ ~panel[q].open => panel'[q].fetch = panel[q].fetch
      BY <1>0, <2>2 DEF Connect, Joins, PanelInStep, Socket, Panel, Fetch, NoFetch
    <3> QED
      BY <1>0, <2>0, <3>1 DEF PanelInStep, Received
  <2>3. CASE JoinChatRoom(q)
    <3>1. /\ socket'[q].up = socket[q].up /\ socket'[q].pushes = socket[q].pushes
          /\ socket[q].up /\ socket'[q].room /\ UNCHANGED panel
      BY <1>0, <2>3 DEF JoinChatRoom, Socket, PanelInStep
    <3> QED
      BY <1>0, <2>0, <2>a, <3>1 DEF PanelInStep, Received, InStep
  <2>4. ASSUME NEW t \in Texts, MessagePushed(q, t)
        PROVE  PanelInStep(q)' /\ Received(q)'
    <3>1. /\ socket'[q].up = socket[q].up /\ socket'[q].room = socket[q].room
          /\ socket'[q].joins = socket[q].joins
          /\ socket'[q].pushes = socket[q].pushes \ {t} /\ t \in socket[q].pushes
      BY <1>0, <2>4 DEF MessagePushed, Socket
    <3>2. CASE ~panel[q].open
      <4>1. UNCHANGED panel
        BY <2>4, <3>2 DEF MessagePushed
      <4> QED
        BY <1>0, <2>0, <3>1, <3>2, <4>1 DEF PanelInStep, Received
    <3>3. CASE panel[q].open
      <4>1. panel' = [panel EXCEPT ![q].shown = Merge(panel[q].shown, {t})]
        BY <2>4, <3>3 DEF MessagePushed, WithPush
      <4>2. /\ panel'[q].shown = Merge(panel[q].shown, {t}) /\ panel'[q].open = panel[q].open
            /\ panel'[q].synced = panel[q].synced /\ panel'[q].more = panel[q].more
            /\ panel'[q].fetch = panel[q].fetch
        BY <4>1, ShowEffect
      <4>3. panel[q].shown \in Statuses
        BY <1>0 DEF Panel, Statuses
      <4>4. \A u \in Texts : /\ panel[q].shown[u] = "stored" => panel'[q].shown[u] = "stored"
                             /\ panel'[q].shown[t] = "stored"
        BY <4>2, <4>3, ShownOperators
      <4>5. PageOf(1) \subseteq Texts
        BY PageStored, StoredTexts
      <4>6. ASSUME NEW told, InStep(q, told) PROVE InStep(q, told)'
        BY <2>0, <3>1, <4>4, <4>5, <4>6 DEF InStep
      <4> QED
        BY <1>0, <2>0, <3>1, <3>3, <4>2, <4>6 DEF PanelInStep, Received, InStep
    <3> QED
      BY <3>2, <3>3
  <2>5. CASE OpenPanel(q)
    <3>1. /\ panel'[q].open /\ ~panel'[q].synced /\ ~panel'[q].fetch.read
          /\ ~panel'[q].fetch.inRoom /\ panel'[q].fetch.found = {}
      BY <1>0, <2>5, NewPanelType DEF OpenPanel, ChatTypeOK
    <3>2. /\ socket'[q].up = socket[q].up /\ socket'[q].room = socket[q].room
          /\ ~socket[q].up => socket'[q].joins = socket[q].joins
          /\ socket'[q].pushes = socket[q].pushes
      BY <1>0, <2>5 DEF OpenPanel, Joins, Socket
    <3> QED
      BY <1>0, <2>0, <3>1, <3>2 DEF PanelInStep, Received
  <2>6. CASE ClosePanel(q)
    <3>1. /\ ~panel'[q].synced /\ ~panel'[q].fetch.read /\ ~panel'[q].more
          /\ ~panel'[q].fetch.inRoom /\ panel'[q].fetch.found = {}
          /\ panel'[q].fetch.page = 0
      BY <1>0, <2>6, NewPanelType DEF ClosePanel
    <3>2. /\ socket'[q].up = socket[q].up /\ ~socket'[q].room
          /\ socket'[q].joins = socket[q].joins
          /\ socket'[q].pushes = socket[q].pushes
      BY <1>0, <2>6 DEF ClosePanel, Leaves, Socket
    <3> QED
      BY <1>0, <2>0, <3>1, <3>2 DEF PanelInStep, Received
  <2>7. CASE StatusShown(q)
    <3>1. /\ panel'[q].open /\ ~panel'[q].synced /\ ~panel'[q].fetch.inRoom
          /\ panel'[q].fetch.found = panel[q].fetch.found
      BY <1>0, <2>7, PanelOperators DEF StatusShown, Panel
    <3>2. /\ socket'[q].up = socket[q].up /\ ~socket'[q].room
          /\ ~socket[q].up => socket'[q].joins = socket[q].joins
          /\ socket'[q].pushes = socket[q].pushes
      BY <1>0, <2>7 DEF StatusShown, Joins, Leaves, Socket
    <3> QED
      BY <1>0, <2>0, <3>1, <3>2 DEF PanelInStep, Received
  <2>8. CASE ListMessages(q)
    <3>1. /\ UNCHANGED socket /\ panel'[q].open = panel[q].open
          /\ panel'[q].synced = panel[q].synced /\ panel'[q].shown = panel[q].shown
          /\ panel'[q].fetch.found = PageOf(panel[q].fetch.page)
          /\ panel'[q].fetch.page = panel[q].fetch.page
          /\ panel'[q].fetch.inRoom = socket[q].room
          /\ panel[q].fetch.page # 0
      BY <1>0, <2>8 DEF ListMessages, Panel, Fetch
    <3>2. panel[q].open
      BY <1>0, <3>1 DEF PanelInStep, NoFetch
    <3>3. PageOf(panel[q].fetch.page) \subseteq Stored
      BY PageStored
    <3>4. panel'[q].fetch.page = 1 => InStep(q, panel[q].fetch.found)'
      BY <2>0, <3>1 DEF InStep
    <3> QED
      BY <1>0, <2>0, <2>a, <3>1, <3>2, <3>3, <3>4 DEF PanelInStep, Received, InStep
  <2>9. CASE PageArrives(q)
    <3> DEFINE f == panel[q].fetch
    <3>1. /\ UNCHANGED socket /\ panel'[q].open = panel[q].open
          /\ panel'[q].synced = (panel[q].synced \/ (f.page = 1 /\ f.inRoom))
          /\ panel'[q].shown = Merge(panel[q].shown, f.found)
          /\ panel'[q].fetch = NoFetch /\ f.read
      BY <1>0, <2>9 DEF PageArrives, Panel
    <3>2. panel[q].open /\ ~NoFetch.read /\ ~NoFetch.inRoom /\ NoFetch.found = {}
      BY <1>0, <3>1 DEF PanelInStep, NoFetch
    <3>3. panel[q].shown \in Statuses /\ PageOf(1) \subseteq Texts
      BY <1>0, PageStored, StoredTexts DEF Panel, Statuses
    <3>4. \A t \in Texts : panel'[q].shown[t] = IF t \in f.found THEN "stored"
                                               ELSE panel[q].shown[t]
      BY <3>1, <3>3, ShownOperators
    <3>5. panel'[q].synced => InStep(q, {})'
      <4>1. CASE panel[q].synced
        BY <1>0, <2>0, <3>1, <3>3, <3>4, <4>1 DEF PanelInStep, InStep
      <4>2. CASE f.page = 1 /\ f.inRoom
        BY <1>0, <2>0, <3>1, <3>3, <3>4, <4>2 DEF PanelInStep, InStep
      <4> QED
        BY <3>1, <4>1, <4>2
    <3>6. panel'[q].synced => socket[q].room
      BY <1>0, <3>1 DEF PanelInStep
    <3> QED
      BY <1>0, <2>0, <3>1, <3>2, <3>5, <3>6 DEF PanelInStep, Received
  <2>10. CASE PageFails(q) \/ LoadOlder(q)
    <3>1. /\ UNCHANGED socket /\ panel'[q].open = panel[q].open
          /\ panel'[q].synced = panel[q].synced /\ panel'[q].shown = panel[q].shown
          /\ panel'[q].more = panel[q].more
          /\ ~panel'[q].fetch.read /\ ~panel'[q].fetch.inRoom /\ panel'[q].fetch.found = {}
          /\ panel[q].more \/ panel'[q].fetch.page = 0
      <4>1. CASE PageFails(q)
        BY <1>0, <2>10, <4>1 DEF PageFails, Panel, NoFetch
      <4>2. CASE LoadOlder(q)
        <5> DEFINE n == panel[q].page + 1
                   f == [NoFetch EXCEPT !.page = n]
        <5>1. ~f.read /\ ~f.inRoom /\ f.found = {}
          BY DEF NoFetch
        <5>2. panel' = [panel EXCEPT ![q].fetch = f] /\ panel[q].more /\ UNCHANGED socket
          BY <4>2 DEF LoadOlder
        <5> HIDE DEF f
        <5> QED
          BY <1>0, <5>1, <5>2 DEF Panel
      <4> QED
        BY <2>10, <4>1, <4>2
    <3> QED
      BY <1>0, <2>0, <2>a, <3>1 DEF PanelInStep, Received
  <2> QED
    BY <1>5, <2>1, <2>2, <2>3, <2>4, <2>5, <2>6, <2>7, <2>8, <2>9, <2>10
       DEF Connects, Shows
<1> QED
  BY <1>1, <1>2, <1>3, <1>4, <1>5 DEF ChatNext, TicketChanges, chatVars

-----------------------------------------------------------------------------
(* The order of the messages *)

(* A step of a person queues a text, posts the one whose turn it is, or    *)
(* ends the task of the one that was posted.                               *)
Queued(p, t) ==
  /\ Enqueue(p, t) /\ UNCHANGED <<posts, excused>>
  /\ Author[t] = p /\ ~ActiveTask(t)
  /\ \/ Settled(t) /\ Begun(t)
     \/ ~Begun(t) /\ \A u \in Texts : Before(u, t) => Begun(u)

Posted(t) ==
  /\ task[t].step = "waiting" /\ task[t].after = 0
  /\ \A u \in Texts : /\ ActiveTask(u)' <=> ActiveTask(u)
                      /\ Begun(u)' <=> Begun(u)
                      /\ task'[u].after = task[u].after
  /\ UNCHANGED <<tail, excused>>
  /\ \A r \in posts' : r \in posts \/ r.text = t

Ended(p, t) ==
  /\ EndTask(p, t) /\ Author[t] = p
  /\ task[t].step = "posting" /\ task[t].after = 0 /\ task[t].attempts > 0
  /\ t \in Stored \cup excused'
  /\ \A r \in posts' : \E q \in posts : q.text = r.text

(* Who sends has a text queued, posted or settled. *)
LEMMA SendsTasks ==
  ASSUME ChatTypeOK, ServerInv, TaskInv, PanelsRight, NEW p \in People, Sends(p)
  PROVE  \E t \in Texts : Queued(p, t) \/ Posted(t) \/ Ended(p, t)
<1>0. \A r \in posts : r.text \in Texts
  BY DEF ChatTypeOK, Post
<1>1. ASSUME NEW t \in Texts, HandleSend(p, t)
      PROVE  Queued(p, t)
  <2>1. \A u \in Texts : u < t => u \in 1 .. t - 1
    BY DEF Texts
  <2>2. \A u \in 1 .. t - 1 : Author[u] = p => task[u].attempts > 0 \/ task[u].step # "idle"
    BY <1>1 DEF HandleSend
  <2>3. task[t].attempts = 0 /\ task[t].step = "idle" /\ Author[t] = p
        /\ Enqueue(p, t) /\ UNCHANGED <<posts, excused>>
    BY <1>1 DEF HandleSend, chatServer
  <2> QED
    BY <2>1, <2>2, <2>3 DEF Queued, Before, Begun, ActiveTask
<1>2. ASSUME NEW t \in Texts, HandleRetry(p, t)
      PROVE  Queued(p, t)
  BY <1>2 DEF Queued, HandleRetry, PanelsRight, ShownRight, Settled, Begun, chatServer
<1>3. ASSUME NEW t \in Texts, SendOptimisticMessage(p, t)
      PROVE  Posted(t)
  <2>1. /\ task[t].step = "waiting" /\ task[t].after = 0
        /\ \A r \in posts' : r \in posts \/ r.text = t
        /\ UNCHANGED <<tail, excused>>
    BY <1>3 DEF SendOptimisticMessage
  <2>2. /\ task'[t].step = "posting" /\ task'[t].after = task[t].after
        /\ \A u \in Texts \ {t} : task'[u] = task[u]
    BY <1>3 DEF SendOptimisticMessage, ChatTypeOK, Task
  <2>3. \A u \in Texts : /\ ActiveTask(u)' <=> ActiveTask(u)
                         /\ Begun(u)' <=> Begun(u)
                         /\ task'[u].after = task[u].after
    BY <2>1, <2>2 DEF ActiveTask, Begun
  <2> QED
    BY <2>1, <2>3 DEF Posted, ActiveTask, Begun
<1>4. ASSUME NEW r \in posts, AnswerArrives(p, r) \/ AnswerLost(p, r)
      PROVE  Ended(p, r.text)
  <2>1. EndTask(p, r.text) /\ Author[r.text] = p /\ r.awaited
    BY <1>4 DEF AnswerArrives, AnswerLost
  <2>2. /\ task[r.text].step = "posting" /\ task[r.text].after = 0
        /\ task[r.text].attempts > 0
    BY <1>0, <2>1 DEF TaskInv, PostingAwaited, AttemptsCounted
  <2>3. r.text \in Stored \cup excused'
    BY <1>4 DEF AnswerArrives, AnswerLost, ServerInv, AnswersStored
  <2>4. ASSUME NEW k \in posts' PROVE \E q \in posts : q.text = k.text
    <3>1. [r EXCEPT !.awaited = FALSE].text = r.text
      BY DEF ChatTypeOK, Post
    <3>2. k \in posts \/ k = [r EXCEPT !.awaited = FALSE]
      BY <1>4, <2>4 DEF AnswerArrives, AnswerLost
    <3> QED
      BY <3>1, <3>2
  <2> QED
    BY <2>1, <2>2, <2>3, <2>4 DEF Ended
<1> QED
  BY <1>0, <1>1, <1>2, <1>3, <1>4 DEF Sends

(* The other steps keep the tasks and the texts of the requests. *)
LEMMA OtherTasks ==
  ASSUME ChatTypeOK, [ChatNext]_chatVars, ~\E p \in People : Sends(p)
  PROVE  /\ UNCHANGED task
         /\ \/ UNCHANGED tail
            \/ \E p \in People : ClosePanel(p)
         /\ \A r \in posts' : \E q \in posts : q.text = r.text
<1>1. CASE Serves
  <2>1. PICK r \in posts, step \in {"locked", "stored", "refused"} :
          Moves(r, step) /\ UNCHANGED <<task, tail>>
    BY <1>1 DEF Serves, BeginCreate, CommitCreate, FailCreate
  <2>2. PICK q \in Post : /\ q.text = r.text
                          /\ \/ posts' = (posts \ {r}) \cup {q}
                             \/ posts' = posts \ {r}
    BY <2>1, MovesPosts
  <2> QED
    BY <2>1, <2>2
<1>2. ASSUME NEW p \in People, Connects(p) \/ Shows(p)
      PROVE  UNCHANGED <<task, posts>> /\ (UNCHANGED tail \/ ClosePanel(p))
  BY <1>2
     DEF Connects, Shows, Disconnect, Connect, JoinChatRoom, MessagePushed, OpenPanel,
         ClosePanel, StatusShown, ListMessages, PageArrives, PageFails, LoadOlder, chatServer
<1> QED
  BY <1>1, <1>2 DEF ChatNext, TicketChanges, chatVars

(* Every step keeps the order of the stored messages. *)
LEMMA OrderKeptStep ==
  ASSUME ChatTypeOK, ServerInv, TaskInv, OrderInv, [ChatNext]_chatVars,
         excused \subseteq excused'
  PROVE  OrderKept' /\ \A t \in Stored' \ Stored : \E r \in posts : r.text = t
<1>0. SentInOrder /\ OrderKept
  BY DEF OrderInv
<1>1. CASE UNCHANGED messages
  BY <1>0, <1>1 DEF OrderKept, Stored
<1>2. ASSUME NEW r \in posts, CommitCreate(r)
      PROVE  OrderKept' /\ \A t \in Stored' \ Stored : \E q \in posts : q.text = t
  <2> DEFINE m == [text |-> r.text, key |-> r.key]
             N == Len(messages)
  <2>1. m \in Message /\ m.text = r.text /\ r.text \in Texts
        /\ messages' = Append(messages, m) /\ UNCHANGED excused
    BY <1>2 DEF CommitCreate, ChatTypeOK, Post, Message
  <2> HIDE DEF m
  <2>2. /\ Stored' = Stored \cup {r.text} /\ N \in Nat
        /\ messages'[N + 1] = m
        /\ DOMAIN messages = 1 .. N /\ DOMAIN messages' = 1 .. N + 1
        /\ \A i \in DOMAIN messages : messages'[i] = messages[i]
    BY <2>1, StoredAppend DEF ChatTypeOK
  <2>3. r.text \notin Stored
    BY <1>2 DEF CommitCreate, ServerInv, LockHeld
  <2>4. \A i \in DOMAIN messages : messages[i].text \in Stored
    BY DEF Stored
  <2>5. Stored \subseteq Texts
    BY StoredTexts
  <2> HIDE DEF N
  <2>6. ASSUME NEW i \in DOMAIN messages', NEW j \in DOMAIN messages',
               messages'[j].text < messages'[i].text,
               Author[messages'[i].text] = Author[messages'[j].text],
               messages'[j].text \notin excused'
        PROVE  j < i
    <3>1. CASE i \in DOMAIN messages /\ j \in DOMAIN messages
      BY <1>0, <2>1, <2>2, <2>6, <3>1 DEF OrderKept
    <3>2. CASE i = N + 1
      <4>1. j # i
        <5>1. \A x \in Texts : ~(x < x)
          BY DEF Texts
        <5> QED
          BY <2>1, <2>2, <2>6, <3>2, <5>1
      <4> QED
        BY <2>2, <3>2, <4>1
    <3>3. CASE i \in DOMAIN messages /\ j = N + 1
      <4>1. messages'[j].text = r.text /\ messages'[i].text \in Stored
        BY <2>1, <2>2, <2>4, <3>3
      <4>2. Before(r.text, messages'[i].text)
        BY <2>6, <4>1 DEF Before
      <4>3. Settled(r.text)
        BY <1>0, <2>1, <4>1, <4>2 DEF SentInOrder
      <4> QED
        BY <2>1, <2>3, <2>6, <4>1, <4>3 DEF Settled
    <3> QED
      BY <2>2, <3>1, <3>2, <3>3
  <2>7. OrderKept'
    BY <2>6 DEF OrderKept
  <2> QED
    BY <2>2, <2>7
<1>3. UNCHANGED messages \/ \E r \in posts : CommitCreate(r)
  <2>1. ASSUME NEW p \in People, Connects(p) \/ Shows(p) PROVE UNCHANGED messages
    BY <2>1
       DEF Connects, Shows, Disconnect, Connect, JoinChatRoom, MessagePushed, OpenPanel,
           ClosePanel, StatusShown, ListMessages, PageArrives, PageFails, LoadOlder, chatServer
  <2>2. ASSUME NEW p \in People, Sends(p) PROVE UNCHANGED messages
    BY <2>2, SendsPosts DEF TaskInv
  <2> QED
    BY <2>1, <2>2
       DEF ChatNext, Serves, BeginCreate, FailCreate, TicketChanges, chatVars
<1> QED
  BY <1>1, <1>2, <1>3

(* The text whose turn it is comes after texts that are settled. *)
LEMMA TurnSettled ==
  ASSUME ChatTypeOK, TaskInv, OrderInv, NEW t \in Texts,
         task[t].step = "waiting", task[t].after = 0
  PROVE  \A u \in Texts : Before(u, t) => Settled(u)
<1> SUFFICES ASSUME NEW u \in Texts, Before(u, t), ~Settled(u) PROVE FALSE
  OBVIOUS
<1>1. Begun(u)
  BY DEF OrderInv, SentInOrder, Begun, ActiveTask
<1>2. ActiveTask(u)
  <2>1. task[u].attempts > 0 => ActiveTask(u) \/ Settled(u)
    BY DEF TaskInv, AttemptsCounted
  <2> QED
    BY <1>1, <2>1 DEF Begun
<1>3. PICK rank \in [Texts -> Nat] : Chain(rank)
  BY DEF OrderInv, ChainOrdered
<1>4. t # u /\ u < t /\ Author[t] = Author[u] /\ ActiveTask(t)
  <2>1. \A x \in Texts : ~(x < x)
    BY DEF Texts
  <2> QED
    BY <2>1 DEF Before, ActiveTask
<1> QED
  BY <1>2, <1>3, <1>4 DEF Chain

(* Every step keeps the order of what is being sent. *)
LEMMA SentInOrderStep ==
  ASSUME ChatTypeOK, ChatTypeOK', ServerInv, TaskInv, PanelsRight, OrderInv,
         [ChatNext]_chatVars
  PROVE  SentInOrder'
<1>0. /\ SentInOrder /\ Stored \subseteq Stored' /\ excused \subseteq excused'
      /\ \A t \in Stored' \ Stored : \E r \in posts : r.text = t
      /\ \A r \in posts : r.text \in Texts
  BY SettledStays, OrderKeptStep DEF OrderInv, TaskInv, ChatTypeOK, Post
<1>1. \A t \in Texts : Settled(t) => Settled(t)'
  BY <1>0 DEF Settled
<1> DEFINE Goal ==
      /\ \A t \in Texts : Begun(t) => Begun(t)'
      /\ \A t, u \in Texts : Begun(t)' /\ ~Begun(t) /\ Before(u, t) => Begun(u)
      /\ \A r \in posts' : \/ \E q \in posts : q.text = r.text
                           \/ /\ r.text \in Texts
                              /\ \A u \in Texts : Before(u, r.text) => Settled(u)
<1>2. Goal
  <2>1. CASE \E p \in People : Sends(p)
    <3>1. PICK p \in People : Sends(p)
      BY <2>1
    <3>2. PICK t \in Texts : Queued(p, t) \/ Posted(t) \/ Ended(p, t)
      BY <3>1, SendsTasks
    <3>3. CASE Queued(p, t)
      <4>1. Begun(t)' /\ \A u \in Texts \ {t} : Begun(u)' <=> Begun(u)
        BY <3>3, EnqueueEffect DEF Queued, Begun, ActiveTask
      <4> QED
        BY <3>3, <4>1 DEF Queued
    <3>4. CASE Posted(t)
      <4>1. \A u \in Texts : Before(u, t) => Settled(u)
        BY <3>4, TurnSettled DEF Posted
      <4> QED
        BY <3>4, <4>1 DEF Posted
    <3>5. CASE Ended(p, t)
      <4>1. \A u \in Texts : Begun(u)' <=> Begun(u)
        BY <3>5, EndTaskEffect DEF Ended, Begun, ActiveTask
      <4> QED
        BY <3>5, <4>1 DEF Ended
    <3> QED
      BY <3>2, <3>3, <3>4, <3>5
  <2>2. CASE ~\E p \in People : Sends(p)
    <3>1. UNCHANGED task /\ \A r \in posts' : \E q \in posts : q.text = r.text
      BY <2>2, OtherTasks
    <3>2. \A t \in Texts : Begun(t)' <=> Begun(t)
      BY <3>1 DEF Begun, ActiveTask
    <3> QED
      BY <3>1, <3>2
  <2> QED
    BY <2>1, <2>2
<1>3. \A t, u \in Texts : Before(u, t) /\ Begun(t)' => Begun(u)'
  BY <1>0, <1>2 DEF SentInOrder
<1>4. \A r \in posts', u \in Texts : Before(u, r.text) => Settled(u)'
  BY <1>0, <1>1, <1>2 DEF SentInOrder
<1>5. \A t \in Stored', u \in Texts : Before(u, t) => Settled(u)'
  BY <1>0, <1>1 DEF SentInOrder
<1> QED
  BY <1>3, <1>4, <1>5 DEF SentInOrder, Before

(* Every step keeps the order of the chain. *)
LEMMA ChainStep ==
  ASSUME ChatTypeOK, ChatTypeOK', ServerInv, TaskInv, PanelsRight, OrderInv,
         [ChatNext]_chatVars
  PROVE  ChainOrdered'
<1>0. /\ Stored \subseteq Stored' /\ excused \subseteq excused'
      /\ \A t \in Texts : Author[t] \in People
  BY ChatAssumption, SettledStays DEF TaskInv
<1>1. \A t \in Texts : Settled(t) => Settled(t)'
  BY <1>0 DEF Settled
<1>2. PICK rank \in [Texts -> Nat], next \in Nat :
        (\A t \in Texts : rank[t] < next) /\ Chain(rank)
  BY DEF OrderInv, ChainOrdered
<1>3. /\ \A t \in Texts : task[t].after # 0 =>
           task[t].after \in Texts /\ ActiveTask(task[t].after)
      /\ \A p \in People : tail[p] # 0 => tail[p] \in Texts /\ ActiveTask(tail[p])
  <2>1. \A n \in 0 .. NumTexts : n # 0 => n \in Texts
    BY DEF Texts
  <2>2. /\ \A t \in Texts : task[t].after \in 0 .. NumTexts
        /\ \A p \in People : tail[p] \in 0 .. NumTexts
    BY DEF ChatTypeOK, Task
  <2> QED
    BY <2>1, <2>2 DEF TaskInv, ChainsActive
<1>4. ASSUME \A t \in Texts : /\ ActiveTask(t)' <=> ActiveTask(t)
                              /\ task'[t].after = task[t].after,
             \A t \in Texts : ActiveTask(t) /\ ~Settled(t)' =>
               tail'[Author[t]] = tail[Author[t]]
      PROVE  ChainOrdered'
  <2>1. Chain(rank)'
    BY <1>1, <1>2, <1>4 DEF Chain
  <2> QED
    BY <1>2, <2>1 DEF ChainOrdered
<1>5. ASSUME NEW p \in People, NEW t \in Texts, Enqueue(p, t), Author[t] = p,
             ~ActiveTask(t),
             Settled(t) \/ \A u \in Texts : Before(t, u) => ~ActiveTask(u)
      PROVE  ChainOrdered'
  <2> DEFINE newRank == [rank EXCEPT ![t] = next]
  <2>1. /\ newRank \in [Texts -> Nat] /\ newRank[t] = next
        /\ \A u \in Texts \ {t} : newRank[u] = rank[u] /\ rank[u] < next
        /\ \A u \in Texts : newRank[u] < next + 1
    BY <1>2
  <2>2. /\ ActiveTask(t)' /\ task'[t].after = tail[p]
        /\ \A u \in Texts \ {t} : /\ ActiveTask(u)' <=> ActiveTask(u)
                                  /\ task'[u].after = task[u].after
        /\ tail'[p] = t /\ \A q \in People \ {p} : tail'[q] = tail[q]
    BY <1>5, EnqueueEffect DEF ActiveTask
  <2> HIDE DEF newRank
  <2>3. ASSUME NEW u \in Texts, ActiveTask(u)', ~Settled(u)'
        PROVE  /\ tail'[Author[u]] # 0
               /\ newRank[u] <= newRank[tail'[Author[u]]]
    <3>1. CASE Author[u] = p
      <4>1. newRank[u] <= newRank[t]
        BY <2>1
      <4>2. t # 0
        BY DEF Texts
      <4> QED
        BY <2>2, <3>1, <4>1, <4>2
    <3>2. CASE Author[u] # p
      <4>1. u # t /\ ActiveTask(u) /\ ~Settled(u) /\ Author[u] \in People
        BY <1>0, <1>1, <1>5, <2>2, <2>3, <3>2
      <4>2. tail[Author[u]] # 0 /\ rank[u] <= rank[tail[Author[u]]]
        BY <1>2, <4>1 DEF Chain
      <4>3. tail[Author[u]] \in Texts \ {t}
        BY <1>3, <1>5, <4>1, <4>2
      <4> QED
        BY <2>1, <2>2, <3>2, <4>1, <4>2, <4>3
    <3> QED
      BY <3>1, <3>2
  <2>4. ASSUME NEW u \in Texts, ActiveTask(u)', ~Settled(u)',
               NEW v \in Texts \ {u}, ActiveTask(v)', Author[v] = Author[u]
        PROVE  /\ u < v => newRank[u] <= newRank[v]
               /\ newRank[u] <= newRank[v] =>
                    task'[v].after # 0 /\ newRank[u] <= newRank[task'[v].after]
    <3>1. CASE u = t
      <4>1. newRank[v] < newRank[u] /\ newRank[u] \in Nat /\ newRank[v] \in Nat
        BY <2>1, <2>4, <3>1
      <4>2. ~(u < v)
        BY <1>1, <1>5, <2>2, <2>4, <3>1 DEF Before
      <4> QED
        BY <4>1, <4>2
    <3>2. CASE u # t /\ v = t
      <4>1. ActiveTask(u) /\ ~Settled(u) /\ newRank[u] <= newRank[v]
        BY <1>1, <2>1, <2>2, <2>4, <3>2
      <4>2. tail[p] # 0 /\ rank[u] <= rank[tail[p]]
        BY <1>2, <1>5, <2>4, <3>2, <4>1 DEF Chain
      <4>3. tail[p] \in Texts \ {t}
        BY <1>3, <1>5, <4>2
      <4> QED
        BY <2>1, <2>2, <3>2, <4>1, <4>2, <4>3
    <3>3. CASE u # t /\ v # t
      <4>1. ActiveTask(u) /\ ~Settled(u) /\ ActiveTask(v) /\ v \in Texts \ {u}
        BY <1>1, <2>2, <2>4, <3>3
      <4>2. /\ u < v => rank[u] <= rank[v]
            /\ rank[u] <= rank[v] => task[v].after # 0 /\ rank[u] <= rank[task[v].after]
        BY <1>2, <2>4, <4>1 DEF Chain
      <4>3. task[v].after # 0 => task[v].after \in Texts \ {t}
        BY <1>3, <1>5
      <4> QED
        BY <2>1, <2>2, <3>3, <4>2, <4>3
    <3> QED
      BY <3>1, <3>2, <3>3
  <2>5. Chain(newRank)'
    BY <2>3, <2>4 DEF Chain
  <2>6. next + 1 \in Nat
    BY <1>2
  <2> QED
    BY <2>1, <2>5, <2>6 DEF ChainOrdered
<1>6. ASSUME NEW p \in People, NEW t \in Texts, EndTask(p, t), Author[t] = p,
             ActiveTask(t), task[t].after = 0, Settled(t)'
      PROVE  ChainOrdered'
  <2>1. /\ ~ActiveTask(t)' /\ task'[t].after = 0
        /\ \A u \in Texts \ {t} :
             /\ ActiveTask(u)' <=> ActiveTask(u)
             /\ task'[u].after = IF task[u].after = t THEN 0 ELSE task[u].after
        /\ tail'[p] = IF tail[p] = t THEN 0 ELSE tail[p]
        /\ \A q \in People \ {p} : tail'[q] = tail[q]
    BY <1>6, EndTaskEffect DEF ActiveTask
  <2>2. ASSUME NEW u \in Texts, ActiveTask(u)', ~Settled(u)'
        PROVE  /\ ActiveTask(u) /\ ~Settled(u) /\ u # t
               /\ tail'[Author[u]] = tail[Author[u]]
               /\ Author[u] = p => ~(rank[u] <= rank[t])
    <3>1. ActiveTask(u) /\ ~Settled(u) /\ u # t
      BY <1>1, <2>1, <2>2
    <3>2. Author[u] = p => ~(rank[u] <= rank[t])
      BY <1>2, <1>6, <3>1 DEF Chain
    <3>3. rank[u] <= rank[tail[Author[u]]]
      BY <1>2, <3>1 DEF Chain
    <3>4. tail'[Author[u]] = tail[Author[u]]
      BY <1>0, <2>1, <3>2, <3>3
    <3> QED
      BY <3>1, <3>2, <3>4
  <2>3. ASSUME NEW u \in Texts, ActiveTask(u)', ~Settled(u)',
               NEW v \in Texts \ {u}, ActiveTask(v)', Author[v] = Author[u]
        PROVE  /\ u < v => rank[u] <= rank[v]
               /\ rank[u] <= rank[v] =>
                    task'[v].after # 0 /\ rank[u] <= rank[task'[v].after]
    <3>1. v # t /\ ActiveTask(v)
      BY <2>1, <2>3
    <3>2. /\ u < v => rank[u] <= rank[v]
          /\ rank[u] <= rank[v] => task[v].after # 0 /\ rank[u] <= rank[task[v].after]
      BY <1>2, <2>2, <2>3, <3>1 DEF Chain
    <3>3. task[v].after = t => Author[u] = p
      BY <1>6, <2>3 DEF TaskInv, ChainsActive, Texts
    <3> QED
      BY <2>1, <2>2, <2>3, <3>1, <3>2, <3>3
  <2>4. Chain(rank)'
    <3>1. \A u \in Texts : ActiveTask(u)' /\ ~Settled(u)' =>
            tail'[Author[u]] # 0 /\ rank[u] <= rank[tail'[Author[u]]]
      BY <1>2, <2>2 DEF Chain
    <3> QED
      BY <2>3, <3>1 DEF Chain
  <2> QED
    BY <1>2, <2>4 DEF ChainOrdered
<1>7. ASSUME NEW p \in People, Sends(p) PROVE ChainOrdered'
  <2>1. PICK t \in Texts : Queued(p, t) \/ Posted(t) \/ Ended(p, t)
    BY <1>7, SendsTasks
  <2>2. CASE Queued(p, t)
    <3>1. ~Begun(t) => \A u \in Texts : Before(t, u) => ~ActiveTask(u)
      BY DEF OrderInv, SentInOrder, Begun
    <3>2. Enqueue(p, t) /\ Author[t] = p /\ ~ActiveTask(t) /\ (Settled(t) \/ ~Begun(t))
      BY <2>2 DEF Queued
    <3> QED
      BY <1>5, <3>1, <3>2
  <2>3. CASE Posted(t)
    BY <1>4, <2>3 DEF Posted
  <2>4. CASE Ended(p, t)
    <3>1. ActiveTask(t) /\ Settled(t)'
      BY <1>0, <2>4 DEF Ended, ActiveTask, Settled
    <3> QED
      BY <1>6, <2>4, <3>1 DEF Ended
  <2> QED
    BY <2>1, <2>2, <2>3, <2>4
<1>8. CASE ~\E p \in People : Sends(p)
  <2>1. /\ \A t \in Texts : /\ ActiveTask(t)' <=> ActiveTask(t)
                            /\ task'[t].after = task[t].after
        /\ UNCHANGED tail \/ \E p \in People : ClosePanel(p)
    BY <1>8, OtherTasks DEF ActiveTask
  <2>2. CASE UNCHANGED tail
    BY <1>4, <2>1, <2>2
  <2>3. ASSUME NEW p \in People, ClosePanel(p) PROVE ChainOrdered'
    <3>1. \A t \in Texts : ActiveTask(t) /\ ~Settled(t)' => Author[t] # p
      BY <2>3 DEF ClosePanel, ActiveTask, Settled
    <3>2. \A q \in People \ {p} : tail'[q] = tail[q]
      BY <2>3 DEF ClosePanel, ChatTypeOK
    <3> QED
      BY <1>0, <1>4, <2>1, <3>1, <3>2
  <2> QED
    BY <2>1, <2>2, <2>3
<1> QED
  BY <1>7, <1>8

(* Every step keeps the invariant. *)
LEMMA ChatStep == ChatInv /\ [ChatNext]_chatVars => ChatInv'
<1> SUFFICES ASSUME ChatInv, [ChatNext]_chatVars PROVE ChatInv'
  OBVIOUS
<1> USE DEF ChatInv
<1>0. /\ ChatTypeOK /\ ServerInv /\ TaskInv /\ ShownInv /\ PanelsInStep /\ OrderInv
      /\ AttemptsCounted /\ PanelsRight
  BY DEF TaskInv, ShownInv
<1>1. DownSockets
  BY DEF PanelsInStep, PanelInStep, DownSockets
<1>2. ChatTypeOK'
  BY <1>0, <1>1, ChatTypeStep
<1>3. ServerInv'
  BY <1>0, ServerStep
<1>4. TaskInv'
  BY <1>0, <1>2, TaskStep
<1>5. PanelsInStep' /\ ReceivedStored'
  BY <1>0, <1>2, PanelStep
<1>6. PanelsRight'
  BY <1>0, <1>2, ShownStep DEF PanelsRight
<1>7. OrderInv'
  <2>1. excused \subseteq excused'
    BY <1>0, <1>2, SettledStays
  <2> QED
    BY <1>0, <1>2, <2>1, OrderKeptStep, SentInOrderStep, ChainStep DEF OrderInv
<1> QED
  BY <1>2, <1>3, <1>4, <1>5, <1>6, <1>7 DEF ShownInv

-----------------------------------------------------------------------------
(* The inductive invariant: what the requests, the chains of promises, the *)
(* panels and the stored messages know of each other in every state.       *)
THEOREM ChatInvariant == ChatSpec => []ChatInv
BY InitChat, ChatStep, PTL DEF ChatSpec

(* Every field keeps its type, for any number of people and texts. *)
THEOREM ChatTypeCorrect == ChatSpec => []ChatTypeOK
<1>1. ChatInv => ChatTypeOK
  BY DEF ChatInv
<1> QED
  BY <1>1, ChatInvariant, PTL

(* However often a text is sent, it is stored once: the lookup by the      *)
(* client identifier and the insertion are under the lock of the row.      *)
THEOREM MessagesStoredOnce == ChatSpec => []MessageOnce
<1>1. ChatInv => MessageOnce
  BY DEF ChatInv, ServerInv
<1> QED
  BY <1>1, ChatInvariant, PTL

(* The promise chain of a panel stores the texts of a person in the order  *)
(* they were typed in, whatever fails, except for the one that failed.     *)
THEOREM MessagesInOrder == ChatSpec => []OrderKept
<1>1. ChatInv => OrderKept
  BY DEF ChatInv, OrderInv
<1> QED
  BY <1>1, ChatInvariant, PTL

(* A message that is shown as being sent is on its way, or waits for one   *)
(* that is. *)
THEOREM NothingSentForEver == ChatSpec => []SendsAdvance
<1>1. ChatInv => SendsAdvance
  <2> SUFFICES ASSUME ChatInv, NEW t \in Texts, panel[Author[t]].shown[t] = "sending"
               PROVE  \/ task[t].step = "posting" /\ \E r \in posts : r.text = t /\ r.awaited
                      \/ /\ task[t].step = "waiting"
                         /\ task[t].after = 0 \/ task[task[t].after].step # "idle"
    BY DEF SendsAdvance
  <2>1. Author[t] \in People
    BY ChatAssumption
  <2>2. ActiveTask(t)
    BY <2>1 DEF ChatInv, ShownInv, PanelsRight, ShownRight
  <2>3. task[t].step \in {"idle", "waiting", "posting"}
    BY DEF ChatInv, ChatTypeOK, Task
  <2> QED
    BY <2>2, <2>3 DEF ChatInv, TaskInv, PostingAwaited, ChainsActive, ActiveTask
<1> QED
  BY <1>1, ChatInvariant, PTL

(* A panel that loaded the newest page while its socket was in the room    *)
(* has all of that page once the pushes have arrived.                      *)
THEOREM SyncedPanelsAreCurrent == ChatSpec => []SyncedPanelShowsNewest
<1>1. ChatInv => SyncedPanelShowsNewest
  BY DEF ChatInv, PanelsInStep, PanelInStep, InStep, SyncedPanelShowsNewest
<1> QED
  BY <1>1, ChatInvariant, PTL

(* No message is stored when the ticket is not claimed: the transaction    *)
(* checks it after it took the lock of the row, and keeps the lock.        *)
THEOREM SentOnlyWhileClaimed == ChatSpec => SentWhileClaimed
<1>1. ChatInv /\ [ChatNext]_chatVars => [messages' # messages => claimed]_chatVars
  <2> SUFFICES ASSUME ChatInv, ChatNext, messages' # messages PROVE claimed
    BY DEF chatVars
  <2>1. ASSUME NEW p \in People, Connects(p) \/ Shows(p) PROVE UNCHANGED messages
    BY <2>1
       DEF Connects, Shows, Disconnect, Connect, JoinChatRoom, MessagePushed, OpenPanel,
           ClosePanel, StatusShown, ListMessages, PageArrives, PageFails, LoadOlder, chatServer
  <2>2. ASSUME NEW p \in People, Sends(p) PROVE UNCHANGED messages
    BY <2>2, SendsPosts DEF ChatInv, TaskInv
  <2>3. PICK r \in posts : CommitCreate(r)
    BY <2>1, <2>2 DEF ChatNext, Serves, BeginCreate, FailCreate, TicketChanges
  <2> QED
    BY <2>3 DEF CommitCreate, ChatInv, ServerInv, LockHeld
<1> QED
  BY <1>1, ChatInvariant, PTL DEF ChatSpec, SentWhileClaimed

(* No late answer, error or page takes back a message that the panel shows *)
(* as stored. *)
THEOREM StoredMessagesStay == ChatSpec => StoredStaysStored
<1>1. ChatInv /\ ChatInv' /\ [ChatNext]_chatVars =>
        [\A p \in People, t \in Texts :
           (panel[p].shown[t] = "stored" /\ panel'[p].open) =>
             panel'[p].shown[t] = "stored"]_chatVars
  BY ShownStep DEF ChatInv, StoredKept
<1> QED
  BY <1>1, ChatInvariant, PTL DEF ChatSpec, StoredStaysStored

=============================================================================
