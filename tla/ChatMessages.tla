---------------------------- MODULE ChatMessages ----------------------------
(***************************************************************************)
(* The conversation of one ticket: ChatService and ChatRepository store    *)
(* the messages, the gateway pushes them to a room, and the TicketChatPanel *)
(* of each person sends, shows and reloads them.                           *)
(*                                                                         *)
(* A text is what a person types and sends once; the panel gives it a      *)
(* client identifier and keeps that identifier when the person retries.    *)
(* Time is the order of the messages: createdAt is read under the lock of  *)
(* the ticket's row, so that the order of creation is the order of commit. *)
(***************************************************************************)
EXTENDS Naturals, Sequences, FiniteSets

CONSTANTS
  People,       \* those who have the panel of the ticket
  NumTexts,     \* BOUND: texts that are typed
  Author,       \* who types each text
  PageSize,     \* messages of a page of history: 50 in the panel
  MaxAttempts,  \* BOUND: times a text is sent
  MaxChatFaults,\* BOUND: lost answers, lost connections, closed panels
  MaxJoins      \* BOUND: joins of one socket that the gateway is handling

Texts == 1 .. NumTexts

ASSUME ChatAssumption ==
  /\ NumTexts \in Nat /\ Author \in [Texts -> People]
  /\ PageSize \in Nat \ {0} /\ MaxAttempts \in Nat \ {0}
  /\ MaxChatFaults \in Nat /\ MaxJoins \in Nat \ {0}

VARIABLES
  claimed,    \* whether the ticket is CLAIMED, by or from the authors
  messages,   \* the stored messages, oldest first
  posts,      \* the requests that create a message
  socket,     \* each person's socket and what is under way to it
  panel,      \* each person's panel
  task,       \* what the panel does with each text
  tail,       \* the last text of the panel's promise chain, or 0
  chatFaults,     \* how many faults there were
  excused     \* the texts whose place in the order is not promised (history)

chatServer == <<claimed, messages, posts>>

chatVars == <<claimed, messages, posts, socket, panel, task, tail, chatFaults, excused>>

-----------------------------------------------------------------------------
(* Types *)

Attempts == 1 .. MaxAttempts

Message == [text : Texts, key : Attempts]

(* A request, one per attempt.  awaited: the panel still waits for it.     *)
Post ==
  [text : Texts, attempt : Attempts, key : Attempts,
   step : {"sent", "locked", "stored", "refused"}, awaited : BOOLEAN]

(* room: in the chat room of the ticket; joins: joins being handled;       *)
(* pushes: messages pushed and not received.                               *)
Socket ==
  [up : BOOLEAN, room : BOOLEAN, joins : 0 .. MaxJoins, pushes : SUBSET Texts]

DeliveryStatus == {"none", "sending", "failed", "stored"}

NoFetch == [page |-> 0, read |-> FALSE, found |-> {}, more |-> FALSE, inRoom |-> FALSE]

(* The latest request for a page of history: what it read, and whether the *)
(* socket was in the room then.                                            *)
Fetch ==
  [page : Nat, read : BOOLEAN, found : SUBSET Texts,
   more : BOOLEAN, inRoom : BOOLEAN]

(* synced is a history variable: page 1 was read while in the room, and    *)
(* the socket has stayed there.                                            *)
Panel ==
  [open : BOOLEAN, writable : BOOLEAN, shown : [Texts -> DeliveryStatus],
   page : Nat \ {0}, more : BOOLEAN, fetch : Fetch, synced : BOOLEAN]

Task ==
  [step : {"idle", "waiting", "posting"}, after : 0 .. NumTexts,
   attempts : 0 .. MaxAttempts]

ChatTypeOK ==
  /\ claimed \in BOOLEAN
  /\ messages \in Seq(Message)
  /\ posts \subseteq Post
  /\ socket \in [People -> Socket]
  /\ panel \in [People -> Panel]
  /\ task \in [Texts -> Task]
  /\ tail \in [People -> 0 .. NumTexts]
  /\ chatFaults \in 0 .. MaxChatFaults /\ excused \subseteq Texts

NewPanel(open, writable) ==
  [open |-> open, writable |-> writable, shown |-> [t \in Texts |-> "none"],
   page |-> 1, more |-> FALSE, synced |-> FALSE,
   fetch |-> IF open THEN [NoFetch EXCEPT !.page = 1] ELSE NoFetch]

(* A claimed ticket without messages, whose panels are still to be opened. *)
ChatInit ==
  /\ claimed = TRUE /\ messages = <<>> /\ posts = {}
  /\ socket = [p \in People |->
                [up |-> TRUE, room |-> FALSE, joins |-> 0, pushes |-> {}]]
  /\ panel = [p \in People |-> NewPanel(FALSE, TRUE)]
  /\ task = [t \in Texts |-> [step |-> "idle", after |-> 0, attempts |-> 0]]
  /\ tail = [p \in People |-> 0]
  /\ chatFaults = 0 /\ excused = {}

Stored == {messages[i].text : i \in DOMAIN messages}

ChatFault == chatFaults < MaxChatFaults /\ chatFaults' = chatFaults + 1

-----------------------------------------------------------------------------
(* The panel sends *)

(* Mutation: each attempt has a new identifier. *)
BugClientMessageId(t, attempt) == attempt

(* A text's client identifier is made when it is first sent; a retry uses  *)
(* the identifier of the message it shows.                                 *)
ClientMessageId(t, attempt) == 1

Show(p, t, status) == panel' = [panel EXCEPT ![p].shown[t] = status]

(* Mutation: texts are sent side by side. *)
BugPrevious(p) == 0

(* A text waits for the one before it in the chain, if there is one. *)
Previous(p) == tail[p]

Enqueue(p, t) ==
  /\ task' = [task EXCEPT ![t].step = "waiting", ![t].after = Previous(p)]
  /\ tail' = [tail EXCEPT ![p] = t]

(* A text is typed and sent; texts are numbered in the order of typing.    *)
HandleSend(p, t) ==
  /\ panel[p].open /\ panel[p].writable /\ Author[t] = p
  /\ task[t].attempts = 0 /\ task[t].step = "idle"
  /\ \A u \in 1 .. t - 1 : Author[u] = p => task[u].attempts > 0 \/ task[u].step # "idle"
  /\ Show(p, t, "sending")
  /\ Enqueue(p, t)
  /\ UNCHANGED <<chatServer, socket, chatFaults, excused>>

HandleRetry(p, t) ==
  /\ panel[p].open /\ panel[p].shown[t] = "failed"
  /\ task[t].attempts < MaxAttempts
  /\ Show(p, t, "sending")
  /\ Enqueue(p, t)
  /\ UNCHANGED <<chatServer, socket, chatFaults, excused>>

SendOptimisticMessage(p, t) ==
  /\ Author[t] = p /\ task[t].step = "waiting" /\ task[t].after = 0
  /\ LET n == task[t].attempts + 1 IN
       /\ posts' = posts \cup
            {[text |-> t, attempt |-> n, key |-> ClientMessageId(t, n),
              step |-> "sent", awaited |-> TRUE]}
       /\ task' = [task EXCEPT ![t].step = "posting", ![t].attempts = n]
  /\ UNCHANGED <<claimed, messages, socket, panel, tail, chatFaults, excused>>

(* Mutation: an error ends the chain. *)
BugTasksAfter(t) ==
  [u \in Texts |->
     IF u = t THEN [task[t] EXCEPT !.step = "idle"]
     ELSE IF task[u].after = t /\ t \in Stored
          THEN [task[u] EXCEPT !.after = 0] ELSE task[u]]

(* The tasks once t's has ended, with or without an error: the next one of *)
(* the chain can start, and an empty chain is dropped.                     *)
TasksAfter(t) ==
  [u \in Texts |->
     IF u = t THEN [task[t] EXCEPT !.step = "idle"]
     ELSE IF task[u].after = t THEN [task[u] EXCEPT !.after = 0] ELSE task[u]]

EndTask(p, t) ==
  /\ task' = TasksAfter(t)
  /\ tail' = [tail EXCEPT ![p] = IF @ = t THEN 0 ELSE @]

(* A stored message replaces whatever the panel shows under its identifier.*)
Merge(shown, found) == [t \in Texts |-> IF t \in found THEN "stored" ELSE shown[t]]

(* Mutation: an error marks the message, whatever has become of it. *)
BugMarkFailed(shown, t) == IF shown[t] = "none" THEN shown ELSE [shown EXCEPT ![t] = "failed"]

(* An error marks the message that is still being sent. *)
MarkFailed(shown, t) == IF shown[t] = "sending" THEN [shown EXCEPT ![t] = "failed"] ELSE shown

(* The answer is for the panel that sent the text: one that was closed     *)
(* since is not told, nor is the one opened after it.                      *)
AnswerArrives(p, r) ==
  /\ r \in posts /\ r.awaited /\ r.step \in {"stored", "refused"}
  /\ Author[r.text] = p
  /\ posts' = posts \ {r}
  /\ EndTask(p, r.text)
  /\ panel' = [panel EXCEPT ![p].shown =
       IF @[r.text] = "none" THEN @
       ELSE IF r.step = "stored" THEN Merge(@, {r.text})
       ELSE MarkFailed(@, r.text)]
  /\ excused' = IF r.step = "refused" THEN excused \cup {r.text} ELSE excused
  /\ UNCHANGED <<claimed, messages, socket, chatFaults>>

(* The connection of the request breaks: the panel gets an error, and the  *)
(* server goes on.                                                         *)
AnswerLost(p, r) ==
  /\ r \in posts /\ r.awaited /\ Author[r.text] = p
  /\ ChatFault
  /\ posts' = (posts \ {r}) \cup
       (IF r.step \in {"stored", "refused"} THEN {} ELSE {[r EXCEPT !.awaited = FALSE]})
  /\ EndTask(p, r.text)
  /\ panel' = [panel EXCEPT ![p].shown = MarkFailed(@, r.text)]
  /\ excused' = excused \cup {r.text}
  /\ UNCHANGED <<claimed, messages, socket>>

-----------------------------------------------------------------------------
(* The service stores a message *)

(* Mutation: the row is read without its lock. *)
BugRowIsFree == TRUE

(* No transaction holds the lock of the ticket's row. *)
RowIsFree == \A r \in posts : r.step # "locked"

Found(r) == \E i \in DOMAIN messages :
              messages[i].text = r.text /\ messages[i].key = r.key

AssertCanSend == claimed

Moves(r, step) ==
  posts' = (posts \ {r}) \cup
    (IF step \in {"stored", "refused"} /\ ~r.awaited THEN {} ELSE {[r EXCEPT !.step = step]})

(* createMessage takes the lock, checks that the author may send, and      *)
(* looks for a message with the identifier: it is the answer if there is   *)
(* one.                                                                    *)
BeginCreate(r) ==
  /\ r \in posts /\ r.step = "sent" /\ RowIsFree
  /\ Moves(r, IF ~AssertCanSend THEN "refused" ELSE IF Found(r) THEN "stored" ELSE "locked")
  /\ UNCHANGED <<claimed, messages, socket, panel, task, tail, chatFaults, excused>>

(* The message is committed and pushed to the room. *)
CommitCreate(r) ==
  /\ r \in posts /\ r.step = "locked"
  /\ messages' = Append(messages, [text |-> r.text, key |-> r.key])
  /\ Moves(r, "stored")
  /\ socket' = [p \in People |->
       IF socket[p].room THEN [socket[p] EXCEPT !.pushes = @ \cup {r.text}] ELSE socket[p]]
  /\ UNCHANGED <<claimed, panel, task, tail, chatFaults, excused>>

(* The transaction is rolled back. *)
FailCreate(r) ==
  /\ r \in posts /\ r.step = "locked"
  /\ ChatFault
  /\ Moves(r, "refused")
  /\ UNCHANGED <<claimed, messages, socket, panel, task, tail, excused>>

(* The ticket stops, or starts again, to be claimed. *)
TicketChanges ==
  /\ RowIsFree
  /\ claimed' = ~claimed
  /\ UNCHANGED <<messages, posts, socket, panel, task, tail, chatFaults, excused>>

-----------------------------------------------------------------------------
(* The room, and what it pushes *)

(* The socket stops to be in the room, or is not known to be in it.  A     *)
(* page that is read before it is back does not make up for what it misses.*)
OutOfSync(p) == [panel[p] EXCEPT !.synced = FALSE, !.fetch.inRoom = FALSE]

Joins(s) == [s EXCEPT !.joins = IF s.up THEN @ + 1 ELSE @]

CanJoin(p) == socket[p].up => socket[p].joins < MaxJoins

(* A leave takes effect at once, a join after the checks of the gateway.   *)
Leaves(s) == [s EXCEPT !.room = FALSE]

JoinChatRoom(p) ==
  /\ socket[p].joins > 0
  /\ socket' = [socket EXCEPT ![p].joins = @ - 1, ![p].room = TRUE]
  /\ UNCHANGED <<chatServer, panel, task, tail, chatFaults, excused>>

(* Mutation: while a page is loaded, pushes are ignored. *)
BugWithPush(p, t) ==
  IF panel[p].fetch.page > 0 THEN panel[p].shown ELSE Merge(panel[p].shown, {t})

(* A pushed message is shown at once, and stays when a page arrives that   *)
(* does not have it.                                                       *)
WithPush(p, t) == Merge(panel[p].shown, {t})

MessagePushed(p, t) ==
  /\ t \in socket[p].pushes
  /\ socket' = [socket EXCEPT ![p].pushes = @ \ {t}]
  /\ panel' = IF panel[p].open
              THEN [panel EXCEPT ![p].shown = WithPush(p, t)] ELSE panel
  /\ UNCHANGED <<chatServer, task, tail, chatFaults, excused>>

Disconnect(p) ==
  /\ socket[p].up /\ ChatFault
  /\ socket' = [socket EXCEPT ![p] =
       [up |-> FALSE, room |-> FALSE, joins |-> 0, pushes |-> {}]]
  /\ panel' = [panel EXCEPT ![p] = OutOfSync(p)]
  /\ UNCHANGED <<chatServer, task, tail, excused>>

(* The socket joins again, and the panel loads the newest page again. *)
Connect(p) ==
  /\ ~socket[p].up
  /\ LET s == [socket[p] EXCEPT !.up = TRUE] IN
       socket' = [socket EXCEPT ![p] = IF panel[p].open THEN Joins(s) ELSE s]
  /\ panel' = IF panel[p].open
              THEN [panel EXCEPT ![p].fetch = [NoFetch EXCEPT !.page = 1]] ELSE panel
  /\ UNCHANGED <<chatServer, task, tail, chatFaults, excused>>

-----------------------------------------------------------------------------
(* The panel loads and shows the history *)

OpenPanel(p) ==
  /\ ~panel[p].open /\ CanJoin(p)
  /\ panel' = [panel EXCEPT ![p] = NewPanel(TRUE, claimed)]
  /\ socket' = [socket EXCEPT ![p] = Joins(@)]
  /\ UNCHANGED <<chatServer, task, tail, chatFaults, excused>>

(* The chain of what is being sent goes on without the panel; a panel      *)
(* opened later starts another one.                                        *)
ClosePanel(p) ==
  /\ panel[p].open /\ ChatFault
  /\ panel' = [panel EXCEPT ![p] = NewPanel(FALSE, TRUE)]
  /\ socket' = [socket EXCEPT ![p] = Leaves(@)]
  /\ tail' = [tail EXCEPT ![p] = 0]
  /\ excused' = excused \cup {t \in Texts : Author[t] = p /\ task[t].step # "idle"}
  /\ UNCHANGED <<chatServer, task>>

(* The panel is shown the ticket's new status, and subscribes again. *)
StatusShown(p) ==
  /\ panel[p].open /\ panel[p].writable # claimed /\ CanJoin(p)
  /\ panel' = [panel EXCEPT ![p] = [OutOfSync(p) EXCEPT !.writable = claimed]]
  /\ socket' = [socket EXCEPT ![p] = Joins(Leaves(@))]
  /\ UNCHANGED <<chatServer, task, tail, chatFaults, excused>>

(* Page n, counted from the newest message. *)
PageOf(n) ==
  {messages[i].text : i \in {j \in DOMAIN messages :
     j > Len(messages) - n * PageSize /\ j <= Len(messages) - (n - 1) * PageSize}}

ListMessages(p) ==
  /\ panel[p].fetch.page > 0 /\ ~panel[p].fetch.read
  /\ LET n == panel[p].fetch.page IN
       panel' = [panel EXCEPT ![p].fetch =
         [page |-> n, read |-> TRUE, found |-> PageOf(n),
          more |-> Len(messages) > n * PageSize, inRoom |-> socket[p].room]]
  /\ UNCHANGED <<chatServer, socket, task, tail, chatFaults, excused>>

PageArrives(p) ==
  /\ panel[p].fetch.read
  /\ LET f == panel[p].fetch IN
       panel' = [panel EXCEPT ![p].shown = Merge(@, f.found),
         ![p].page = IF f.page > @ THEN f.page ELSE @,
         ![p].more = IF f.page >= panel[p].page THEN f.more ELSE @,
         ![p].synced = @ \/ (f.page = 1 /\ f.inRoom),
         ![p].fetch = NoFetch]
  /\ UNCHANGED <<chatServer, socket, task, tail, chatFaults, excused>>

PageFails(p) ==
  /\ panel[p].fetch.page > 0 /\ ChatFault
  /\ panel' = [panel EXCEPT ![p].fetch = NoFetch]
  /\ UNCHANGED <<chatServer, socket, task, tail, excused>>

(* Loading older messages supersedes a page that is being loaded. *)
LoadOlder(p) ==
  /\ panel[p].more /\ panel[p].fetch.page <= 1
  /\ panel' = [panel EXCEPT ![p].fetch = [NoFetch EXCEPT !.page = panel[p].page + 1]]
  /\ UNCHANGED <<chatServer, socket, task, tail, chatFaults, excused>>

-----------------------------------------------------------------------------
Sends(p) ==
  \/ \E t \in Texts : HandleSend(p, t) \/ HandleRetry(p, t) \/ SendOptimisticMessage(p, t)
  \/ \E r \in posts : AnswerArrives(p, r) \/ AnswerLost(p, r)

Serves == \E r \in posts : BeginCreate(r) \/ CommitCreate(r) \/ FailCreate(r)

Connects(p) == Disconnect(p) \/ Connect(p) \/ JoinChatRoom(p)
                 \/ \E t \in Texts : MessagePushed(p, t)

Shows(p) == OpenPanel(p) \/ ClosePanel(p) \/ StatusShown(p) \/ ListMessages(p)
              \/ PageArrives(p) \/ PageFails(p) \/ LoadOlder(p)

ChatNext == TicketChanges \/ Serves \/ \E p \in People : Sends(p) \/ Connects(p) \/ Shows(p)

ChatSpec == ChatInit /\ [][ChatNext]_chatVars

(* The service answers, the network delivers, the panel goes on with what  *)
(* it began.  Nobody has to type, retry, open or close anything.           *)
ChatFairness ==
  /\ WF_chatVars(\E r \in posts : BeginCreate(r))
  /\ WF_chatVars(\E r \in posts : CommitCreate(r))
  /\ \A t \in Texts : WF_chatVars(SendOptimisticMessage(Author[t], t))
  /\ \A p \in People :
       /\ WF_chatVars(\E r \in posts : AnswerArrives(p, r))
       /\ WF_chatVars(Connect(p)) /\ WF_chatVars(JoinChatRoom(p))
       /\ WF_chatVars(\E t \in Texts : MessagePushed(p, t))
       /\ WF_chatVars(ListMessages(p)) /\ WF_chatVars(PageArrives(p))

ChatFairSpec == ChatSpec /\ ChatFairness

-----------------------------------------------------------------------------
(* Properties *)

(* However often a text is sent, because an answer was lost or an error    *)
(* was reported, it is stored once: createMessage finds it by the client   *)
(* identifier that a retry keeps.                                          *)
MessageOnce ==
  \A i, j \in DOMAIN messages : messages[i].text = messages[j].text => i = j

(* No message is stored after the ticket stopped to be claimed: the lock   *)
(* of its row keeps the check true until the message is committed.         *)
SentWhileClaimed == [][messages' # messages => claimed]_chatVars

(* Texts are stored in the order they were typed in, except for one whose  *)
(* request failed or whose panel was closed before it was answered.        *)
OrderKept ==
  \A i, j \in DOMAIN messages :
    (/\ messages[j].text < messages[i].text
     /\ Author[messages[i].text] = Author[messages[j].text]
     /\ messages[j].text \notin excused) => j < i

(* A message that the panel shows as stored is never shown as failed or as *)
(* being sent again, whatever late answer or error arrives.                *)
StoredStaysStored ==
  [][\A p \in People, t \in Texts :
       (panel[p].shown[t] = "stored" /\ panel'[p].open) =>
         panel'[p].shown[t] = "stored"]_chatVars

(* A panel that read the newest page while its socket was in the room, and *)
(* has been there since, shows the newest messages once the pushes have    *)
(* arrived.                                                                *)
SyncedPanelShowsNewest ==
  \A p \in People : (panel[p].synced /\ socket[p].pushes = {}) =>
    \A t \in PageOf(1) : panel[p].shown[t] = "stored"

(* No message is shown as being sent for ever: it is on its way, or waits  *)
(* for another that is, also behind one that failed or that outlived its   *)
(* panel.                                                                  *)
SendsAdvance ==
  \A t \in Texts : panel[Author[t]].shown[t] = "sending" =>
    \/ task[t].step = "posting" /\ \E r \in posts : r.text = t /\ r.awaited
    \/ task[t].step = "waiting" /\ (task[t].after = 0 \/ task[task[t].after].step # "idle")

(* A stored message appears in each panel that stays open: what the socket *)
(* could not transmit is found when the panel synchronizes.                *)
MessagesArrive ==
  \A p \in People, t \in Texts :
    (t \in Stored /\ panel[p].open) ~> (~panel[p].open \/ panel[p].shown[t] = "stored")

=============================================================================
