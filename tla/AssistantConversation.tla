------------------------ MODULE AssistantConversation ------------------------
(***************************************************************************)
(* The conversations of one user with the assistant: AiService, which keeps*)
(* them in memory, AgentService, which lets the model look a ticket up and *)
(* accepts its prefill actions, GroqProvider, and the page in each tab.    *)
(*                                                                         *)
(* Requests are numbered as they are made, each made once; a Map, a        *)
(* conversation or an identifier that one makes bears its number.  What is *)
(* said is kept as the kind of the message.  The two turns of an exchange  *)
(* are stored together, so they are one element of the history.            *)
(***************************************************************************)
EXTENDS Naturals, FiniteSets, Sequences

CONSTANTS
  Tabs,              \* tabs of the user
  MaxAsks,           \* BOUND: the messages that are sent
  Tickets,           \* ticket numbers a message can name
  MaxTurns,          \* MAX_TURNS: exchanges that are remembered
  MaxConversations,  \* MAX_CONVERSATIONS_PER_USER
  MaxToolCalls,      \* MAX_TOOL_CALLS
  Nothing            \* no request, no ticket

ASSUME AssistantAssumption ==
  /\ MaxAsks \in Nat /\ Nothing \notin Nat \cup Tickets
  /\ MaxTurns \in Nat \ {0} /\ MaxConversations \in Nat \ {0} /\ MaxToolCalls \in Nat

Asks == 1 .. MaxAsks

VARIABLES
  available,      \* the department that is asked for is active
  userMap,        \* this.conversations.get(userId), or Nothing
  entries,        \* the Maps: the conversation of each identifier
  turns,          \* turns of each conversation
  held,           \* submissionOptions of each conversation
  ended,          \* the requests in the order they ended
  ask,            \* the requests
  conversationId, \* of the AssistantConversationProvider of each tab
  sending,        \* the request each page waits for
  seen,           \* requests since whose start the department was active (history)
  grounds         \* conversations in which prefilling was asked for or offered (history)

assistantVars == <<available, userMap, entries, turns, held, ended, ask,
                   conversationId, sending, seen, grounds>>

AnAsk == Asks \cup {Nothing}

(* "asks" requests a ticket; "many" names two ticket numbers. *)
Messages == {"plain", "asks", "many"} \cup Tickets

(* An offer asks the user whether to prefill the form. *)
Answers == {"text", "offer", "action"}

Exchange == [user : Messages, assistant : Answers]

(* The options name the department, do not, or are not there. *)
Options == {"none", "with", "without"}

Request ==
  [step : {"idle", "loading", "loaded", "asking", "ended"},
   tab : Tabs \cup {Nothing}, message : Messages, id : AnAsk, map : AnAsk, conversation : AnAsk,
   prefillTurn : BOOLEAN, options : Options, view : Seq(Exchange),
   calls : Nat, inspected : SUBSET Tickets, answer : Answers]

AssistantTypeOK ==
  /\ available \in BOOLEAN /\ userMap \in AnAsk
  /\ entries \in [Asks -> [Asks -> AnAsk]]
  /\ turns \in [Asks -> Seq(Exchange)] /\ held \in [Asks -> Options]
  /\ ended \in Seq(Asks) /\ ask \in [Asks -> Request]
  /\ conversationId \in [Tabs -> AnAsk] /\ sending \in [Tabs -> AnAsk]
  /\ seen \subseteq Asks /\ grounds \subseteq Asks

NoRequest ==
  [step |-> "idle", tab |-> Nothing, message |-> "plain", id |-> Nothing, map |-> Nothing,
   conversation |-> Nothing, prefillTurn |-> FALSE, options |-> "none", view |-> <<>>,
   calls |-> 0, inspected |-> {}, answer |-> "text"]

AssistantInit ==
  /\ available \in BOOLEAN /\ userMap = Nothing
  /\ entries = [m \in Asks |-> [i \in Asks |-> Nothing]]
  /\ turns = [c \in Asks |-> <<>>] /\ held = [c \in Asks |-> "none"]
  /\ ended = <<>> /\ ask = [r \in Asks |-> NoRequest]
  /\ conversationId = [t \in Tabs |-> Nothing] /\ sending = [t \in Tabs |-> Nothing]
  /\ seen = {} /\ grounds = {}

tabPage == <<conversationId, sending>>

memory == <<userMap, entries, turns, ended, grounds>>

-----------------------------------------------------------------------------
(* What AgentService reads from the turns *)

HasPrefillContext(view, message) ==
  \/ message = "asks"
  \/ \E i \in DOMAIN view : view[i].user = "asks" \/ view[i].assistant # "text"

HasPendingPrefillOffer(view) ==
  view # <<>> /\ view[Len(view)].assistant = "offer"

(* The ticket that the request, or else the latest message that named one, *)
(* is about.                                                               *)
ExpectedTicket(view, message) ==
  LET named == {i \in DOMAIN view : view[i].user \in Tickets} IN
  IF message \in Tickets THEN message
  ELSE IF named = {} THEN Nothing
  ELSE view[CHOOSE i \in named : \A j \in named : j <= i].user

(* normalizeResponse, for what the model answers. *)
NormalizeResponse(answer, options, context) ==
  IF answer # "action" THEN answer
  ELSE IF ~context THEN "offer"
  ELSE IF options = "with" THEN "action" ELSE "text"

-----------------------------------------------------------------------------
(* AiService.respond *)

(* Mutation: the options are loaded once. *)
BugShouldLoadOptions(options, prefillTurn) == options = "none"

ShouldLoadOptions(options, prefillTurn) == options = "none" \/ prefillTurn

(* agent.respond takes its copy of the turns; two ticket numbers are       *)
(* refused without the model.                                              *)
BeginAgent(req) == [req EXCEPT !.step = "asking", !.view = turns[req.conversation]]

SendMessage(t, r, message) ==
  LET id   == IF conversationId[t] = Nothing THEN r ELSE conversationId[t]
      map  == IF userMap = Nothing THEN r ELSE userMap
      c    == IF entries[map][id] = Nothing THEN r ELSE entries[map][id]
      turn == HasPendingPrefillOffer(turns[c]) \/ message = "asks"
      req  == [NoRequest EXCEPT !.step = "loading", !.tab = t, !.message = message,
                 !.id = id, !.map = map, !.conversation = c, !.prefillTurn = turn,
                 !.options = held[c]]
  IN /\ sending[t] = Nothing
     /\ ask[r].step = "idle" /\ \A q \in 1 .. r - 1 : ask[q].step # "idle"
     /\ ask' = [ask EXCEPT ![r] =
                  IF ShouldLoadOptions(held[c], turn) THEN req ELSE BeginAgent(req)]
     /\ sending' = [sending EXCEPT ![t] = r]
     /\ seen' = IF available THEN seen \cup {r} ELSE seen
     /\ UNCHANGED <<available, memory, held, conversationId>>

(* SubmissionContextService.load reads the departments of the user. *)
ReadOptions(r) ==
  /\ ask[r].step = "loading"
  /\ ask' = [ask EXCEPT ![r].step = "loaded",
                        ![r].options = IF available THEN "with" ELSE "without"]
  /\ UNCHANGED <<available, memory, held, tabPage, seen>>

OptionsLoaded(r) ==
  /\ ask[r].step = "loaded"
  /\ held' = [held EXCEPT ![ask[r].conversation] = ask[r].options]
  /\ ask' = [ask EXCEPT ![r] = BeginAgent(@)]
  /\ UNCHANGED <<available, memory, tabPage, seen>>

OptionsFail(r) ==
  /\ ask[r].step = "loading"
  /\ held' = [held EXCEPT ![ask[r].conversation] = "none"]
  /\ ask' = [ask EXCEPT ![r] = BeginAgent([@ EXCEPT !.options = "none"])]
  /\ UNCHANGED <<available, memory, tabPage, seen>>

LastUsed(c) == CHOOSE i \in 1 .. Len(ended)' :
                 /\ ask[ended'[i]].conversation = c
                 /\ \A j \in i + 1 .. Len(ended)' : ask[ended'[j]].conversation # c

(* Mutation: the newest are forgotten. *)
BugOlder(c, d) == LastUsed(d) < LastUsed(c)

Older(c, d) == LastUsed(c) < LastUsed(d)

(* pruneConversations forgets the conversations used longest ago. *)
Pruned(map) ==
  [i \in Asks |->
     IF /\ map[i] # Nothing
        /\ Cardinality({j \in Asks : map[j] # Nothing /\ Older(map[i], map[j])})
             >= MaxConversations
     THEN Nothing ELSE map[i]]

LatestTurns(s) == SubSeq(s, IF Len(s) > MaxTurns THEN Len(s) - MaxTurns + 1 ELSE 1, Len(s))

(* The exchange is stored, and the conversation with it.  The Map that the *)
(* request found, or made, becomes the Map of the user.                    *)
EndRespond(r, answer) ==
  LET q == ask[r]
      c == q.conversation
  IN /\ ask' = [ask EXCEPT ![r].step = "ended", ![r].answer = answer, ![r].view = <<>>,
                             ![r].options = "none", ![r].calls = 0]
     /\ turns' = [turns EXCEPT ![c] =
                    LatestTurns(Append(@, [user |-> q.message, assistant |-> answer]))]
     /\ ended' = Append(ended, r)
     /\ entries' = [entries EXCEPT ![q.map] = Pruned([@ EXCEPT ![q.id] = c])]
     /\ userMap' = q.map
     /\ grounds' = IF q.message = "asks" \/ answer # "text" THEN grounds \cup {c} ELSE grounds
     /\ UNCHANGED <<available, held, tabPage, seen>>

RefuseTickets(r) ==
  /\ ask[r].step = "asking" /\ ask[r].message = "many" /\ EndRespond(r, "text")

-----------------------------------------------------------------------------
(* AgentService.respond and GroqProvider.generate *)

Asking(r) == ask[r].step = "asking" /\ ask[r].message # "many"

ModelAnswers(r) ==
  /\ Asking(r)
  /\ \E answer \in Answers :
       EndRespond(r, NormalizeResponse(answer, ask[r].options,
                                       HasPrefillContext(ask[r].view, ask[r].message)))

(* generate failed, after its attempts or at a rate limit, or the model    *)
(* answered nothing valid: the user gets the fallback message.             *)
Fallback(r) == Asking(r) /\ EndRespond(r, "text")

(* Mutation: any ticket the model names is looked up. *)
BugMayInspect(q, number) == TRUE

(* The ticket of the request, once. *)
MayInspect(q, number) ==
  q.inspected = {} /\ number = ExpectedTicket(q.view, q.message)

(* The registry looks a ticket up for the user; one they may not see, or   *)
(* that is not there, is a refusal too.                                    *)
LookUp(q, numbers) ==
  [q EXCEPT !.inspected = @ \cup {k \in numbers : MayInspect(q, k)}]

(* The model calls the tool n times, for these tickets: without a ticket in*)
(* the conversation, or too often, that is the end.  What may not be       *)
(* inspected is answered with a refusal.                                   *)
ModelCallsTool(r) ==
  \E n \in 1 .. MaxToolCalls + 1, numbers \in SUBSET Tickets :
    /\ Asking(r)
    /\ IF ExpectedTicket(ask[r].view, ask[r].message) = Nothing
            \/ ask[r].calls + n > MaxToolCalls
       THEN EndRespond(r, "text")
       ELSE /\ ask' = [ask EXCEPT ![r] = LookUp([ask[r] EXCEPT !.calls = @ + n], numbers)]
            /\ UNCHANGED <<available, memory, held, tabPage, seen>>

-----------------------------------------------------------------------------
(* The page *)

(* A page waits for its own request only. *)
EndSending(t, r) == sending' = [sending EXCEPT ![t] = IF @ = r THEN Nothing ELSE @]

(* The provider of the tab takes the identifier, also when the page has    *)
(* been left since, or another request been answered.                      *)
AnswerShown(t, r) ==
  /\ ask[r].tab = t /\ ask[r].step = "ended"
  /\ ask' = [ask EXCEPT ![r].tab = Nothing]
  /\ conversationId' = [conversationId EXCEPT ![t] = ask[r].id]
  /\ EndSending(t, r)
  /\ UNCHANGED <<available, memory, held, seen>>

AskFails(t, r) ==
  /\ ask[r].tab = t /\ ask' = [ask EXCEPT ![r].tab = Nothing]
  /\ EndSending(t, r)
  /\ UNCHANGED <<available, memory, held, conversationId, seen>>

(* The page is left, and opened again. *)
LeaveAssistant(t) ==
  /\ sending[t] # Nothing /\ sending' = [sending EXCEPT ![t] = Nothing]
  /\ UNCHANGED <<available, memory, held, ask, conversationId, seen>>

DepartmentChanges ==
  /\ available' = ~available
  /\ seen' = IF available' THEN {r \in Asks : ask[r].step # "idle"} ELSE seen
  /\ UNCHANGED <<memory, held, ask, tabPage>>

AssistantNext ==
  \/ \E t \in Tabs, r \in Asks :
       AnswerShown(t, r) \/ AskFails(t, r) \/ \E message \in Messages : SendMessage(t, r, message)
  \/ \E t \in Tabs : LeaveAssistant(t)
  \/ \E r \in Asks :
       \/ ReadOptions(r) \/ OptionsLoaded(r) \/ OptionsFail(r) \/ RefuseTickets(r)
       \/ ModelAnswers(r) \/ Fallback(r) \/ ModelCallsTool(r)
  \/ DepartmentChanges

AssistantSpec == AssistantInit /\ [][AssistantNext]_assistantVars

-----------------------------------------------------------------------------
(* Properties *)

(* An answer carries a prefill action only in a conversation in which the  *)
(* user asked for a ticket or was offered one, and when the message asks   *)
(* for it or confirms an offer, only for a department that was active      *)
(* while the request ran: whatever the model answers, and whatever options *)
(* another request of the conversation leaves behind.                      *)
PrefillJustified ==
  [][\A r \in Asks :
       (ask[r].answer # "action" /\ ask'[r].answer = "action")
         => /\ ask[r].message = "asks" \/ ask[r].conversation \in grounds
            /\ ask[r].prefillTurn => r \in seen]_assistantVars

(* A request looks at most one ticket up, and only one the user named in   *)
(* this conversation.                                                      *)
OneTicketInspected ==
  \A r \in Asks :
    /\ Cardinality(ask[r].inspected) <= 1
    /\ \A k \in ask[r].inspected :
         \E q \in Asks : ask[q].conversation = ask[r].conversation /\ ask[q].message = k

(* The conversations used last are remembered, with the exchange that came *)
(* last; except that of two requests that found the user without any       *)
(* conversation, each makes a Map and the later one replaces the other.    *)
Forgotten(r) ==
  LET later == {j \in 1 .. Len(ended) :
                  /\ ask[ended[j]].map = userMap
                  /\ \A i \in j .. Len(ended) :
                       ask[ended[i]].map = userMap => ask[ended[i]].id # ask[r].id}
  IN Cardinality({ask[ended[j]].id : j \in later}) >= MaxConversations

ConversationKept ==
  \A r \in Asks :
    (ask[r].step = "ended" /\ ask[r].map = userMap /\ ~Forgotten(r))
      => entries[userMap][ask[r].id] # Nothing

=============================================================================
