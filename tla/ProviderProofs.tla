---------------------------- MODULE ProviderProofs ----------------------------
(***************************************************************************)
(* The services that work with a provider outside, the assistant with the  *)
(* model and the notifications with the e-mail provider: the proofs about  *)
(* AssistantConversation and Notifications, for any number of requests,    *)
(* tabs, tickets, changes and recipients, and whatever the limits are.     *)
(***************************************************************************)
EXTENDS AssistantConversation, Notifications, FiniteSetTheorems, SequenceTheorems,
        NaturalsInduction, WellFoundedInduction, TLAPS

-----------------------------------------------------------------------------
(* The assistant *)

Begun(r) == ask[r].step # "idle"

Context(exchange) == exchange.user = "asks" \/ exchange.assistant # "text"

(* The user named this ticket in the conversation. *)
Named(c, k) == \E q \in Asks : ask[q].conversation = c /\ ask[q].message = k

(* What is in the turns of a conversation was said in it. *)
SaidIn(c, exchanges) ==
  \A i \in DOMAIN exchanges :
    /\ exchanges[i].user \in Tickets => Named(c, exchanges[i].user)
    /\ Context(exchanges[i]) => c \in grounds

(* A conversation is of one Map and one identifier, those of the request   *)
(* that began it.                                                          *)
ConversationsAtHome ==
  \A r \in Asks :
    /\ Begun(r) =>
         LET c == ask[r].conversation IN
         /\ ask[r].id \in Asks /\ ask[r].map \in Asks /\ c \in Asks
         /\ Begun(c) /\ ask[c].map = ask[r].map /\ ask[c].id = ask[r].id
         /\ ask[c].conversation = c
    /\ ~Begun(r) => turns[r] = <<>> /\ ask[r].conversation = Nothing /\ ask[r].inspected = {}

TurnsSaid ==
  /\ \A c \in Asks : SaidIn(c, turns[c])
  /\ \A r \in Asks : ask[r].step = "asking" => SaidIn(ask[r].conversation, ask[r].view)

(* A request that is to load the options does so before it uses them.      *)
OptionsFresh ==
  \A r \in Asks :
    /\ available /\ Begun(r) => r \in seen
    /\ (ask[r].prefillTurn /\ ask[r].step \in {"loaded", "asking"} /\ ask[r].options = "with")
         => r \in seen

Uses(k, m, i) == ask[ended[k]].map = m /\ ask[ended[k]].id = i

EndedOnce ==
  /\ \A k \in DOMAIN ended : ask[ended[k]].step = "ended"
  /\ \A r \in Asks : ask[r].step = "ended" => \E k \in DOMAIN ended : ended[k] = r

(* A Map holds the conversation that was last used under an identifier.    *)
EntriesLatest ==
  \A m, i \in Asks :
    entries[m][i] # Nothing =>
      \E k \in DOMAIN ended :
        /\ Uses(k, m, i) /\ ask[ended[k]].conversation = entries[m][i]
        /\ \A l \in DOMAIN ended : k < l => ~Uses(l, m, i)

(* The other identifiers that were used in a Map since one was.            *)
Since(m, i) ==
  {ask[ended[j]].id : j \in {j \in DOMAIN ended :
     /\ ask[ended[j]].map = m
     /\ \A l \in j .. Len(ended) : ~Uses(l, m, i)}}

(* What is no longer in a Map had to make room for as many as are kept.    *)
ForgottenForOthers ==
  \A m, i \in Asks :
    (entries[m][i] = Nothing /\ \E k \in DOMAIN ended : Uses(k, m, i))
      => Cardinality(Since(m, i)) >= MaxConversations

AssistantInv ==
  /\ AssistantTypeOK /\ ConversationsAtHome /\ TurnsSaid /\ OneTicketInspected /\ OptionsFresh
  /\ EndedOnce /\ EntriesLatest /\ ForgottenForOthers

-----------------------------------------------------------------------------
(* What the model is given *)

(* A non-empty set of numbers up to n has a greatest one. *)
LEMMA GreatestNumber ==
  ASSUME NEW n \in Nat, NEW S \in SUBSET (1 .. n), S # {}
  PROVE  \E m \in S : \A k \in S : k <= m
<1> DEFINE distances == {n - i : i \in S}
           less == {ss \in Nat \X Nat : ss[1] < ss[2]}
<1>1. distances \subseteq Nat
  OBVIOUS
<1>2. distances # {}
  <2>1. PICK i \in S : TRUE
    OBVIOUS
  <2>2. n - i \in distances
    BY <2>1
  <2> QED
    BY <2>2
<1>3. IsWellFoundedOn(less, Nat)
  BY NatLessThanWellFounded DEF OpToRel
<1> HIDE DEF distances, less
<1>4. PICK d \in distances : \A e \in distances : ~ (<<e, d>> \in less)
  <2>1. \A R, S1, T : (IsWellFoundedOn(R, S1) /\ T \subseteq S1 /\ T # {})
                       => \E x \in T : \A y \in T : ~ (<<y, x>> \in R)
    BY WFMin, Zenon
  <2> QED
    BY <1>1, <1>2, <1>3, <2>1, Zenon
<1>5. \A e \in distances : d <= e
  <2> SUFFICES ASSUME NEW e \in distances, ~(d <= e) PROVE FALSE
    OBVIOUS
  <2>1. e \in Nat /\ d \in Nat /\ e < d
    BY <1>1
  <2>2. <<e, d>> \in less
    BY <2>1 DEF less
  <2> QED
    BY <1>4, <2>2
<1>6. PICK m \in S : d = n - m
  BY DEF distances
<1>7. \A k \in S : n - k \in distances
  BY DEF distances
<1>8. \A k \in S : n - m <= n - k
  BY <1>5, <1>6, <1>7
<1> QED
  BY <1>6, <1>8

(* The ticket a request is about was named in it or in the turns it has.   *)
LEMMA ExpectedTicketNamed ==
  ASSUME NEW view \in Seq(Exchange), NEW message \in Messages,
         NEW k \in Tickets, k = ExpectedTicket(view, message)
  PROVE  k = message \/ \E i \in DOMAIN view : view[i].user = k
<1> DEFINE named == {i \in DOMAIN view : view[i].user \in Tickets}
           last == CHOOSE i \in named : \A j \in named : j <= i
<1>1. CASE message \in Tickets
  BY <1>1 DEF ExpectedTicket
<1>2. CASE message \notin Tickets
  <2>1. named # {} /\ k = view[last].user
    BY <1>2, AssistantAssumption DEF ExpectedTicket
  <2>2. named \in SUBSET (1 .. Len(view)) /\ Len(view) \in Nat
    BY LenProperties
  <2>3. \E i \in named : \A j \in named : j <= i
    BY <2>1, <2>2, GreatestNumber
  <2>4. last \in named
    BY <2>3
  <2> QED
    BY <2>1, <2>4
<1> QED
  BY <1>1, <1>2

(* The registry is asked for the ticket of the request, and once.          *)
LEMMA LookUpEffect ==
  ASSUME NEW q \in Request, NEW numbers \in SUBSET Tickets
  PROVE  /\ LookUp(q, numbers) \in Request
         /\ LookUp(q, numbers) = [q EXCEPT !.inspected = LookUp(q, numbers).inspected]
         /\ \/ LookUp(q, numbers).inspected = q.inspected
            \/ LookUp(q, numbers).inspected \in
                 SUBSET (Tickets \cap {ExpectedTicket(q.view, q.message)})
<1> DEFINE inspected == q.inspected \cup {k \in numbers : MayInspect(q, k)}
<1>1. LookUp(q, numbers) = [q EXCEPT !.inspected = inspected]
  BY DEF LookUp, Request
<1>2. inspected \in SUBSET Tickets
  BY DEF Request
<1>3. \/ inspected = q.inspected
      \/ inspected \in SUBSET (Tickets \cap {ExpectedTicket(q.view, q.message)})
  BY <1>2 DEF MayInspect
<1> HIDE DEF inspected
<1> QED
  BY <1>1, <1>2, <1>3 DEF Request

(* The turns kept of a conversation are turns of it. *)
LEMMA LatestTurnsOf ==
  ASSUME NEW s \in Seq(Exchange)
  PROVE  /\ LatestTurns(s) \in Seq(Exchange)
         /\ \A i \in DOMAIN LatestTurns(s) : \E j \in DOMAIN s : LatestTurns(s)[i] = s[j]
<1> DEFINE first == IF Len(s) > MaxTurns THEN Len(s) - MaxTurns + 1 ELSE 1
<1>1. Len(s) \in Nat /\ DOMAIN s = 1 .. Len(s) /\ first \in Int /\ first >= 1
  BY AssistantAssumption, LenProperties
<1>2. LatestTurns(s) = SubSeq(s, first, Len(s))
  BY DEF LatestTurns
<1> HIDE DEF first
<1>3. \A i \in first .. Len(s) : s[i] \in Exchange
  BY <1>1
<1>4. /\ LatestTurns(s) \in Seq(Exchange)
      /\ Len(LatestTurns(s)) = IF first <= Len(s) THEN Len(s) - first + 1 ELSE 0
      /\ \A i \in 1 .. Len(s) - first + 1 : LatestTurns(s)[i] = s[first + i - 1]
  BY <1>1, <1>2, <1>3, SubSeqProperties
<1>5. DOMAIN LatestTurns(s) = 1 .. Len(LatestTurns(s))
  BY <1>4, LenProperties
<1>6. \A i \in DOMAIN LatestTurns(s) : first + i - 1 \in 1 .. Len(s)
                                     /\ i \in 1 .. Len(s) - first + 1
  BY <1>1, <1>4, <1>5
<1> QED
  BY <1>1, <1>4, <1>6

-----------------------------------------------------------------------------
(* The steps of the assistant *)

(* No request is a request record. *)
LEMMA NoRequestType == NoRequest \in Request
BY DEF NoRequest, Request, AnAsk, Messages, Answers, Options

(* Initially nothing is asked and nothing is kept. *)
LEMMA AssistantInitially == AssistantInit => AssistantInv
<1> SUFFICES ASSUME AssistantInit PROVE AssistantInv
  OBVIOUS
<1>1. NoRequest \in Request
  BY NoRequestType
<1>2. ask \in [Asks -> Request] /\ \A r \in Asks : ask[r] = NoRequest
  BY <1>1 DEF AssistantInit
<1>3. /\ NoRequest.step = "idle" /\ NoRequest.conversation = Nothing
      /\ NoRequest.inspected = {}
  BY DEF NoRequest
<1>4. AssistantTypeOK
  <2>1. <<>> \in Seq(Exchange) /\ <<>> \in Seq(Asks) /\ Nothing \in AnAsk /\ "none" \in Options
    BY DEF AnAsk, Options
  <2>2. entries \in [Asks -> [Asks -> AnAsk]] /\ turns \in [Asks -> Seq(Exchange)]
    BY <2>1 DEF AssistantInit
  <2> QED
    BY <1>2, <2>1, <2>2 DEF AssistantInit, AssistantTypeOK
<1>5. ConversationsAtHome
  BY <1>2, <1>3 DEF ConversationsAtHome, Begun, AssistantInit
<1>6. TurnsSaid
  BY <1>2, <1>3 DEF TurnsSaid, SaidIn, AssistantInit
<1>7. OneTicketInspected
  BY <1>2, <1>3, FS_EmptySet DEF OneTicketInspected
<1>8. OptionsFresh
  BY <1>2, <1>3 DEF OptionsFresh, Begun
<1>9. EndedOnce /\ EntriesLatest /\ ForgottenForOthers
  <2>1. DOMAIN ended = {} /\ \A m, i \in Asks : entries[m][i] = Nothing
    BY DEF AssistantInit
  <2> QED
    BY <1>2, <1>3, <2>1 DEF EndedOnce, EntriesLatest, ForgottenForOthers
<1> QED
  BY <1>4, <1>5, <1>6, <1>7, <1>8, <1>9 DEF AssistantInv

(* A request goes on and keeps what it is about; nothing is stored.        *)
LEMMA RequestGoesOn ==
  ASSUME AssistantInv, NEW r \in Asks, NEW q \in Request, ask' = [ask EXCEPT ![r] = q],
         q.id = ask[r].id, q.map = ask[r].map, q.conversation = ask[r].conversation,
         q.message = ask[r].message, q.prefillTurn = ask[r].prefillTurn,
         q.step = "idle" <=> ask[r].step = "idle",
         q.step = "ended" <=> ask[r].step = "ended",
         UNCHANGED <<available, memory, seen>>,
         held' \in [Asks -> Options], conversationId' \in [Tabs -> AnAsk],
         sending' \in [Tabs -> AnAsk],
         q.step = "asking" => SaidIn(q.conversation, q.view),
         Cardinality(q.inspected) <= 1, q.step = "idle" => q.inspected = {},
         \A k \in q.inspected : Named(q.conversation, k),
         (q.prefillTurn /\ q.step \in {"loaded", "asking"} /\ q.options = "with") => r \in seen
  PROVE  AssistantInv'
<1>0. /\ ask \in [Asks -> Request] /\ ask' \in [Asks -> Request] /\ ask'[r] = q
      /\ \A p \in Asks \ {r} : ask'[p] = ask[p]
      /\ ended \in Seq(Asks) /\ AssistantTypeOK
  BY DEF AssistantInv, AssistantTypeOK
<1>1. \A p \in Asks :
        /\ ask'[p].id = ask[p].id /\ ask'[p].map = ask[p].map
        /\ ask'[p].conversation = ask[p].conversation /\ ask'[p].message = ask[p].message
        /\ ask'[p].step = "idle" <=> ask[p].step = "idle"
        /\ ask'[p].step = "ended" <=> ask[p].step = "ended"
  BY <1>0
<1>2. /\ available' = available /\ userMap' = userMap /\ entries' = entries /\ turns' = turns
      /\ ended' = ended /\ grounds' = grounds /\ seen' = seen
  BY DEF memory
<1>3. AssistantTypeOK'
  BY <1>0, <1>2 DEF AssistantTypeOK
<1>4. ConversationsAtHome'
  BY <1>0, <1>1, <1>2 DEF AssistantInv, ConversationsAtHome, Begun
<1>5. \A c, k : Named(c, k) => Named(c, k)'
  BY <1>1 DEF Named
<1>6. \A c, exchanges : SaidIn(c, exchanges) => SaidIn(c, exchanges)'
  BY <1>2, <1>5 DEF SaidIn
<1>7. TurnsSaid'
  <2>1. \A c \in Asks : SaidIn(c, turns[c])'
    BY <1>2, <1>6 DEF AssistantInv, TurnsSaid
  <2>2. \A p \in Asks : ask'[p].step = "asking" => SaidIn(ask'[p].conversation, ask'[p].view)
    BY <1>0 DEF AssistantInv, TurnsSaid
  <2>3. \A p \in Asks : ask'[p].step = "asking" => SaidIn(ask[p].conversation, ask[p].view)'
    BY <1>2, <1>5, <2>2 DEF SaidIn
  <2> QED
    BY <1>2, <2>1, <2>3 DEF TurnsSaid
<1>8. OneTicketInspected'
  BY <1>0, <1>1, <1>5 DEF AssistantInv, OneTicketInspected, Named
<1>9. OptionsFresh'
  BY <1>0, <1>1, <1>2 DEF AssistantInv, OptionsFresh, Begun
<1>10. \A k \in DOMAIN ended : ended[k] \in Asks
  BY <1>0
<1>11. EndedOnce'
  BY <1>1, <1>2, <1>10 DEF AssistantInv, EndedOnce
<1>12. \A k \in DOMAIN ended, m, i \in Asks : Uses(k, m, i)' <=> Uses(k, m, i)
  BY <1>1, <1>2, <1>10 DEF Uses
<1>13. EntriesLatest'
  BY <1>1, <1>2, <1>10, <1>12 DEF AssistantInv, EntriesLatest
<1>14. \A m, i \in Asks : Since(m, i)' = Since(m, i)
  <2> TAKE m, i \in Asks
  <2>1. DOMAIN ended = 1 .. Len(ended) /\ Len(ended) \in Nat
    BY <1>0
  <2>2. \A j \in DOMAIN ended :
          /\ ask'[ended[j]].map = ask[ended[j]].map /\ ask'[ended[j]].id = ask[ended[j]].id
          /\ \A l \in j .. Len(ended) : l \in DOMAIN ended
    BY <1>1, <1>10, <2>1
  <2> QED
    BY <1>2, <1>12, <2>2 DEF Since
<1>15. ForgottenForOthers'
  BY <1>2, <1>12, <1>14 DEF AssistantInv, ForgottenForOthers
<1> QED
  BY <1>3, <1>4, <1>7, <1>8, <1>9, <1>11, <1>13, <1>15 DEF AssistantInv

(* The submission options of a request are read or fail. *)
LEMMA OptionsStep ==
  ASSUME AssistantInv, NEW r \in Asks, ReadOptions(r) \/ OptionsLoaded(r) \/ OptionsFail(r)
  PROVE  AssistantInv'
<1>0. /\ ask \in [Asks -> Request] /\ ask[r] \in Request /\ held \in [Asks -> Options]
      /\ turns \in [Asks -> Seq(Exchange)]
      /\ conversationId \in [Tabs -> AnAsk] /\ sending \in [Tabs -> AnAsk]
      /\ UNCHANGED <<available, memory, tabPage, seen>>
  BY DEF AssistantInv, AssistantTypeOK, ReadOptions, OptionsLoaded, OptionsFail
<1>1. /\ conversationId' \in [Tabs -> AnAsk] /\ sending' \in [Tabs -> AnAsk]
      /\ Cardinality(ask[r].inspected) <= 1
      /\ \A k \in ask[r].inspected : Named(ask[r].conversation, k)
  BY <1>0 DEF AssistantInv, OneTicketInspected, tabPage, Named
<1>2. ask[r].step # "idle" =>
        ask[r].conversation \in Asks /\ SaidIn(ask[r].conversation, turns[ask[r].conversation])
  BY DEF AssistantInv, ConversationsAtHome, Begun, TurnsSaid
<1>3. CASE ReadOptions(r)
  <2> DEFINE options == IF available THEN "with" ELSE "without"
             q == [ask[r] EXCEPT !.step = "loaded", !.options = options]
  <2>1. options \in Options /\ (options = "with" => available)
    BY DEF Options
  <2>2. ask' = [ask EXCEPT ![r] = q] /\ ask[r].step = "loading" /\ held' = held
    BY <1>0, <1>3 DEF ReadOptions, Request
  <2> HIDE DEF options
  <2>3. /\ q \in Request /\ q.step = "loaded" /\ q.options = options
        /\ q.id = ask[r].id /\ q.map = ask[r].map /\ q.conversation = ask[r].conversation
        /\ q.message = ask[r].message /\ q.prefillTurn = ask[r].prefillTurn
        /\ q.inspected = ask[r].inspected
    BY <1>0, <2>1 DEF Request
  <2> HIDE DEF q
  <2>4. q.options = "with" => r \in seen
    BY <2>1, <2>2, <2>3 DEF AssistantInv, OptionsFresh, Begun
  <2> QED
    BY <1>0, <1>1, <2>2, <2>3, <2>4, RequestGoesOn
<1>4. CASE OptionsLoaded(r)
  <2> DEFINE c == ask[r].conversation
             q == [ask[r] EXCEPT !.step = "asking", !.view = turns[c]]
  <2>1. ask' = [ask EXCEPT ![r] = q] /\ ask[r].step = "loaded"
    BY <1>0, <1>4 DEF OptionsLoaded, BeginAgent, Request
  <2>2. c \in Asks /\ SaidIn(c, turns[c]) /\ turns[c] \in Seq(Exchange)
    BY <1>0, <1>2, <2>1
  <2>3. /\ q \in Request /\ q.step = "asking" /\ q.view = turns[c] /\ q.options = ask[r].options
        /\ q.id = ask[r].id /\ q.map = ask[r].map /\ q.conversation = ask[r].conversation
        /\ q.message = ask[r].message /\ q.prefillTurn = ask[r].prefillTurn
        /\ q.inspected = ask[r].inspected
    BY <1>0, <2>2 DEF Request
  <2>4. held' \in [Asks -> Options]
    <3>1. ask[r].options \in Options
      BY <1>0 DEF Request
    <3>2. held' = [held EXCEPT ![ask[r].conversation] = ask[r].options]
      BY <1>4 DEF OptionsLoaded
    <3> QED
      BY <1>0, <3>1, <3>2
  <2>5. (ask[r].prefillTurn /\ ask[r].options = "with") => r \in seen
    BY <2>1 DEF AssistantInv, OptionsFresh
  <2> HIDE DEF q
  <2> QED
    BY <1>0, <1>1, <2>1, <2>2, <2>3, <2>4, <2>5, RequestGoesOn
<1>5. CASE OptionsFail(r)
  <2> DEFINE c == ask[r].conversation
             q == [ask[r] EXCEPT !.options = "none", !.step = "asking", !.view = turns[c]]
  <2>1. ask' = [ask EXCEPT ![r] = q] /\ ask[r].step = "loading"
    BY <1>0, <1>5 DEF OptionsFail, BeginAgent, Request
  <2>2. c \in Asks /\ SaidIn(c, turns[c]) /\ turns[c] \in Seq(Exchange) /\ "none" \in Options
    BY <1>0, <1>2, <2>1 DEF Options
  <2>3. /\ q \in Request /\ q.step = "asking" /\ q.view = turns[c] /\ q.options = "none"
        /\ q.id = ask[r].id /\ q.map = ask[r].map /\ q.conversation = ask[r].conversation
        /\ q.message = ask[r].message /\ q.prefillTurn = ask[r].prefillTurn
        /\ q.inspected = ask[r].inspected
    BY <1>0, <2>2 DEF Request
  <2>4. held' \in [Asks -> Options]
    <3>1. held' = [held EXCEPT ![ask[r].conversation] = "none"]
      BY <1>5 DEF OptionsFail
    <3> QED
      BY <1>0, <2>2, <3>1
  <2> HIDE DEF q
  <2> QED
    BY <1>0, <1>1, <2>1, <2>2, <2>3, <2>4, RequestGoesOn
<1> QED
  BY <1>3, <1>4, <1>5

(* What is stored and what was asked are the same.                         *)
LEMMA NothingStored ==
  ASSUME AssistantInv, UNCHANGED <<userMap, entries, turns, ended, grounds, ask>>
  PROVE  (/\ ConversationsAtHome /\ TurnsSaid /\ OneTicketInspected
          /\ EndedOnce /\ EntriesLatest /\ ForgottenForOthers)'
<1>1. /\ entries' = entries /\ turns' = turns /\ ended' = ended /\ grounds' = grounds
      /\ ask' = ask
  OBVIOUS
<1>2. ConversationsAtHome' /\ TurnsSaid' /\ OneTicketInspected'
  BY <1>1
     DEF AssistantInv, ConversationsAtHome, TurnsSaid, OneTicketInspected, Begun, SaidIn, Named
<1>3. EndedOnce' /\ EntriesLatest' /\ ForgottenForOthers'
  BY <1>1 DEF AssistantInv, EndedOnce, EntriesLatest, ForgottenForOthers, Since, Uses
<1> QED
  BY <1>2, <1>3

(* The page shows an answer or is left; a department changes. *)
LEMMA PageStep ==
  ASSUME AssistantInv,
         \/ \E t \in Tabs, r \in Asks : AnswerShown(t, r) \/ AskFails(t, r)
         \/ \E t \in Tabs : LeaveAssistant(t)
         \/ DepartmentChanges
  PROVE  AssistantInv'
<1>0. /\ ask \in [Asks -> Request] /\ held \in [Asks -> Options]
      /\ conversationId \in [Tabs -> AnAsk] /\ sending \in [Tabs -> AnAsk]
      /\ Nothing \in AnAsk
  BY DEF AssistantInv, AssistantTypeOK, AnAsk
<1>1. ASSUME NEW t \in Tabs, NEW r \in Asks, AnswerShown(t, r) \/ AskFails(t, r)
      PROVE  AssistantInv'
  <2> DEFINE q == [ask[r] EXCEPT !.tab = Nothing]
  <2>1. ask' = [ask EXCEPT ![r] = q] /\ ask[r] \in Request
    BY <1>0, <1>1 DEF AnswerShown, AskFails, Request
  <2>2. /\ q \in Request /\ q.step = ask[r].step /\ q.view = ask[r].view
        /\ q.options = ask[r].options
        /\ q.id = ask[r].id /\ q.map = ask[r].map /\ q.conversation = ask[r].conversation
        /\ q.message = ask[r].message /\ q.prefillTurn = ask[r].prefillTurn
        /\ q.inspected = ask[r].inspected
    BY <2>1 DEF Request
  <2> HIDE DEF q
  <2>3. /\ UNCHANGED <<available, memory, seen>> /\ held' \in [Asks -> Options]
        /\ sending' \in [Tabs -> AnAsk] /\ ask[r].id \in AnAsk
        /\ conversationId' \in [Tabs -> AnAsk]
    <3>1. /\ UNCHANGED <<available, memory, held, seen>> /\ EndSending(t, r)
          /\ \/ conversationId' = [conversationId EXCEPT ![t] = ask[r].id]
             \/ conversationId' = conversationId
      BY <1>1 DEF AnswerShown, AskFails
    <3>2. ask[r].id \in AnAsk
      BY <2>1 DEF Request
    <3>3. sending' \in [Tabs -> AnAsk]
      <4>1. \/ sending' = [sending EXCEPT ![t] = Nothing]
            \/ sending' = [sending EXCEPT ![t] = sending[t]]
        BY <3>1 DEF EndSending
      <4> QED
        BY <1>0, <4>1
    <3> QED
      BY <1>0, <3>1, <3>2, <3>3
  <2>4. /\ Cardinality(q.inspected) <= 1
        /\ \A k \in q.inspected : Named(q.conversation, k)
        /\ q.step = "idle" => q.inspected = {}
    BY <2>2 DEF AssistantInv, OneTicketInspected, ConversationsAtHome, Begun, Named
  <2>5. /\ q.step = "asking" => SaidIn(q.conversation, q.view)
        /\ (q.prefillTurn /\ q.step \in {"loaded", "asking"} /\ q.options = "with") => r \in seen
    BY <2>2 DEF AssistantInv, TurnsSaid, OptionsFresh
  <2> QED
    BY <2>1, <2>2, <2>3, <2>4, <2>5, RequestGoesOn
<1>2. ASSUME NEW t \in Tabs, LeaveAssistant(t) PROVE AssistantInv'
  <2>1. /\ UNCHANGED <<available, userMap, entries, turns, ended, grounds>>
        /\ UNCHANGED <<held, ask, conversationId, seen>> /\ sending' \in [Tabs -> AnAsk]
    BY <1>0, <1>2 DEF LeaveAssistant, memory
  <2>2. AssistantTypeOK'
    BY <2>1 DEF AssistantInv, AssistantTypeOK
  <2>3. (/\ ConversationsAtHome /\ TurnsSaid /\ OneTicketInspected /\ OptionsFresh
         /\ EndedOnce /\ EntriesLatest /\ ForgottenForOthers)'
    BY <2>1, NothingStored DEF AssistantInv, OptionsFresh, Begun
  <2> QED
    BY <2>2, <2>3 DEF AssistantInv
<1>3. CASE DepartmentChanges
  <2>1. /\ UNCHANGED <<userMap, entries, turns, ended, grounds>>
        /\ UNCHANGED <<held, ask, conversationId, sending>>
        /\ available' = ~available
        /\ seen' = IF available' THEN {p \in Asks : ask[p].step # "idle"} ELSE seen
    BY <1>3 DEF DepartmentChanges, memory, tabPage
  <2>2. AssistantTypeOK'
    BY <2>1 DEF AssistantInv, AssistantTypeOK
  <2>3. (/\ ConversationsAtHome /\ TurnsSaid /\ OneTicketInspected
         /\ EndedOnce /\ EntriesLatest /\ ForgottenForOthers)'
    BY <2>1, NothingStored
  <2>4. OptionsFresh'
    BY <2>1 DEF AssistantInv, OptionsFresh, Begun
  <2> QED
    BY <2>2, <2>3, <2>4 DEF AssistantInv
<1> QED
  BY <1>1, <1>2, <1>3

(* The conversation a request finds is the one its Map has under its       *)
(* identifier, or begins with the request.                                 *)
LEMMA SendMessageStep ==
  ASSUME AssistantInv, NEW t \in Tabs, NEW r \in Asks, NEW message \in Messages,
         SendMessage(t, r, message)
  PROVE  AssistantInv'
<1> DEFINE id   == IF conversationId[t] = Nothing THEN r ELSE conversationId[t]
           map  == IF userMap = Nothing THEN r ELSE userMap
           c    == IF entries[map][id] = Nothing THEN r ELSE entries[map][id]
           turn == HasPendingPrefillOffer(turns[c]) \/ message = "asks"
           req  == [NoRequest EXCEPT !.step = "loading", !.tab = t, !.message = message,
                      !.id = id, !.map = map, !.conversation = c, !.prefillTurn = turn,
                      !.options = held[c]]
           q    == IF ShouldLoadOptions(held[c], turn) THEN req ELSE BeginAgent(req)
<1>0. /\ AssistantTypeOK /\ ask \in [Asks -> Request] /\ ended \in Seq(Asks)
      /\ ask[r].step = "idle" /\ turns \in [Asks -> Seq(Exchange)] /\ held \in [Asks -> Options]
      /\ Nothing \notin Asks
  BY AssistantAssumption DEF AssistantInv, AssistantTypeOK, SendMessage, Asks
<1>1. /\ ask' = [ask EXCEPT ![r] = q]
      /\ sending' = [sending EXCEPT ![t] = r]
      /\ seen' = IF available THEN seen \cup {r} ELSE seen
      /\ UNCHANGED <<available, memory, held, conversationId>>
  BY DEF SendMessage
<1>2. id \in Asks /\ map \in Asks /\ c \in Asks /\ turn \in BOOLEAN
  BY <1>0 DEF AssistantTypeOK, AnAsk, HasPendingPrefillOffer
<1>3. c # r => /\ Begun(c) /\ ask[c].map = map /\ ask[c].id = id /\ ask[c].conversation = c
  <2> SUFFICES ASSUME c # r PROVE Begun(c) /\ ask[c].map = map /\ ask[c].id = id
                                 /\ ask[c].conversation = c
    OBVIOUS
  <2>1. entries[map][id] # Nothing /\ c = entries[map][id]
    OBVIOUS
  <2> HIDE DEF c, map, id
  <2>2. PICK k \in DOMAIN ended : Uses(k, map, id) /\ ask[ended[k]].conversation = entries[map][id]
    BY <1>2, <2>1 DEF AssistantInv, EntriesLatest
  <2>3. ended[k] \in Asks /\ Begun(ended[k])
    BY <1>0, <2>2 DEF AssistantInv, EndedOnce, Begun
  <2> QED
    BY <2>1, <2>2, <2>3 DEF AssistantInv, ConversationsAtHome, Uses
<1>4. /\ turns[c] \in Seq(Exchange) /\ held[c] \in Options /\ SaidIn(c, turns[c])
      /\ c = r => turns[c] = <<>>
  BY <1>0, <1>2 DEF AssistantInv, TurnsSaid, ConversationsAtHome, Begun
<1> HIDE DEF id, map, c, turn
<1>5. /\ req \in Request /\ req.step = "loading" /\ req.message = message
      /\ req.id = id /\ req.map = map /\ req.conversation = c /\ req.prefillTurn = turn
      /\ req.inspected = {}
  <2>1. /\ id \in AnAsk /\ map \in AnAsk /\ c \in AnAsk /\ t \in Tabs \cup {Nothing}
        /\ NoRequest.inspected = {}
    BY <1>2 DEF AnAsk, NoRequest
  <2> QED
    BY <1>2, <1>4, <2>1, NoRequestType DEF Request
<1>6. /\ BeginAgent(req) \in Request /\ BeginAgent(req).step = "asking"
      /\ BeginAgent(req).message = message /\ BeginAgent(req).id = id
      /\ BeginAgent(req).map = map /\ BeginAgent(req).conversation = c
      /\ BeginAgent(req).prefillTurn = turn /\ BeginAgent(req).inspected = {}
      /\ BeginAgent(req).view = turns[c]
  BY <1>4, <1>5 DEF BeginAgent, Request
<1> HIDE DEF req
<1>7. /\ q \in Request /\ q.step \in {"loading", "asking"} /\ q.message = message
      /\ q.id = id /\ q.map = map /\ q.conversation = c /\ q.inspected = {}
      /\ q.step = "asking" => q.view = turns[c] /\ ~q.prefillTurn
  BY <1>5, <1>6 DEF ShouldLoadOptions
<1> HIDE DEF q
<1>8. /\ ask' \in [Asks -> Request] /\ ask'[r] = q
      /\ \A p \in Asks \ {r} : ask'[p] = ask[p]
  BY <1>0, <1>1, <1>7
<1>9. /\ available' = available /\ userMap' = userMap /\ entries' = entries /\ turns' = turns
      /\ ended' = ended /\ grounds' = grounds /\ held' = held
      /\ conversationId' = conversationId
  BY <1>1 DEF memory
<1>10. AssistantTypeOK'
  <2>1. sending' \in [Tabs -> AnAsk] /\ seen' \subseteq Asks
    BY <1>0, <1>1 DEF AssistantTypeOK, AnAsk
  <2> QED
    BY <1>0, <1>8, <1>9, <2>1 DEF AssistantTypeOK
<1>12. ConversationsAtHome'
  <2> SUFFICES ASSUME NEW p \in Asks
               PROVE  /\ ask'[p].step # "idle" =>
                           LET d == ask'[p].conversation IN
                           /\ ask'[p].id \in Asks /\ ask'[p].map \in Asks /\ d \in Asks
                           /\ ask'[d].step # "idle"
                           /\ ask'[d].map = ask'[p].map /\ ask'[d].id = ask'[p].id
                           /\ ask'[d].conversation = d
                      /\ ask'[p].step = "idle" => /\ turns[p] = <<>>
                                                  /\ ask'[p].conversation = Nothing
                                                  /\ ask'[p].inspected = {}
    BY <1>9 DEF ConversationsAtHome, Begun
  <2>0. ask'[r].step # "idle" /\ ~Begun(r)
    BY <1>0, <1>7, <1>8 DEF Begun
  <2>1. CASE p = r
    <3>1. CASE c = r
      BY <1>2, <1>7, <1>8, <2>0, <2>1, <3>1
    <3>2. CASE c # r
      BY <1>2, <1>3, <1>7, <1>8, <2>0, <2>1, <3>2 DEF Begun
    <3> QED
      BY <3>1, <3>2
  <2>2. CASE p # r
    <3>1. Begun(p) => ask[p].conversation # r
      BY <2>0 DEF AssistantInv, ConversationsAtHome
    <3>2. ask'[p] = ask[p]
      BY <1>8, <2>2
    <3>3. CASE Begun(p)
      <4>1. /\ ask[p].conversation \in Asks \ {r}
            /\ ask'[ask[p].conversation] = ask[ask[p].conversation]
        BY <1>8, <3>1, <3>3 DEF AssistantInv, ConversationsAtHome
      <4> QED
        BY <3>2, <3>3, <4>1 DEF AssistantInv, ConversationsAtHome, Begun
    <3>4. CASE ~Begun(p)
      BY <3>2, <3>4 DEF AssistantInv, ConversationsAtHome, Begun
    <3> QED
      BY <3>3, <3>4
  <2> QED
    BY <2>1, <2>2
<1>13. \A d \in Asks : \A k : Named(d, k) => Named(d, k)'
  BY <1>0, <1>8 DEF Named, AssistantInv, ConversationsAtHome, Begun
<1>14. \A d \in Asks : \A exchanges : SaidIn(d, exchanges) => SaidIn(d, exchanges)'
  BY <1>9, <1>13 DEF SaidIn
<1>15. TurnsSaid'
  <2>1. \A d \in Asks : SaidIn(d, turns[d])'
    BY <1>9, <1>14 DEF AssistantInv, TurnsSaid
  <2>2. \A p \in Asks : ask'[p].step = "asking" =>
          ask'[p].conversation \in Asks /\ SaidIn(ask'[p].conversation, ask'[p].view)
    BY <1>0, <1>2, <1>4, <1>7, <1>8
       DEF AssistantInv, TurnsSaid, ConversationsAtHome, Begun
  <2>3. \A p \in Asks : ask'[p].step = "asking" => SaidIn(ask[p].conversation, ask[p].view)'
    BY <1>9, <1>13, <2>2 DEF SaidIn
  <2> QED
    BY <2>1, <2>3 DEF TurnsSaid
<1>16. OneTicketInspected'
  <2> SUFFICES ASSUME NEW p \in Asks
               PROVE  /\ Cardinality(ask'[p].inspected) <= 1
                      /\ \A k \in ask'[p].inspected :
                           \E p1 \in Asks : ask'[p1].conversation = ask'[p].conversation
                                           /\ ask'[p1].message = k
    BY DEF OneTicketInspected
  <2>1. CASE p = r
    BY <1>7, <1>8, <2>1, FS_EmptySet
  <2>2. CASE p # r
    <3>1. ask'[p] = ask[p] /\ Cardinality(ask[p].inspected) <= 1
      BY <1>8, <2>2 DEF AssistantInv, OneTicketInspected
    <3>2. CASE ~Begun(p)
      BY <3>1, <3>2 DEF AssistantInv, ConversationsAtHome
    <3>3. CASE Begun(p)
      <4>1. ask[p].conversation \in Asks
        BY <3>3 DEF AssistantInv, ConversationsAtHome
      <4>2. \A k \in ask[p].inspected : Named(ask[p].conversation, k)
        BY DEF AssistantInv, OneTicketInspected, Named
      <4>3. \A k \in ask[p].inspected :
             \E p1 \in Asks : ask'[p1].conversation = ask[p].conversation /\ ask'[p1].message = k
        BY <1>13, <4>1, <4>2 DEF Named
      <4> QED
        BY <3>1, <4>3
    <3> QED
      BY <3>2, <3>3
  <2> QED
    BY <2>1, <2>2
<1>17. OptionsFresh'
  BY <1>1, <1>7, <1>8, <1>9 DEF AssistantInv, OptionsFresh, Begun
<1>18. \A k \in DOMAIN ended : ended[k] \in Asks \ {r}
  BY <1>0 DEF AssistantInv, EndedOnce
<1>19. EndedOnce'
  BY <1>7, <1>8, <1>9, <1>18 DEF AssistantInv, EndedOnce
<1>20. \A k \in DOMAIN ended, m, i \in Asks : Uses(k, m, i)' <=> Uses(k, m, i)
  BY <1>8, <1>9, <1>18 DEF Uses
<1>21. EntriesLatest'
  BY <1>8, <1>9, <1>18, <1>20 DEF AssistantInv, EntriesLatest
<1>22. \A m, i \in Asks : Since(m, i)' = Since(m, i)
  <2> TAKE m, i \in Asks
  <2>1. DOMAIN ended = 1 .. Len(ended) /\ Len(ended) \in Nat
    BY <1>0
  <2>2. \A j \in DOMAIN ended :
          /\ ask'[ended[j]].map = ask[ended[j]].map /\ ask'[ended[j]].id = ask[ended[j]].id
          /\ \A l \in j .. Len(ended) : l \in DOMAIN ended
    BY <1>8, <1>18, <2>1
  <2> QED
    BY <1>9, <1>20, <2>2 DEF Since
<1>23. ForgottenForOthers'
  BY <1>9, <1>20, <1>22 DEF AssistantInv, ForgottenForOthers
<1> QED
  BY <1>10, <1>12, <1>15, <1>16, <1>17, <1>19, <1>21, <1>23 DEF AssistantInv

(* The position at which a conversation was last used. *)
LEMMA LastUsedIs ==
  ASSUME NEW n \in Nat, Len(ended)' = n, NEW c, NEW k \in 1 .. n,
         ask[ended'[k]].conversation = c,
         \A l \in 1 .. n : k < l => ask[ended'[l]].conversation # c
  PROVE  LastUsed(c) = k
<1> DEFINE P(i) == /\ ask[ended'[i]].conversation = c
                   /\ \A j \in i + 1 .. n : ask[ended'[j]].conversation # c
<1>1. P(k)
  OBVIOUS
<1>2. \A i \in 1 .. n : P(i) => i = k
  <2> SUFFICES ASSUME NEW i \in 1 .. n, P(i), i # k PROVE FALSE
    OBVIOUS
  <2>1. CASE i < k
    BY <2>1
  <2>2. CASE k < i
    BY <2>2
  <2> QED
    BY <2>1, <2>2
<1>3. LastUsed(c) = CHOOSE i \in 1 .. n : P(i)
  BY DEF LastUsed
<1> HIDE DEF P
<1> QED
  BY <1>1, <1>2, <1>3

(* The request ends: the exchange is stored, and a conversation that is    *)
(* pruned has been passed by as many others as are kept.                   *)
LEMMA EndRespondStep ==
  ASSUME AssistantInv, NEW r \in Asks, NEW answer \in Answers,
         ask[r].step = "asking", EndRespond(r, answer)
  PROVE  AssistantInv'
<1>c. PICK c : c = ask[r].conversation
  OBVIOUS
<1>m. PICK m : m = ask[r].map
  OBVIOUS
<1>i. PICK id : id = ask[r].id
  OBVIOUS
<1>n. PICK n : n = Len(ended)
  OBVIOUS
<1>e. PICK exchange : exchange = [user |-> ask[r].message, assistant |-> answer]
  OBVIOUS
<1>q. PICK q : q = [ask[r] EXCEPT !.step = "ended", !.answer = answer, !.view = <<>>,
                                  !.options = "none", !.calls = 0]
  OBVIOUS
<1>b. PICK base : base = [entries[m] EXCEPT ![id] = c]
  OBVIOUS
<1>s. PICK said : said = LatestTurns(Append(turns[c], exchange))
  OBVIOUS
<1>0. /\ AssistantTypeOK /\ ask \in [Asks -> Request] /\ ask[r] \in Request
      /\ ended \in Seq(Asks) /\ turns \in [Asks -> Seq(Exchange)]
      /\ entries \in [Asks -> [Asks -> AnAsk]] /\ Nothing \notin Asks
      /\ c \in Asks /\ m \in Asks /\ id \in Asks
      /\ Begun(c) /\ ask[c].map = m /\ ask[c].id = id /\ ask[c].conversation = c
      /\ n \in Nat /\ DOMAIN ended = 1 .. n
  <2>1. /\ AssistantTypeOK /\ ask \in [Asks -> Request] /\ ended \in Seq(Asks)
        /\ turns \in [Asks -> Seq(Exchange)] /\ entries \in [Asks -> [Asks -> AnAsk]]
    BY DEF AssistantInv, AssistantTypeOK
  <2>2. Nothing \notin Asks
    BY AssistantAssumption DEF Asks
  <2>3. n \in Nat /\ DOMAIN ended = 1 .. n
    BY <1>n, <2>1, LenProperties
  <2>4. /\ c \in Asks /\ m \in Asks /\ id \in Asks
        /\ Begun(c) /\ ask[c].map = m /\ ask[c].id = id /\ ask[c].conversation = c
    BY <1>c, <1>m, <1>i DEF AssistantInv, ConversationsAtHome, Begun
  <2> QED
    BY <2>1, <2>2, <2>3, <2>4
<1>1. ask' = [ask EXCEPT ![r] = q]
  BY <1>0, <1>q DEF EndRespond, Request
<1>2. /\ turns' = [turns EXCEPT ![c] = said]
      /\ ended' = Append(ended, r)
      /\ entries' = [entries EXCEPT ![m] = Pruned(base)]
      /\ userMap' = m
      /\ grounds' = IF ask[r].message = "asks" \/ answer # "text"
                    THEN grounds \cup {c} ELSE grounds
      /\ UNCHANGED <<available, held, tabPage, seen>>
  BY <1>0, <1>c, <1>m, <1>i, <1>e, <1>b, <1>s DEF EndRespond
<1>3. /\ exchange \in Exchange /\ exchange.user = ask[r].message
      /\ exchange.assistant = answer
  BY <1>0, <1>e DEF Exchange, Request
<1>4. /\ q \in Request /\ q.step = "ended" /\ q.id = id /\ q.map = m /\ q.conversation = c
      /\ q.message = ask[r].message /\ q.inspected = ask[r].inspected
  <2>1. <<>> \in Seq(Exchange) /\ "none" \in Options
    BY DEF Options
  <2> QED
    BY <1>0, <1>c, <1>m, <1>i, <1>q, <2>1 DEF Request
<1>5. /\ said \in Seq(Exchange)
      /\ \A i \in DOMAIN said :
           said[i] = exchange \/ \E j \in DOMAIN turns[c] : said[i] = turns[c][j]
  <2> DEFINE s == Append(turns[c], exchange)
  <2>1. turns[c] \in Seq(Exchange)
    BY <1>0
  <2>2. /\ s \in Seq(Exchange) /\ Len(s) = Len(turns[c]) + 1
        /\ \A i \in 1 .. Len(turns[c]) : s[i] = turns[c][i]
        /\ s[Len(turns[c]) + 1] = exchange
    BY <1>3, <2>1, AppendProperties
  <2>3. DOMAIN s = 1 .. Len(s) /\ DOMAIN turns[c] = 1 .. Len(turns[c]) /\ Len(turns[c]) \in Nat
    BY <2>1, <2>2, LenProperties
  <2> HIDE DEF s
  <2>4. \A j \in DOMAIN s : s[j] = exchange \/ \E i \in DOMAIN turns[c] : s[j] = turns[c][i]
    <3> SUFFICES ASSUME NEW j \in DOMAIN s, j # Len(turns[c]) + 1
                 PROVE  j \in DOMAIN turns[c] /\ s[j] = turns[c][j]
      BY <2>2
    <3> QED
      BY <2>2, <2>3
  <2>5. said = LatestTurns(s)
    BY <1>s DEF s
  <2> QED
    BY <2>2, <2>4, <2>5, LatestTurnsOf
<1>6. /\ ask' \in [Asks -> Request] /\ ask'[r] = q
      /\ \A p \in Asks \ {r} : ask'[p] = ask[p]
  BY <1>0, <1>1, <1>4
<1>7. \A p \in Asks :
        /\ ask'[p].id = ask[p].id /\ ask'[p].map = ask[p].map
        /\ ask'[p].conversation = ask[p].conversation /\ ask'[p].message = ask[p].message
        /\ ask'[p].inspected = ask[p].inspected
        /\ ask'[p].step = "idle" <=> ask[p].step = "idle"
  BY <1>4, <1>6, <1>c, <1>m, <1>i
<1>8. /\ ended' \in Seq(Asks) /\ Len(ended)' = n + 1 /\ DOMAIN ended' = 1 .. n + 1
      /\ \A k \in 1 .. n : ended'[k] = ended[k] /\ ended[k] \in Asks
      /\ ended'[n + 1] = r
  <2>1. /\ ended' \in Seq(Asks) /\ Len(ended') = n + 1
        /\ \A k \in 1 .. n : ended'[k] = ended[k] /\ ended[k] \in Asks
        /\ ended'[n + 1] = r
    BY <1>0, <1>2, <1>n, AppendProperties
  <2> QED
    BY <1>0, <2>1, LenProperties
<1>9. /\ base \in [Asks -> AnAsk] /\ base[id] = c
      /\ \A i \in Asks \ {id} : base[i] = entries[m][i]
  BY <1>0, <1>b DEF AnAsk
<1>10. /\ Pruned(base) \in [Asks -> AnAsk]
       /\ \A i \in Asks : Pruned(base)[i] \in {base[i], Nothing}
  BY <1>9 DEF Pruned, AnAsk
<1>11. /\ entries' \in [Asks -> [Asks -> AnAsk]] /\ entries'[m] = Pruned(base)
       /\ \A p \in Asks \ {m} : entries'[p] = entries[p]
  BY <1>0, <1>2, <1>10
<1>12. /\ turns' \in [Asks -> Seq(Exchange)] /\ turns'[c] = said
       /\ \A p \in Asks \ {c} : turns'[p] = turns[p]
  BY <1>0, <1>2, <1>5
<1>13. AssistantTypeOK'
  <2>1. userMap' \in AnAsk /\ grounds' \subseteq Asks
    BY <1>0, <1>2 DEF AssistantTypeOK, AnAsk
  <2>2. /\ available' = available /\ held' = held /\ conversationId' = conversationId
        /\ sending' = sending /\ seen' = seen
    BY <1>2 DEF tabPage
  <2> QED
    BY <1>0, <1>6, <1>8, <1>11, <1>12, <2>1, <2>2 DEF AssistantTypeOK
<1>14. ConversationsAtHome'
  <2> SUFFICES ASSUME NEW p \in Asks
               PROVE  /\ ask'[p].step # "idle" =>
                           LET d == ask'[p].conversation IN
                           /\ ask'[p].id \in Asks /\ ask'[p].map \in Asks /\ d \in Asks
                           /\ ask'[d].step # "idle"
                           /\ ask'[d].map = ask'[p].map /\ ask'[d].id = ask'[p].id
                           /\ ask'[d].conversation = d
                      /\ ask'[p].step = "idle" => /\ turns'[p] = <<>>
                                                  /\ ask'[p].conversation = Nothing
                                                  /\ ask'[p].inspected = {}
    BY DEF ConversationsAtHome, Begun
  <2>1. CASE Begun(p)
    BY <1>7, <2>1 DEF AssistantInv, ConversationsAtHome, Begun
  <2>2. CASE ~Begun(p)
    <3>1. p # c /\ turns'[p] = turns[p]
      BY <1>0, <1>12, <2>2
    <3> QED
      BY <1>7, <2>2, <3>1 DEF AssistantInv, ConversationsAtHome, Begun
  <2> QED
    BY <2>1, <2>2
<1>15. \A d, k : Named(d, k) => Named(d, k)'
  BY <1>7 DEF Named
<1>16. \A d, exchanges : SaidIn(d, exchanges) => SaidIn(d, exchanges)'
  BY <1>2, <1>15 DEF SaidIn
<1>17. TurnsSaid'
  <2>1. SaidIn(c, turns[c])
    BY <1>0 DEF AssistantInv, TurnsSaid
  <2>2. /\ exchange.user \in Tickets => Named(c, exchange.user)'
        /\ Context(exchange) => c \in grounds'
    BY <1>2, <1>3, <1>7, <1>c DEF Named, Context
  <2>3. \A i \in DOMAIN said :
         /\ said[i].user \in Tickets => Named(c, said[i].user)'
         /\ Context(said[i]) => c \in grounds'
    BY <1>2, <1>5, <1>15, <2>1, <2>2 DEF SaidIn
  <2>4. \A d \in Asks : SaidIn(d, turns[d])'
    <3> TAKE d \in Asks
    <3>1. CASE d = c
      BY <1>12, <2>3, <3>1 DEF SaidIn
    <3>2. CASE d # c
      <4>1. SaidIn(d, turns[d]) /\ turns'[d] = turns[d]
        BY <1>12, <3>2 DEF AssistantInv, TurnsSaid
      <4> QED
        BY <1>2, <1>15, <4>1 DEF SaidIn
    <3> QED
      BY <3>1, <3>2
  <2>5. \A p \in Asks : ask'[p].step = "asking" => SaidIn(ask[p].conversation, ask[p].view)'
    <3> SUFFICES ASSUME NEW p \in Asks, ask'[p].step = "asking"
                 PROVE  SaidIn(ask[p].conversation, ask[p].view)'
      OBVIOUS
    <3>1. p # r /\ ask'[p] = ask[p]
      BY <1>4, <1>6
    <3>2. SaidIn(ask[p].conversation, ask[p].view)
      BY <3>1 DEF AssistantInv, TurnsSaid
    <3> QED
      BY <1>2, <1>15, <3>1, <3>2 DEF SaidIn
  <2> QED
    BY <2>4, <2>5 DEF TurnsSaid
<1>18. OneTicketInspected'
  BY <1>7 DEF AssistantInv, OneTicketInspected
<1>19. OptionsFresh'
  BY <1>2, <1>4, <1>6, <1>7 DEF AssistantInv, OptionsFresh, Begun
<1>20. EndedOnce'
  <2>1. \A k \in 1 .. n + 1 : ask'[ended'[k]].step = "ended"
    <3> TAKE k \in 1 .. n + 1
    <3>1. CASE k = n + 1
      BY <1>4, <1>6, <1>8, <3>1
    <3>2. CASE k \in 1 .. n
      <4>1. ask[ended[k]].step = "ended" /\ ended'[k] = ended[k] /\ ended[k] \in Asks
        BY <1>0, <1>8, <3>2 DEF AssistantInv, EndedOnce
      <4> QED
        BY <1>4, <1>6, <4>1
    <3> QED
      BY <1>0, <3>1, <3>2
  <2>2. \A p \in Asks : ask'[p].step = "ended" => \E k \in 1 .. n + 1 : ended'[k] = p
    <3> SUFFICES ASSUME NEW p \in Asks, ask'[p].step = "ended"
                 PROVE  \E k \in 1 .. n + 1 : ended'[k] = p
      OBVIOUS
    <3>1. CASE p = r
      <4>1. n + 1 \in 1 .. n + 1
        BY <1>0
      <4> QED
        BY <1>8, <3>1, <4>1
    <3>2. CASE p # r
      BY <1>0, <1>6, <1>8, <3>2 DEF AssistantInv, EndedOnce
    <3> QED
      BY <3>1, <3>2
  <2> QED
    BY <1>8, <2>1, <2>2 DEF EndedOnce
<1>21. /\ \A k \in 1 .. n, p, i \in Asks : Uses(k, p, i)' <=> Uses(k, p, i)
       /\ \A p, i \in Asks : Uses(n + 1, p, i)' <=> p = m /\ i = id
  BY <1>4, <1>6, <1>7, <1>8 DEF Uses
(* A Map with the exchange stored, before it is pruned. *)
<1>22. \A i \in Asks : base[i] # Nothing =>
         \E k \in 1 .. n + 1 :
           /\ Uses(k, m, i)' /\ ask[ended'[k]].conversation = base[i]
           /\ \A l \in 1 .. n + 1 : k < l => ~Uses(l, m, i)'
  <2> SUFFICES ASSUME NEW i \in Asks, base[i] # Nothing
               PROVE  \E k \in 1 .. n + 1 :
                        /\ Uses(k, m, i)' /\ ask[ended'[k]].conversation = base[i]
                        /\ \A l \in 1 .. n + 1 : k < l => ~Uses(l, m, i)'
    OBVIOUS
  <2>1. CASE i = id
    <3>1. n + 1 \in 1 .. n + 1 /\ \A l \in 1 .. n + 1 : ~(n + 1 < l)
      BY <1>0
    <3>2. Uses(n + 1, m, i)' /\ ask[ended'[n + 1]].conversation = base[i]
      BY <1>0, <1>8, <1>9, <1>21, <1>c, <2>1
    <3> QED
      BY <3>1, <3>2
  <2>2. CASE i # id
    <3>1. entries[m][i] # Nothing /\ base[i] = entries[m][i]
      BY <1>9, <2>2
    <3>2. PICK k \in 1 .. n :
            /\ Uses(k, m, i) /\ ask[ended[k]].conversation = entries[m][i]
            /\ \A l \in 1 .. n : k < l => ~Uses(l, m, i)
      BY <1>0, <3>1 DEF AssistantInv, EntriesLatest
    <3>3. k \in 1 .. n + 1 /\ \A l \in 1 .. n + 1 : l \in 1 .. n \/ l = n + 1
      BY <1>0
    <3>4. Uses(k, m, i)' /\ ask[ended'[k]].conversation = base[i]
      BY <1>0, <1>8, <1>21, <3>1, <3>2
    <3>5. \A l \in 1 .. n + 1 : k < l => ~Uses(l, m, i)'
      <4> TAKE l \in 1 .. n + 1
      <4>1. CASE l \in 1 .. n
        BY <1>0, <1>21, <3>2, <4>1
      <4>2. CASE l = n + 1
        BY <1>0, <1>21, <2>2, <4>2
      <4> QED
        BY <3>3, <4>1, <4>2
    <3> QED
      BY <3>3, <3>4, <3>5
  <2> QED
    BY <2>1, <2>2
<1>23. EntriesLatest'
  <2> SUFFICES ASSUME NEW p \in Asks, NEW i \in Asks, entries'[p][i] # Nothing
               PROVE  \E k \in 1 .. n + 1 :
                        /\ Uses(k, p, i)' /\ ask'[ended'[k]].conversation = entries'[p][i]
                        /\ \A l \in 1 .. n + 1 : k < l => ~Uses(l, p, i)'
    BY <1>8 DEF EntriesLatest
  <2>0. \A k \in 1 .. n + 1 : ended'[k] \in Asks
    BY <1>8
  <2>1. CASE p = m
    <3>1. base[i] # Nothing /\ entries'[p][i] = base[i]
      BY <1>10, <1>11, <2>1
    <3>2. PICK k \in 1 .. n + 1 :
            /\ Uses(k, m, i)' /\ ask[ended'[k]].conversation = base[i]
            /\ \A l \in 1 .. n + 1 : k < l => ~Uses(l, m, i)'
      BY <1>22, <3>1
    <3> QED
      BY <1>7, <2>0, <2>1, <3>1, <3>2
  <2>2. CASE p # m
    <3>1. entries[p][i] # Nothing /\ entries'[p][i] = entries[p][i]
      BY <1>11, <2>2
    <3>2. PICK k \in 1 .. n :
            /\ Uses(k, p, i) /\ ask[ended[k]].conversation = entries[p][i]
            /\ \A l \in 1 .. n : k < l => ~Uses(l, p, i)
      BY <1>0, <3>1 DEF AssistantInv, EntriesLatest
    <3>3. k \in 1 .. n + 1 /\ \A l \in 1 .. n + 1 : l \in 1 .. n \/ l = n + 1
      BY <1>0
    <3>4. Uses(k, p, i)' /\ ask'[ended'[k]].conversation = entries'[p][i]
      BY <1>0, <1>7, <1>8, <1>21, <3>1, <3>2
    <3>5. \A l \in 1 .. n + 1 : k < l => ~Uses(l, p, i)'
      BY <1>0, <1>21, <2>2, <3>2, <3>3
    <3> QED
      BY <3>3, <3>4, <3>5
  <2> QED
    BY <2>1, <2>2
<1>24. \A p, i \in Asks :
         Since(p, i)' = {ask[ended'[j]].id : j \in {j \in 1 .. n + 1 :
                          /\ ask[ended'[j]].map = p
                          /\ \A l \in j .. n + 1 : ~Uses(l, p, i)'}}
  <2> TAKE p, i \in Asks
  <2>1. \A j \in 1 .. n + 1 : ended'[j] \in Asks
    BY <1>8
  <2>2. \A j \in 1 .. n + 1 : /\ ask'[ended'[j]].map = ask[ended'[j]].map
                              /\ ask'[ended'[j]].id = ask[ended'[j]].id
    BY <1>7, <2>1
  <2> QED
    BY <1>8, <2>2 DEF Since
<1>25. \A p, i \in Asks : IsFiniteSet(Since(p, i)') /\ Since(p, i)' \subseteq Asks
  <2> TAKE p, i \in Asks
  <2>1. IsFiniteSet(Asks)
    BY AssistantAssumption, FS_Interval DEF Asks
  <2>2. \A j \in 1 .. n + 1 : ask[ended'[j]].id \in Asks
    <3> TAKE j \in 1 .. n + 1
    <3>1. ended'[j] \in Asks /\ ask'[ended'[j]].step = "ended"
      BY <1>8, <1>20 DEF EndedOnce
    <3> QED
      BY <1>7, <3>1 DEF AssistantInv, ConversationsAtHome, Begun
  <2>3. Since(p, i)' \subseteq Asks
    <3> SUFFICES ASSUME NEW d \in Since(p, i)' PROVE d \in Asks
      OBVIOUS
    <3>1. PICK j \in 1 .. n + 1 : ask[ended'[j]].map = p /\ d = ask[ended'[j]].id
      BY <1>24
    <3> QED
      BY <2>2, <3>1
  <2> QED
    BY <2>1, <2>3, FS_Subset
<1>26. ASSUME NEW p \in Asks, NEW i \in Asks, ~(p = m /\ i = id),
              entries[p][i] = Nothing, \E k \in 1 .. n + 1 : Uses(k, p, i)'
       PROVE  Cardinality(Since(p, i)') >= MaxConversations
  <2>1. \E k \in 1 .. n : Uses(k, p, i)
    <3>1. PICK k \in 1 .. n + 1 : Uses(k, p, i)'
      BY <1>26
    <3>2. k # n + 1
      BY <1>21, <1>26, <3>1
    <3>3. k \in 1 .. n
      BY <1>0, <3>2
    <3> QED
      BY <1>21, <3>1, <3>3
  <2>2. Cardinality(Since(p, i)) >= MaxConversations
    BY <1>0, <1>26, <2>1 DEF AssistantInv, ForgottenForOthers
  <2>3. Since(p, i) \subseteq Since(p, i)'
    <3> SUFFICES ASSUME NEW d \in Since(p, i) PROVE d \in Since(p, i)'
      OBVIOUS
    <3>1. PICK j \in 1 .. n : /\ ask[ended[j]].map = p /\ d = ask[ended[j]].id
                              /\ \A l \in j .. n : ~Uses(l, p, i)
      BY <1>0, <1>n DEF Since
    <3>2. j \in 1 .. n + 1 /\ ended'[j] = ended[j]
      BY <1>0, <1>8
    <3>3. \A l \in j .. n + 1 : ~Uses(l, p, i)'
      <4> TAKE l \in j .. n + 1
      <4>1. CASE l \in j .. n
        BY <1>0, <1>21, <3>1, <4>1
      <4>2. CASE l = n + 1
        BY <1>0, <1>21, <1>26, <4>2
      <4>3. n \in Nat /\ j \in 1 .. n /\ l \in j .. n + 1
        BY <1>0
      <4>4. l \in j .. n \/ l = n + 1
        BY <4>3
      <4> QED
        BY <4>1, <4>2, <4>4
    <3>4. j \in {k \in 1 .. n + 1 : /\ ask[ended'[k]].map = p
                                    /\ \A l \in k .. n + 1 : ~Uses(l, p, i)'}
      BY <3>1, <3>2, <3>3
    <3>5. Since(p, i)' = {ask[ended'[k]].id : k \in {k \in 1 .. n + 1 :
                            /\ ask[ended'[k]].map = p
                            /\ \A l \in k .. n + 1 : ~Uses(l, p, i)'}}
      BY <1>24
    <3> QED
      BY <3>1, <3>2, <3>4, <3>5
  <2>4. IsFiniteSet(Since(p, i)) /\ Cardinality(Since(p, i)) <= Cardinality(Since(p, i)')
    BY <1>25, <2>3, FS_Subset
  <2>5. Cardinality(Since(p, i)) \in Nat /\ Cardinality(Since(p, i)') \in Nat
    BY <1>25, <2>4, FS_CardinalityType
  <2> QED
    BY <2>2, <2>4, <2>5, AssistantAssumption
<1>27. ASSUME NEW i \in Asks, base[i] # Nothing, Pruned(base)[i] = Nothing
       PROVE  Cardinality(Since(m, i)') >= MaxConversations
  <2> DEFINE newer == {j \in Asks : base[j] # Nothing /\ Older(base[i], base[j])}
  <2>1. Cardinality(newer) >= MaxConversations
    BY <1>27 DEF Pruned
  <2>2. \A j \in Asks : base[j] # Nothing =>
          \E k \in 1 .. n + 1 :
            /\ LastUsed(base[j]) = k /\ Uses(k, m, j)'
            /\ \A l \in 1 .. n + 1 : k < l => ~Uses(l, m, j)'
    <3> SUFFICES ASSUME NEW j \in Asks, base[j] # Nothing
                 PROVE  \E k \in 1 .. n + 1 :
                          /\ LastUsed(base[j]) = k /\ Uses(k, m, j)'
                          /\ \A l \in 1 .. n + 1 : k < l => ~Uses(l, m, j)'
      OBVIOUS
    <3>1. PICK k \in 1 .. n + 1 :
            /\ Uses(k, m, j)' /\ ask[ended'[k]].conversation = base[j]
            /\ \A l \in 1 .. n + 1 : k < l => ~Uses(l, m, j)'
      BY <1>22
    <3>2. \A l \in 1 .. n + 1 : ended'[l] \in Asks /\ Begun(ended'[l])
      BY <1>7, <1>8, <1>20 DEF EndedOnce, Begun
    <3>3. ask[base[j]].map = m /\ ask[base[j]].id = j
      BY <1>7, <3>1, <3>2 DEF AssistantInv, ConversationsAtHome, Uses
    <3>4. \A l \in 1 .. n + 1 : ask[ended'[l]].conversation = base[j] => Uses(l, m, j)'
      BY <1>7, <3>2, <3>3 DEF AssistantInv, ConversationsAtHome, Uses
    <3>5. LastUsed(base[j]) = k
      <4>1. \A l \in 1 .. n + 1 : k < l => ask[ended'[l]].conversation # base[j]
        BY <3>1, <3>4
      <4>2. n + 1 \in Nat
        BY <1>0
      <4> QED
        BY <1>8, <3>1, <4>1, <4>2, LastUsedIs
    <3> QED
      BY <3>1, <3>5
  <2>3. newer \subseteq Since(m, i)'
    <3> SUFFICES ASSUME NEW j \in Asks, base[j] # Nothing, LastUsed(base[i]) < LastUsed(base[j])
                 PROVE  j \in Since(m, i)'
      BY DEF Older
    <3>1. PICK ki \in 1 .. n + 1 :
            /\ LastUsed(base[i]) = ki
            /\ \A l \in 1 .. n + 1 : ki < l => ~Uses(l, m, i)'
      BY <1>27, <2>2
    <3>2. PICK kj \in 1 .. n + 1 : LastUsed(base[j]) = kj /\ Uses(kj, m, j)'
      BY <2>2
    <3>3. ki < kj /\ \A l \in kj .. n + 1 : l \in 1 .. n + 1 /\ ki < l
      BY <1>0, <3>1, <3>2
    <3>4. ended'[kj] \in Asks
      BY <1>8
    <3>5. ask[ended'[kj]].map = m /\ ask[ended'[kj]].id = j
      BY <1>7, <3>2, <3>4 DEF Uses
    <3> QED
      <4>1. kj \in {k \in 1 .. n + 1 : /\ ask[ended'[k]].map = m
                                       /\ \A l \in k .. n + 1 : ~Uses(l, m, i)'}
        BY <3>1, <3>3, <3>5
      <4>2. Since(m, i)' = {ask[ended'[k]].id : k \in {k \in 1 .. n + 1 :
                              /\ ask[ended'[k]].map = m
                              /\ \A l \in k .. n + 1 : ~Uses(l, m, i)'}}
        BY <1>0, <1>24
      <4> QED
        BY <3>5, <4>1, <4>2
  <2> HIDE DEF newer
  <2>4. IsFiniteSet(newer) /\ Cardinality(newer) <= Cardinality(Since(m, i)')
    BY <1>0, <1>25, <2>3, FS_Subset
  <2>5. Cardinality(newer) \in Nat /\ Cardinality(Since(m, i)') \in Nat
    BY <1>0, <1>25, <2>4, FS_CardinalityType
  <2> QED
    BY <2>1, <2>4, <2>5, AssistantAssumption
<1>28. ForgottenForOthers'
  <2> SUFFICES ASSUME NEW p \in Asks, NEW i \in Asks, entries'[p][i] = Nothing,
                      \E k \in 1 .. n + 1 : Uses(k, p, i)'
               PROVE  Cardinality(Since(p, i)') >= MaxConversations
    BY <1>8 DEF ForgottenForOthers
  <2>1. CASE p # m
    BY <1>11, <1>26, <2>1
  <2>2. CASE p = m /\ base[i] = Nothing
    <3>1. i # id /\ entries[p][i] = Nothing
      BY <1>0, <1>9, <2>2
    <3> QED
      BY <1>26, <3>1
  <2>3. CASE p = m /\ base[i] # Nothing
    BY <1>11, <1>27, <2>3
  <2> QED
    BY <2>1, <2>2, <2>3
<1> QED
  BY <1>13, <1>14, <1>17, <1>18, <1>19, <1>20, <1>23, <1>28 DEF AssistantInv

(* The model looks tickets up.                                             *)
LEMMA ToolCallStep ==
  ASSUME AssistantInv, NEW r \in Asks, ModelCallsTool(r)
  PROVE  AssistantInv' /\ (ask'[r].answer = ask[r].answer \/ ask'[r].answer = "text")
<1>0. /\ ask \in [Asks -> Request] /\ ask[r] \in Request
      /\ held \in [Asks -> Options] /\ "text" \in Answers
      /\ conversationId \in [Tabs -> AnAsk] /\ sending \in [Tabs -> AnAsk]
      /\ ask[r].step = "asking" /\ MaxToolCalls \in Nat
  BY AssistantAssumption
     DEF AssistantInv, AssistantTypeOK, ModelCallsTool, Asking, Answers
<1>1. CASE EndRespond(r, "text")
  <2>1. AssistantInv'
    BY <1>0, <1>1, EndRespondStep
  <2>2. ask'[r].answer = "text"
    BY <1>0, <1>1 DEF EndRespond, Request
  <2> QED
    BY <2>1, <2>2
<1>2. ASSUME NEW n \in 1 .. MaxToolCalls + 1, NEW numbers \in SUBSET Tickets,
             ask' = [ask EXCEPT ![r] = LookUp([ask[r] EXCEPT !.calls = @ + n], numbers)],
             UNCHANGED <<available, memory, held, tabPage, seen>>
      PROVE  AssistantInv' /\ ask'[r].answer = ask[r].answer
  <2> DEFINE called == [ask[r] EXCEPT !.calls = @ + n]
             q == LookUp(called, numbers)
  <2>1. /\ called \in Request /\ called.step = ask[r].step /\ called.id = ask[r].id
        /\ called.map = ask[r].map /\ called.conversation = ask[r].conversation
        /\ called.message = ask[r].message /\ called.prefillTurn = ask[r].prefillTurn
        /\ called.options = ask[r].options /\ called.view = ask[r].view
        /\ called.inspected = ask[r].inspected /\ called.answer = ask[r].answer
    <3>1. ask[r].calls + n \in Nat
      BY <1>0 DEF Request
    <3> QED
      BY <1>0, <3>1 DEF Request
  <2>2. ask' = [ask EXCEPT ![r] = q]
    BY <1>2
  <2> HIDE DEF called
  <2>3. /\ q \in Request /\ q = [called EXCEPT !.inspected = q.inspected]
        /\ \/ q.inspected = ask[r].inspected
           \/ q.inspected \in SUBSET (Tickets \cap {ExpectedTicket(ask[r].view, ask[r].message)})
    BY <2>1, LookUpEffect
  <2> HIDE DEF q
  <2>4. /\ q.step = "asking" /\ q.id = ask[r].id
        /\ q.map = ask[r].map /\ q.conversation = ask[r].conversation
        /\ q.message = ask[r].message /\ q.prefillTurn = ask[r].prefillTurn
        /\ q.options = ask[r].options /\ q.view = ask[r].view /\ q.answer = ask[r].answer
    <3>1. \A field \in {"step", "id", "map", "conversation", "message", "prefillTurn",
                        "options", "view", "answer"} : q[field] = called[field]
      BY <2>1, <2>3 DEF Request
    <3> QED
      BY <1>0, <2>1, <3>1
  <2>5. Cardinality(q.inspected) <= 1 /\ \A k \in q.inspected : Named(q.conversation, k)
    <3>1. CASE q.inspected = ask[r].inspected
      BY <2>4, <3>1 DEF AssistantInv, OneTicketInspected, Named
    <3>2. CASE q.inspected \in SUBSET (Tickets \cap {ExpectedTicket(ask[r].view, ask[r].message)})
      <4> DEFINE expected == ExpectedTicket(ask[r].view, ask[r].message)
      <4>1. Cardinality(q.inspected) <= 1
        <5>1. q.inspected \in SUBSET {expected}
          BY <3>2
        <5>2. IsFiniteSet({expected}) /\ Cardinality({expected}) = 1
          BY FS_Singleton
        <5> HIDE DEF expected
        <5> QED
          BY <5>1, <5>2, FS_Subset
      <4>2. \A k \in q.inspected : Named(q.conversation, k)
        <5> SUFFICES ASSUME NEW k \in q.inspected PROVE Named(ask[r].conversation, k)
          BY <2>4
        <5>1. /\ k \in Tickets /\ k = ExpectedTicket(ask[r].view, ask[r].message)
              /\ ask[r].view \in Seq(Exchange) /\ ask[r].message \in Messages
          BY <1>0, <3>2 DEF Request
        <5>2. k = ask[r].message \/ \E i \in DOMAIN ask[r].view : ask[r].view[i].user = k
          BY <5>1, ExpectedTicketNamed
        <5>3. SaidIn(ask[r].conversation, ask[r].view)
          BY <1>0 DEF AssistantInv, TurnsSaid
        <5> QED
          BY <5>1, <5>2, <5>3 DEF SaidIn, Named
      <4> QED
        BY <4>1, <4>2
    <3> QED
      BY <2>3, <3>1, <3>2
  <2>6. /\ SaidIn(q.conversation, q.view)
        /\ (q.prefillTurn /\ q.options = "with") => r \in seen
    BY <1>0, <2>4 DEF AssistantInv, TurnsSaid, OptionsFresh
  <2>7. /\ UNCHANGED <<available, memory, seen>> /\ held' \in [Asks -> Options]
        /\ conversationId' \in [Tabs -> AnAsk] /\ sending' \in [Tabs -> AnAsk]
    BY <1>0, <1>2 DEF tabPage
  <2>8. AssistantInv'
    BY <1>0, <2>2, <2>3, <2>4, <2>5, <2>6, <2>7, RequestGoesOn
  <2> QED
    BY <1>0, <2>2, <2>4, <2>8
<1> QED
  BY <1>1, <1>2 DEF ModelCallsTool

(* An action is answered only with a context and with options. *)
LEMMA NormalAnswers ==
  ASSUME NEW answer \in Answers, NEW options, NEW context \in BOOLEAN
  PROVE  /\ NormalizeResponse(answer, options, context) \in Answers
         /\ NormalizeResponse(answer, options, context) = "action" => context /\ options = "with"
BY DEF NormalizeResponse, Answers

(* Only an answer of the model can carry an action. *)
LEMMA OnlyModelAnswers ==
  ASSUME AssistantInv, AssistantNext, NEW r \in Asks,
         ask[r].answer # "action", ask'[r].answer = "action"
  PROVE  ModelAnswers(r)
<1>0. ask \in [Asks -> Request] /\ \A p \in Asks : ask[p] \in Request
  BY DEF AssistantInv, AssistantTypeOK
<1>1. ASSUME NEW p \in Asks, NEW q, ask' = [ask EXCEPT ![p] = q],
             q.answer \in {ask[p].answer, "text"}
      PROVE  FALSE
  BY <1>0, <1>1
<1>2. ASSUME NEW p \in Asks, NEW answer, EndRespond(p, answer)
      PROVE  p = r /\ answer = "action"
  BY <1>0, <1>2 DEF EndRespond, Request
<1>3. ASSUME NEW t \in Tabs, NEW p \in Asks, NEW message \in Messages, SendMessage(t, p, message)
      PROVE  FALSE
  <2> DEFINE id   == IF conversationId[t] = Nothing THEN p ELSE conversationId[t]
             map  == IF userMap = Nothing THEN p ELSE userMap
             c    == IF entries[map][id] = Nothing THEN p ELSE entries[map][id]
             turn == HasPendingPrefillOffer(turns[c]) \/ message = "asks"
             req  == [NoRequest EXCEPT !.step = "loading", !.tab = t, !.message = message,
                        !.id = id, !.map = map, !.conversation = c, !.prefillTurn = turn,
                        !.options = held[c]]
  <2>1. ask' = [ask EXCEPT ![p] =
                  IF ShouldLoadOptions(held[c], turn) THEN req ELSE BeginAgent(req)]
    BY <1>3 DEF SendMessage
  <2>2. req.answer = "text" /\ BeginAgent(req).answer = "text"
    BY DEF NoRequest, BeginAgent
  <2> HIDE DEF req, turn
  <2>3. ask' = [ask EXCEPT ![p] = req] \/ ask' = [ask EXCEPT ![p] = BeginAgent(req)]
    BY <2>1
  <2> QED
    BY <1>1, <2>2, <2>3
<1>4. ASSUME NEW p \in Asks, ReadOptions(p) \/ OptionsLoaded(p) \/ OptionsFail(p)
      PROVE  FALSE
  <2>1. PICK options \in Options :
          \/ ask' = [ask EXCEPT ![p] = [ask[p] EXCEPT !.step = "loaded", !.options = options]]
          \/ ask' = [ask EXCEPT ![p] = BeginAgent(ask[p])]
          \/ ask' = [ask EXCEPT ![p] = BeginAgent([ask[p] EXCEPT !.options = "none"])]
    <3>1. CASE ReadOptions(p)
      <4> DEFINE options == IF available THEN "with" ELSE "without"
      <4>1. ask' = [ask EXCEPT ![p] = [ask[p] EXCEPT !.step = "loaded", !.options = options]]
        BY <1>0, <3>1 DEF ReadOptions
      <4>2. options \in Options
        BY DEF Options
      <4> HIDE DEF options
      <4> QED
        BY <4>1, <4>2
    <3>2. CASE OptionsLoaded(p)
      <4>1. ask' = [ask EXCEPT ![p] = BeginAgent(ask[p])] /\ "none" \in Options
        BY <1>0, <3>2 DEF OptionsLoaded, Options
      <4> QED
        BY <4>1
    <3>3. CASE OptionsFail(p)
      <4>1. /\ ask' = [ask EXCEPT ![p] = BeginAgent([ask[p] EXCEPT !.options = "none"])]
            /\ "none" \in Options
        BY <1>0, <3>3 DEF OptionsFail, Options
      <4> QED
        BY <4>1
    <3> QED
      BY <1>4, <3>1, <3>2, <3>3
  <2>2. /\ [ask[p] EXCEPT !.step = "loaded", !.options = options].answer = ask[p].answer
        /\ BeginAgent(ask[p]).answer = ask[p].answer
        /\ BeginAgent([ask[p] EXCEPT !.options = "none"]).answer = ask[p].answer
    BY <1>0 DEF BeginAgent, Request
  <2> QED
    BY <1>1, <2>1, <2>2
<1>5. ASSUME NEW p \in Asks, RefuseTickets(p) \/ Fallback(p) PROVE FALSE
  BY <1>2, <1>5 DEF RefuseTickets, Fallback
<1>6. ASSUME NEW p \in Asks, ModelCallsTool(p) PROVE FALSE
  <2>1. CASE p = r
    BY <1>6, <2>1, ToolCallStep
  <2>2. CASE p # r
    <3>1. \/ EndRespond(p, "text")
          \/ \E q : ask' = [ask EXCEPT ![p] = q]
      BY <1>6 DEF ModelCallsTool
    <3> QED
      BY <1>0, <1>2, <2>2, <3>1
  <2> QED
    BY <2>1, <2>2
<1>7. ASSUME NEW t \in Tabs, NEW p \in Asks, AnswerShown(t, p) \/ AskFails(t, p) PROVE FALSE
  <2>1. ask' = [ask EXCEPT ![p] = [ask[p] EXCEPT !.tab = Nothing]]
    BY <1>0, <1>7 DEF AnswerShown, AskFails
  <2>2. [ask[p] EXCEPT !.tab = Nothing].answer = ask[p].answer
    BY <1>0 DEF Request
  <2> QED
    BY <1>1, <2>1, <2>2
<1>8. ASSUME NEW p \in Asks, ModelAnswers(p) PROVE p = r
  BY <1>2, <1>8 DEF ModelAnswers
<1>9. CASE DepartmentChanges \/ \E t \in Tabs : LeaveAssistant(t)
  BY <1>9 DEF DepartmentChanges, LeaveAssistant
<1> QED
  BY <1>3, <1>4, <1>5, <1>6, <1>7, <1>8, <1>9 DEF AssistantNext

(* Every step of the assistant keeps its invariant. *)
LEMMA AssistantStep == AssistantInv /\ [AssistantNext]_assistantVars => AssistantInv'
<1> SUFFICES ASSUME AssistantInv, [AssistantNext]_assistantVars PROVE AssistantInv'
  OBVIOUS
<1>1. CASE UNCHANGED assistantVars
  <2>1. /\ available' = available /\ held' = held /\ conversationId' = conversationId
        /\ sending' = sending /\ seen' = seen /\ userMap' = userMap
        /\ entries' = entries /\ turns' = turns /\ ended' = ended /\ grounds' = grounds
        /\ ask' = ask
    BY <1>1 DEF assistantVars
  <2> QED
    BY <2>1, NothingStored DEF AssistantInv, AssistantTypeOK, OptionsFresh, Begun
<1>2. ASSUME NEW r \in Asks, RefuseTickets(r) \/ ModelAnswers(r) \/ Fallback(r)
      PROVE  AssistantInv'
  <2>1. \A answer \in Answers, context \in BOOLEAN :
          \A options : NormalizeResponse(answer, options, context) \in Answers
    BY NormalAnswers
  <2>2. \A view, message : HasPrefillContext(view, message) \in BOOLEAN
    BY DEF HasPrefillContext
  <2>3. ask[r].step = "asking" /\ \E answer \in Answers : EndRespond(r, answer)
    <3>1. "text" \in Answers
      BY DEF Answers
    <3> QED
      BY <1>2, <2>1, <2>2, <3>1 DEF RefuseTickets, ModelAnswers, Fallback, Asking
  <2> QED
    BY <2>3, EndRespondStep
<1>3. ASSUME NEW r \in Asks, ModelCallsTool(r) PROVE AssistantInv'
  BY <1>3, ToolCallStep
<1>4. ASSUME NEW r \in Asks, ReadOptions(r) \/ OptionsLoaded(r) \/ OptionsFail(r)
      PROVE  AssistantInv'
  BY <1>4, OptionsStep
<1>5. ASSUME NEW t \in Tabs, NEW r \in Asks, NEW message \in Messages,
             SendMessage(t, r, message)
      PROVE  AssistantInv'
  BY <1>5, SendMessageStep
<1> QED
  BY <1>1, <1>2, <1>3, <1>4, <1>5, PageStep DEF AssistantNext

(* The invariant of the assistant: a conversation is of one Map and one    *)
(* identifier, what is in the turns was said in it, a Map holds what was   *)
(* last used under an identifier, and what it no longer holds made room.   *)
THEOREM AssistantInvariant == AssistantSpec => []AssistantInv
BY AssistantInitially, AssistantStep, PTL DEF AssistantSpec

(* The types of the requests and of what AiService keeps in memory.        *)
THEOREM AssistantTypeCorrect == AssistantSpec => []AssistantTypeOK
<1>1. AssistantInv => AssistantTypeOK
  BY DEF AssistantInv
<1> QED
  BY <1>1, AssistantInvariant, PTL

(* A request looks up at most one ticket, one the user named in the        *)
(* conversation: however often the model calls the tool and for whatever.  *)
THEOREM OneTicketIsInspected == AssistantSpec => []OneTicketInspected
<1>1. AssistantInv => OneTicketInspected
  BY DEF AssistantInv
<1> QED
  BY <1>1, AssistantInvariant, PTL

(* The conversations used last stay in the Map of the user, whatever       *)
(* MAX_CONVERSATIONS_PER_USER is and however requests overlap.             *)
THEOREM ConversationsAreKept == AssistantSpec => []ConversationKept
<1>1. AssistantInv => ConversationKept
  <2> SUFFICES ASSUME AssistantInv, NEW r \in Asks, ask[r].step = "ended",
                      ask[r].map = userMap, entries[userMap][ask[r].id] = Nothing
               PROVE  Forgotten(r)
    BY DEF ConversationKept
  <2> DEFINE i == ask[r].id
             later == {j \in 1 .. Len(ended) :
                         /\ ask[ended[j]].map = userMap
                         /\ \A l \in j .. Len(ended) :
                              ask[ended[l]].map = userMap => ask[ended[l]].id # i}
  <2>1. i \in Asks /\ userMap \in Asks /\ ended \in Seq(Asks)
    BY DEF AssistantInv, ConversationsAtHome, Begun, AssistantTypeOK
  <2>2. PICK k \in DOMAIN ended : ended[k] = r
    BY DEF AssistantInv, EndedOnce
  <2>3. Uses(k, userMap, i)
    BY <2>2 DEF Uses
  <2>4. Cardinality(Since(userMap, i)) >= MaxConversations
    BY <2>1, <2>3 DEF AssistantInv, ForgottenForOthers
  <2>5. Since(userMap, i) = {ask[ended[j]].id : j \in later}
    BY <2>1 DEF Since, Uses
  <2> QED
    BY <2>4, <2>5 DEF Forgotten
<1> QED
  BY <1>1, AssistantInvariant, PTL

(* A prefill action is answered only where the user asked for a ticket or  *)
(* was offered one, and for a department that was active while the request *)
(* ran if the message asks for it or confirms: whatever the model answers. *)
THEOREM PrefillsAreJustified == AssistantSpec => PrefillJustified
<1> DEFINE A == \A r \in Asks :
                  (ask[r].answer # "action" /\ ask'[r].answer = "action")
                    => /\ ask[r].message = "asks" \/ ask[r].conversation \in grounds
                       /\ ask[r].prefillTurn => r \in seen
<1>1. AssistantInv /\ [AssistantNext]_assistantVars => [A]_assistantVars
  <2> SUFFICES ASSUME AssistantInv, AssistantNext, NEW r \in Asks,
                      ask[r].answer # "action", ask'[r].answer = "action"
               PROVE  /\ ask[r].message = "asks" \/ ask[r].conversation \in grounds
                      /\ ask[r].prefillTurn => r \in seen
    OBVIOUS
  <2>1. ModelAnswers(r)
    BY OnlyModelAnswers
  <2>2. PICK answer \in Answers :
          /\ ask[r].step = "asking"
          /\ EndRespond(r, NormalizeResponse(answer, ask[r].options,
                                             HasPrefillContext(ask[r].view, ask[r].message)))
    BY <2>1 DEF ModelAnswers, Asking
  <2> DEFINE context == HasPrefillContext(ask[r].view, ask[r].message)
             normal == NormalizeResponse(answer, ask[r].options, context)
  <2>3. ask[r] \in Request /\ ask \in [Asks -> Request] /\ context \in BOOLEAN
    BY DEF AssistantInv, AssistantTypeOK, HasPrefillContext
  <2>4. normal = "action"
    <3>1. EndRespond(r, normal)
      BY <2>2
    <3> HIDE DEF normal
    <3>2. ask'[r].answer = normal
      BY <2>3, <3>1 DEF EndRespond, Request
    <3> QED
      BY <3>2
  <2> HIDE DEF context
  <2>5. context /\ ask[r].options = "with"
    BY <2>3, <2>4, NormalAnswers
  <2>6. SaidIn(ask[r].conversation, ask[r].view)
    BY <2>2 DEF AssistantInv, TurnsSaid
  <2>7. ask[r].message = "asks" \/ ask[r].conversation \in grounds
    BY <2>5, <2>6 DEF context, HasPrefillContext, SaidIn, Context
  <2>8. ask[r].prefillTurn => r \in seen
    BY <2>2, <2>5 DEF AssistantInv, OptionsFresh
  <2> QED
    BY <2>7, <2>8
<1> QED
  BY <1>1, AssistantInvariant, PTL DEF AssistantSpec, PrefillJustified

-----------------------------------------------------------------------------
(* The notifications *)

Written(job) == {u \in Persons : job.got[u] > 0}

Accounted(job) ==
  /\ job.step = "done" => job.always \subseteq Written(job) \cup job.over
  /\ \A u \in Persons : job.got[u] > 1 => u \in job.unsure
  /\ Written(job) \cup job.told \subseteq job.ever

(* Before the record is read: who is in the department is entitled, and    *)
(* who was all the time still is in it.                                    *)
Waits(job, here) ==
  /\ Written(job) = {} /\ job.unsure = {} /\ job.over = {}
  /\ job.kind \in DepartmentKinds =>
       /\ here \ {job.actor} \subseteq job.ever
       /\ job.always \subseteq here \ {job.actor}
  /\ job.kind = "reopened" => job.actor = Submitter

(* While the e-mails are sent: each recipient is left once, nobody who is  *)
(* left was written to but with a lost answer, and nobody is forgotten.    *)
Sends(job) ==
  /\ IsInjective(job.todo) /\ ToSet(job.todo) \subseteq job.ever
  /\ job.always \subseteq Written(job) \cup job.over \cup ToSet(job.todo)
  /\ \A u \in ToSet(job.todo) : job.got[u] > 0 => u \in job.unsure

(* The others are told of a change whoever is in the department.           *)
ToldAlone(job) ==
  (job.step # "none" /\ job.kind \notin DepartmentKinds) =>
    /\ job.ever = Entitled(job.kind, job.actor)
    /\ job.always = Entitled(job.kind, job.actor)

JobRight(job, here) ==
  /\ Accounted(job) /\ ToldAlone(job)
  /\ job.step \in {"committed", "mailing"} => Waits(job, here)
  /\ job.step = "sending" => Sends(job)

NotificationsInv ==
  NotificationsTypeOK /\ \A j \in Mails : JobRight(mail[j], members)

(* A finite set is enumerated, each element once. *)
LEMMA Enumeration ==
  ASSUME NEW S, IsFiniteSet(S)
  PROVE  SetToSeq(S) \in Seq(S) /\ IsInjective(SetToSeq(S)) /\ ToSet(SetToSeq(S)) = S
<1> DEFINE n == Cardinality(S)
           s == SetToSeq(S)
<1>1. n \in Nat /\ ExistsBijection(1 .. n, S)
  BY FS_CardinalityType
<1>2. PICK f \in [1 .. n -> S] : IsInjective(f)
  BY <1>1 DEF ExistsBijection, Bijection, Injection
<1>3. s \in [1 .. n -> S] /\ IsInjective(s)
  BY <1>2 DEF SetToSeq
<1> HIDE DEF n, s
<1>4. s \in Injection(1 .. n, S)
  BY <1>3 DEF Injection
<1>5. IsFiniteSet(1 .. n) /\ Cardinality(1 .. n) = n
  BY <1>1, FS_Interval
<1>6. s \in Surjection(1 .. n, S)
  BY <1>4, <1>5, FS_Injection DEF n
<1>7. s \in Seq(S)
  BY <1>1, <1>3
<1>8. ToSet(s) = S
  BY <1>3, <1>6 DEF ToSet, Surjection
<1> QED
  BY <1>3, <1>7, <1>8 DEF s

(* The next recipient is taken when the first has been written to, or has  *)
(* been given up.                                                          *)
LEMMA NextRecipientRight ==
  ASSUME NEW job \in MailState, NEW here, job.step = "sending", job.todo # <<>>,
         Accounted(job), ToldAlone(job),
         IsInjective(job.todo), ToSet(job.todo) \subseteq job.ever,
         job.always \subseteq Written(job) \cup job.over \cup ToSet(job.todo),
         \A u \in ToSet(job.todo) : u # Head(job.todo) => (job.got[u] > 0 => u \in job.unsure),
         Head(job.todo) \in Written(job) \cup job.over
  PROVE  NextRecipient(job) \in MailState /\ JobRight(NextRecipient(job), here)
<1> DEFINE q == NextRecipient(job)
           rest == Tail(job.todo)
<1>1. /\ job.todo \in Seq(Persons) /\ rest \in Seq(Persons) /\ Len(rest) = Len(job.todo) - 1
      /\ \A i \in 1 .. Len(rest) : rest[i] = job.todo[i + 1]
      /\ Len(job.todo) \in Nat \ {0} /\ Head(job.todo) = job.todo[1]
  BY HeadTailProperties, LenProperties, EmptySeq DEF MailState
<1>2. DOMAIN job.todo = 1 .. Len(job.todo) /\ DOMAIN rest = 1 .. Len(rest)
  BY <1>1
<1>3. IsInjective(rest)
  BY <1>1, <1>2 DEF IsInjective
<1>4. ToSet(rest) = ToSet(job.todo) \ {Head(job.todo)}
  <2>1. ASSUME NEW u \in ToSet(rest) PROVE u \in ToSet(job.todo) /\ u # Head(job.todo)
    <3>1. PICK i \in 1 .. Len(rest) : u = rest[i]
      BY <1>2 DEF ToSet
    <3>2. u = job.todo[i + 1] /\ i + 1 \in 1 .. Len(job.todo) /\ i + 1 # 1 /\ 1 \in 1 .. Len(job.todo)
      BY <1>1, <3>1
    <3> QED
      BY <1>1, <1>2, <3>2 DEF ToSet, IsInjective
  <2>2. ASSUME NEW u \in ToSet(job.todo), u # Head(job.todo) PROVE u \in ToSet(rest)
    <3>1. PICK i \in 1 .. Len(job.todo) : u = job.todo[i]
      BY <1>2 DEF ToSet
    <3>2. i - 1 \in 1 .. Len(rest) /\ i - 1 + 1 = i
      BY <1>1, <2>2, <3>1
    <3>3. u = rest[i - 1]
      BY <1>1, <3>1, <3>2
    <3> QED
      BY <1>2, <3>2, <3>3 DEF ToSet
  <2> QED
    BY <2>1, <2>2
<1> HIDE DEF rest
<1>5. /\ q \in MailState /\ q.todo = rest /\ q.got = job.got /\ q.unsure = job.unsure
      /\ q.over = job.over /\ q.ever = job.ever /\ q.always = job.always
      /\ q.kind = job.kind /\ q.actor = job.actor /\ q.told = job.told
      /\ q.step = IF Len(job.todo) = 1 THEN "done" ELSE "sending"
  BY <1>1 DEF NextRecipient, MailState, rest
<1> HIDE DEF q
<1>6. Written(q) = Written(job)
  BY <1>5 DEF Written
<1>7. q.always \subseteq Written(q) \cup q.over \cup ToSet(q.todo)
  BY <1>4, <1>5, <1>6
<1>8. q.step = "done" => ToSet(q.todo) = {}
  BY <1>1, <1>2, <1>5 DEF ToSet
<1>9. Accounted(q)
  <2>1. q.step = "done" => q.always \subseteq Written(q) \cup q.over
    BY <1>7, <1>8
  <2>2. \A u \in Persons : q.got[u] > 1 => u \in q.unsure
    BY <1>5 DEF Accounted
  <2>3. Written(q) \cup q.told \subseteq q.ever
    BY <1>5, <1>6 DEF Accounted
  <2> QED
    BY <2>1, <2>2, <2>3 DEF Accounted
<1>10. ToldAlone(q)
  BY <1>5 DEF ToldAlone
<1>11. Sends(q)
  <2>1. IsInjective(q.todo)
    BY <1>3, <1>5
  <2>2. ToSet(q.todo) \subseteq q.ever
    BY <1>4, <1>5
  <2>3. \A u \in ToSet(q.todo) : q.got[u] > 0 => u \in q.unsure
    BY <1>4, <1>5
  <2> QED
    BY <1>7, <2>1, <2>2, <2>3 DEF Sends
<1> QED
  BY <1>5, <1>9, <1>10, <1>11 DEF JobRight, q

(* Whoever joins or leaves the department, what was right of the others    *)
(* stays right.                                                            *)
LEMMA ToldAloneStays ==
  ASSUME NEW q \in MailState, ToldAlone(q)
  PROVE  ToldAlone(q)'
BY DEF ToldAlone, Entitled, MailState, Kinds, DepartmentKinds, HandoffKinds

(* One change goes on, and nobody joins or leaves.                         *)
LEMMA JobGoesOn ==
  ASSUME NotificationsInv, NEW j \in Mails, NEW q \in MailState, JobRight(q, members),
         mail' = [mail EXCEPT ![j] = q], members' = members,
         state' \in {"none", "open", "claimed", "closed"},
         offer' \in {"none", "PENDING", "ACCEPTED", "REJECTED", "CANCELLED"},
         mailFaults' \in 0 .. MaxMailFaults, moves' \in 0 .. MaxMoves
  PROVE  NotificationsInv'
<1>1. NotificationsTypeOK'
  BY DEF NotificationsInv, NotificationsTypeOK
<1>2. ASSUME NEW i \in Mails PROVE JobRight(mail[i], members)'
  <2>1. PICK p \in MailState : p = mail'[i] /\ JobRight(p, members)
    BY <1>2 DEF NotificationsInv, NotificationsTypeOK
  <2>2. ToldAlone(p)'
    BY <2>1, ToldAloneStays DEF JobRight
  <2> QED
    BY <2>1, <2>2 DEF JobRight
<1> QED
  BY <1>1, <1>2 DEF NotificationsInv

(* A change is committed.                                                  *)
LEMMA CommitsStep ==
  ASSUME NotificationsInv, NEW kind \in Kinds, NEW actor \in Persons \cup {Nobody},
         kind = "reopened" => actor = Submitter,
         Commits(kind, actor),
         state' \in {"none", "open", "claimed", "closed"},
         offer' \in {"none", "PENDING", "ACCEPTED", "REJECTED", "CANCELLED"}
  PROVE  NotificationsInv'
<1>1. PICK j \in Mails :
        /\ mail' = [mail EXCEPT ![j] =
             [NoMail EXCEPT !.step = "committed", !.kind = kind, !.actor = actor,
                !.ever = Entitled(kind, actor), !.always = Entitled(kind, actor)]]
        /\ UNCHANGED <<members, mailFaults, moves>>
  BY DEF Commits
<1>2. PICK entitled \in SUBSET Persons :
        /\ entitled = Entitled(kind, actor)
        /\ kind \in DepartmentKinds => entitled = members \ {actor}
  <2>1. Entitled(kind, actor) \in SUBSET Persons
    BY NotificationsAssumption
       DEF Entitled, NotificationsInv, NotificationsTypeOK, Kinds, DepartmentKinds, HandoffKinds
  <2>2. kind \in DepartmentKinds => Entitled(kind, actor) = members \ {actor}
    BY DEF Entitled, DepartmentKinds, HandoffKinds
  <2> QED
    BY <2>1, <2>2
<1> DEFINE q == [NoMail EXCEPT !.step = "committed", !.kind = kind, !.actor = actor,
                   !.ever = entitled, !.always = entitled]
<1>3. /\ q \in MailState /\ q.step = "committed" /\ q.kind = kind /\ q.actor = actor
      /\ q.ever = entitled /\ q.always = entitled /\ q.told = {} /\ q.over = {}
      /\ q.unsure = {} /\ \A u \in Persons : q.got[u] = 0
  <2>1. NoMail \in MailState
    BY DEF NoMail, MailState, Kinds, DepartmentKinds
  <2>2. /\ NoMail.told = {} /\ NoMail.over = {} /\ NoMail.unsure = {}
        /\ \A u \in Persons : NoMail.got[u] = 0
    BY DEF NoMail
  <2> QED
    BY <2>1, <2>2 DEF MailState
<1>4. mail' = [mail EXCEPT ![j] = q]
  BY <1>1, <1>2
<1> HIDE DEF q
<1>5. Written(q) = {}
  BY <1>3 DEF Written
<1>6. Accounted(q)
  BY <1>3, <1>5 DEF Accounted
<1>7. ToldAlone(q)
  BY <1>2, <1>3 DEF ToldAlone
<1>8. Waits(q, members)
  BY <1>2, <1>3, <1>5 DEF Waits
<1>9. JobRight(q, members)
  BY <1>3, <1>6, <1>7, <1>8 DEF JobRight
<1>10. members' = members /\ mailFaults' \in 0 .. MaxMailFaults /\ moves' \in 0 .. MaxMoves
  BY <1>1 DEF NotificationsInv, NotificationsTypeOK
<1> QED
  BY <1>3, <1>4, <1>9, <1>10, JobGoesOn

(* Somebody joins or leaves the department: a change that has not been     *)
(* read yet is told to others.                                             *)
LEMMA MemberMovesStep ==
  ASSUME NotificationsInv, NEW u \in Persons, MemberMoves(u)
  PROVE  NotificationsInv'
<1>1. /\ members \subseteq Persons /\ mail \in [Mails -> MailState]
      /\ moves \in 0 .. MaxMoves /\ moves < MaxMoves /\ moves' = moves + 1
      /\ members' = IF u \in members THEN members \ {u} ELSE members \cup {u}
      /\ UNCHANGED <<state, offer, mailFaults>>
  BY DEF NotificationsInv, NotificationsTypeOK, MemberMoves
<1>2. PICK here \in SUBSET Persons :
        here = members' /\ here \subseteq members \cup {u} /\ members \ {u} \subseteq here
  <2>1. members' \in SUBSET Persons /\ members' \subseteq members \cup {u}
        /\ members \ {u} \subseteq members'
    BY <1>1
  <2> QED
    BY <2>1
<1> DEFINE Moved(m) ==
             IF m.kind \in DepartmentKinds /\ m.step \in {"committed", "mailing"}
             THEN [m EXCEPT !.ever = @ \cup (here \ {m.actor}), !.always = @ \ {u}]
             ELSE m
<1>3. mail' = [j \in Mails |-> Moved(mail[j])]
  BY <1>2 DEF MemberMoves
<1>4. ASSUME NEW m \in MailState, JobRight(m, members)
      PROVE  Moved(m) \in MailState /\ JobRight(Moved(m), here)
  <2>1. CASE m.kind \in DepartmentKinds /\ m.step \in {"committed", "mailing"}
    <3> DEFINE q == [m EXCEPT !.ever = @ \cup (here \ {m.actor}), !.always = @ \ {u}]
    <3>1. /\ q \in MailState /\ q.step = m.step /\ q.kind = m.kind /\ q.actor = m.actor
          /\ q.told = m.told /\ q.got = m.got /\ q.unsure = m.unsure /\ q.over = m.over
          /\ q.ever = m.ever \cup (here \ {m.actor}) /\ q.always = m.always \ {u}
      BY DEF MailState
    <3>2. Moved(m) = q
      BY <2>1
    <3> HIDE DEF q, Moved
    <3>3. Written(q) = Written(m)
      BY <3>1 DEF Written
    <3>4. Accounted(q)
      BY <1>4, <2>1, <3>1, <3>3 DEF JobRight, Accounted
    <3>5. ToldAlone(q)
      BY <2>1, <3>1 DEF ToldAlone
    <3>6. Waits(q, here)
      BY <1>2, <1>4, <2>1, <3>1, <3>3 DEF JobRight, Waits
    <3> QED
      BY <2>1, <3>1, <3>2, <3>4, <3>5, <3>6 DEF JobRight
  <2>2. CASE ~(m.kind \in DepartmentKinds /\ m.step \in {"committed", "mailing"})
    BY <1>4, <2>2 DEF JobRight, Waits
  <2> QED
    BY <2>1, <2>2
<1> HIDE DEF Moved
<1>5. \A j \in Mails : mail'[j] \in MailState /\ JobRight(mail'[j], here)
  BY <1>1, <1>3, <1>4 DEF NotificationsInv
<1>6. NotificationsTypeOK'
  <2>1. mail' \in [Mails -> MailState]
    BY <1>3, <1>5
  <2>2. moves' \in 0 .. MaxMoves
    BY <1>1, NotificationsAssumption
  <2> QED
    BY <1>1, <1>2, <2>1, <2>2 DEF NotificationsInv, NotificationsTypeOK
<1>7. ASSUME NEW j \in Mails PROVE JobRight(mail[j], members)'
  <2>1. PICK p \in MailState : p = mail'[j] /\ JobRight(p, here)
    BY <1>5
  <2>2. ToldAlone(p)'
    BY <2>1, ToldAloneStays DEF JobRight
  <2> QED
    BY <1>2, <2>1, <2>2 DEF JobRight
<1> QED
  BY <1>6, <1>7 DEF NotificationsInv

(* The notification in the application goes to people who are entitled.    *)
LEMMA NotifyStep ==
  ASSUME NotificationsInv, NEW j \in Mails, Notify(j)
  PROVE  NotificationsInv'
<1>1. /\ mail[j] \in MailState /\ JobRight(mail[j], members) /\ mail[j].step = "committed"
      /\ mail \in [Mails -> MailState] /\ members \subseteq Persons
      /\ UNCHANGED <<state, offer, members, mailFaults, moves>>
  BY DEF NotificationsInv, NotificationsTypeOK, Notify
<1>2. PICK users : users = InAppRecipients(j)
  OBVIOUS
<1>3. users \subseteq mail[j].ever
  <2>1. mail[j].kind \in DepartmentKinds => users \subseteq mail[j].ever
    BY <1>1, <1>2
       DEF JobRight, Waits, InAppRecipients, DepartmentKinds
  <2>2. mail[j].kind \notin DepartmentKinds =>
          users \subseteq Entitled(mail[j].kind, mail[j].actor)
    BY <1>1, <1>2
       DEF InAppRecipients, Entitled, MailState, Kinds, DepartmentKinds, HandoffKinds
  <2>3. mail[j].kind \notin DepartmentKinds =>
          mail[j].ever = Entitled(mail[j].kind, mail[j].actor)
    BY <1>1 DEF JobRight, ToldAlone
  <2> QED
    BY <2>1, <2>2, <2>3
<1> DEFINE q == [mail[j] EXCEPT !.step = "mailing", !.told = users]
<1>4. mail' = [mail EXCEPT ![j] = q]
  BY <1>2 DEF Notify, Told
<1>5. users \subseteq Persons
  BY <1>1, <1>3 DEF MailState
<1>6. /\ q \in MailState /\ q.step = "mailing" /\ q.kind = mail[j].kind
      /\ q.actor = mail[j].actor /\ q.told = users /\ q.got = mail[j].got
      /\ q.unsure = mail[j].unsure /\ q.over = mail[j].over
      /\ q.ever = mail[j].ever /\ q.always = mail[j].always
  BY <1>1, <1>5 DEF MailState
<1> HIDE DEF q
<1>7. Written(q) = Written(mail[j])
  BY <1>6 DEF Written
<1>8. Accounted(q)
  BY <1>1, <1>3, <1>6, <1>7 DEF JobRight, Accounted
<1>9. ToldAlone(q) /\ Waits(q, members)
  BY <1>1, <1>6, <1>7 DEF JobRight, ToldAlone, Waits
<1>10. JobRight(q, members)
  BY <1>6, <1>8, <1>9 DEF JobRight
<1>11. /\ state' \in {"none", "open", "claimed", "closed"}
       /\ offer' \in {"none", "PENDING", "ACCEPTED", "REJECTED", "CANCELLED"}
       /\ mailFaults' \in 0 .. MaxMailFaults /\ moves' \in 0 .. MaxMoves
  BY <1>1 DEF NotificationsInv, NotificationsTypeOK
<1> QED
  BY <1>1, <1>4, <1>6, <1>10, <1>11, JobGoesOn

(* A change that only takes another step, before the e-mails are sent.     *)
LEMMA EarlyStep ==
  ASSUME NEW job \in MailState, NEW here, JobRight(job, here),
         job.step \in {"committed", "mailing"}, NEW step \in {"mailing", "dropped"}
  PROVE  LET q == [job EXCEPT !.step = step] IN q \in MailState /\ JobRight(q, here)
<1> DEFINE q == [job EXCEPT !.step = step]
<1>1. /\ q \in MailState /\ q.step = step /\ q.kind = job.kind
      /\ q.actor = job.actor /\ q.told = job.told /\ q.got = job.got
      /\ q.unsure = job.unsure /\ q.over = job.over
      /\ q.ever = job.ever /\ q.always = job.always
  BY DEF MailState
<1> HIDE DEF q
<1>2. Written(q) = Written(job)
  BY <1>1 DEF Written
<1>3. Accounted(q) /\ ToldAlone(q) /\ Waits(q, here)
  BY <1>1, <1>2 DEF JobRight, Accounted, ToldAlone, Waits
<1> QED
  BY <1>1, <1>3 DEF JobRight, q

(* The recipients that are read are those who are entitled: with the       *)
(* submitter only where the submitter did not do it.                       *)
LEMMA RecipientsEntitled ==
  ASSUME NotificationsInv, NEW j \in Mails, mail[j].step = "mailing"
  PROVE  /\ Recipients(j) \in Seq(Persons)
         /\ mail[j].always \subseteq ToSet(Recipients(j))
         /\ ToSet(Recipients(j)) \subseteq mail[j].ever
<1> DEFINE m == mail[j]
           department == members \ {m.actor}
           enumerated == DepartmentRecipients(j)
<1>1. m \in MailState /\ JobRight(m, members) /\ members \subseteq Persons
  BY DEF NotificationsInv, NotificationsTypeOK
<1>2. /\ Waits(m, members)
      /\ m.kind \notin DepartmentKinds =>
           /\ m.ever = Entitled(m.kind, m.actor) /\ m.always = Entitled(m.kind, m.actor)
  BY <1>1 DEF JobRight, ToldAlone
<1>3. enumerated \in Seq(Persons) /\ ToSet(enumerated) = department
  <2>1. IsFiniteSet(department)
    BY <1>1, NotificationsAssumption, FS_Subset
  <2>2. enumerated \in Seq(department) /\ ToSet(enumerated) = department
    BY <2>1, Enumeration DEF DepartmentRecipients
  <2>3. Seq(department) \subseteq Seq(Persons)
    BY <1>1
  <2> QED
    BY <2>2, <2>3
<1> HIDE DEF enumerated
<1>4. CASE m.kind \in DepartmentKinds
  <2>1. Recipients(j) = enumerated
    <3>1. CASE m.kind = "reopened"
      <4>1. m.actor = Submitter
        BY <1>2, <3>1 DEF Waits
      <4>2. Recipients(j) = <<>> \o enumerated
        BY <3>1, <4>1 DEF Recipients, enumerated
      <4> QED
        BY <1>3, <4>2, ConcatEmptySeq
    <3>2. CASE m.kind \in {"submitted", "reminder"}
      BY <3>2 DEF Recipients, enumerated
    <3> QED
      BY <1>4, <3>1, <3>2 DEF DepartmentKinds
  <2> QED
    BY <1>2, <1>3, <1>4, <2>1 DEF Waits
<1>5. CASE m.kind \notin DepartmentKinds
  <2>1. Recipients(j) \in Seq(Persons)
    BY <1>1, <1>5, NotificationsAssumption
       DEF Recipients, MailState, Kinds, DepartmentKinds, HandoffKinds
  <2>2. ToSet(Recipients(j)) = Entitled(m.kind, m.actor)
    <3>1. CASE m.kind \in {"claimed", "closed"}
      <4>1. Recipients(j) = IF m.actor = Submitter THEN <<>> ELSE <<Submitter>>
        BY <3>1 DEF Recipients
      <4>2. Entitled(m.kind, m.actor) = {Submitter} \ {m.actor}
        BY <3>1 DEF Entitled, DepartmentKinds
      <4>3. ToSet(<<>>) = {} /\ ToSet(<<Submitter>>) = {Submitter}
        BY DEF ToSet
      <4> QED
        BY <4>1, <4>2, <4>3
    <3>2. CASE m.kind = "requested"
      BY <3>2 DEF Recipients, Entitled, ToSet, DepartmentKinds
    <3>3. CASE m.kind = "accepted"
      <4>1. Recipients(j) = <<Requester, AskedAgent, Submitter>>
        BY <3>3 DEF Recipients
      <4>2. Entitled(m.kind, m.actor) = {Requester, AskedAgent, Submitter}
        BY <3>3 DEF Entitled, DepartmentKinds
      <4>3. ToSet(<<Requester, AskedAgent, Submitter>>) = {Requester, AskedAgent, Submitter}
        BY DEF ToSet
      <4> QED
        BY <4>1, <4>2, <4>3
    <3>4. CASE m.kind = "rejected"
      BY <3>4 DEF Recipients, Entitled, ToSet, DepartmentKinds
    <3> QED
      BY <1>1, <1>5, <3>1, <3>2, <3>3, <3>4
         DEF MailState, Kinds, HandoffKinds
  <2> QED
    BY <1>2, <1>5, <2>1, <2>2
<1> QED
  BY <1>4, <1>5

(* The record is read, and the list of recipients is begun.                *)
LEMMA ReadRecordStep ==
  ASSUME NotificationsInv, NEW j \in Mails, ReadRecord(j)
  PROVE  NotificationsInv'
<1>1. /\ mail[j] \in MailState /\ JobRight(mail[j], members) /\ mail[j].step = "mailing"
      /\ mail \in [Mails -> MailState]
      /\ UNCHANGED <<state, offer, members, mailFaults, moves>>
  BY DEF NotificationsInv, NotificationsTypeOK, ReadRecord
<1>2. /\ state' \in {"none", "open", "claimed", "closed"}
      /\ offer' \in {"none", "PENDING", "ACCEPTED", "REJECTED", "CANCELLED"}
      /\ mailFaults' \in 0 .. MaxMailFaults /\ moves' \in 0 .. MaxMoves
  BY <1>1 DEF NotificationsInv, NotificationsTypeOK
<1>3. PICK list \in Seq(Persons) :
        /\ list = Unique(Recipients(j)) /\ IsInjective(list)
        /\ mail[j].always \subseteq ToSet(list) /\ ToSet(list) \subseteq mail[j].ever
  <2>1. /\ Recipients(j) \in Seq(Persons)
        /\ mail[j].always \subseteq ToSet(Recipients(j))
        /\ ToSet(Recipients(j)) \subseteq mail[j].ever
    BY <1>1, RecipientsEntitled
  <2>2. ToSet(Recipients(j)) \subseteq Persons
    BY <1>1, <2>1 DEF MailState
  <2>3. IsFiniteSet(ToSet(Recipients(j)))
    BY <2>2, NotificationsAssumption, FS_Subset
  <2>4. /\ Unique(Recipients(j)) \in Seq(ToSet(Recipients(j)))
        /\ IsInjective(Unique(Recipients(j)))
        /\ ToSet(Unique(Recipients(j))) = ToSet(Recipients(j))
    BY <2>3, Enumeration DEF Unique
  <2>5. Unique(Recipients(j)) \in Seq(Persons)
    BY <2>2, <2>4
  <2> QED
    BY <2>1, <2>4, <2>5
<1>4. CASE StillTrue(mail[j].kind)
  <2> DEFINE q == [mail[j] EXCEPT !.step = "sending", !.todo = list]
  <2>1. mail' = [mail EXCEPT ![j] = q]
    BY <1>1, <1>3, <1>4 DEF ReadRecord
  <2>2. /\ q \in MailState /\ q.step = "sending" /\ q.todo = list /\ q.kind = mail[j].kind
        /\ q.actor = mail[j].actor /\ q.told = mail[j].told /\ q.got = mail[j].got
        /\ q.unsure = mail[j].unsure /\ q.over = mail[j].over
        /\ q.ever = mail[j].ever /\ q.always = mail[j].always
    BY <1>1, <1>3 DEF MailState
  <2> HIDE DEF q
  <2>3. Written(q) = Written(mail[j])
    BY <2>2 DEF Written
  <2>4. Accounted(q) /\ ToldAlone(q)
    BY <1>1, <2>2, <2>3 DEF JobRight, Accounted, ToldAlone
  <2>5. Sends(q)
    <3>1. \A u \in ToSet(q.todo) : q.got[u] > 0 => u \in q.unsure
      <4>1. Written(q) = {} /\ ToSet(q.todo) \subseteq Persons
        BY <1>1, <1>3, <2>2, <2>3 DEF JobRight, Waits, MailState
      <4> QED
        BY <4>1 DEF Written
    <3> QED
      BY <1>3, <2>2, <3>1 DEF Sends
  <2>6. JobRight(q, members)
    BY <2>2, <2>4, <2>5 DEF JobRight
  <2> QED
    BY <1>1, <1>2, <2>1, <2>2, <2>6, JobGoesOn
<1>5. CASE ~StillTrue(mail[j].kind)
  <2> DEFINE early == [mail[j] EXCEPT !.step = "dropped"]
             q     == [early EXCEPT !.todo = <<>>]
  <2>1. mail' = [mail EXCEPT ![j] = q]
    BY <1>1, <1>5 DEF ReadRecord, MailState
  <2>2. early \in MailState /\ JobRight(early, members) /\ early.step = "dropped"
    BY <1>1, EarlyStep DEF MailState
  <2> HIDE DEF early
  <2>3. <<>> \in Seq(Persons)
    OBVIOUS
  <2>4. /\ q \in MailState /\ q.step = "dropped" /\ q.kind = early.kind
        /\ q.actor = early.actor /\ q.told = early.told /\ q.got = early.got
        /\ q.unsure = early.unsure /\ q.over = early.over
        /\ q.ever = early.ever /\ q.always = early.always
    BY <2>2, <2>3 DEF MailState
  <2> HIDE DEF q
  <2>5. Written(q) = Written(early)
    BY <2>4 DEF Written
  <2>6. JobRight(q, members)
    BY <2>2, <2>4, <2>5 DEF JobRight, Accounted, ToldAlone
  <2> QED
    BY <1>1, <1>2, <2>1, <2>4, <2>6, JobGoesOn
<1> QED
  BY <1>4, <1>5

(* What cannot be read takes the e-mails of this change away, and no other. *)
LEMMA FailsEarly ==
  ASSUME NotificationsInv, NEW j \in Mails, NotifyFails(j) \/ ReadFails(j)
  PROVE  NotificationsInv'
<1>1. PICK step \in {"mailing", "dropped"} :
        /\ mail[j].step \in {"committed", "mailing"}
        /\ mail' = [mail EXCEPT ![j] = [mail[j] EXCEPT !.step = step]]
        /\ MailFault /\ UNCHANGED <<state, offer, members, moves>>
  <2>1. CASE NotifyFails(j)
    <3> DEFINE step == IF mail[j].kind = "reminder" THEN "mailing" ELSE "dropped"
    <3>1. /\ mail[j].step = "committed" /\ step \in {"mailing", "dropped"}
          /\ mail' = [mail EXCEPT ![j] = [mail[j] EXCEPT !.step = step]]
          /\ MailFault /\ UNCHANGED <<state, offer, members, moves>>
      BY <2>1 DEF NotifyFails, NotificationsInv, NotificationsTypeOK
    <3> HIDE DEF step
    <3> QED
      BY <3>1
  <2>2. CASE ReadFails(j)
    BY <2>2 DEF ReadFails, NotificationsInv, NotificationsTypeOK
  <2> QED
    BY <2>1, <2>2
<1> DEFINE q == [mail[j] EXCEPT !.step = step]
<1>2. q \in MailState /\ JobRight(q, members)
  BY <1>1, EarlyStep DEF NotificationsInv, NotificationsTypeOK
<1>3. mail' = [mail EXCEPT ![j] = q] /\ members' = members
  BY <1>1
<1> HIDE DEF q
<1>4. /\ state' \in {"none", "open", "claimed", "closed"}
      /\ offer' \in {"none", "PENDING", "ACCEPTED", "REJECTED", "CANCELLED"}
      /\ mailFaults' \in 0 .. MaxMailFaults /\ moves' \in 0 .. MaxMoves
  BY <1>1, NotificationsAssumption DEF NotificationsInv, NotificationsTypeOK, MailFault
<1> QED
  BY <1>2, <1>3, <1>4, JobGoesOn

(* The answer to an e-mail that was sent: the recipient has it, or not, or *)
(* nobody knows.                                                           *)
LEMMA AnswerNoted ==
  ASSUME NEW job \in MailState, NEW here, JobRight(job, here), job.step = "sending",
         job.todo # <<>>, NEW q \in MailState, NEW u \in Persons,
         u = Head(job.todo), q.step = "sending", q.todo = job.todo, q.kind = job.kind,
         q.actor = job.actor, q.told = job.told, q.ever = job.ever, q.always = job.always,
         \A v \in Persons : v # u => q.got[v] = job.got[v],
         q.got[u] \in {job.got[u], job.got[u] + 1},
         job.unsure \subseteq q.unsure, job.over \subseteq q.over
  PROVE  /\ q.todo # <<>> /\ Accounted(q) /\ ToldAlone(q)
         /\ IsInjective(q.todo) /\ ToSet(q.todo) \subseteq q.ever
         /\ q.always \subseteq Written(q) \cup q.over \cup ToSet(q.todo)
         /\ \A v \in ToSet(q.todo) : v # u => (q.got[v] > 0 => v \in q.unsure)
<1>1. Sends(job) /\ Accounted(job) /\ ToldAlone(job)
  BY DEF JobRight
<1>2. job.got \in [Persons -> Nat] /\ q.got \in [Persons -> Nat] /\ job.ever \subseteq Persons
  BY DEF MailState
<1>3. Written(job) \subseteq Written(q) /\ Written(q) \subseteq Written(job) \cup {u}
  BY <1>2 DEF Written
<1>4. u \in ToSet(job.todo)
  <2>1. Len(job.todo) \in Nat \ {0} /\ job.todo \in Seq(Persons)
    BY LenProperties, EmptySeq DEF MailState
  <2>2. 1 \in DOMAIN job.todo /\ u = job.todo[1]
    BY <2>1
  <2> QED
    BY <2>2 DEF ToSet
<1>5. Accounted(q)
  <2>1. ASSUME NEW v \in Persons, q.got[v] > 1 PROVE v \in q.unsure
    <3>1. CASE v = u
      <4>1. job.got[u] > 0
        BY <1>2, <2>1, <3>1
      <4> QED
        BY <1>1, <1>4, <3>1, <4>1 DEF Sends
    <3>2. CASE v # u
      BY <1>1, <2>1, <3>2 DEF Accounted
    <3> QED
      BY <3>1, <3>2
  <2>2. Written(q) \cup q.told \subseteq q.ever
    BY <1>1, <1>3, <1>4 DEF Accounted, Sends
  <2> QED
    BY <2>1, <2>2 DEF Accounted
<1>6. ToldAlone(q)
  BY <1>1 DEF ToldAlone
<1>7. \A v \in ToSet(q.todo) : v # u => (q.got[v] > 0 => v \in q.unsure)
  BY <1>1, <1>2 DEF Sends
<1>8. q.always \subseteq Written(q) \cup q.over \cup ToSet(q.todo)
  BY <1>1, <1>3 DEF Sends
<1> QED
  BY <1>1, <1>5, <1>6, <1>7, <1>8 DEF Sends

(* The provider has accepted the e-mail, or there is nobody to tell.       *)
LEMMA SendAcceptedStep ==
  ASSUME NotificationsInv, NEW j \in Mails, SendAccepted(j)
  PROVE  NotificationsInv'
<1>1. /\ mail[j] \in MailState /\ JobRight(mail[j], members) /\ mail[j].step = "sending"
      /\ mail \in [Mails -> MailState]
      /\ UNCHANGED <<state, offer, members, mailFaults, moves>>
  BY DEF NotificationsInv, NotificationsTypeOK, SendAccepted
<1>2. /\ state' \in {"none", "open", "claimed", "closed"}
      /\ offer' \in {"none", "PENDING", "ACCEPTED", "REJECTED", "CANCELLED"}
      /\ mailFaults' \in 0 .. MaxMailFaults /\ moves' \in 0 .. MaxMoves
  BY <1>1 DEF NotificationsInv, NotificationsTypeOK
<1>3. CASE mail[j].todo = <<>>
  <2> DEFINE q == [mail[j] EXCEPT !.step = "done"]
  <2>1. mail' = [mail EXCEPT ![j] = q]
    BY <1>3 DEF SendAccepted
  <2>2. /\ q \in MailState /\ q.step = "done" /\ q.kind = mail[j].kind
        /\ q.actor = mail[j].actor /\ q.told = mail[j].told /\ q.got = mail[j].got
        /\ q.unsure = mail[j].unsure /\ q.over = mail[j].over
        /\ q.ever = mail[j].ever /\ q.always = mail[j].always
    BY <1>1 DEF MailState
  <2> HIDE DEF q
  <2>3. Written(q) = Written(mail[j]) /\ ToSet(mail[j].todo) = {}
    BY <1>3, <2>2 DEF Written, ToSet
  <2>4. Accounted(q) /\ ToldAlone(q)
    BY <1>1, <2>2, <2>3 DEF JobRight, Accounted, ToldAlone, Sends
  <2>5. JobRight(q, members)
    BY <2>2, <2>4 DEF JobRight
  <2> QED
    BY <1>1, <1>2, <2>1, <2>2, <2>5, JobGoesOn
<1>4. CASE mail[j].todo # <<>>
  <2>1. PICK u \in Persons : u = Head(mail[j].todo)
    BY <1>1, <1>4, HeadTailProperties DEF MailState
  <2> DEFINE q == [mail[j] EXCEPT !.got[u] = @ + 1]
  <2>2. mail' = [mail EXCEPT ![j] = NextRecipient(q)]
    BY <1>4, <2>1 DEF SendAccepted
  <2>3. /\ q \in MailState /\ q.step = "sending" /\ q.todo = mail[j].todo
        /\ q.kind = mail[j].kind /\ q.actor = mail[j].actor /\ q.told = mail[j].told
        /\ q.unsure = mail[j].unsure /\ q.over = mail[j].over
        /\ q.ever = mail[j].ever /\ q.always = mail[j].always
        /\ q.got = [mail[j].got EXCEPT ![u] = mail[j].got[u] + 1]
    <3>1. [mail[j].got EXCEPT ![u] = mail[j].got[u] + 1] \in [Persons -> Nat]
      BY <1>1 DEF MailState
    <3> QED
      BY <1>1, <3>1 DEF MailState
  <2>4. /\ q.got[u] = mail[j].got[u] + 1 /\ mail[j].got[u] \in Nat
        /\ \A v \in Persons : v # u => q.got[v] = mail[j].got[v]
    BY <1>1, <2>3 DEF MailState
  <2> HIDE DEF q
  <2>5. /\ q.todo # <<>> /\ Accounted(q) /\ ToldAlone(q)
        /\ IsInjective(q.todo) /\ ToSet(q.todo) \subseteq q.ever
        /\ q.always \subseteq Written(q) \cup q.over \cup ToSet(q.todo)
        /\ \A v \in ToSet(q.todo) : v # u => (q.got[v] > 0 => v \in q.unsure)
    BY <1>1, <1>4, <2>1, <2>3, <2>4, AnswerNoted
  <2>6. u \in Written(q)
    BY <2>4 DEF Written
  <2>7. NextRecipient(q) \in MailState /\ JobRight(NextRecipient(q), members)
    BY <2>1, <2>3, <2>5, <2>6, NextRecipientRight
  <2> QED
    BY <1>1, <1>2, <2>2, <2>7, JobGoesOn
<1> QED
  BY <1>3, <1>4

(* An e-mail was refused, or nobody knows: it is tried again, or given up. *)
LEMMA SendFailsStep ==
  ASSUME NotificationsInv, NEW j \in Mails, NEW transient \in BOOLEAN, NEW accepted \in BOOLEAN,
         SendFails(j, transient, accepted)
  PROVE  NotificationsInv'
<1>1. /\ mail[j] \in MailState /\ JobRight(mail[j], members) /\ mail[j].step = "sending"
      /\ mail \in [Mails -> MailState] /\ mail[j].todo # <<>>
      /\ MailFault /\ UNCHANGED <<state, offer, members, moves>>
  BY DEF NotificationsInv, NotificationsTypeOK, SendFails
<1>2. /\ state' \in {"none", "open", "claimed", "closed"}
      /\ offer' \in {"none", "PENDING", "ACCEPTED", "REJECTED", "CANCELLED"}
      /\ mailFaults' \in 0 .. MaxMailFaults /\ moves' \in 0 .. MaxMoves
  BY <1>1, NotificationsAssumption DEF NotificationsInv, NotificationsTypeOK, MailFault
<1>3. PICK u \in Persons : u = Head(mail[j].todo)
  BY <1>1, HeadTailProperties DEF MailState
<1>4. PICK got \in [Persons -> Nat], unsure \in SUBSET Persons :
        /\ got = [mail[j].got EXCEPT ![u] = IF accepted THEN @ + 1 ELSE @]
        /\ unsure = IF accepted THEN mail[j].unsure \cup {u} ELSE mail[j].unsure
  <2>1. [mail[j].got EXCEPT ![u] = IF accepted THEN @ + 1 ELSE @] \in [Persons -> Nat]
    BY <1>1 DEF MailState
  <2>2. (IF accepted THEN mail[j].unsure \cup {u} ELSE mail[j].unsure) \in SUBSET Persons
    BY <1>1 DEF MailState
  <2> QED
    BY <2>1, <2>2
<1>5. /\ got[u] \in {mail[j].got[u], mail[j].got[u] + 1} /\ mail[j].got[u] \in Nat
      /\ (got[u] = mail[j].got[u] + 1 => u \in unsure)
      /\ mail[j].unsure \subseteq unsure
      /\ \A v \in Persons : v # u => got[v] = mail[j].got[v]
  BY <1>1, <1>4 DEF MailState
<1> DEFINE failed == [mail[j] EXCEPT !.got = got, !.unsure = unsure]
<1>6. mail' = [mail EXCEPT ![j] =
                 IF GivesUp(mail[j], transient)
                 THEN NextRecipient([failed EXCEPT !.over = @ \cup {u}])
                 ELSE [failed EXCEPT !.tries = @ + 1]]
  <2>1. failed = [mail[j] EXCEPT !.got[u] = IF accepted THEN @ + 1 ELSE @,
                                 !.unsure = IF accepted THEN @ \cup {u} ELSE @]
    BY <1>1, <1>4 DEF MailState
  <2> HIDE DEF failed
  <2> QED
    BY <1>3, <2>1 DEF SendFails
<1>7. /\ failed \in MailState /\ failed.step = "sending" /\ failed.todo = mail[j].todo
      /\ failed.kind = mail[j].kind /\ failed.actor = mail[j].actor
      /\ failed.told = mail[j].told /\ failed.over = mail[j].over
      /\ failed.ever = mail[j].ever /\ failed.always = mail[j].always
      /\ failed.got = got /\ failed.unsure = unsure
  BY <1>1 DEF MailState
<1> HIDE DEF failed
<1>8. CASE GivesUp(mail[j], transient)
  <2> DEFINE q == [failed EXCEPT !.over = @ \cup {u}]
  <2>1. mail' = [mail EXCEPT ![j] = NextRecipient(q)]
    BY <1>6, <1>8
  <2>2. /\ q \in MailState /\ q.step = "sending" /\ q.todo = mail[j].todo
        /\ q.kind = mail[j].kind /\ q.actor = mail[j].actor /\ q.told = mail[j].told
        /\ q.over = mail[j].over \cup {u}
        /\ q.ever = mail[j].ever /\ q.always = mail[j].always
        /\ q.got = got /\ q.unsure = unsure
    BY <1>7 DEF MailState
  <2> HIDE DEF q
  <2>3. /\ q.todo # <<>> /\ Accounted(q) /\ ToldAlone(q)
        /\ IsInjective(q.todo) /\ ToSet(q.todo) \subseteq q.ever
        /\ q.always \subseteq Written(q) \cup q.over \cup ToSet(q.todo)
        /\ \A v \in ToSet(q.todo) : v # u => (q.got[v] > 0 => v \in q.unsure)
    BY <1>1, <1>3, <1>5, <2>2, AnswerNoted
  <2>4. NextRecipient(q) \in MailState /\ JobRight(NextRecipient(q), members)
    BY <1>3, <2>2, <2>3, NextRecipientRight
  <2> QED
    BY <1>1, <1>2, <2>1, <2>4, JobGoesOn
<1>9. CASE ~GivesUp(mail[j], transient)
  <2> DEFINE q == [failed EXCEPT !.tries = @ + 1]
  <2>1. mail' = [mail EXCEPT ![j] = q]
    BY <1>6, <1>9
  <2>2. failed.tries + 1 \in Nat
    BY <1>7 DEF MailState
  <2>3. /\ q \in MailState /\ q.step = "sending" /\ q.todo = mail[j].todo
        /\ q.kind = mail[j].kind /\ q.actor = mail[j].actor /\ q.told = mail[j].told
        /\ q.over = mail[j].over
        /\ q.ever = mail[j].ever /\ q.always = mail[j].always
        /\ q.got = got /\ q.unsure = unsure
    BY <1>7, <2>2 DEF MailState
  <2> HIDE DEF q
  <2>4. /\ Accounted(q) /\ ToldAlone(q)
        /\ IsInjective(q.todo) /\ ToSet(q.todo) \subseteq q.ever
        /\ q.always \subseteq Written(q) \cup q.over \cup ToSet(q.todo)
        /\ \A v \in ToSet(q.todo) : v # u => (q.got[v] > 0 => v \in q.unsure)
    BY <1>1, <1>3, <1>5, <2>3, AnswerNoted
  <2>5. u \in ToSet(mail[j].todo) => (q.got[u] > 0 => u \in q.unsure)
    <3>1. u \in ToSet(mail[j].todo) => (mail[j].got[u] > 0 => u \in mail[j].unsure)
      BY <1>1 DEF JobRight, Sends
    <3> QED
      BY <1>5, <2>3, <3>1
  <2>6. Sends(q)
    BY <2>3, <2>4, <2>5 DEF Sends
  <2>7. JobRight(q, members)
    BY <2>3, <2>4, <2>6 DEF JobRight
  <2> QED
    BY <1>1, <1>2, <2>1, <2>3, <2>7, JobGoesOn
<1> QED
  BY <1>8, <1>9

(* The ticket and the handoff request move, and a change is committed.     *)
LEMMA ChangeStep ==
  ASSUME NotificationsInv, TicketChange \/ HandoffChange
  PROVE  NotificationsInv'
<1>0. /\ members \subseteq Persons /\ {Submitter, Requester, AskedAgent} \subseteq Persons
      /\ state \in {"none", "open", "claimed", "closed"}
      /\ offer \in {"none", "PENDING", "ACCEPTED", "REJECTED", "CANCELLED"}
  BY NotificationsAssumption DEF NotificationsInv, NotificationsTypeOK
<1>1. ASSUME NEW kind \in Kinds, NEW from, NEW to \in {"open", "claimed", "closed"},
             NEW actors \in SUBSET (Persons \cup {Nobody}),
             kind = "reopened" => actors = {Submitter},
             TicketMoves(kind, from, to, actors)
      PROVE  NotificationsInv'
  <2>1. PICK actor \in actors : Commits(kind, actor)
    BY <1>1 DEF TicketMoves
  <2>2. /\ state' \in {"none", "open", "claimed", "closed"}
        /\ offer' \in {"none", "PENDING", "ACCEPTED", "REJECTED", "CANCELLED"}
    BY <1>0, <1>1 DEF TicketMoves
  <2> QED
    BY <1>1, <2>1, <2>2, CommitsStep
<1>2. ASSUME NEW kind \in HandoffKinds, NEW from, NEW to \in {"PENDING", "ACCEPTED", "REJECTED"},
             NEW actor \in Persons, HandoffMoves(kind, from, to, actor)
      PROVE  NotificationsInv'
  <2>1. kind \in Kinds /\ kind # "reopened" /\ Commits(kind, actor)
    BY <1>2 DEF HandoffMoves, Kinds, HandoffKinds
  <2>2. /\ state' \in {"none", "open", "claimed", "closed"}
        /\ offer' \in {"none", "PENDING", "ACCEPTED", "REJECTED", "CANCELLED"}
    BY <1>0, <1>2 DEF HandoffMoves
  <2> QED
    BY <2>1, <2>2, CommitsStep
<1>3. CASE TicketChange
  <2>1. /\ {"submitted", "claimed", "closed", "reopened", "reminder"} \subseteq Kinds
        /\ {Submitter} \in SUBSET (Persons \cup {Nobody})
        /\ {Requester} \in SUBSET (Persons \cup {Nobody})
        /\ {Nobody} \in SUBSET (Persons \cup {Nobody})
        /\ members \in SUBSET (Persons \cup {Nobody})
    BY <1>0 DEF Kinds, DepartmentKinds
  <2> QED
    BY <1>1, <1>3, <2>1 DEF TicketChange
<1>4. CASE HandoffChange
  BY <1>0, <1>2, <1>4 DEF HandoffChange, HandoffKinds
<1> QED
  BY <1>3, <1>4

(* Every step of the notifications keeps their invariant. *)
LEMMA NotificationsStep ==
  NotificationsInv /\ [NotificationsNext]_notificationVars => NotificationsInv'
<1> SUFFICES ASSUME NotificationsInv, [NotificationsNext]_notificationVars
             PROVE  NotificationsInv'
  OBVIOUS
<1>1. CASE UNCHANGED notificationVars
  <2>1. UNCHANGED <<state, offer, members, mail, mailFaults, moves>>
    BY <1>1 DEF notificationVars
  <2>2. NotificationsTypeOK'
    BY <2>1 DEF NotificationsInv, NotificationsTypeOK
  <2>3. ASSUME NEW j \in Mails PROVE JobRight(mail[j], members)'
    <3>1. PICK p \in MailState : p = mail'[j] /\ JobRight(p, members)
      BY <2>1 DEF NotificationsInv, NotificationsTypeOK
    <3>2. ToldAlone(p)'
      BY <3>1, ToldAloneStays DEF JobRight
    <3> QED
      BY <2>1, <3>1, <3>2 DEF JobRight
  <2> QED
    BY <2>2, <2>3 DEF NotificationsInv
<1>2. CASE WithdrawHandoff
  <2>1. UNCHANGED <<state, members, mail, mailFaults, moves>> /\ offer' = "CANCELLED"
    BY <1>2 DEF WithdrawHandoff
  <2>2. NotificationsTypeOK'
    BY <2>1 DEF NotificationsInv, NotificationsTypeOK
  <2>3. ASSUME NEW j \in Mails PROVE JobRight(mail[j], members)'
    <3>1. PICK p \in MailState : p = mail'[j] /\ JobRight(p, members)
      BY <2>1 DEF NotificationsInv, NotificationsTypeOK
    <3>2. ToldAlone(p)'
      BY <3>1, ToldAloneStays DEF JobRight
    <3> QED
      BY <2>1, <3>1, <3>2 DEF JobRight
  <2> QED
    BY <2>2, <2>3 DEF NotificationsInv
<1>3. CASE \E u \in Persons : MemberMoves(u)
  BY <1>3, MemberMovesStep
<1>4. CASE \E j \in Mails :
             \/ Notify(j) \/ NotifyFails(j) \/ ReadRecord(j) \/ ReadFails(j) \/ SendAccepted(j)
             \/ \E transient, accepted \in BOOLEAN : SendFails(j, transient, accepted)
  BY <1>4, NotifyStep, FailsEarly, ReadRecordStep, SendAcceptedStep, SendFailsStep
<1> QED
  BY <1>1, <1>2, <1>3, <1>4, ChangeStep DEF NotificationsNext

(* The inductive invariant of the notifications: of each change, what may  *)
(* have happened so far, for the e-mails of which it is the recipients     *)
(* that are left who say what was missed.                                  *)
THEOREM NotificationsInvariant == NotificationsSpec => []NotificationsInv
<1>1. NotificationsInit => NotificationsInv
  <2> SUFFICES ASSUME NotificationsInit PROVE NotificationsInv
    OBVIOUS
  <2>1. NoMail \in MailState
    BY DEF NoMail, MailState, Kinds, DepartmentKinds
  <2>2. /\ NoMail.step = "none" /\ NoMail.told = {} /\ \A u \in Persons : NoMail.got[u] = 0
    BY DEF NoMail
  <2>3. NotificationsTypeOK
    <3>1. mail \in [Mails -> MailState]
      BY <2>1 DEF NotificationsInit
    <3> QED
      BY <3>1, NotificationsAssumption DEF NotificationsInit, NotificationsTypeOK
  <2>4. JobRight(NoMail, members)
    BY <2>2 DEF JobRight, Accounted, ToldAlone, Written
  <2> QED
    BY <2>3, <2>4 DEF NotificationsInv, NotificationsInit
<1> QED
  BY <1>1, NotificationsStep, PTL DEF NotificationsSpec

(* The records of the notifications keep their types.                      *)
THEOREM NotificationsTypeCorrect == NotificationsSpec => []NotificationsTypeOK
<1>1. NotificationsInv => NotificationsTypeOK
  BY DEF NotificationsInv
<1> QED
  BY <1>1, NotificationsInvariant, PTL

(* Whoever is entitled to an e-mail about a change all the time has been   *)
(* written to, or was refused or tried to the end, once the e-mails of the *)
(* change are done; nobody has it twice unless an answer was lost, and     *)
(* nobody who was never entitled is told, by e-mail or in the application. *)
THEOREM MailIsAccountedFor == NotificationsSpec => []MailAccounted
<1>1. NotificationsInv => MailAccounted
  BY DEF NotificationsInv, JobRight, Accounted, Written, MailAccounted
<1> QED
  BY <1>1, NotificationsInvariant, PTL

=============================================================================
