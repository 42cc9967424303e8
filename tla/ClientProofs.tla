------------------------------ MODULE ClientProofs ------------------------------
(***************************************************************************)
(* The web client: the proofs about what it shows when nothing is under    *)
(* way any more, whatever the number of items, requests and faults: the    *)
(* unread mark (UnreadBadge), the lists of options (FilterOptions), the    *)
(* pages of a list (ListPages) and the page of a ticket (TicketPage).      *)
(***************************************************************************)
EXTENDS UnreadBadge, FilterOptions, ListPages, TicketPage, FiniteSetTheorems, SequenceTheorems, TLAPS

-----------------------------------------------------------------------------
(* The unread mark *)

(* What the badge shows, or will when the current count request is         *)
(* answered, if that has read the inbox already.                           *)
Decided == IF current = NoCount THEN badge = TRUE ELSE counts[current] = "unread"

(* The inbox will be read again: now, or when a read request is answered.  *)
WillCount ==
  \/ timer = TRUE
  \/ current # NoCount /\ counts[current] = "asked"
  \/ \E m \in Marks : marks[m] # NoMark

(* A message nobody has counted yet: its notification is on its way, and on*)
(* the open page its push is too, which will be marked read; or the page is*)
(* not looked at, and will be marked read when it is.                      *)
Expected ==
  \/ notices > 0 /\ (page = "open" => arriving > 0)
  \/ page = "open" /\ window # "focused"

(* No more is under way than there were messages. *)
MessagesCounted ==
  /\ writing <= clock /\ notices <= clock /\ arriving <= clock
  /\ writing > 0 => notices < clock /\ arriving < clock

BadgeInv ==
  /\ BadgeTypeOK /\ MessagesCounted
  /\ current # NoCount => counts[current] # "none"
  /\ (missed = FALSE /\ ~WillCount) => (Decided <=> Unread) \/ Expected

(* No mark and no time yet are what they are typed to be. *)
LEMMA MarkTypes == NoMark \in MarkState /\ NoMark.step = "none" /\ 0 \in Times
BY BadgeAssumption DEF NoMark, MarkState, Times

(* The service: what is committed is expected by the reader, and a count   *)
(* that is answered now decides rightly.                                   *)
LEMMA ServiceStepRight ==
  ASSUME BadgeInv, ServiceStep
  PROVE  BadgeInv'
<1> USE BadgeAssumption, MarkTypes
<1>0. BadgeTypeOK /\ MessagesCounted /\ (current # NoCount => counts[current] # "none")
  BY DEF BadgeInv
<1>1. CASE CreateStarts
  <2>1. /\ clock' = clock + 1 /\ writing' = clock + 1 /\ writing = 0 /\ clock < MaxMessages
        /\ UNCHANGED <<last, receipt, notices, arriving, page, window, marks, counts,
                       current, timer, badge, missed, badgeFaults>>
    BY <1>1 DEF CreateStarts
  <2>2. BadgeTypeOK' /\ MessagesCounted'
    BY <1>0, <2>1 DEF BadgeTypeOK, MessagesCounted, Times
  <2> QED
    BY <2>1, <2>2 DEF BadgeInv, Decided, WillCount, Expected, Unread
<1>2. CASE CreateCommits
  <2>1. /\ writing > 0 /\ last' = writing /\ writing' = 0 /\ notices' = notices + 1
        /\ arriving' = IF page # "away" THEN arriving + 1 ELSE arriving
        /\ UNCHANGED <<clock, receipt, page, window, marks, counts, current, timer,
                       badge, missed, badgeFaults>>
    BY <1>2 DEF CreateCommits
  <2>2. BadgeTypeOK' /\ MessagesCounted'
    BY <1>0, <2>1 DEF BadgeTypeOK, MessagesCounted, Times
  <2>3. Expected'
    BY <1>0, <2>1 DEF BadgeTypeOK, Expected
  <2> QED
    BY <1>0, <2>1, <2>2, <2>3 DEF BadgeInv
<1>3. ASSUME NEW m \in Marks, MarkTimed(m) PROVE BadgeInv'
  <2>1. /\ marks[m].step = "sent"
        /\ marks' = [marks EXCEPT ![m] = [step |-> "timed", time |-> clock]]
        /\ UNCHANGED <<clock, writing, last, receipt, notices, arriving, page, window, counts,
                       current, timer, badge, missed, badgeFaults>>
    BY <1>3 DEF MarkTimed, server
  <2>2. [step |-> "timed", time |-> clock] \in MarkState
        /\ [step |-> "timed", time |-> clock] # NoMark
    BY <1>0 DEF BadgeTypeOK, MarkState, NoMark
  <2>3. BadgeTypeOK' /\ MessagesCounted'
    BY <1>0, <2>1, <2>2 DEF BadgeTypeOK, MessagesCounted
  <2>4. WillCount'
    BY <1>0, <2>1, <2>2 DEF WillCount, BadgeTypeOK
  <2> QED
    BY <1>0, <2>1, <2>3, <2>4 DEF BadgeInv
<1>4. ASSUME NEW m \in Marks, MarkWritten(m) PROVE BadgeInv'
  <2>1. /\ marks[m].step = "timed"
        /\ receipt' = marks[m].time
        /\ marks' = [marks EXCEPT ![m] = [marks[m] EXCEPT !.step = "done"]]
        /\ UNCHANGED <<clock, writing, last, notices, arriving, page, window, counts,
                       current, timer, badge, missed, badgeFaults>>
    BY <1>0, <1>4 DEF MarkWritten, BadgeTypeOK
  <2>2. /\ [marks[m] EXCEPT !.step = "done"] \in MarkState
        /\ [marks[m] EXCEPT !.step = "done"] # NoMark
        /\ marks[m].time \in Times
    BY <1>0 DEF BadgeTypeOK, MarkState, NoMark
  <2>3. BadgeTypeOK' /\ MessagesCounted'
    BY <1>0, <2>1, <2>2 DEF BadgeTypeOK, MessagesCounted
  <2>4. WillCount'
    BY <1>0, <2>1, <2>2 DEF WillCount, BadgeTypeOK
  <2> QED
    BY <1>0, <2>1, <2>3, <2>4 DEF BadgeInv
<1>5. ASSUME NEW c \in Counts, CountRead(c) PROVE BadgeInv'
  <2>1. /\ counts[c] = "asked"
        /\ counts' = [counts EXCEPT ![c] = IF Unread THEN "unread" ELSE "read"]
        /\ missed' = IF c = current THEN FALSE ELSE missed
        /\ UNCHANGED <<clock, writing, last, receipt, notices, arriving, page, window, marks,
                       current, timer, badge, badgeFaults>>
    BY <1>5 DEF CountRead, server
  <2>2. BadgeTypeOK' /\ MessagesCounted' /\ (current' # NoCount => counts'[current'] # "none")
    BY <1>0, <2>1 DEF BadgeTypeOK, MessagesCounted, CountState
  <2>3. CASE c = current
    <3>1. counts'[current'] = IF Unread THEN "unread" ELSE "read"
      BY <1>0, <2>1, <2>3 DEF BadgeTypeOK
    <3>2. Decided' <=> Unread'
      BY <2>1, <2>3, <3>1 DEF Decided, Unread
    <3> QED
      BY <2>2, <3>2 DEF BadgeInv
  <2>4. CASE c # current
    <3>1. current # NoCount => counts'[current] = counts[current]
      BY <1>0, <2>1, <2>4 DEF BadgeTypeOK
    <3>2. /\ (Decided' <=> Decided) /\ (Unread' <=> Unread) /\ (WillCount' <=> WillCount)
          /\ (Expected' <=> Expected) /\ missed' = missed
      BY <2>1, <2>4, <3>1 DEF Decided, Unread, WillCount, Expected
    <3> QED
      BY <2>2, <3>2 DEF BadgeInv
  <2> QED
    BY <2>3, <2>4
<1> QED
  BY <1>1, <1>2, <1>3, <1>4, <1>5 DEF ServiceStep

(* A count request begins: the current one, which has not read yet.        *)
LEMMA CountBegins ==
  ASSUME BadgeTypeOK, BeginCount
  PROVE  /\ counts' \in [Counts -> CountState] /\ current' \in Counts
         /\ counts'[current'] = "asked" /\ current' # NoCount
BY BadgeAssumption DEF BadgeTypeOK, BeginCount, CountState

(* A read request is sent. *)
LEMMA MarkSent ==
  ASSUME BadgeTypeOK, SendMark
  PROVE  marks' \in [Marks -> MarkState] /\ \E m \in Marks : marks'[m] # NoMark
<1>1. PICK m \in Marks :
        /\ marks[m] = NoMark
        /\ marks' = [marks EXCEPT ![m] = [NoMark EXCEPT !.step = "sent"]]
  BY DEF SendMark, BadgeTypeOK
<1>2. /\ [NoMark EXCEPT !.step = "sent"] \in MarkState
      /\ [NoMark EXCEPT !.step = "sent"] # NoMark
  BY MarkTypes DEF NoMark, MarkState
<1> QED
  BY <1>1, <1>2 DEF BadgeTypeOK

(* The answers that the reader gets, and the notifications.                *)
LEMMA AnswersStepRight ==
  ASSUME BadgeInv,
         \/ TimerFires \/ NoticeArrives \/ NoticeLost
         \/ \E c \in Counts : CountAnswered(c) \/ CountFails(c)
         \/ \E m \in Marks : MarkChatRead(m) \/ MarkFails(m)
  PROVE  BadgeInv'
<1> USE BadgeAssumption
<1>0. BadgeTypeOK /\ MessagesCounted /\ (current # NoCount => counts[current] # "none")
  BY DEF BadgeInv
<1>1. CASE TimerFires
  <2>1. /\ BeginCount /\ timer' = FALSE
        /\ UNCHANGED <<clock, writing, last, receipt, notices, arriving, page, window, marks,
                       badge, missed, badgeFaults>>
    BY <1>1 DEF TimerFires, server
  <2>2. BadgeTypeOK' /\ MessagesCounted' /\ counts'[current'] = "asked" /\ current' # NoCount
    BY <1>0, <2>1, CountBegins DEF BadgeTypeOK, MessagesCounted
  <2> QED
    BY <2>2 DEF BadgeInv, WillCount
<1>2. CASE NoticeArrives
  <2>1. /\ notices > arriving /\ notices' = notices - 1
        /\ badge' = (badge \/ ~IsCurrentChat) /\ timer' = (timer \/ ~IsCurrentChat)
        /\ missed' = (missed \/ (IsCurrentChat /\ page = "loading"))
        /\ UNCHANGED <<clock, writing, last, receipt, arriving, page, window, marks, counts,
                       current, badgeFaults>>
    BY <1>2 DEF NoticeArrives, server
  <2>2. badge' \in BOOLEAN /\ timer' \in BOOLEAN /\ missed' \in BOOLEAN
    BY <1>0, <2>1 DEF BadgeTypeOK
  <2>3. notices' \in Nat /\ notices' < notices /\ notices' >= arriving
    BY <1>0, <2>1 DEF BadgeTypeOK
  <2>4. BadgeTypeOK' /\ MessagesCounted' /\ (current' # NoCount => counts'[current'] # "none")
    BY <1>0, <2>1, <2>2, <2>3 DEF BadgeTypeOK, MessagesCounted, Times
  <2>5. CASE ~IsCurrentChat
    <3>1. timer' = TRUE
      BY <1>0, <2>1, <2>5 DEF BadgeTypeOK
    <3> QED
      BY <2>4, <3>1 DEF BadgeInv, WillCount
  <2>6. CASE IsCurrentChat /\ page = "loading"
    <3>1. missed' = TRUE
      BY <1>0, <2>1, <2>6 DEF BadgeTypeOK
    <3> QED
      BY <2>4, <3>1 DEF BadgeInv
  <2>7. CASE IsCurrentChat /\ page # "loading"
    <3>1. page = "open" /\ badge' = badge /\ timer' = timer /\ missed' = missed
      BY <1>0, <2>1, <2>7 DEF BadgeTypeOK, IsCurrentChat
    <3>2. (Decided' <=> Decided) /\ (Unread' <=> Unread) /\ (WillCount' <=> WillCount)
      BY <2>1, <3>1 DEF Decided, Unread, WillCount
    <3>3. Expected => Expected'
      BY <1>0, <2>1, <2>3, <3>1 DEF Expected, BadgeTypeOK
    <3> QED
      BY <2>4, <3>1, <3>2, <3>3 DEF BadgeInv
  <2> QED
    BY <2>5, <2>6, <2>7
<1>3. CASE NoticeLost
  <2>1. /\ notices > 0 /\ notices' = notices - 1 /\ missed' = TRUE /\ BadgeFault
        /\ UNCHANGED <<clock, writing, last, receipt, arriving, page, window, marks, counts,
                       current, timer, badge>>
    BY <1>3 DEF NoticeLost, server
  <2>2. BadgeTypeOK' /\ MessagesCounted'
    BY <1>0, <2>1 DEF BadgeTypeOK, MessagesCounted, BadgeFault, Times
  <2> QED
    BY <1>0, <2>1, <2>2 DEF BadgeInv
<1>4. ASSUME NEW c \in Counts, CountAnswered(c) PROVE BadgeInv'
  <2>1. /\ counts[c] \in {"unread", "read"}
        /\ badge' = IF c = current THEN counts[c] = "unread" ELSE badge
        /\ counts' = [counts EXCEPT ![c] = "none"]
        /\ current' = IF c = current THEN NoCount ELSE current
        /\ UNCHANGED <<clock, writing, last, receipt, notices, arriving, page, window, marks,
                       timer, missed, badgeFaults>>
    BY <1>4 DEF CountAnswered, IsCurrent, server
  <2>2. badge' \in BOOLEAN
    BY <1>0, <2>1 DEF BadgeTypeOK
  <2>3. BadgeTypeOK' /\ MessagesCounted' /\ (current' # NoCount => counts'[current'] # "none")
    BY <1>0, <2>1, <2>2 DEF BadgeTypeOK, MessagesCounted, CountState
  <2>4. (Unread' <=> Unread) /\ (Expected' <=> Expected) /\ missed' = missed
    BY <2>1 DEF Unread, Expected
  <2>5. CASE c = current
    <3>1. Decided' <=> Decided
      BY <2>1, <2>5 DEF Decided
    <3>2. WillCount' <=> WillCount
      BY <2>1, <2>5 DEF WillCount
    <3> QED
      BY <2>3, <2>4, <3>1, <3>2 DEF BadgeInv
  <2>6. CASE c # current
    <3>1. current' = current /\ (current # NoCount => counts'[current] = counts[current])
      BY <1>0, <2>1, <2>6 DEF BadgeTypeOK
    <3>2. (Decided' <=> Decided) /\ (WillCount' <=> WillCount)
      BY <2>1, <2>6, <3>1 DEF Decided, WillCount
    <3> QED
      BY <2>3, <2>4, <3>2 DEF BadgeInv
  <2> QED
    BY <2>5, <2>6
<1>5. ASSUME NEW c \in Counts, CountFails(c) PROVE BadgeInv'
  <2>1. /\ counts' = [counts EXCEPT ![c] = "none"]
        /\ current' = IF c = current THEN NoCount ELSE current
        /\ missed' = TRUE /\ BadgeFault
        /\ UNCHANGED <<clock, writing, last, receipt, notices, arriving, page, window, marks,
                       timer, badge>>
    BY <1>5 DEF CountFails, server
  <2>2. BadgeTypeOK' /\ MessagesCounted' /\ (current' # NoCount => counts'[current'] # "none")
    BY <1>0, <2>1 DEF BadgeTypeOK, MessagesCounted, BadgeFault, CountState
  <2> QED
    BY <2>1, <2>2 DEF BadgeInv
<1>6. ASSUME NEW m \in Marks, MarkChatRead(m) PROVE BadgeInv'
  <2>1. /\ marks' = [marks EXCEPT ![m] = NoMark] /\ badge' = FALSE /\ timer' = FALSE
        /\ BeginCount
        /\ UNCHANGED <<clock, writing, last, receipt, notices, arriving, page, window,
                       missed, badgeFaults>>
    BY <1>6 DEF MarkChatRead, server
  <2>2. BadgeTypeOK' /\ MessagesCounted' /\ counts'[current'] = "asked" /\ current' # NoCount
    BY <1>0, <2>1, CountBegins, MarkTypes DEF BadgeTypeOK, MessagesCounted
  <2> QED
    BY <2>2 DEF BadgeInv, WillCount
<1>7. ASSUME NEW m \in Marks, MarkFails(m) PROVE BadgeInv'
  <2>1. /\ marks' = [marks EXCEPT ![m] = NoMark] /\ missed' = TRUE /\ BadgeFault
        /\ UNCHANGED <<clock, writing, last, receipt, notices, arriving, page, window, counts,
                       current, timer, badge>>
    BY <1>7 DEF MarkFails, server
  <2>2. BadgeTypeOK' /\ MessagesCounted'
    BY <1>0, <2>1, MarkTypes DEF BadgeTypeOK, MessagesCounted, BadgeFault
  <2> QED
    BY <1>0, <2>1, <2>2 DEF BadgeInv
<1> QED
  BY <1>1, <1>2, <1>3, <1>4, <1>5, <1>6, <1>7

(* The reader goes to the page and leaves it, and turns to the window and  *)
(* away from it.                                                           *)
LEMMA PageStepRight ==
  ASSUME BadgeInv,
         ViewChat \/ HistoryLoaded \/ LeaveChat \/ PushShown \/ WindowComesBack \/ WindowGoes
  PROVE  BadgeInv'
<1> USE BadgeAssumption
<1>0. BadgeTypeOK /\ MessagesCounted /\ (current # NoCount => counts[current] # "none")
  BY DEF BadgeInv
<1>1. /\ UNCHANGED <<clock, writing, last, receipt, notices, counts, current, badge,
                     missed, badgeFaults>>
      /\ arriving' \in 0 .. MaxMessages /\ arriving' <= arriving
      /\ page' \in {"away", "loading", "open"} /\ window' \in {"focused", "visible", "hidden"}
      /\ marks' = marks \/ SendMark
      /\ timer' = timer \/ timer' = TRUE
  BY <1>0 DEF ViewChat, HistoryLoaded, LeaveChat, PushShown, WindowComesBack, WindowGoes,
              server, BadgeTypeOK
<1>2. marks' \in [Marks -> MarkState]
  BY <1>0, <1>1, MarkSent DEF BadgeTypeOK
<1>3. BadgeTypeOK' /\ MessagesCounted' /\ (current' # NoCount => counts'[current'] # "none")
  <2>1. timer' \in BOOLEAN
    BY <1>0, <1>1 DEF BadgeTypeOK
  <2>2. BadgeTypeOK'
    BY <1>0, <1>1, <1>2, <2>1 DEF BadgeTypeOK
  <2>3. MessagesCounted'
    BY <1>0, <1>1 DEF BadgeTypeOK, MessagesCounted, Times
  <2> QED
    BY <1>0, <1>1, <2>2, <2>3
<1>4. CASE SendMark \/ timer' = TRUE
  <2>1. WillCount'
    BY <1>0, <1>4, MarkSent DEF WillCount
  <2> QED
    BY <1>3, <2>1 DEF BadgeInv
<1>5. CASE ~SendMark /\ timer' # TRUE
  <2>1. marks' = marks /\ timer' = timer
    BY <1>1, <1>5
  <2>2. (Decided' <=> Decided) /\ (Unread' <=> Unread) /\ (WillCount' <=> WillCount)
    BY <1>1, <2>1 DEF Decided, Unread, WillCount
  <2>3. Expected => Expected'
    BY <1>0, <1>5 DEF Expected, BadgeTypeOK, ViewChat, HistoryLoaded, LeaveChat, PushShown,
                      WindowComesBack, WindowGoes, IsConversationVisible
  <2> QED
    BY <1>1, <1>3, <2>2, <2>3 DEF BadgeInv
<1> QED
  BY <1>4, <1>5

(* The inductive invariant of the unread mark: where the badge is not what *)
(* the inbox says, the inbox will be read again, or a message is on its    *)
(* way whose arrival reads it, or something was lost.                      *)
THEOREM BadgeInvariant == BadgeSpec => []BadgeInv
<1>1. BadgeInit => BadgeInv
  <2> SUFFICES ASSUME BadgeInit PROVE BadgeInv
    OBVIOUS
  <2>1. marks \in [Marks -> MarkState]
    BY MarkTypes DEF BadgeInit
  <2>2. BadgeTypeOK
    <3>1. counts \in [Counts -> CountState]
      BY DEF BadgeInit, CountState
    <3>2. 0 \in 0 .. MaxMessages /\ 0 \in 0 .. MaxBadgeFaults
      BY BadgeAssumption
    <3>3. /\ clock = 0 /\ writing = 0 /\ last = 0 /\ receipt = 0
          /\ notices = 0 /\ arriving = 0 /\ page = "away" /\ window = "focused"
          /\ current = NoCount
          /\ timer = FALSE /\ badge = FALSE /\ missed = FALSE /\ badgeFaults = 0
      BY DEF BadgeInit
    <3> QED
      BY <2>1, <3>1, <3>2, <3>3 DEF BadgeTypeOK, Times
  <2> QED
    BY <2>2 DEF BadgeInit, BadgeInv, MessagesCounted, Decided, Unread
<1>2. BadgeInv /\ [BadgeNext]_badgeVars => BadgeInv'
  <2> SUFFICES ASSUME BadgeInv, [BadgeNext]_badgeVars PROVE BadgeInv'
    OBVIOUS
  <2>1. CASE UNCHANGED badgeVars
    BY <2>1 DEF badgeVars, BadgeInv, BadgeTypeOK, MessagesCounted, Decided, WillCount,
                Expected, Unread
  <2>2. CASE ServiceStep
    BY <2>2, ServiceStepRight
  <2>3. CASE ReaderStep
    BY <2>3, AnswersStepRight, PageStepRight DEF ReaderStep
  <2> QED
    BY <2>1, <2>2, <2>3 DEF BadgeNext
<1> QED
  BY <1>1, <1>2, PTL DEF BadgeSpec

(* The variables of the unread mark keep their types, and their bounds.    *)
THEOREM BadgeTypeCorrect == BadgeSpec => []BadgeTypeOK
<1>1. BadgeInv => BadgeTypeOK
  BY DEF BadgeInv
<1> QED
  BY <1>1, BadgeInvariant, PTL

(* When everything under way has arrived, the badge is what the receipt    *)
(* and the messages say, unless something was lost.                        *)
THEOREM BadgeDoesAgree == BadgeSpec => []BadgeAgrees
<1>1. BadgeInv => BadgeAgrees
  <2> SUFFICES ASSUME BadgeInv, Quiet, page = "away", ~missed PROVE badge = Unread
    BY DEF BadgeAgrees
  <2>1. BadgeTypeOK /\ current = NoCount
    BY DEF BadgeInv, BadgeTypeOK, Quiet
  <2>2. ~WillCount /\ ~Expected /\ missed = FALSE
    BY <2>1 DEF Quiet, WillCount, Expected, BadgeTypeOK
  <2>3. (badge = TRUE) <=> Unread
    BY <2>1, <2>2 DEF BadgeInv, Decided
  <2> QED
    BY <2>1, <2>3 DEF BadgeTypeOK, Unread
<1> QED
  BY <1>1, BadgeInvariant, PTL

-----------------------------------------------------------------------------
(* The departments and priorities that can be chosen *)

(* What has been read is what is offered now. *)
FreshReading(r) == r.got = UNION {Offered(kind) : kind \in Lists \ r.left}

ReadingNewest == published \in Pushes /\ reading[published] # NoReading

(* The client's own load, if there is one, will show what is offered, or it*)
(* is shown already.                                                       *)
LoadSettles ==
  IF pending.there
  THEN IF Superseded /\ cache # NotCached
       THEN cache = Offered(Items) ELSE FreshReading(reading[0])
  ELSE options = Offered(Items)

(* When every change has been published: what the client will show last.   *)
ClientSettles ==
  IF link = "on"
  THEN \/ ReadingNewest
       \/ channel # <<>> /\ channel[Len(channel)] = Offered(Items)
       \/ channel = <<>> /\ LoadSettles
  ELSE LoadSettles

PushesUnderWay == {p \in Pushes : reading[p] # NoReading}

(* Each change is pushed once. *)
PushesCounted ==
  /\ Cardinality(PushesUnderWay) + Len(channel) + revision <= published
  /\ PushesUnderWay \subseteq 1 .. published /\ published <= edits
  /\ pending.there => pending.revision <= revision

RequestUnderWay ==
  /\ pending.there => reading[0] # NoReading
  /\ pending.there /\ revision = 0 => cache = NotCached
  /\ link # "on" => channel = <<>>
  /\ link # "off" => hasConnected

(* A deactivation that has counted the priorities leaves one. *)
PriorityLeft ==
  together = FALSE =>
    /\ Active(Priorities) # {}
    /\ \A a \in Editors : Deactivates(a) => Active(Priorities) \ {edit[a].item} # {}

OptionsInv ==
  /\ OptionsTypeOK /\ PushesCounted /\ RequestUnderWay /\ PriorityLeft
  /\ \A a \in Editors : edit[a].step # "idle" => edit[a].item \in Items
  /\ published = edits /\ ReadingNewest => FreshReading(reading[published])
  /\ (published = edits /\ lapsed = FALSE /\ (link # "off" \/ ~hasConnected)) => ClientSettles

(* What is offered is a set of options, and is read list by list.          *)
LEMMA OfferedIsRead ==
  ASSUME item \in [Items -> Row]
  PROVE  /\ \A kind \in Lists : Offered(kind) \in SUBSET (Items \X {1, 2})
         /\ Offered(Items) \in SUBSET (Items \X {1, 2})
         /\ UNION {Offered(kind) : kind \in Lists} = Offered(Items)
<1>1. ASSUME NEW kind \in SUBSET Items PROVE Offered(kind) \in SUBSET (Items \X {1, 2})
  BY DEF Offered, Active, Row
<1>2. \A kind \in Lists : kind \in SUBSET Items
  BY DEF Lists, Items
<1>3. Offered(Items) = Offered(Priorities) \cup Offered(DepartmentRows)
  BY DEF Offered, Active, Items
<1>4. UNION {Offered(kind) : kind \in Lists} = Offered(Priorities) \cup Offered(DepartmentRows)
  BY DEF Lists
<1> QED
  BY <1>1, <1>2, <1>3, <1>4

(* An answer that begins is fresh, stays so with another list, and is what *)
(* is offered when all lists are read.                                     *)
LEMMA FreshAnswers ==
  ASSUME item \in [Items -> Row]
  PROVE  /\ FreshReading([left |-> Lists, got |-> {}])
         /\ \A r \in Reading : \A kind \in r.left :
              FreshReading(r) =>
                FreshReading([r EXCEPT !.left = @ \ {kind}, !.got = @ \cup Offered(kind)])
         /\ \A r \in Reading :
              FreshReading(r) /\ Answered(r) => r.got = Offered(Items)
<1>1. FreshReading([left |-> Lists, got |-> {}])
  BY DEF FreshReading
<1>2. ASSUME NEW r \in Reading, NEW kind \in r.left, FreshReading(r)
      PROVE  FreshReading([r EXCEPT !.left = @ \ {kind}, !.got = @ \cup Offered(kind)])
  <2> DEFINE q == [r EXCEPT !.left = @ \ {kind}, !.got = @ \cup Offered(kind)]
  <2>1. q.left = r.left \ {kind} /\ q.got = r.got \cup Offered(kind) /\ r.left \subseteq Lists
    BY <1>2 DEF Reading, NoReading
  <2>2. Lists \ q.left = (Lists \ r.left) \cup {kind}
    BY <2>1
  <2> HIDE DEF q
  <2> QED
    BY <1>2, <2>1, <2>2 DEF FreshReading, q
<1>3. ASSUME NEW r \in Reading, FreshReading(r), Answered(r) PROVE r.got = Offered(Items)
  <2>1. Lists \ r.left = Lists
    BY <1>3 DEF Answered
  <2> QED
    BY <1>3, <2>1, OfferedIsRead DEF FreshReading
<1> QED
  BY <1>1, <1>2, <1>3

(* A change of the rows has still to be published: the clients owe nothing.*)
LEMMA RowsMove ==
  ASSUME OptionsInv, OnlyRows, item' \in [Items -> Row], edit' \in [Editors -> Edit],
         together' \in BOOLEAN,
         \/ edits < MaxEdits /\ edits' = edits + 1
         \/ edits' = edits /\ item' = item,
         \A a \in Editors : edit'[a].step # "idle" => edit'[a].item \in Items,
         PriorityLeft'
  PROVE  OptionsInv'
<1> USE OptionsAssumption
<1>0. /\ OptionsTypeOK /\ PushesCounted /\ RequestUnderWay
      /\ UNCHANGED <<published, reading, channel, link, hasConnected, options, cache, revision,
                     pending, lapsed, optionFaults>>
  BY DEF OptionsInv, OnlyRows, clientVars
<1>1. edits' \in 0 .. MaxEdits /\ edits' >= edits
  BY <1>0 DEF OptionsTypeOK
<1>2. OptionsTypeOK'
  BY <1>0, <1>1 DEF OptionsTypeOK
<1>3. PushesCounted' /\ RequestUnderWay'
  <2>1. PushesUnderWay' = PushesUnderWay
    BY <1>0 DEF PushesUnderWay
  <2>2. published' <= edits'
    BY <1>0, <1>1 DEF OptionsTypeOK, PushesCounted
  <2> QED
    BY <1>0, <2>1, <2>2 DEF PushesCounted, RequestUnderWay
<1>4. CASE edits' = edits + 1
  <2>1. published' # edits'
    BY <1>0, <1>4 DEF OptionsTypeOK, PushesCounted
  <2> QED
    BY <1>2, <1>3, <2>1 DEF OptionsInv
<1>5. CASE edits' = edits /\ item' = item
  <2>1. (\A kind \in Lists : Offered(kind)' = Offered(kind)) /\ Offered(Items)' = Offered(Items)
    BY <1>5 DEF Offered, Active
  <2>2. /\ (ReadingNewest' <=> ReadingNewest) /\ (ClientSettles' <=> ClientSettles)
        /\ (FreshReading(reading[published])' <=> FreshReading(reading[published]))
    BY <1>0, <2>1 DEF ReadingNewest, ClientSettles, LoadSettles, FreshReading, Superseded
  <2> QED
    BY <1>0, <1>2, <1>3, <1>5, <2>2 DEF OptionsInv
<1> QED
  BY <1>4, <1>5

(* The administrators: one priority is left, unless two deactivate         *)
(* priorities at the same time.                                            *)
LEMMA EditorStepRight ==
  ASSUME OptionsInv, NEW a \in Editors,
         \/ \E i \in Items :
              \/ CreateItem(a, i)
              \/ \E renames, active \in BOOLEAN : FindItem(a, i, renames, active)
         \/ CountActive(a) \/ UpdateItem(a)
  PROVE  OptionsInv'
<1> USE OptionsAssumption
<1>0. /\ item \in [Items -> Row] /\ edit \in [Editors -> Edit] /\ together \in BOOLEAN
      /\ PriorityLeft /\ edits \in 0 .. MaxEdits
      /\ \A b \in Editors : edit[b].step # "idle" => edit[b].item \in Items
  BY DEF OptionsInv, OptionsTypeOK
<1>1. NoEditing \in Edit /\ NoEditing.step = "idle" /\ EmptyRow \in Row
  BY DEF NoEditing, Edit, EmptyRow, Row
<1>2. ASSUME NEW i \in Items, NEW row \in Row, CommitEdit(a, i, row),
             together' \in BOOLEAN,
             together' = FALSE =>
               /\ together = FALSE
               /\ \/ row.active = TRUE \/ row.active = item[i].active
                  \/ /\ Deactivates(a) /\ i = edit[a].item
                     /\ \A b \in Editors \ {a} : ~Deactivates(b)
      PROVE  OptionsInv'
  <2>1. /\ edits < MaxEdits /\ edits' = edits + 1 /\ item' = [item EXCEPT ![i] = row]
        /\ edit' = [edit EXCEPT ![a] = NoEditing] /\ OnlyRows
    BY <1>2 DEF CommitEdit
  <2>2. /\ item' \in [Items -> Row] /\ edit' \in [Editors -> Edit]
        /\ \A b \in Editors : edit'[b].step # "idle" => edit'[b].item \in Items
    BY <1>0, <1>1, <1>2, <2>1
  <2>3. \A b \in Editors : b # a => edit'[b] = edit[b]
    BY <1>0, <2>1
  <2>4. \A b \in Editors : Deactivates(b)' => b # a /\ Deactivates(b)
    BY <1>0, <1>1, <2>1, <2>3 DEF Deactivates
  <2>5. Active(Priorities) \ {i} \subseteq Active(Priorities)'
    BY <1>0, <2>1 DEF Active, Items
  <2>6. (row.active = TRUE \/ row.active = item[i].active)
          => Active(Priorities) \subseteq Active(Priorities)'
    BY <1>0, <2>1 DEF Active, Items
  <2>7. PriorityLeft'
    <3> SUFFICES ASSUME together' = FALSE
                 PROVE  /\ Active(Priorities)' # {}
                        /\ \A b \in Editors :
                             Deactivates(b)' => Active(Priorities)' \ {edit'[b].item} # {}
      BY DEF PriorityLeft
    <3>1. CASE row.active = TRUE \/ row.active = item[i].active
      BY <1>0, <1>2, <2>3, <2>4, <2>6, <3>1 DEF PriorityLeft
    <3>2. CASE /\ Deactivates(a) /\ i = edit[a].item
               /\ \A b \in Editors \ {a} : ~Deactivates(b)
      BY <1>0, <1>2, <2>4, <2>5, <3>2 DEF PriorityLeft
    <3> QED
      BY <1>2, <3>1, <3>2
  <2> QED
    BY <1>2, <2>1, <2>2, <2>7, RowsMove
<1>3. ASSUME NEW doing \in Edit, edit' = [edit EXCEPT ![a] = doing],
             doing.step # "idle" => doing.item \in Items,
             (together = FALSE /\ doing.step = "counted" /\ ~doing.renames /\ ~doing.active)
               => Active(Priorities) \ {doing.item} # {},
             UNCHANGED <<item, edits, together>>, OnlyRows
      PROVE  OptionsInv'
  <2>1. /\ edit' \in [Editors -> Edit] /\ edit'[a] = doing
        /\ \A b \in Editors : b # a => edit'[b] = edit[b]
    BY <1>0, <1>3
  <2>2. Active(Priorities)' = Active(Priorities)
    BY <1>3 DEF Active
  <2>3. PriorityLeft'
    BY <1>0, <1>3, <2>1, <2>2 DEF PriorityLeft, Deactivates
  <2>4. \A b \in Editors : edit'[b].step # "idle" => edit'[b].item \in Items
    BY <1>0, <1>3, <2>1
  <2> QED
    BY <1>0, <1>3, <2>1, <2>3, <2>4, RowsMove
<1>4. ASSUME NEW i \in Items, CreateItem(a, i) PROVE OptionsInv'
  <2> DEFINE row == [there |-> TRUE, active |-> TRUE, name |-> 1]
  <2>1. row \in Row /\ row.active = TRUE
    BY DEF Row
  <2>2. CommitEdit(a, i, row) /\ together' = together
    BY <1>4 DEF CreateItem
  <2> HIDE DEF row
  <2> QED
    BY <1>0, <1>2, <2>1, <2>2
<1>5. ASSUME NEW i \in Items, NEW renames \in BOOLEAN, NEW active \in BOOLEAN,
             FindItem(a, i, renames, active)
      PROVE  OptionsInv'
  <2> DEFINE doing == [step |-> "found", item |-> i, before |-> item[i],
                       active |-> active, renames |-> renames]
  <2>1. doing \in Edit /\ doing.step = "found" /\ doing.item = i
    BY <1>0 DEF Edit
  <2>2. edit' = [edit EXCEPT ![a] = doing] /\ UNCHANGED <<item, edits, together>> /\ OnlyRows
    BY <1>5 DEF FindItem
  <2> HIDE DEF doing
  <2> QED
    BY <1>3, <2>1, <2>2
<1>6. ASSUME CountActive(a) PROVE OptionsInv'
  <2>1. /\ edit[a] \in Edit /\ edit[a].step = "found" /\ edit[a].item \in Items
        /\ UNCHANGED <<item, edits, together>> /\ OnlyRows
    BY <1>0, <1>6 DEF CountActive
  <2>2. CASE edit[a].renames \/ edit[a].active \/ MayDeactivate(edit[a].item)
    <3> DEFINE doing == [edit[a] EXCEPT !.step = "counted"]
    <3>1. /\ doing \in Edit /\ doing.step = "counted" /\ doing.item = edit[a].item
          /\ doing.renames = edit[a].renames /\ doing.active = edit[a].active
      BY <2>1 DEF Edit
    <3>2. edit' = [edit EXCEPT ![a] = doing]
      BY <1>0, <1>6, <2>2 DEF CountActive
    <3> HIDE DEF doing
    <3>3. (together = FALSE /\ doing.step = "counted" /\ ~doing.renames /\ ~doing.active)
            => Active(Priorities) \ {doing.item} # {}
      <4> SUFFICES ASSUME together = FALSE, ~edit[a].renames, ~edit[a].active
                   PROVE  Active(Priorities) \ {edit[a].item} # {}
        BY <3>1
      <4>1. MayDeactivate(edit[a].item)
        BY <2>2
      <4>2. CASE edit[a].item \in Priorities
        <5>1. Cardinality(Active(Priorities)) > 1
          BY <4>1, <4>2 DEF MayDeactivate
        <5>2. ASSUME Active(Priorities) \subseteq {edit[a].item} PROVE FALSE
          <6>1. /\ IsFiniteSet({edit[a].item}) /\ Cardinality({edit[a].item}) = 1
            BY FS_Singleton
          <6>2. Cardinality(Active(Priorities)) <= 1 /\ Cardinality(Active(Priorities)) \in Nat
            BY <5>2, <6>1, FS_Subset, FS_CardinalityType
          <6> QED
            BY <5>1, <6>2
        <5> QED
          BY <5>2
      <4>3. CASE edit[a].item \notin Priorities
        BY <1>0, <4>3 DEF PriorityLeft, Active
      <4> QED
        BY <4>2, <4>3
    <3> QED
      BY <1>3, <2>1, <3>1, <3>2, <3>3
  <2>3. CASE ~(edit[a].renames \/ edit[a].active \/ MayDeactivate(edit[a].item))
    <3>1. edit' = [edit EXCEPT ![a] = NoEditing]
      BY <1>0, <1>6, <2>3 DEF CountActive
    <3> QED
      BY <1>1, <1>3, <2>1, <3>1
  <2> QED
    BY <2>2, <2>3
<1>7. ASSUME UpdateItem(a) PROVE OptionsInv'
  <2>1. /\ edit[a] \in Edit /\ edit[a].step = "counted" /\ edit[a].item \in Items
        /\ item[edit[a].item] \in Row
        /\ together' = (together \/ (Deactivates(a) /\ \E b \in Editors \ {a} : Deactivates(b)))
    BY <1>0, <1>7 DEF UpdateItem
  <2>2. PICK i \in Items : i = edit[a].item
    BY <2>1
  <2>3. together' \in BOOLEAN
    BY <1>0, <2>1
  <2>4. CASE edit[a].renames
    <3> DEFINE row == [item[i] EXCEPT !.name = 3 - edit[a].before.name]
    <3>1. CommitEdit(a, i, row)
      BY <1>7, <2>2, <2>4 DEF UpdateItem
    <3>2. row \in Row /\ row.active = item[i].active
      BY <2>1, <2>2 DEF Row, Edit
    <3> HIDE DEF row
    <3>3. together' = FALSE => together = FALSE
      BY <1>0, <2>1
    <3> QED
      BY <1>2, <2>3, <3>1, <3>2, <3>3
  <2>5. CASE ~edit[a].renames
    <3> DEFINE row == [item[i] EXCEPT !.active = edit[a].active]
    <3>1. CommitEdit(a, i, row)
      BY <1>7, <2>2, <2>5 DEF UpdateItem
    <3>2. row \in Row /\ row.active = edit[a].active
      BY <2>1, <2>2 DEF Row, Edit
    <3> HIDE DEF row
    <3>3. together' = FALSE => together = FALSE
      BY <1>0, <2>1
    <3>4. CASE edit[a].active = TRUE
      BY <1>2, <2>3, <3>1, <3>2, <3>3, <3>4
    <3>5. CASE edit[a].active # TRUE
      <4>1. Deactivates(a)
        BY <2>1, <2>5, <3>5 DEF Deactivates, Edit
      <4>2. together' = FALSE => \A b \in Editors \ {a} : ~Deactivates(b)
        BY <2>1, <4>1
      <4> QED
        BY <1>2, <2>2, <2>3, <3>1, <3>2, <3>3, <4>1, <4>2
    <3> QED
      BY <3>4, <3>5
  <2> QED
    BY <2>4, <2>5
<1> QED
  BY <1>4, <1>5, <1>6, <1>7

(* What is not cached, read or pending is no list. *)
LEMMA OptionTypes ==
  /\ NotCached \notin SUBSET (Items \X {1, 2})
  /\ NoReading \in Reading /\ [left |-> Lists, got |-> {}] \in Reading
  /\ [left |-> Lists, got |-> {}] # NoReading
  /\ NoPending.there = FALSE
  /\ NoPending \in [there : BOOLEAN, revision : 0 .. MaxEdits, background : BOOLEAN]
  /\ \A r \in Reading : r # NoReading => r.got \in SUBSET (Items \X {1, 2})
<1>1. NotCached \notin SUBSET (Items \X {1, 2})
  BY OptionsAssumption DEF NotCached, Items
<1>2. [left |-> Lists, got |-> {}] # NoReading
  BY DEF NoReading, NotCached
<1> QED
  BY <1>1, <1>2, OptionsAssumption DEF Reading, NoReading, NoPending

(* There are finitely many pushes under way. *)
LEMMA UnderWayFinite ==
  ASSUME OptionsTypeOK, PushesCounted
  PROVE  IsFiniteSet(PushesUnderWay) /\ Cardinality(PushesUnderWay) \in Nat
<1>1. IsFiniteSet(1 .. published)
  BY FS_Interval DEF OptionsTypeOK
<1> QED
  BY <1>1, FS_Subset, FS_CardinalityType DEF PushesCounted

(* A change is published: its push will be the last.                       *)
LEMMA PublishRight ==
  ASSUME OptionsInv, Publish
  PROVE  OptionsInv'
<1> DEFINE start == [left |-> Lists, got |-> {}]
<1>0. /\ OptionsTypeOK /\ PushesCounted /\ RequestUnderWay /\ MaxEdits \in Nat
      /\ published < edits /\ published' = published + 1
      /\ reading' = (IF link = "on" THEN [reading EXCEPT ![published + 1] = start] ELSE reading)
      /\ lapsed' = (lapsed \/ link = "joining" \/ (link = "off" /\ ~hasConnected))
      /\ UNCHANGED <<item, edit, edits, together, channel, link, hasConnected, options, cache,
                     revision, pending, optionFaults>>
  BY OptionsAssumption DEF OptionsInv, Publish, OnlyGateway, rowVars, clientVars
<1>1. start \in Reading /\ start # NoReading /\ FreshReading(start)
  BY <1>0, OptionTypes, FreshAnswers DEF OptionsTypeOK
<1> HIDE DEF start
<1>2. /\ published' \in Pushes /\ published' \in 0 .. MaxEdits /\ published' # 0
      /\ published' \notin PushesUnderWay
  BY <1>0 DEF OptionsTypeOK, Pushes, PushesCounted
<1>3. lapsed' \in BOOLEAN
  BY <1>0 DEF OptionsTypeOK
<1>4. OptionsTypeOK'
  BY <1>0, <1>1, <1>2, <1>3 DEF OptionsTypeOK
<1>5. PushesCounted'
  <2>0. /\ IsFiniteSet(PushesUnderWay) /\ Cardinality(PushesUnderWay) \in Nat
        /\ Len(channel) \in Nat /\ revision \in Nat /\ published \in Nat
    BY <1>0, UnderWayFinite, LenProperties DEF OptionsTypeOK
  <2>1. /\ PushesUnderWay' \subseteq PushesUnderWay \cup {published'}
        /\ Cardinality(PushesUnderWay') <= Cardinality(PushesUnderWay) + 1
        /\ Cardinality(PushesUnderWay') \in Nat
    <3>1. CASE link = "on"
      <4>1. PushesUnderWay' = PushesUnderWay \cup {published'}
        BY <1>0, <1>1, <1>2, <3>1 DEF PushesUnderWay, OptionsTypeOK
      <4>2. Cardinality(PushesUnderWay \cup {published'}) = Cardinality(PushesUnderWay) + 1
        BY <1>2, <2>0, FS_AddElement
      <4> QED
        BY <2>0, <4>1, <4>2
    <3>2. CASE link # "on"
      <4>1. PushesUnderWay' = PushesUnderWay
        BY <1>0, <3>2 DEF PushesUnderWay
      <4> QED
        BY <2>0, <4>1
    <3> QED
      BY <3>1, <3>2
  <2>2. PushesUnderWay' \subseteq 1 .. published'
    BY <1>0, <2>1 DEF PushesCounted, OptionsTypeOK
  <2>3. published' <= edits'
    BY <1>0 DEF OptionsTypeOK
  <2> QED
    BY <1>0, <2>0, <2>1, <2>2, <2>3 DEF PushesCounted
<1>6. reading'[0] = reading[0]
  BY <1>0, <1>2 DEF OptionsTypeOK
<1>7. RequestUnderWay' /\ PriorityLeft'
  BY <1>0, <1>6 DEF OptionsInv, RequestUnderWay, PriorityLeft, Deactivates, Active
<1>8. link = "on" => ReadingNewest' /\ FreshReading(reading[published])'
  BY <1>0, <1>1, <1>2 DEF ReadingNewest, OptionsTypeOK, FreshReading, Offered, Active
<1>9. link # "on" => ~ReadingNewest'
  BY <1>0, <1>2 DEF ReadingNewest, PushesUnderWay
<1>10. (published' = edits' /\ lapsed' = FALSE /\ (link' # "off" \/ ~hasConnected')) => ClientSettles'
  BY <1>0, <1>8 DEF ClientSettles, OptionsTypeOK
<1> QED
  BY <1>0, <1>4, <1>5, <1>7, <1>8, <1>9, <1>10 DEF OptionsInv

(* A list is read for an answer. *)
LEMMA ReadListRight ==
  ASSUME OptionsInv, NEW p \in 0 .. MaxEdits, NEW kind \in Lists, ReadList(p, kind)
  PROVE  OptionsInv'
<1> DEFINE q == [reading[p] EXCEPT !.left = @ \ {kind}, !.got = @ \cup Offered(kind)]
<1>0. /\ OptionsTypeOK /\ PushesCounted /\ RequestUnderWay
      /\ kind \in reading[p].left /\ reading[p] \in Reading
      /\ UNCHANGED <<item, edit, edits, together, published, channel, link, hasConnected, options,
                     cache, revision, pending, lapsed, optionFaults>>
  BY DEF OptionsInv, OptionsTypeOK, ReadList, OnlyGateway, rowVars, clientVars
<1>1. reading' = [reading EXCEPT ![p] = q]
  BY <1>0 DEF OptionsInv, OptionsTypeOK, ReadList, Reading
<1>2. reading[p] # NoReading /\ q \in Reading /\ q # NoReading
  <2>1. reading[p] # NoReading /\ reading[p].left \subseteq Lists
    BY <1>0 DEF NoReading, Reading
  <2>2. Offered(kind) \in SUBSET (Items \X {1, 2})
    BY <1>0, OfferedIsRead DEF OptionsTypeOK
  <2>3. reading[p].got \in SUBSET (Items \X {1, 2})
    BY <1>0, <2>1, OptionTypes
  <2>4. q.got \in SUBSET (Items \X {1, 2}) /\ q \in [left : SUBSET Lists, got : SUBSET (Items \X {1, 2})]
    BY <1>0, <2>1, <2>2, <2>3 DEF Reading
  <2> QED
    BY <2>1, <2>4, OptionTypes DEF Reading, NoReading
<1>3. FreshReading(reading[p]) => FreshReading(q)
  BY <1>0, FreshAnswers DEF OptionsTypeOK
<1> HIDE DEF q
<1>4. OptionsTypeOK'
  BY <1>0, <1>1, <1>2 DEF OptionsTypeOK
<1>5. \A r \in 0 .. MaxEdits : /\ (reading'[r] # NoReading) <=> (reading[r] # NoReading)
                               /\ FreshReading(reading[r]) => FreshReading(reading'[r])
  BY <1>0, <1>1, <1>2, <1>3 DEF OptionsTypeOK
<1>6. PushesUnderWay' = PushesUnderWay /\ (ReadingNewest' <=> ReadingNewest)
  BY <1>0, <1>5 DEF PushesUnderWay, ReadingNewest, Pushes, OptionsTypeOK
<1>7. 0 \in 0 .. MaxEdits
  BY OptionsAssumption
<1>8. PushesCounted' /\ RequestUnderWay' /\ PriorityLeft'
  BY <1>0, <1>5, <1>6, <1>7
     DEF OptionsInv, PushesCounted, RequestUnderWay, PriorityLeft, Deactivates, Active
<1>9. Offered(Items)' = Offered(Items)
  BY <1>0 DEF Offered, Active
<1>10. ReadingNewest /\ FreshReading(reading[published]) => FreshReading(reading[published])'
  <2>1. ReadingNewest => published \in 0 .. MaxEdits
    BY <1>0 DEF OptionsTypeOK
  <2>2. FreshReading(reading[published])' <=> FreshReading(reading'[published])
    BY <1>0 DEF FreshReading, Offered, Active
  <2> QED
    BY <1>5, <2>1, <2>2
<1>11. LoadSettles => LoadSettles'
  <2>1. FreshReading(reading[0])' <=> FreshReading(reading'[0])
    BY <1>0 DEF FreshReading, Offered, Active
  <2> QED
    BY <1>0, <1>5, <1>7, <1>9, <2>1 DEF LoadSettles, Superseded
<1>12. ClientSettles => ClientSettles'
  BY <1>0, <1>6, <1>9, <1>11 DEF ClientSettles
<1> QED
  BY <1>0, <1>4, <1>6, <1>8, <1>10, <1>12 DEF OptionsInv

(* An answer is pushed: the newest, or one that the newest will follow.    *)
LEMMA EmitRight ==
  ASSUME OptionsInv, NEW p \in 0 .. MaxEdits, EmitOptions(p)
  PROVE  OptionsInv'
<1>0. /\ OptionsTypeOK /\ PushesCounted /\ RequestUnderWay
      /\ p # 0 /\ Answered(reading[p]) /\ reading[p] # NoReading /\ reading[p] \in Reading
      /\ reading' = [reading EXCEPT ![p] = NoReading]
      /\ channel' = (IF link = "on" THEN Append(channel, reading[p].got) ELSE channel)
      /\ lapsed' = (lapsed \/ (link = "on" /\ \E q \in p + 1 .. published : reading[q] = NoReading))
      /\ UNCHANGED <<item, edit, edits, together, published, link, hasConnected, options,
                     cache, revision, pending, optionFaults>>
  BY DEF OptionsInv, OptionsTypeOK, EmitOptions, OnlyGateway, rowVars, clientVars
<1>1. /\ reading[p].got \in SUBSET (Items \X {1, 2}) /\ NoReading \in Reading
      /\ channel \in Seq(SUBSET (Items \X {1, 2})) /\ Len(channel) \in Nat
      /\ revision \in Nat /\ published \in Nat
  BY <1>0, OptionTypes, LenProperties DEF OptionsTypeOK
<1>2. channel' \in Seq(SUBSET (Items \X {1, 2}))
  BY <1>0, <1>1, AppendProperties
<1>3. lapsed' \in BOOLEAN /\ (lapsed' = FALSE => lapsed = FALSE)
  BY <1>0 DEF OptionsTypeOK
<1>4. OptionsTypeOK'
  BY <1>0, <1>1, <1>2, <1>3 DEF OptionsTypeOK
<1>5. p \in PushesUnderWay /\ p \in 1 .. published
  BY <1>0 DEF PushesUnderWay, Pushes, PushesCounted
<1>6. PushesUnderWay' = PushesUnderWay \ {p}
  BY <1>0 DEF PushesUnderWay, Pushes, OptionsTypeOK
<1>7. PushesCounted'
  <2>0. IsFiniteSet(PushesUnderWay) /\ Cardinality(PushesUnderWay) \in Nat
    BY <1>0, UnderWayFinite
  <2>1. Cardinality(PushesUnderWay \ {p}) = Cardinality(PushesUnderWay) - 1
    BY <1>5, <2>0, FS_RemoveElement
  <2>2. Len(channel') <= Len(channel) + 1 /\ Len(channel') \in Nat
    BY <1>0, <1>1, AppendProperties
  <2>3. Cardinality(PushesUnderWay') + Len(channel') + revision <= published
    BY <1>0, <1>1, <1>6, <2>0, <2>1, <2>2 DEF PushesCounted
  <2>4. PushesUnderWay' \subseteq 1 .. published
    BY <1>0, <1>6 DEF PushesCounted
  <2> QED
    BY <1>0, <2>3, <2>4 DEF PushesCounted
<1>8. reading'[0] = reading[0]
  BY <1>0 DEF OptionsTypeOK
<1>9. RequestUnderWay' /\ PriorityLeft'
  BY <1>0, <1>8 DEF OptionsInv, RequestUnderWay, PriorityLeft, Deactivates, Active
<1>10. ReadingNewest' => ReadingNewest /\ reading'[published] = reading[published]
  BY <1>0 DEF ReadingNewest, OptionsTypeOK, Pushes
<1>12. published = edits /\ ReadingNewest' => FreshReading(reading[published])'
  <2>1. FreshReading(reading[published])' <=> FreshReading(reading'[published])
    BY <1>0 DEF FreshReading, Offered, Active
  <2> QED
    BY <1>10, <2>1 DEF OptionsInv
<1>13. LoadSettles' <=> LoadSettles
  <2>1. FreshReading(reading[0])' <=> FreshReading(reading[0])
    BY <1>8 , <1>0 DEF FreshReading, Offered, Active
  <2>2. Offered(Items)' = Offered(Items)
    BY <1>0 DEF Offered, Active
  <2> QED
    BY <1>0, <2>1, <2>2 DEF LoadSettles, Superseded
<1>14. (published = edits /\ lapsed' = FALSE /\ (link # "off" \/ ~hasConnected)) => ClientSettles'
  <2> SUFFICES ASSUME published = edits, lapsed' = FALSE, link # "off" \/ ~hasConnected
               PROVE  ClientSettles'
    OBVIOUS
  <2>1. ClientSettles
    BY <1>3 DEF OptionsInv
  <2>2. CASE link # "on"
    BY <1>0, <1>13, <2>1, <2>2 DEF ClientSettles
  <2>3. CASE link = "on" /\ p = published
    <3>1. FreshReading(reading[p])
      BY <1>0, <1>5, <2>3 DEF OptionsInv, ReadingNewest, Pushes
    <3>2. reading[p].got = Offered(Items)
      BY <1>0, <3>1, FreshAnswers DEF OptionsTypeOK
    <3>3. channel' # <<>> /\ channel'[Len(channel')] = reading[p].got
      BY <1>0, <1>1, <2>3, AppendProperties
    <3>4. Offered(Items)' = Offered(Items)
      BY <1>0 DEF Offered, Active
    <3> QED
      BY <1>0, <2>3, <3>2, <3>3, <3>4 DEF ClientSettles
  <2>4. CASE link = "on" /\ p # published
    <3>1. published \in p + 1 .. published
      BY <1>1, <1>5, <2>4
    <3>2. reading[published] # NoReading
      BY <1>0, <1>3, <2>4, <3>1
    <3>3. ReadingNewest'
      BY <1>0, <1>5, <2>4, <3>2 DEF ReadingNewest, OptionsTypeOK, Pushes
    <3> QED
      BY <1>0, <2>4, <3>3 DEF ClientSettles
  <2> QED
    BY <2>2, <2>3, <2>4
<1> QED
  BY <1>0, <1>4, <1>7, <1>9, <1>12, <1>14 DEF OptionsInv

(* The client loads: what it will be answered is fresh, and a load that was*)
(* under way before may not be.                                            *)
LEMMA LoadRight ==
  ASSUME OptionsInv, NEW background \in BOOLEAN, Load(background, channel),
         UNCHANGED <<item, edit, edits, together, published, channel, options, revision>>,
         optionFaults' \in 0 .. MaxOptionFaults, hasConnected' \in BOOLEAN,
         \/ link' = link /\ hasConnected' = hasConnected
         \/ link = "off" /\ hasConnected /\ link' = "joining" /\ hasConnected'
  PROVE  OptionsInv'
<1> DEFINE start == [left |-> Lists, got |-> {}]
<1>0. OptionsTypeOK /\ PushesCounted /\ RequestUnderWay /\ cache' = NotCached
  BY DEF OptionsInv, Load
<1>1. start \in Reading /\ start # NoReading /\ FreshReading(start)
  BY <1>0, OptionTypes, FreshAnswers DEF OptionsTypeOK
<1>2. /\ reading' = reading \/ (~pending.there /\ reading' = [reading EXCEPT ![0] = start])
      /\ pending.there => reading' = reading
      /\ ~pending.there => reading' = [reading EXCEPT ![0] = start]
  BY DEF Load
<1> HIDE DEF start
<1>3. /\ reading' \in [0 .. MaxEdits -> Reading] /\ reading'[0] # NoReading
      /\ \A p \in Pushes : reading'[p] = reading[p]
  <2>1. 0 \in 0 .. MaxEdits /\ Pushes = 1 .. MaxEdits /\ reading \in [0 .. MaxEdits -> Reading]
    BY <1>0, OptionsAssumption DEF OptionsTypeOK, Pushes
  <2>2. CASE pending.there
    BY <1>0, <1>2, <2>1, <2>2 DEF RequestUnderWay
  <2>3. CASE ~pending.there
    <3>1. reading' = [reading EXCEPT ![0] = start]
      BY <1>2, <2>3
    <3>2. \A p \in Pushes : p # 0 /\ p \in 0 .. MaxEdits
      BY <2>1, OptionsAssumption
    <3> QED
      BY <1>1, <2>1, <3>1, <3>2
  <2> QED
    BY <2>2, <2>3
<1>4. /\ pending' \in [there : BOOLEAN, revision : 0 .. MaxEdits, background : BOOLEAN]
      /\ pending'.there = TRUE /\ pending'.revision <= revision
  <2>1. CASE pending.there
    <3>1. pending' = [pending EXCEPT !.background = pending.background /\ background]
      BY <2>1 DEF Load
    <3>2. (pending.background /\ background) \in BOOLEAN
      OBVIOUS
    <3> QED
      BY <1>0, <2>1, <3>1, <3>2 DEF OptionsTypeOK, PushesCounted
  <2>2. CASE ~pending.there
    <3>1. pending' = [there |-> TRUE, revision |-> revision, background |-> background]
      BY <2>2 DEF Load
    <3> QED
      BY <1>0, <3>1 DEF OptionsTypeOK
  <2> QED
    BY <2>1, <2>2
<1>5. lapsed' \in BOOLEAN
  <2>1. lapsed' = TRUE \/ lapsed' = (lapsed /\ (channel # <<>> \/ \E p \in Pushes : reading[p] # NoReading))
    BY DEF Load
  <2> QED
    BY <1>0, <2>1 DEF OptionsTypeOK
<1>6. OptionsTypeOK'
  BY <1>0, <1>3, <1>4, <1>5 DEF OptionsTypeOK
<1>7. PushesUnderWay' = PushesUnderWay /\ (ReadingNewest' <=> ReadingNewest)
      /\ (ReadingNewest => reading'[published] = reading[published])
  BY <1>3 DEF PushesUnderWay, ReadingNewest
<1>8. PushesCounted' /\ RequestUnderWay' /\ PriorityLeft'
  BY <1>0, <1>3, <1>4, <1>7
     DEF OptionsInv, PushesCounted, RequestUnderWay, PriorityLeft, Deactivates, Active
<1>9. Offered(Items)' = Offered(Items)
  BY DEF Offered, Active
<1>10. published = edits /\ ReadingNewest => FreshReading(reading[published])'
  <2>1. FreshReading(reading[published])' <=> FreshReading(reading'[published])
    BY DEF FreshReading, Offered, Active
  <2> QED
    BY <1>7, <2>1 DEF OptionsInv
<1>11. ASSUME published = edits, lapsed' = FALSE PROVE ClientSettles'
  <2>1. /\ ~pending.there
        /\ lapsed' = (lapsed /\ (channel # <<>> \/ \E p \in Pushes : reading[p] # NoReading))
    BY <1>11 DEF Load
  <2>2. LoadSettles'
    <3>1. reading'[0] = start
      BY <1>0, <1>2, <2>1, OptionsAssumption DEF OptionsTypeOK
    <3>2. FreshReading(reading[0])' <=> FreshReading(start)
      BY <3>1 DEF FreshReading, Offered, Active
    <3> QED
      BY <1>0, <1>1, <1>4, <3>2 DEF LoadSettles
  <2>3. CASE channel = <<>>
    BY <2>2, <2>3 DEF ClientSettles
  <2>4. CASE channel # <<>>
    <3>1. link = "on" /\ link' = link /\ lapsed = FALSE
      BY <1>0, <1>11, <2>1, <2>4 DEF RequestUnderWay, OptionsTypeOK
    <3>2. ClientSettles
      BY <1>11, <3>1 DEF OptionsInv
    <3> QED
      BY <1>7, <1>9, <2>4, <3>1, <3>2 DEF ClientSettles
  <2> QED
    BY <2>3, <2>4
<1> QED
  BY <1>6, <1>7, <1>8, <1>10, <1>11 DEF OptionsInv

(* The socket of the client. *)
LEMMA SocketRight ==
  ASSUME OptionsInv, ConnectSocket \/ TrackSocket \/ DropSocket \/ Reload
  PROVE  OptionsInv'
<1>0. OptionsTypeOK /\ PushesCounted /\ RequestUnderWay
  BY DEF OptionsInv
<1>1. ASSUME UNCHANGED <<item, edit, edits, together, published, reading, options, cache,
                         revision, pending, lapsed>>,
             link' \in {"off", "joining", "on"}, hasConnected' \in BOOLEAN,
             optionFaults' \in 0 .. MaxOptionFaults,
             channel' = channel \/ channel' = <<>>,
             link' # "on" => channel' = <<>>,
             link' # "off" => hasConnected',
             (/\ published = edits /\ lapsed = FALSE /\ (link' # "off" \/ ~hasConnected'))
               => ClientSettles'
      PROVE  OptionsInv'
  <2>1. channel' \in Seq(SUBSET (Items \X {1, 2})) /\ Len(channel') <= Len(channel)
        /\ Len(channel') \in Nat /\ Len(channel) \in Nat
    <3>1. channel \in Seq(SUBSET (Items \X {1, 2})) /\ Len(channel) \in Nat
      BY <1>0, LenProperties DEF OptionsTypeOK
    <3>2. <<>> \in Seq(SUBSET (Items \X {1, 2})) /\ Len(<<>>) = 0
      OBVIOUS
    <3>3. CASE channel' = channel
      BY <3>1, <3>3
    <3>4. CASE channel' = <<>>
      BY <3>1, <3>2, <3>4
    <3> QED
      BY <1>1, <3>3, <3>4
  <2>2. OptionsTypeOK'
    BY <1>0, <1>1, <2>1 DEF OptionsTypeOK
  <2>3. PushesUnderWay' = PushesUnderWay /\ (ReadingNewest' <=> ReadingNewest)
    BY <1>1 DEF PushesUnderWay, ReadingNewest
  <2>4. PushesCounted'
    <3>1. Cardinality(PushesUnderWay) \in Nat /\ revision \in Nat /\ published \in Nat
      BY <1>0, UnderWayFinite DEF OptionsTypeOK
    <3> QED
      BY <1>0, <1>1, <2>1, <2>3, <3>1 DEF PushesCounted
  <2>5. RequestUnderWay' /\ PriorityLeft'
    BY <1>0, <1>1 DEF OptionsInv, RequestUnderWay, PriorityLeft, Deactivates, Active
  <2>6. FreshReading(reading[published])' <=> FreshReading(reading[published])
    BY <1>1 DEF FreshReading, Offered, Active
  <2> QED
    BY <1>1, <2>2, <2>3, <2>4, <2>5, <2>6 DEF OptionsInv
<1>2. ASSUME UNCHANGED <<item, reading, options, cache, revision, pending, channel>>
      PROVE  (LoadSettles' <=> LoadSettles) /\ Offered(Items)' = Offered(Items)
  <2>1. FreshReading(reading[0])' <=> FreshReading(reading[0])
    BY <1>2 DEF FreshReading, Offered, Active
  <2>2. Offered(Items)' = Offered(Items)
    BY <1>2 DEF Offered, Active
  <2> QED
    BY <1>2, <2>1, <2>2 DEF LoadSettles, Superseded
<1>3. CASE ConnectSocket /\ hasConnected
  <2>1. /\ link = "off" /\ link' = "joining" /\ hasConnected' = TRUE /\ Load(TRUE, <<>>)
        /\ UNCHANGED <<item, edit, edits, together, published, channel, options, revision,
                       optionFaults>>
    BY <1>3 DEF ConnectSocket, OnlyClient, rowVars
  <2>2. channel = <<>> /\ optionFaults' \in 0 .. MaxOptionFaults
    BY <1>0, <2>1 DEF RequestUnderWay, OptionsTypeOK
  <2>3. Load(TRUE, channel)
    BY <2>1, <2>2
  <2> QED
    BY <1>3, <2>1, <2>2, <2>3, LoadRight
<1>4. CASE ConnectSocket /\ ~hasConnected
  <2>1. /\ link = "off" /\ link' = "joining" /\ hasConnected' = TRUE
        /\ UNCHANGED <<item, edit, edits, together, published, reading, channel, options, cache,
                       revision, pending, lapsed, optionFaults>>
    BY <1>4 DEF ConnectSocket, OnlyClient, rowVars
  <2>2. (published = edits /\ lapsed = FALSE) => ClientSettles'
    BY <1>2, <1>4, <2>1 DEF OptionsInv, ClientSettles
  <2> QED
    BY <1>0, <1>1, <2>1, <2>2 DEF RequestUnderWay, OptionsTypeOK
<1>5. CASE TrackSocket
  <2>1. /\ link = "joining" /\ link' = "on"
        /\ UNCHANGED <<item, edit, edits, together, published, reading, channel, hasConnected,
                       options, cache, revision, pending, lapsed, optionFaults>>
    BY <1>5 DEF TrackSocket, OnlyClient, rowVars
  <2>2. channel = <<>>
    BY <1>0, <2>1 DEF RequestUnderWay
  <2>3. (published = edits /\ lapsed = FALSE) => ClientSettles'
    BY <1>2, <2>1, <2>2 DEF OptionsInv, ClientSettles
  <2> QED
    BY <1>0, <1>1, <2>1, <2>2, <2>3 DEF RequestUnderWay, OptionsTypeOK
<1>6. CASE DropSocket
  <2>1. /\ link # "off" /\ link' = "off" /\ channel' = <<>>
        /\ optionFaults' \in 0 .. MaxOptionFaults
        /\ UNCHANGED <<item, edit, edits, together, published, reading, hasConnected,
                       options, cache, revision, pending, lapsed>>
    BY <1>0, <1>6, OptionsAssumption DEF DropSocket, OnlyClient, rowVars, OptionsTypeOK
  <2> QED
    BY <1>0, <1>1, <2>1 DEF RequestUnderWay, OptionsTypeOK
<1>7. CASE Reload
  <2>1. /\ Load(FALSE, channel) /\ optionFaults < MaxOptionFaults
        /\ optionFaults' = optionFaults + 1
        /\ UNCHANGED <<item, edit, edits, together, published, channel, link, hasConnected,
                       options, revision>>
    BY <1>7 DEF Reload, OnlyClient, rowVars
  <2>2. optionFaults' \in 0 .. MaxOptionFaults /\ hasConnected' \in BOOLEAN
    BY <1>0, <2>1, OptionsAssumption DEF OptionsTypeOK
  <2> QED
    BY <2>1, <2>2, LoadRight
<1> QED
  BY <1>3, <1>4, <1>5, <1>6, <1>7

(* A push is shown, and supersedes the request under way.                  *)
LEMMA PushedRight ==
  ASSUME OptionsInv, OptionsPushed
  PROVE  OptionsInv'
<1>0. /\ OptionsTypeOK /\ PushesCounted /\ RequestUnderWay /\ MaxEdits \in Nat
      /\ channel # <<>> /\ channel' = Tail(channel)
      /\ options' = Head(channel) /\ cache' = Head(channel) /\ revision' = revision + 1
      /\ UNCHANGED <<item, edit, edits, together, published, reading, link, hasConnected,
                     pending, lapsed, optionFaults>>
  BY OptionsAssumption DEF OptionsInv, OptionsPushed, OnlyClient, rowVars
<1>1. /\ channel \in Seq(SUBSET (Items \X {1, 2})) /\ Len(channel) \in Nat
      /\ channel' \in Seq(SUBSET (Items \X {1, 2})) /\ Len(channel') = Len(channel) - 1
      /\ Len(channel) > 0 /\ Head(channel) \in SUBSET (Items \X {1, 2})
      /\ Head(channel) = channel[1]
      /\ \A k \in 1 .. Len(channel') : channel'[k] = channel[k + 1]
  BY <1>0, HeadTailProperties, LenProperties, EmptySeq DEF OptionsTypeOK
<1>2. link = "on"
  BY <1>0 DEF RequestUnderWay
<1>3. PushesUnderWay' = PushesUnderWay /\ (ReadingNewest' <=> ReadingNewest)
  BY <1>0 DEF PushesUnderWay, ReadingNewest
<1>4. PushesCounted' /\ revision' \in 0 .. MaxEdits /\ revision' # 0
  <2>1. /\ Cardinality(PushesUnderWay) \in Nat /\ revision \in Nat /\ published \in Nat
        /\ published <= MaxEdits
    BY <1>0, UnderWayFinite DEF OptionsTypeOK
  <2>2. Cardinality(PushesUnderWay') + Len(channel') + revision' <= published
    BY <1>0, <1>1, <1>3, <2>1 DEF PushesCounted
  <2>3. pending.there => pending.revision <= revision'
    BY <1>0, <2>1 DEF PushesCounted, OptionsTypeOK
  <2>4. revision' \in 0 .. MaxEdits /\ revision' # 0
    BY <1>0, <1>1, <2>1 DEF PushesCounted
  <2> QED
    BY <1>0, <1>3, <2>2, <2>3, <2>4 DEF PushesCounted
<1>5. OptionsTypeOK'
  BY <1>0, <1>1, <1>4 DEF OptionsTypeOK
<1>6. RequestUnderWay' /\ PriorityLeft'
  BY <1>0, <1>2, <1>4 DEF OptionsInv, RequestUnderWay, PriorityLeft, Deactivates, Active
<1>7. Offered(Items)' = Offered(Items) /\ Offered(Items) # NotCached
  <2>1. Offered(Items)' = Offered(Items)
    BY <1>0 DEF Offered, Active
  <2>2. Offered(Items) \in SUBSET (Items \X {1, 2})
    BY <1>0, OfferedIsRead DEF OptionsTypeOK
  <2> QED
    BY <2>1, <2>2, OptionTypes
<1>8. FreshReading(reading[published])' <=> FreshReading(reading[published])
  BY <1>0 DEF FreshReading, Offered, Active
<1>9. ClientSettles => ClientSettles'
  <2>1. CASE ReadingNewest
    BY <1>0, <1>2, <1>3, <2>1 DEF ClientSettles
  <2>2. CASE channel[Len(channel)] = Offered(Items) /\ Len(channel) = 1
    <3>1. channel' = <<>> /\ options' = Offered(Items) /\ cache' = Offered(Items)
      BY <1>0, <1>1, <2>2, EmptySeq
    <3>2. pending.there => pending.revision < revision' /\ revision' # pending.revision
      BY <1>0, <1>4 DEF PushesCounted, OptionsTypeOK
    <3>3. pending'.there => Superseded' /\ cache' # NotCached
      BY <1>0, <1>7, <3>1, <3>2 DEF Superseded
    <3>4. LoadSettles'
      BY <1>7, <3>1, <3>3 DEF LoadSettles
    <3> QED
      BY <1>0, <1>2, <3>1, <3>4 DEF ClientSettles
  <2>3. CASE channel[Len(channel)] = Offered(Items) /\ Len(channel) # 1
    <3>1. Len(channel') \in 1 .. Len(channel') /\ Len(channel') + 1 = Len(channel)
      BY <1>1, <2>3
    <3>2. channel'[Len(channel')] = Offered(Items)'
      BY <1>1, <1>7, <2>3, <3>1
    <3>3. channel' # <<>>
      BY <3>1, EmptySeq
    <3> QED
      BY <1>0, <1>2, <3>2, <3>3 DEF ClientSettles
  <2> QED
    BY <1>0, <1>2, <2>1, <2>2, <2>3 DEF ClientSettles
<1> QED
  BY <1>0, <1>3, <1>4, <1>5, <1>6, <1>8, <1>9 DEF OptionsInv

(* The request is answered, or fails.                                      *)
LEMMA RequestEndsRight ==
  ASSUME OptionsInv, OptionsArrive \/ OptionsRequestFails
  PROVE  OptionsInv'
<1>0. /\ OptionsTypeOK /\ PushesCounted /\ RequestUnderWay /\ MaxEdits \in Nat
      /\ pending.there /\ pending' = NoPending /\ reading' = [reading EXCEPT ![0] = NoReading]
      /\ UNCHANGED <<item, edit, edits, together, published, channel, link, hasConnected,
                     revision>>
  BY OptionsAssumption DEF OptionsInv, OptionsArrive, OptionsRequestFails, OnlyClient, rowVars
<1>1. reading[0] # NoReading /\ reading[0] \in Reading
      /\ reading[0].got \in SUBSET (Items \X {1, 2})
  BY <1>0, OptionTypes DEF RequestUnderWay, OptionsTypeOK
<1>2. reading' \in [0 .. MaxEdits -> Reading] /\ \A p \in Pushes : reading'[p] = reading[p]
  <2>1. reading \in [0 .. MaxEdits -> Reading] /\ NoReading \in Reading
    BY <1>0, OptionTypes DEF OptionsTypeOK
  <2>2. \A p \in Pushes : p # 0 /\ p \in 0 .. MaxEdits
    BY <1>0 DEF Pushes
  <2> QED
    BY <1>0, <2>1, <2>2
<1>3. options' \in SUBSET (Items \X {1, 2})
      /\ (cache' = NotCached \/ cache' \in SUBSET (Items \X {1, 2}))
  <2>1. CASE OptionsArrive
    BY <1>0, <1>1, <2>1 DEF OptionsArrive, OptionsTypeOK
  <2>2. CASE OptionsRequestFails
    BY <1>0, <2>2 DEF OptionsRequestFails, OptionsTypeOK
  <2> QED
    BY <2>1, <2>2
<1>4. lapsed' \in BOOLEAN /\ optionFaults' \in 0 .. MaxOptionFaults
  <2>1. CASE OptionsArrive
    BY <1>0, <2>1 DEF OptionsArrive, OptionsTypeOK
  <2>2. CASE OptionsRequestFails
    BY <1>0, <2>2, OptionsAssumption DEF OptionsRequestFails, OptionsTypeOK
  <2> QED
    BY <2>1, <2>2
<1>5. OptionsTypeOK'
  BY <1>0, <1>2, <1>3, <1>4, OptionTypes DEF OptionsTypeOK
<1>6. /\ PushesUnderWay' = PushesUnderWay /\ (ReadingNewest' <=> ReadingNewest)
      /\ ReadingNewest => reading'[published] = reading[published]
  BY <1>0, <1>2 DEF PushesUnderWay, ReadingNewest
<1>7. PushesCounted' /\ RequestUnderWay' /\ PriorityLeft'
  BY <1>0, <1>6, OptionTypes
     DEF OptionsInv, PushesCounted, RequestUnderWay, PriorityLeft, Deactivates, Active
<1>8. ReadingNewest => (FreshReading(reading[published])' <=> FreshReading(reading[published]))
  BY <1>0, <1>6 DEF FreshReading, Offered, Active
<1>9. Offered(Items)' = Offered(Items)
  BY <1>0 DEF Offered, Active
<1>10. CASE OptionsArrive
  <2>1. lapsed' = lapsed
    BY <1>10 DEF OptionsArrive
  <2>2. LoadSettles => LoadSettles'
    <3> SUFFICES ASSUME LoadSettles PROVE options' = Offered(Items)
      BY <1>0, <1>9, OptionTypes DEF LoadSettles
    <3>1. CASE Superseded /\ cache # NotCached
      BY <1>0, <1>10, <3>1 DEF LoadSettles, OptionsArrive
    <3>2. CASE ~(Superseded /\ cache # NotCached)
      <4>1. FreshReading(reading[0]) /\ Answered(reading[0]) /\ options' = reading[0].got
        BY <1>0, <1>10, <3>2 DEF LoadSettles, OptionsArrive
      <4> QED
        BY <1>0, <1>1, <4>1, FreshAnswers DEF OptionsTypeOK
    <3> QED
      BY <3>1, <3>2
  <2>3. ClientSettles => ClientSettles'
    BY <1>0, <1>6, <1>9, <2>2 DEF ClientSettles
  <2> QED
    BY <1>0, <1>5, <1>6, <1>7, <1>8, <2>1, <2>3 DEF OptionsInv
<1>11. CASE OptionsRequestFails
  <2>1. lapsed' = TRUE
    BY <1>11 DEF OptionsRequestFails
  <2> QED
    BY <1>0, <1>5, <1>6, <1>7, <1>8, <2>1 DEF OptionsInv
<1> QED
  BY <1>0, <1>10, <1>11

(* The inductive invariant of the options: once every change is published, *)
(* the newest answer is being read, or is the last under way, or the load  *)
(* of the client will show it; and no administrator alone deactivates the  *)
(* last priority.                                                          *)
THEOREM OptionsInvariant == OptionsSpec => []OptionsInv
<1>1. OptionsInit => OptionsInv
  <2> SUFFICES ASSUME OptionsInit PROVE OptionsInv
    OBVIOUS
  <2> DEFINE start == [left |-> Lists, got |-> {}]
  <2>1. start \in Reading /\ start # NoReading /\ NoReading \in Reading
    BY OptionTypes
  <2> HIDE DEF start
  <2>2. reading = [[p \in 0 .. MaxEdits |-> NoReading] EXCEPT ![0] = start] /\ MaxEdits \in Nat
    BY OptionsAssumption DEF OptionsInit, start
  <2>3. /\ reading \in [0 .. MaxEdits -> Reading] /\ reading[0] = start
        /\ \A p \in Pushes : reading[p] = NoReading
    BY <2>1, <2>2 DEF Pushes
  <2>4. /\ EmptyRow \in Row /\ NoEditing \in Edit /\ NoEditing.step = "idle"
        /\ [EmptyRow EXCEPT !.there = TRUE, !.active = TRUE] \in Row
        /\ [EmptyRow EXCEPT !.there = TRUE, !.active = TRUE].active = TRUE
    BY DEF EmptyRow, Row, NoEditing, Edit
  <2>5. /\ item \in [Items -> Row] /\ \A i \in FirstOptions \cap Items : item[i].active = TRUE
    BY <2>4 DEF OptionsInit
  <2>6. edit \in [Editors -> Edit] /\ \A a \in Editors : edit[a].step = "idle"
    BY <2>4 DEF OptionsInit
  <2>7. pending = [there |-> TRUE, revision |-> 0, background |-> FALSE]
    BY DEF OptionsInit, NoPending
  <2>8. /\ edits = 0 /\ published = 0 /\ channel = <<>> /\ link = "off" /\ hasConnected = FALSE
        /\ options = {} /\ cache = NotCached /\ revision = 0
        /\ together = FALSE /\ lapsed = FALSE /\ optionFaults = 0
    BY DEF OptionsInit
  <2>9. OptionsTypeOK
    <3>1. pending \in [there : BOOLEAN, revision : 0 .. MaxEdits, background : BOOLEAN]
      BY <2>2, <2>7
    <3>2. channel \in Seq(SUBSET (Items \X {1, 2})) /\ options \in SUBSET (Items \X {1, 2})
      BY <2>8
    <3>3. 0 \in 0 .. MaxEdits /\ 0 \in 0 .. MaxOptionFaults
      BY OptionsAssumption
    <3> QED
      BY <2>3, <2>5, <2>6, <2>8, <3>1, <3>2, <3>3 DEF OptionsTypeOK
  <2>10. PushesUnderWay = {} /\ ~ReadingNewest
    BY <2>2, <2>3, <2>8 DEF PushesUnderWay, ReadingNewest
  <2>11. PushesCounted
    BY <2>7, <2>8, <2>10, FS_EmptySet DEF PushesCounted
  <2>12. RequestUnderWay
    BY <2>1, <2>3, <2>8 DEF RequestUnderWay
  <2>13. PriorityLeft
    BY <2>5, <2>6, OptionsAssumption DEF PriorityLeft, Deactivates, Active, Items
  <2>14. LoadSettles
    BY <2>3, <2>5, <2>7, <2>8, FreshAnswers DEF LoadSettles, start
  <2> QED
    BY <2>6, <2>8, <2>9, <2>10, <2>11, <2>12, <2>13, <2>14 DEF OptionsInv, ClientSettles
<1>2. OptionsInv /\ [OptionsNext]_optionsVars => OptionsInv'
  <2> SUFFICES ASSUME OptionsInv, [OptionsNext]_optionsVars PROVE OptionsInv'
    OBVIOUS
  <2>1. CASE UNCHANGED optionsVars
    <3>1. UNCHANGED <<item, edit, edits, together, published, reading, channel, link,
                      hasConnected, options, cache, revision, pending, lapsed, optionFaults>>
      BY <2>1 DEF optionsVars, rowVars, clientVars
    <3>2. OptionsTypeOK' /\ PushesCounted' /\ RequestUnderWay' /\ PriorityLeft'
      BY <3>1 DEF OptionsInv, OptionsTypeOK, PushesCounted, PushesUnderWay, RequestUnderWay,
                  PriorityLeft, Deactivates, Active
    <3>3. /\ (ReadingNewest' <=> ReadingNewest) /\ (ClientSettles' <=> ClientSettles)
          /\ (FreshReading(reading[published])' <=> FreshReading(reading[published]))
      BY <3>1 DEF ReadingNewest, ClientSettles, LoadSettles, FreshReading, Superseded, Offered,
                  Active
    <3> QED
      BY <3>1, <3>2, <3>3 DEF OptionsInv
  <2>2. ASSUME NEW a \in Editors,
               \/ \E i \in Items :
                    \/ CreateItem(a, i)
                    \/ \E renames, active \in BOOLEAN : FindItem(a, i, renames, active)
               \/ CountActive(a) \/ UpdateItem(a)
        PROVE  OptionsInv'
    BY <2>2, EditorStepRight
  <2>3. ASSUME NEW p \in 0 .. MaxEdits,
               EmitOptions(p) \/ \E kind \in Lists : ReadList(p, kind)
        PROVE  OptionsInv'
    BY <2>3, EmitRight, ReadListRight
  <2>4. CASE \/ Publish \/ Reload \/ ConnectSocket \/ TrackSocket \/ DropSocket
             \/ OptionsPushed \/ OptionsArrive \/ OptionsRequestFails
    BY <2>4, PublishRight, SocketRight, PushedRight, RequestEndsRight
  <2> QED
    BY <2>1, <2>2, <2>3, <2>4 DEF OptionsNext
<1> QED
  BY <1>1, <1>2, PTL DEF OptionsSpec

(* The variables of the filter options keep their types, and their bounds. *)
THEOREM OptionsTypeCorrect == OptionsSpec => []OptionsTypeOK
<1>1. OptionsInv => OptionsTypeOK
  BY DEF OptionsInv
<1> QED
  BY <1>1, OptionsInvariant, PTL

(* A connected client for which nothing is under way offers exactly the    *)
(* active departments and priorities, unless it lapsed; and one priority   *)
(* stays active, unless two administrators deactivate them together.       *)
THEOREM OptionsDoAgree == OptionsSpec => []OptionsAgree
<1>1. OptionsInv => OptionsAgree
  <2> SUFFICES ASSUME OptionsInv PROVE OptionsAgree
    OBVIOUS
  <2>0. lapsed \in BOOLEAN /\ together \in BOOLEAN
    BY DEF OptionsInv, OptionsTypeOK
  <2>1. ASSUME link = "on", published = edits, channel = <<>>, ~pending.there, ~lapsed,
               \A p \in Pushes : reading[p] = NoReading
        PROVE  options = Offered(Items)
    <3>1. ClientSettles /\ ~ReadingNewest
      BY <2>0, <2>1 DEF OptionsInv, ReadingNewest
    <3> QED
      BY <2>1, <3>1 DEF ClientSettles, LoadSettles
  <2>2. together \/ Active(Priorities) # {}
    BY <2>0 DEF OptionsInv, PriorityLeft
  <2> QED
    BY <2>1, <2>2 DEF OptionsAgree
<1> QED
  BY <1>1, OptionsInvariant, PTL

-----------------------------------------------------------------------------
(* The pages of lists *)

(* What is read for the load is not older than the user's last change, and *)
(* is the answer to the query shown, unless the load went astray.          *)
LoadRightly ==
  load # NoLoad =>
    /\ load.read = 0 \/ load.read >= mine
    /\ load.optionsRead = 0 \/ load.optionsRead >= mine
    /\ effectDue = FALSE /\ astray = FALSE => load.asked = Asked

(* The rows of a page that is done are those of its query. *)
DoneRightly ==
  (/\ load = NoLoad /\ effectDue = FALSE /\ mutation.step = "none" /\ error = FALSE
   /\ astray = FALSE)
    => ListShown.asked = Asked /\ ListShown.read >= mine

(* TicketsPage compares with the query that its rows answer. *)
TicketsCompared ==
  list = "tickets" /\ loading = FALSE /\ error = FALSE => listed["first"].asked = loadedFor

ListInv ==
  /\ ListTypeOK /\ LoadRightly /\ DoneRightly /\ TicketsCompared
  /\ mine <= data /\ (mutation.step = "committed" => mutation.change <= data)
  /\ list \notin {"handoffs", "management"} => mutation.step = "none"
  /\ departmentOptions.loaded = TRUE => departmentOptions.read >= mine

(* What the address shows is a query. *)
LEMMA AskedTypes ==
  ASSUME ListTypeOK
  PROVE  /\ Asked \in Query /\ address.section \in Sections
         /\ \A s \in Sections : Slot(s) \in Sections
         /\ NoMutation \in Mutation /\ NoMutation.step = "none"
         /\ data \in Nat /\ mine \in Nat /\ MaxDataChanges \in Nat /\ Changes \subseteq Nat
<1>1. Asked \in Query
  BY DEF ListTypeOK, Asked, Query
<1>2. NoMutation \in Mutation /\ NoMutation.step = "none"
  BY ListPagesAssumption DEF NoMutation, Mutation, FirstQuery, Query, Sections, ListFilters,
     PageNumbers, Changes
<1>3. data \in Nat /\ mine \in Nat /\ MaxDataChanges \in Nat /\ Changes \subseteq Nat
  BY ListPagesAssumption DEF ListTypeOK, Changes
<1> QED
  BY <1>1, <1>2, <1>3 DEF ListTypeOK, Slot, Sections

(* A load asks for a query with nothing read yet, and goes astray if the   *)
(* page shows another one.                                                 *)
LEMMA LoadListRight ==
  ASSUME ListInv, NEW query \in Query, NEW optionsLoaded \in BOOLEAN,
         LoadList(query, optionsLoaded), error' = FALSE,
         UNCHANGED <<list, address, data, listed, loadedFor, listFaults>>,
         visits' \in 0 .. MaxVisits,
         effectDue' = effectDue \/ (effectDue' = FALSE /\ query = Asked),
         mutation' = mutation \/ mutation' = NoMutation,
         \/ mine' = mine /\ departmentOptions' = departmentOptions
         \/ /\ mutation.step = "committed" /\ mine' = mutation.change
            /\ departmentOptions' = [departmentOptions EXCEPT !.loaded = FALSE]
  PROVE  ListInv'
<1>0. ListTypeOK /\ LoadRightly /\ mine <= data
  BY DEF ListInv
<1> DEFINE wanted == [asked |-> query, read |-> 0, optionsRead |-> 0,
                      wants |-> list = "management" /\ query.section = "first" /\ ~optionsLoaded]
<1>1. load' = wanted /\ lateAnswer' = Aborted /\ loading' = TRUE /\ astray' = (query # Asked)
  BY DEF LoadList
<1>2. wanted \in LoadState /\ wanted.asked = query /\ wanted.read = 0 /\ wanted.optionsRead = 0
  <2>1. (list = "management" /\ query.section = "first" /\ ~optionsLoaded) \in BOOLEAN
    OBVIOUS
  <2>2. 0 \in Changes
    BY ListPagesAssumption DEF Changes
  <2> QED
    BY <2>1, <2>2 DEF LoadState
<1> HIDE DEF wanted
<1>3. load' # NoLoad
  BY <1>1, <1>2, NoLoadAssumption
<1>4. lateAnswer' \in LoadState \cup {NoLoad}
  BY <1>0, <1>1 DEF ListTypeOK, Aborted
<1>5. /\ mine' \in Changes /\ mine' <= data'
      /\ departmentOptions' \in [loaded : BOOLEAN, read : Changes]
      /\ departmentOptions'.loaded = TRUE => departmentOptions'.read >= mine'
  <2>1. CASE mine' = mine /\ departmentOptions' = departmentOptions
    BY <1>0, <2>1 DEF ListInv, ListTypeOK
  <2>2. CASE /\ mutation.step = "committed" /\ mine' = mutation.change
             /\ departmentOptions' = [departmentOptions EXCEPT !.loaded = FALSE]
    BY <1>0, <2>2 DEF ListInv, ListTypeOK, Mutation
  <2> QED
    BY <2>1, <2>2
<1>6. /\ mutation' \in Mutation
      /\ mutation'.step = "committed" => mutation'.change <= data'
      /\ list' \notin {"handoffs", "management"} => mutation'.step = "none"
  BY <1>0, AskedTypes DEF ListInv, ListTypeOK
<1>7. effectDue' \in BOOLEAN /\ astray' \in BOOLEAN
  BY <1>0, <1>1 DEF ListTypeOK
<1>8. ListTypeOK'
  BY <1>0, <1>1, <1>2, <1>4, <1>5, <1>6, <1>7 DEF ListTypeOK
<1>9. LoadRightly'
  <2>1. Asked' = Asked
    BY DEF Asked
  <2>2. astray' = FALSE => query = Asked
    BY <1>1
  <2> QED
    BY <1>1, <1>2, <2>1, <2>2 DEF LoadRightly
<1>10. DoneRightly' /\ TicketsCompared'
  BY <1>1, <1>3 DEF DoneRightly, TicketsCompared
<1> QED
  BY <1>5, <1>6, <1>8, <1>9, <1>10 DEF ListInv

(* What the service reads is not older than the user's last change.        *)
LEMMA ReadsRight ==
  ASSUME ListInv, load # NoLoad, OnlyRead,
         load' = [load EXCEPT !.read = data] \/ load' = [load EXCEPT !.optionsRead = data]
  PROVE  ListInv'
<1>0. /\ ListTypeOK /\ LoadRightly /\ mine <= data /\ load \in LoadState /\ data \in Changes
      /\ UNCHANGED <<list, address, effectDue, data, listed, loading, error, loadedFor,
                     departmentOptions, lateAnswer, mutation, mine, astray, visits, listFaults>>
  BY DEF ListInv, ListTypeOK, OnlyRead, listShownVars
<1>1. /\ load' \in LoadState /\ load'.asked = load.asked
      /\ load'.read = data \/ load'.read = load.read
      /\ load'.optionsRead = data \/ load'.optionsRead = load.optionsRead
  <2>1. CASE load' = [load EXCEPT !.read = data]
    BY <1>0, <2>1 DEF LoadState
  <2>2. CASE load' = [load EXCEPT !.optionsRead = data]
    BY <1>0, <2>2 DEF LoadState
  <2> QED
    BY <2>1, <2>2
<1>2. load' # NoLoad
  BY <1>1, NoLoadAssumption
<1>3. ListTypeOK'
  BY <1>0, <1>1 DEF ListTypeOK
<1>4. LoadRightly'
  <2>1. Asked' = Asked
    BY <1>0 DEF Asked
  <2>2. load'.read = 0 \/ load'.read >= mine
    BY <1>0, <1>1 DEF LoadRightly
  <2>3. load'.optionsRead = 0 \/ load'.optionsRead >= mine
    BY <1>0, <1>1 DEF LoadRightly
  <2> QED
    BY <1>0, <1>1, <2>1, <2>2, <2>3 DEF LoadRightly
<1>5. DoneRightly' /\ TicketsCompared'
  BY <1>0, <1>2 DEF ListInv, DoneRightly, TicketsCompared
<1> QED
  BY <1>0, <1>3, <1>4, <1>5 DEF ListInv

(* An answer is used if no later load replaced its request.                *)
LEMMA AnsweredRight ==
  ASSUME ListInv, ListAnswered
  PROVE  ListInv'
<1>1. PICK answer \in {load, lateAnswer} \ {NoLoad} :
        /\ answer.read > 0 /\ (answer.wants => answer.optionsRead > 0)
        /\ IF IsLatestLoad(answer) THEN ListUpdated(answer)
           ELSE UNCHANGED <<listed, departmentOptions, loadedFor, loading>>
        /\ IF answer = load THEN load' = NoLoad /\ UNCHANGED lateAnswer
           ELSE lateAnswer' = NoLoad /\ UNCHANGED load
        /\ UNCHANGED <<list, address, effectDue, data, error, mutation, mine, astray, visits,
                       listFaults>>
  BY DEF ListAnswered
<1>0. ListTypeOK /\ LoadRightly /\ mine <= data /\ answer \in LoadState
  BY <1>1 DEF ListInv, ListTypeOK
<1>2. Asked' = Asked
  BY <1>1 DEF Asked
<1>3. CASE answer # load
  <2>1. UNCHANGED <<listed, departmentOptions, loadedFor, loading, load>> /\ lateAnswer' = NoLoad
    BY <1>1, <1>3 DEF IsLatestLoad
  <2>2. ListTypeOK'
    BY <1>0, <1>1, <2>1 DEF ListTypeOK
  <2>3. LoadRightly' /\ DoneRightly' /\ TicketsCompared'
    BY <1>1, <1>2, <2>1 DEF ListInv, LoadRightly, DoneRightly, TicketsCompared, ListShown, Slot
  <2> QED
    BY <1>1, <2>1, <2>2, <2>3 DEF ListInv
<1>4. CASE answer = load
  <2>1. /\ ListUpdated(answer) /\ load' = NoLoad /\ lateAnswer' = lateAnswer
        /\ load # NoLoad /\ loading' = FALSE
    BY <1>1, <1>4 DEF IsLatestLoad, ListUpdated
  <2> DEFINE rows == [asked |-> answer.asked, read |-> answer.read]
             slot == Slot(answer.asked.section)
  <2>2. /\ rows \in ListedRows /\ rows.asked = answer.asked /\ rows.read = answer.read
        /\ answer.asked \in Query /\ slot \in Sections
    BY <1>0, AskedTypes DEF ListedRows, LoadState, Query
  <2>3. listed' = [listed EXCEPT ![slot] = rows]
    BY <2>1 DEF ListUpdated
  <2>4. rows.read >= mine
    BY <1>0, <1>1, <1>4, <2>1, <2>2, AskedTypes DEF LoadRightly, LoadState
  <2>5. slot = Slot(answer.asked.section)
    OBVIOUS
  <2> HIDE DEF rows, slot
  <2>6. listed' \in [Sections -> ListedRows] /\ listed'[slot] = rows
    BY <1>0, <2>2, <2>3 DEF ListTypeOK
  <2>7. /\ departmentOptions' \in [loaded : BOOLEAN, read : Changes]
        /\ departmentOptions'.loaded = TRUE => departmentOptions'.read >= mine
    <3>1. CASE answer.wants
      <4>1. departmentOptions' = [loaded |-> TRUE, read |-> answer.optionsRead]
        BY <2>1, <3>1 DEF ListUpdated
      <4>2. answer.optionsRead \in Changes /\ answer.optionsRead >= mine
        BY <1>0, <1>1, <1>4, <2>1, <3>1, AskedTypes DEF LoadRightly, LoadState
      <4> QED
        BY <4>1, <4>2
    <3>2. CASE ~answer.wants
      <4>1. departmentOptions' = departmentOptions
        BY <2>1, <3>2 DEF ListUpdated
      <4> QED
        BY <1>0, <4>1 DEF ListInv, ListTypeOK
    <3> QED
      BY <3>1, <3>2
  <2>8. loadedFor' = (IF list = "tickets" THEN answer.asked ELSE loadedFor)
    BY <2>1 DEF ListUpdated
  <2>9. ListTypeOK'
    BY <1>0, <1>1, <2>1, <2>2, <2>6, <2>7, <2>8 DEF ListTypeOK
  <2>10. LoadRightly'
    BY <2>1 DEF LoadRightly
  <2>11. DoneRightly'
    <3> SUFFICES ASSUME effectDue' = FALSE, astray' = FALSE
                 PROVE  ListShown'.asked = Asked /\ ListShown'.read >= mine
      BY <1>1, <1>2 DEF DoneRightly
    <3>1. answer.asked = Asked /\ Asked.section = address.section
      BY <1>0, <1>1, <1>4, <2>1 DEF LoadRightly, Asked
    <3>2. ListShown' = listed'[slot]
      BY <1>1, <2>5, <3>1 DEF ListShown, Slot
    <3> QED
      BY <2>2, <2>4, <2>6, <3>1, <3>2
  <2>12. TicketsCompared'
    <3>1. list = "tickets" => slot = "first"
      BY <2>5 DEF Slot
    <3> QED
      BY <1>1, <2>2, <2>6, <2>8, <3>1 DEF TicketsCompared
  <2> QED
    BY <1>1, <2>7, <2>9, <2>10, <2>11, <2>12 DEF ListInv
<1> QED
  BY <1>3, <1>4

(* The user moves on: the effect of the new address will load its query.   *)
LEMMA VisitRight ==
  ASSUME ListInv,
         \/ \E s \in Sections : VisitSection(s)
         \/ \E f \in ListFilters : VisitFilter(f)
         \/ \E p \in PageNumbers : VisitPage(p)
  PROVE  ListInv'
<1>0. ListTypeOK /\ LoadRightly
  BY DEF ListInv
<1> DEFINE Addresses == [section : Sections, filter : [Sections -> ListFilters],
                         page : [Sections -> PageNumbers]]
<1>1. ASSUME NEW next \in Addresses, Visit(next) PROVE ListInv'
  <2>1. /\ address' = next /\ effectDue' = TRUE /\ visits < MaxVisits /\ visits' = visits + 1
        /\ UNCHANGED <<list, data, listed, loading, error, loadedFor, departmentOptions, load,
                       lateAnswer, mutation, mine, astray, listFaults>>
    BY <1>1 DEF Visit, listShownVars
  <2>2. visits' \in 0 .. MaxVisits
    BY <1>0, <2>1, ListPagesAssumption DEF ListTypeOK
  <2>3. ListTypeOK'
    BY <1>0, <1>1, <2>1, <2>2 DEF ListTypeOK
  <2>4. LoadRightly' /\ DoneRightly' /\ TicketsCompared'
    BY <2>1 DEF ListInv, LoadRightly, DoneRightly, TicketsCompared
  <2> QED
    BY <2>1, <2>3, <2>4 DEF ListInv
<1>2. ASSUME NEW s \in Sections, NEW v, NEW V, v \in V, NEW f \in [Sections -> V]
      PROVE  Setting(f, s, v) \in [Sections -> V]
  BY <1>2 DEF Setting
<1>3. /\ address.section \in Sections /\ address.filter \in [Sections -> ListFilters]
      /\ address.page \in [Sections -> PageNumbers] /\ address \in Addresses
      /\ "none" \in ListFilters /\ 1 \in PageNumbers
  BY <1>0 DEF ListTypeOK, ListFilters, PageNumbers
<1>4. ASSUME NEW s \in Sections, VisitSection(s) PROVE ListInv'
  <2>1. Setting(address.filter, s, "none") \in [Sections -> ListFilters]
    BY <1>2, <1>3
  <2>2. Setting(address.page, s, 1) \in [Sections -> PageNumbers]
    BY <1>2, <1>3
  <2>3. PICK filter \in {address.filter} \cup
                 (IF list \in {"tickets", "handoffs"} THEN {Setting(address.filter, s, "none")} ELSE {}) :
               Visit([section |-> s, filter |-> filter, page |-> Setting(address.page, s, 1)])
    BY <1>4 DEF VisitSection
  <2>4. filter \in [Sections -> ListFilters]
    BY <1>3, <2>1, <2>3
  <2>5. [section |-> s, filter |-> filter, page |-> Setting(address.page, s, 1)] \in Addresses
    BY <2>2, <2>4
  <2> QED
    BY <1>1, <2>3, <2>5
<1>5. ASSUME NEW f \in ListFilters, VisitFilter(f) PROVE ListInv'
  <2>1. Setting(address.filter, address.section, f) \in [Sections -> ListFilters]
    BY <1>2, <1>3
  <2>2. Setting(address.page, address.section, 1) \in [Sections -> PageNumbers]
    BY <1>2, <1>3
  <2> DEFINE next == [address EXCEPT !.filter = Setting(address.filter, address.section, f),
                                     !.page = Setting(address.page, address.section, 1)]
  <2>3. next \in Addresses
    BY <1>3, <2>1, <2>2
  <2>4. Visit(next)
    BY <1>5 DEF VisitFilter
  <2> HIDE DEF next
  <2> QED
    BY <1>1, <2>3, <2>4
<1>6. ASSUME NEW p \in PageNumbers, VisitPage(p) PROVE ListInv'
  <2>1. Setting(address.page, address.section, p) \in [Sections -> PageNumbers]
    BY <1>2, <1>3
  <2> DEFINE next == [address EXCEPT !.page = Setting(address.page, address.section, p)]
  <2>2. next \in Addresses
    BY <1>3, <2>1
  <2>3. Visit(next)
    BY <1>6 DEF VisitPage
  <2> HIDE DEF next
  <2> QED
    BY <1>1, <2>2, <2>3
<1> QED
  BY <1>4, <1>5, <1>6

(* The database changes, a change is sent, and a load fails.               *)
LEMMA ChangesRight ==
  ASSUME ListInv, SomeoneChanges \/ MutationSent \/ MutationCommits \/ ListFails
  PROVE  ListInv'
<1>0. ListTypeOK /\ LoadRightly
  BY DEF ListInv
<1>1. ASSUME data <= MaxDataChanges, data' = data + 1, mutation' \in Mutation,
             mutation'.step = "committed" => mutation'.change <= data',
             (mutation'.step = "none") <=> (mutation.step = "none"),
             UNCHANGED <<list, address, effectDue, listed, loading, error, loadedFor,
                         departmentOptions, load, lateAnswer, mine, astray, visits, listFaults>>
      PROVE  ListInv'
  <2>1. data' \in Changes /\ mine <= data'
    BY <1>0, <1>1, ListPagesAssumption DEF ListInv, ListTypeOK, Changes
  <2>2. ListTypeOK'
    BY <1>0, <1>1, <2>1 DEF ListTypeOK
  <2>3. Asked' = Asked /\ ListShown' = ListShown
    BY <1>1 DEF Asked, ListShown, Slot
  <2>4. LoadRightly' /\ DoneRightly' /\ TicketsCompared'
    BY <1>1, <2>3 DEF ListInv, LoadRightly, DoneRightly, TicketsCompared
  <2> QED
    BY <1>1, <2>1, <2>2, <2>4 DEF ListInv
<1>2. CASE SomeoneChanges
  <2>1. mutation' = mutation /\ data' = data + 1
    BY <1>2 DEF SomeoneChanges
  <2>2. mutation' \in Mutation /\ (mutation'.step = "committed" => mutation'.change <= data')
    BY <1>0, <2>1, ListPagesAssumption DEF ListInv, ListTypeOK, Changes, Mutation
  <2> QED
    BY <1>1, <1>2, <2>1, <2>2 DEF SomeoneChanges, listShownVars
<1>3. CASE MutationCommits
  <2>1. /\ mutation.step = "sent" /\ data <= MaxDataChanges /\ data' = data + 1
        /\ mutation' = [mutation EXCEPT !.step = "committed", !.change = data + 1]
        /\ data + 1 \in Changes
    BY <1>0, <1>3, ListPagesAssumption DEF MutationCommits, ListTypeOK, Changes
  <2>2. /\ mutation' \in Mutation /\ mutation'.step = "committed"
        /\ mutation'.change = data + 1
    BY <1>0, <2>1 DEF ListTypeOK, Mutation
  <2>3. mutation'.change <= data'
    BY <1>0, <2>1, <2>2, AskedTypes
  <2> QED
    BY <1>1, <1>3, <2>1, <2>2, <2>3 DEF MutationCommits, listShownVars
<1>4. CASE MutationSent
  <2>1. /\ list \in {"handoffs", "management"} /\ error' \in BOOLEAN
        /\ mutation' = [step |-> "sent", asked |-> Asked, change |-> 0]
        /\ UNCHANGED <<list, address, effectDue, data, listed, loading, loadedFor,
                       departmentOptions, load, lateAnswer, mine, astray, visits, listFaults>>
    BY <1>0, <1>4 DEF MutationSent, ListTypeOK
  <2>2. mutation' \in Mutation /\ mutation'.step = "sent"
    BY <1>0, <2>1, AskedTypes, ListPagesAssumption DEF Mutation, Changes
  <2>3. ListTypeOK'
    BY <1>0, <2>1, <2>2 DEF ListTypeOK
  <2>4. LoadRightly'
    BY <1>0, <2>1 DEF LoadRightly, Asked
  <2>5. DoneRightly' /\ TicketsCompared'
    BY <2>1, <2>2 DEF DoneRightly, TicketsCompared
  <2> QED
    BY <2>1, <2>2, <2>3, <2>4, <2>5 DEF ListInv
<1>5. CASE ListFails
  <2>1. /\ load # NoLoad /\ listFaults < MaxListFaults /\ listFaults' = listFaults + 1
        /\ load' = NoLoad /\ loading' = FALSE /\ error' = TRUE
        /\ loadedFor' = (IF list = "tickets" THEN load.asked ELSE loadedFor)
        /\ UNCHANGED <<list, address, effectDue, data, listed, departmentOptions, lateAnswer,
                       mutation, mine, astray, visits>>
    BY <1>5 DEF ListFails
  <2>2. /\ listFaults' \in 0 .. MaxListFaults /\ loadedFor' \in Query \cup {NoLoad}
    BY <1>0, <2>1, ListPagesAssumption DEF ListTypeOK, LoadState
  <2>3. ListTypeOK'
    BY <1>0, <2>1, <2>2 DEF ListTypeOK
  <2>4. LoadRightly' /\ DoneRightly' /\ TicketsCompared'
    BY <2>1 DEF LoadRightly, DoneRightly, TicketsCompared
  <2> QED
    BY <2>1, <2>3, <2>4 DEF ListInv
<1> QED
  BY <1>2, <1>3, <1>4, <1>5

(* The page loads: for its address, again, or after a change was answered. *)
LEMMA LoadsRight ==
  ASSUME ListInv, EffectRuns \/ LoadAgain \/ MutationAnswered \/ MutationRefused
  PROVE  ListInv'
<1>0. ListTypeOK /\ LoadRightly /\ Asked \in Query /\ mutation.asked \in Query
      /\ departmentOptions.loaded \in BOOLEAN /\ FALSE \in BOOLEAN
  BY AskedTypes DEF ListInv, ListTypeOK, Mutation
<1>1. CASE EffectRuns
  <2>1. /\ effectDue' = FALSE /\ LoadList(Asked, departmentOptions.loaded) /\ error' = FALSE
        /\ UNCHANGED <<list, address, data, listed, loadedFor, departmentOptions, mutation, mine,
                       visits, listFaults>>
    BY <1>1 DEF EffectRuns
  <2>2. visits' \in 0 .. MaxVisits
    BY <1>0, <2>1 DEF ListTypeOK
  <2> QED
    BY <1>0, <2>1, <2>2, LoadListRight
<1>2. CASE LoadAgain
  <2>1. /\ (error \/ visits < MaxVisits) /\ visits' = (IF error THEN visits ELSE visits + 1)
        /\ LoadList(Asked, departmentOptions.loaded) /\ error' = FALSE
        /\ UNCHANGED <<list, address, effectDue, data, listed, loadedFor, departmentOptions,
                       mutation, mine, listFaults>>
    BY <1>2 DEF LoadAgain
  <2>2. visits' \in 0 .. MaxVisits
    BY <1>0, <2>1, ListPagesAssumption DEF ListTypeOK
  <2> QED
    BY <1>0, <2>1, <2>2, LoadListRight
<1>3. CASE MutationAnswered
  <2>1. /\ mutation.step = "committed" /\ mutation' = NoMutation /\ mine' = mutation.change
        /\ departmentOptions' = [departmentOptions EXCEPT !.loaded = FALSE]
        /\ LoadList(mutation.asked, FALSE) /\ error' = FALSE
        /\ UNCHANGED <<list, address, effectDue, data, listed, loadedFor, visits, listFaults>>
    BY <1>3 DEF MutationAnswered
  <2>2. visits' \in 0 .. MaxVisits
    BY <1>0, <2>1 DEF ListTypeOK
  <2> QED
    BY <1>0, <2>1, <2>2, LoadListRight
<1>4. CASE MutationRefused /\ list = "handoffs"
  <2>1. /\ mutation' = NoMutation
        /\ LoadList(mutation.asked, departmentOptions.loaded) /\ error' = FALSE
        /\ UNCHANGED <<list, address, effectDue, data, listed, loadedFor, departmentOptions, mine,
                       visits, listFaults>>
    BY <1>4 DEF MutationRefused
  <2>2. visits' \in 0 .. MaxVisits
    BY <1>0, <2>1 DEF ListTypeOK
  <2> QED
    BY <1>0, <2>1, <2>2, LoadListRight
<1>5. CASE MutationRefused /\ list # "handoffs"
  <2>1. /\ mutation' = NoMutation /\ error' = TRUE
        /\ UNCHANGED <<list, address, effectDue, data, listed, loading, loadedFor,
                       departmentOptions, load, lateAnswer, mine, astray, visits, listFaults>>
    BY <1>5 DEF MutationRefused
  <2>2. ListTypeOK'
    BY <1>0, <2>1, AskedTypes DEF ListTypeOK
  <2>3. LoadRightly'
    BY <1>0, <2>1 DEF LoadRightly, Asked
  <2>4. DoneRightly' /\ TicketsCompared'
    BY <2>1 DEF DoneRightly, TicketsCompared
  <2> QED
    BY <1>0, <2>1, <2>2, <2>3, <2>4, AskedTypes DEF ListInv
<1> QED
  BY <1>1, <1>2, <1>3, <1>4, <1>5

(* The inductive invariant of the pages: what is asked for is the query in *)
(* the address, unless its effect is due or the load went astray, and      *)
(* nothing that is read is older than the user's own last change.          *)
THEOREM ListInvariant == ListSpec => []ListInv
<1>1. ListInit => ListInv
  <2> SUFFICES ASSUME ListInit PROVE ListInv
    OBVIOUS
  <2>1. /\ 0 \in Changes /\ 1 \in Changes /\ 0 \in 0 .. MaxVisits /\ 0 \in 0 .. MaxListFaults
    BY ListPagesAssumption DEF Changes
  <2>2. FirstQuery \in Query
    BY DEF FirstQuery, Query, Sections, ListFilters, PageNumbers
  <2>3. listed \in [Sections -> ListedRows]
    BY <2>1, <2>2 DEF ListInit, ListedRows
  <2>4. NoMutation \in Mutation /\ NoMutation.step = "none"
    BY <2>1, <2>2 DEF NoMutation, Mutation
  <2>5. address \in [section : Sections, filter : [Sections -> ListFilters],
                     page : [Sections -> PageNumbers]]
    BY DEF ListInit, Sections, ListFilters, PageNumbers
  <2>6. departmentOptions = [loaded |-> FALSE, read |-> 0]
    BY DEF ListInit
  <2>7. departmentOptions \in [loaded : BOOLEAN, read : Changes]
    BY <2>1, <2>6
  <2>8. ListTypeOK
    BY <2>1, <2>3, <2>4, <2>5, <2>7 DEF ListInit, ListTypeOK
  <2>9. LoadRightly /\ DoneRightly /\ TicketsCompared
    BY DEF ListInit, LoadRightly, DoneRightly, TicketsCompared
  <2> QED
    BY <2>4, <2>6, <2>8, <2>9 DEF ListInit, ListInv
<1>2. ListInv /\ [ListNext]_listVars => ListInv'
  <2> SUFFICES ASSUME ListInv, [ListNext]_listVars PROVE ListInv'
    OBVIOUS
  <2>1. CASE UNCHANGED listVars
    BY <2>1 DEF listVars, listShownVars, ListInv, ListTypeOK, LoadRightly, DoneRightly,
                TicketsCompared, Asked, ListShown, Slot
  <2>2. CASE \/ \E s \in Sections : VisitSection(s)
             \/ \E f \in ListFilters : VisitFilter(f)
             \/ \E p \in PageNumbers : VisitPage(p)
    BY <2>2, VisitRight
  <2>3. CASE EffectRuns \/ LoadAgain \/ MutationAnswered \/ MutationRefused
    BY <2>3, LoadsRight
  <2>4. CASE ListAnswered
    BY <2>4, AnsweredRight
  <2>5. CASE SomeoneChanges \/ MutationSent \/ MutationCommits \/ ListFails
    BY <2>5, ChangesRight
  <2>6. CASE \/ TicketsRead \/ HandoffsRead \/ ConversationsRead \/ ActivityRead \/ UsersRead
             \/ DepartmentsRead
    <3>1. load # NoLoad /\ OnlyRead
      BY <2>6 DEF TicketsRead, HandoffsRead, ConversationsRead, ActivityRead, UsersRead,
                  DepartmentsRead
    <3>2. load' = [load EXCEPT !.read = data] \/ load' = [load EXCEPT !.optionsRead = data]
      BY <2>6 DEF TicketsRead, HandoffsRead, ConversationsRead, ActivityRead, UsersRead,
                  DepartmentsRead
    <3> QED
      BY <3>1, <3>2, ReadsRight
  <2> QED
    BY <2>1, <2>2, <2>3, <2>4, <2>5, <2>6 DEF ListNext
<1> QED
  BY <1>1, <1>2, PTL DEF ListSpec

(* The variables of the pages keep their types, and their bounds.          *)
THEOREM ListTypeCorrect == ListSpec => []ListTypeOK
<1>1. ListInv => ListTypeOK
  BY DEF ListInv
<1> QED
  BY <1>1, ListInvariant, PTL

(* The tickets shown always answer the query in the address; a page that is*)
(* done shows the answer to its query, not older than the user's own last  *)
(* change, unless that was answered after he had moved on; and neither are *)
(* the departments offered as a filter.                                    *)
THEOREM ListPagesAreCurrent == ListSpec => []ListPageCurrent
<1>1. ListInv => ListPageCurrent
  <2> SUFFICES ASSUME ListInv PROVE ListPageCurrent
    OBVIOUS
  <2>0. /\ loading \in BOOLEAN /\ error \in BOOLEAN /\ effectDue \in BOOLEAN
        /\ astray \in BOOLEAN /\ departmentOptions.loaded \in BOOLEAN
    BY DEF ListInv, ListTypeOK
  <2>1. TicketsShown => ListShown.asked = Asked
    BY <2>0 DEF ListInv, TicketsShown, TicketsCompared, ListShown, Slot
  <2>2. load = NoLoad /\ ~effectDue /\ mutation.step = "none" /\ ~error /\ ~astray
          => ListShown.asked = Asked /\ ListShown.read >= mine
    BY <2>0 DEF ListInv, DoneRightly
  <2>3. departmentOptions.loaded => departmentOptions.read >= mine
    BY <2>0 DEF ListInv
  <2> QED
    BY <2>1, <2>2, <2>3 DEF ListPageCurrent
<1> QED
  BY <1>1, ListInvariant, PTL

-----------------------------------------------------------------------------
(* The page of a ticket *)

(* An announcement waits that will have everything loaded again. *)
ReloadDue == announced # <<>> /\ ActiveAt(Head(announced))

(* The announcements that wait are those of the last events. *)
AnnouncedInOrder ==
  /\ announced # <<>> => room = "joined"
  /\ Len(announced) < Count
  /\ \A i \in 1 .. Len(announced) : announced[i] = Count - Len(announced) + i

(* Nothing follows the end of a ticket. *)
HistoryRight ==
  /\ Count >= 2 /\ \A i \in 1 .. Count : i < Count => ActiveAt(i)
  /\ \A i \in 1 .. Count : Len(history[i].listed) <= i

(* Nothing is known that has not happened; the hooks ask for what the page *)
(* shows.                                                                  *)
RequestRight(h) ==
  latest[h] # NoPageLoad =>
    /\ latest[h].read <= Count /\ (latest[h].append = TRUE => h = "timeline")
    /\ h = "timeline" => latest[h].page = IF latest[h].append THEN timeline.page + 1 ELSE 1
    /\ h = "event" => latest[h].page = opened.event

NeverAhead ==
  /\ ticket.at <= Count /\ (own.step = "answered" => own.event \in 1 .. Count)
  /\ \A h \in Hooks : unheard[h] <= Count
  /\ \A h \in AllHooks : RequestRight(h)
  /\ opened.detail \in {0, opened.event}
  /\ timeline.hasMore = TRUE => timeline.page < MaxEvents

(* The events that a ticket shown as of its end may be as of. *)
TicketAsOf == IF announced = <<>> THEN {Count} ELSE CountsShown

TicketKnown ==
  /\ latest["details"] # NoPageLoad =>
       \/ latest["details"].read \in {0} \cup TicketAsOf
       \/ /\ unheard["details"] \in TicketAsOf
          /\ unheard["details"] > latest["details"].read
  /\ latest["details"] = NoPageLoad =>
       \/ IsOver /\ ticket.active = FALSE
       \/ (IF unheard["details"] = 0 THEN ticket.at ELSE unheard["details"]) \in TicketAsOf

FilesKnown ==
  /\ latest["attachments"] # NoPageLoad =>
       \/ latest["attachments"].read \in {0} \cup CountsShown
       \/ unheard["attachments"] > latest["attachments"].read
  /\ latest["attachments"] = NoPageLoad /\ unheard["attachments"] = 0 =>
       \E n \in CountsShown : attached = LatestWithFiles(n)

ShowsPages(n) ==
  /\ timeline.events = Newest(n, timeline.page)
  /\ timeline.hasMore = (Len(Summarised(n)) > timeline.page * EventsPerPage)

(* Older events are asked for when the newer ones are known. *)
TimelineKnown ==
  LET request == latest["timeline"] IN
  /\ request # NoPageLoad /\ request.append = FALSE =>
       request.read \in {0} \cup CountsShown \/ unheard["timeline"] > request.read
  /\ request # NoPageLoad /\ request.append = TRUE /\ unheard["timeline"] = 0 =>
       \E n \in CountsShown : ShowsPages(n) /\ (request.read = 0 \/ request.read >= n)
  /\ request = NoPageLoad /\ unheard["timeline"] = 0 => \E n \in CountsShown : ShowsPages(n)

PageInv ==
  /\ TicketPageTypeOK /\ HistoryRight /\ AnnouncedInOrder /\ NeverAhead
  /\ ~ReloadDue => TicketKnown /\ FilesKnown /\ TimelineKnown

(* A set of events has a newest one. *)
LEMMA NewestEvent ==
  ASSUME NEW n \in Nat, NEW S \in SUBSET (0 .. n), S # {}
  PROVE  Max(S) \in S
<1> DEFINE distances == {n - i : i \in S}
           less == {ss \in Nat \X Nat : ss[1] < ss[2]}
<1>1. distances \subseteq Nat
  OBVIOUS
<1>2. distances # {}
  <2>1. PICK i \in S : TRUE
    OBVIOUS
  <2>2. n - i \in distances
    BY <2>1
  <2> QED
    BY <2>2
<1>3. IsWellFoundedOn(less, Nat)
  BY NatLessThanWellFounded DEF OpToRel
<1> HIDE DEF distances, less
<1>4. PICK d \in distances : \A e \in distances : ~ (<<e, d>> \in less)
  <2>1. \A R, S1, T : (IsWellFoundedOn(R, S1) /\ T \subseteq S1 /\ T # {})
                       => \E x \in T : \A y \in T : ~ (<<y, x>> \in R)
    BY WFMin, Zenon
  <2> QED
    BY <1>1, <1>2, <1>3, <2>1, Zenon
<1>5. \A e \in distances : d <= e
  <2> SUFFICES ASSUME NEW e \in distances, ~(d <= e) PROVE FALSE
    OBVIOUS
  <2>1. e \in Nat /\ d \in Nat /\ e < d
    BY <1>1
  <2>2. <<e, d>> \in less
    BY <2>1 DEF less
  <2> QED
    BY <1>4, <2>2
<1>6. PICK m \in S : d = n - m
  BY DEF distances
<1>7. \A k \in S : n - k \in distances
  BY DEF distances
<1>8. \A k \in S : m >= k
  BY <1>5, <1>6, <1>7
<1> QED
  BY <1>8 DEF Max

(* What requests are. *)
LEMMA RequestTypes ==
  /\ PageLoad \in LoadRequest /\ PageLoad.page = 1 /\ PageLoad.append = FALSE /\ PageLoad.read = 0
  /\ Refresh \in LoadRequest /\ Refresh.page = 1 /\ Refresh.append = FALSE /\ Refresh.read = 0
  /\ \A r \in LoadRequest : r # NoPageLoad
<1>1. 1 \in EventNumbers /\ 0 \in 0 .. MaxEvents
  BY TicketPageAssumption DEF EventNumbers
<1> QED
  BY <1>1, NoPageLoadAssumption DEF PageLoad, Refresh, LoadRequest

(* The events that a hook may show what they left. *)
LEMMA EventFacts ==
  ASSUME TicketPageTypeOK, HistoryRight
  PROVE  /\ Count \in Nat /\ Count \in 2 .. MaxEvents /\ MaxEvents \in Nat
         /\ CountsShown \subseteq 1 .. Count /\ Count \in CountsShown
         /\ TicketAsOf \subseteq CountsShown /\ Count \in TicketAsOf
         /\ \A a, b \in 0 .. Count :
              a <= b => /\ (a \in CountsShown => b \in CountsShown)
                        /\ (a \in TicketAsOf => b \in TicketAsOf)
         /\ \A a, b \in CountsShown : a <= b /\ ActiveAt(b) => a = b
         /\ \A n \in 1 .. Count : /\ Summarised(n) \in Seq(EventNumbers)
                                  /\ Len(Summarised(n)) \in Nat /\ Len(Summarised(n)) <= n
<1>1. Count \in Nat /\ Count \in 2 .. MaxEvents /\ MaxEvents \in Nat
  BY TicketPageAssumption DEF TicketPageTypeOK, HistoryRight, EventNumbers
<1>2. /\ CountsShown \subseteq 1 .. Count /\ Count \in CountsShown
      /\ TicketAsOf \subseteq CountsShown /\ Count \in TicketAsOf
  BY <1>1 DEF CountsShown, TicketAsOf
<1>3. \A a, b \in 0 .. Count :
        a <= b => /\ (a \in CountsShown => b \in CountsShown)
                  /\ (a \in TicketAsOf => b \in TicketAsOf)
  BY <1>1 DEF CountsShown, TicketAsOf
<1>4. \A a, b \in CountsShown : a <= b /\ ActiveAt(b) => a = b
  BY <1>1 DEF CountsShown, IsOver
<1>5. ASSUME NEW n \in 1 .. Count
      PROVE  /\ Summarised(n) \in Seq(EventNumbers)
             /\ Len(Summarised(n)) \in Nat /\ Len(Summarised(n)) <= n
  <2>1. history[n] \in EventRecord
    BY <1>5, ElementOfSeq DEF TicketPageTypeOK, Count
  <2> QED
    BY <1>5, <2>1, LenProperties DEF EventRecord, Summarised, HistoryRight
<1> QED
  BY <1>1, <1>2, <1>3, <1>4, <1>5

(* An announcement that no reload follows is that of the end.              *)
LEMMA LastAnnouncement ==
  ASSUME TicketPageTypeOK, HistoryRight, AnnouncedInOrder, announced # <<>>
  PROVE  /\ Head(announced) \in 1 .. Count /\ Len(announced) \in Nat \ {0}
         /\ Tail(announced) \in Seq(EventNumbers) /\ Len(Tail(announced)) = Len(announced) - 1
         /\ \A i \in 1 .. Len(Tail(announced)) : Tail(announced)[i] = announced[i + 1]
         /\ ~ActiveAt(Head(announced)) => IsOver /\ Len(announced) = 1 /\ Tail(announced) = <<>>
<1>1. /\ announced \in Seq(EventNumbers) /\ Len(announced) \in Nat \ {0}
      /\ Head(announced) = announced[1]
  BY EmptySeq, LenProperties DEF TicketPageTypeOK
<1>2. /\ Tail(announced) \in Seq(EventNumbers) /\ Len(Tail(announced)) = Len(announced) - 1
      /\ \A i \in 1 .. Len(Tail(announced)) : Tail(announced)[i] = announced[i + 1]
  BY <1>1, HeadTailProperties
<1>3. Head(announced) = Count - Len(announced) + 1 /\ Len(announced) < Count /\ Count \in Nat
  BY <1>1, EventFacts DEF AnnouncedInOrder
<1>4. ASSUME ~ActiveAt(Head(announced))
      PROVE  IsOver /\ Len(announced) = 1 /\ Tail(announced) = <<>>
  <2>1. Head(announced) = Count
    BY <1>1, <1>3, <1>4 DEF HistoryRight
  <2>2. Len(announced) = 1
    <3>1. PICK len \in Nat, count \in Nat : len = Len(announced) /\ count = Count
      BY <1>1, <1>3
    <3>2. count = count - len + 1
      BY <1>3, <2>1, <3>1
    <3> QED
      BY <3>1, <3>2
  <2>3. Tail(announced) = <<>>
    <3>1. Len(Tail(announced)) = 0
      BY <1>2, <2>2
    <3> QED
      BY <1>2, <3>1, EmptySeq
  <2>4. IsOver
    BY <1>4, <2>1 DEF IsOver
  <2> QED
    BY <2>2, <2>3, <2>4
<1> QED
  BY <1>1, <1>2, <1>3, <1>4

(* A page of the timeline continues the pages before it. *)
LEMMA PagesContinue ==
  ASSUME TicketPageTypeOK, HistoryRight, NEW n \in 1 .. Count, NEW p \in EventNumbers
  PROVE  /\ EventPage(n, p).items \in Seq(EventNumbers) /\ EventPage(n, p).hasMore \in BOOLEAN
         /\ EventPage(n, 1).items = Newest(n, 1)
         /\ EventPage(n, p + 1).items \o Newest(n, p) = Newest(n, p + 1)
         /\ EventPage(n, p).hasMore = (Len(Summarised(n)) > p * EventsPerPage)
         /\ EventPage(n, p).hasMore => p < MaxEvents
<1>0. /\ Summarised(n) \in Seq(EventNumbers) /\ Len(Summarised(n)) \in Nat
      /\ Len(Summarised(n)) <= MaxEvents /\ EventsPerPage \in Nat \ {0} /\ p \in Nat \ {0}
      /\ MaxEvents \in Nat
  BY EventFacts, TicketPageAssumption DEF EventNumbers
<1>1. PICK all : all = Summarised(n)
  OBVIOUS
<1>2. PICK len \in Nat : len = Len(all)
  BY <1>0, <1>1
<1>3. PICK before \in Nat : before = (p - 1) * EventsPerPage
  BY <1>0
<1>4. /\ p * EventsPerPage = before + EventsPerPage /\ (p + 1 - 1) * EventsPerPage = before + EventsPerPage
      /\ (p + 1) * EventsPerPage = before + EventsPerPage + EventsPerPage
      /\ before >= p - 1 /\ 1 * EventsPerPage = EventsPerPage /\ (1 - 1) * EventsPerPage = 0
  BY <1>0, <1>3
<1>5. all \in Seq(EventNumbers) /\ len <= MaxEvents
  BY <1>0, <1>1, <1>2
<1>6. ASSUME NEW a \in Nat, NEW b \in Nat, 1 <= a, b <= len PROVE SubSeq(all, a, b) \in Seq(EventNumbers)
  <2>1. \A i \in a .. b : all[i] \in EventNumbers
    BY <1>2, <1>5, <1>6, ElementOfSeq
  <2> QED
    BY <2>1, SubSeqProperties
<1>7. EventPage(n, p).items \in Seq(EventNumbers) /\ EventPage(n, p).hasMore \in BOOLEAN
  <2> DEFINE newest == IF len > before THEN len - before ELSE 0
             first == IF newest > EventsPerPage THEN newest - EventsPerPage + 1 ELSE 1
  <2>1. first \in Nat /\ 1 <= first /\ newest \in Nat /\ newest <= len
    BY <1>0
  <2>2. EventPage(n, p) = [items |-> SubSeq(all, first, newest), hasMore |-> first > 1]
    BY <1>1, <1>2, <1>3 DEF EventPage
  <2>3. (first > 1) \in BOOLEAN
    OBVIOUS
  <2>4. SubSeq(all, first, newest) \in Seq(EventNumbers)
    BY <1>6, <2>1
  <2> HIDE DEF first, newest
  <2> QED
    BY <2>2, <2>3, <2>4
<1>8. EventPage(n, 1).items = Newest(n, 1)
  <2> DEFINE first == IF len > EventsPerPage THEN len - EventsPerPage + 1 ELSE 1
  <2>1. Newest(n, 1) = SubSeq(all, first, len)
    BY <1>1, <1>2, <1>4 DEF Newest
  <2>2. /\ len - (1 - 1) * EventsPerPage = len
        /\ (IF len > (1 - 1) * EventsPerPage THEN len - (1 - 1) * EventsPerPage ELSE 0) = len
    BY <1>2, <1>4
  <2>3. EventPage(n, 1).items = SubSeq(all, first, len)
    BY <1>1, <1>2, <2>2 DEF EventPage
  <2> QED
    BY <2>1, <2>3
<1>9. EventPage(n, p).hasMore = (len > before + EventsPerPage)
  BY <1>0, <1>1, <1>2, <1>3 DEF EventPage
<1>10. EventPage(n, p).hasMore => p < MaxEvents
  <2> SUFFICES ASSUME len > before + EventsPerPage PROVE p < MaxEvents
    BY <1>9
  <2> QED
    BY <1>0, <1>2, <1>3, <1>4, <1>5
<1>11. EventPage(n, p + 1).items \o Newest(n, p) = Newest(n, p + 1)
  <2> DEFINE upto == before + EventsPerPage
             newest == IF len > upto THEN len - upto ELSE 0
             first == IF newest > EventsPerPage THEN newest - EventsPerPage + 1 ELSE 1
  <2>1. EventPage(n, p + 1).items = SubSeq(all, first, newest)
    <3>1. PICK q \in Nat : q = p + 1 /\ q - 1 = p
      BY <1>0
    <3>2. (q - 1) * EventsPerPage = upto
      BY <1>4, <3>1, Zenon DEF upto
    <3> HIDE DEF upto
    <3>3. EventPage(n, q) = [items |-> SubSeq(all, first, newest), hasMore |-> first > 1]
      BY <1>1, <1>2, <3>2 DEF EventPage
    <3> QED
      BY <3>1, <3>3
  <2>2. Newest(n, p) = SubSeq(all, IF len > upto THEN len - upto + 1 ELSE 1, len)
    BY <1>1, <1>2, <1>4 DEF Newest
  <2>3. Newest(n, p + 1) = SubSeq(all, IF len > upto + EventsPerPage THEN len - (upto + EventsPerPage) + 1
                                       ELSE 1, len)
    BY <1>1, <1>2, <1>4 DEF Newest
  <2>4. /\ (IF len > upto THEN len - upto + 1 ELSE 1) = newest + 1
        /\ (IF len > upto + EventsPerPage THEN len - (upto + EventsPerPage) + 1 ELSE 1) = first
        /\ first \in 1 .. len + 1 /\ newest \in first - 1 .. len /\ len \in newest .. len
    BY <1>0, <1>2
  <2> HIDE DEF first, newest, upto
  <2>5. SubSeq(all, first, newest) \o SubSeq(all, newest + 1, len) = SubSeq(all, first, len)
    BY <1>2, <1>5, <2>4, ConcatAdjacentSubSeq
  <2> QED
    BY <2>1, <2>2, <2>3, <2>4, <2>5
<1> QED
  BY <1>1, <1>2, <1>4, <1>7, <1>8, <1>9, <1>10, <1>11

(* The newest event that has files. *)
LEMMA FilesNumbered ==
  ASSUME NEW n \in 1 .. Count, Count \in 1 .. MaxEvents, MaxEvents \in Nat
  PROVE  LatestWithFiles(n) \in 0 .. MaxEvents
<1> DEFINE with == {0} \cup {i \in 1 .. n : history[i].files}
<1>1. with \in SUBSET (0 .. MaxEvents) /\ with # {}
  OBVIOUS
<1> HIDE DEF with
<1>2. Max(with) \in with
  BY <1>1, NewestEvent
<1> QED
  BY <1>1, <1>2 DEF LatestWithFiles, with

(* What the service reads of the events that there were does not change.   *)
LEMMA PastIsKept ==
  ASSUME TicketPageTypeOK, \A n \in 1 .. Count : history'[n] = history[n]
  PROVE  /\ \A n \in 1 .. Count : /\ ActiveAt(n)' = ActiveAt(n) /\ Summarised(n)' = Summarised(n)
                                  /\ LatestWithFiles(n)' = LatestWithFiles(n)
         /\ \A p : \A n \in 1 .. Count : Newest(n, p)' = Newest(n, p)
<1>1. ASSUME NEW n \in 1 .. Count
      PROVE  /\ ActiveAt(n)' = ActiveAt(n) /\ Summarised(n)' = Summarised(n)
             /\ LatestWithFiles(n)' = LatestWithFiles(n)
  <2>1. Count \in Nat
    BY TicketPageAssumption DEF TicketPageTypeOK, EventNumbers
  <2>2. ActiveAt(n)' = ActiveAt(n) /\ Summarised(n)' = Summarised(n)
    BY <1>1 DEF ActiveAt, Summarised
  <2>3. {i \in 1 .. n : history'[i].files} = {i \in 1 .. n : history[i].files}
    BY <1>1, <2>1
  <2> QED
    BY <2>2, <2>3 DEF LatestWithFiles
<1> QED
  BY <1>1 DEF Newest

(* A hook that has begun a request knows that it will be told.             *)
LEMMA BegunKnown ==
  /\ latest'["details"] \in LoadRequest /\ latest'["details"].read = 0 => TicketKnown'
  /\ latest'["attachments"] \in LoadRequest /\ latest'["attachments"].read = 0 => FilesKnown'
  /\ latest'["timeline"] \in LoadRequest /\ latest'["timeline"].read = 0
     /\ latest'["timeline"].append = FALSE => TimelineKnown'
<1>1. ASSUME latest'["details"] \in LoadRequest, latest'["details"].read = 0 PROVE TicketKnown'
  BY <1>1, NoPageLoadAssumption DEF TicketKnown
<1>2. ASSUME latest'["attachments"] \in LoadRequest, latest'["attachments"].read = 0
      PROVE  FilesKnown'
  BY <1>2, NoPageLoadAssumption DEF FilesKnown
<1>3. ASSUME latest'["timeline"] \in LoadRequest, latest'["timeline"].read = 0,
             latest'["timeline"].append = FALSE
      PROVE  TimelineKnown'
  BY <1>3, NoPageLoadAssumption DEF TimelineKnown
<1> QED
  BY <1>1, <1>2, <1>3

(* A hook to which nothing happens knows what it knew. *)
LEMMA KnownKept ==
  ASSUME history' = history
  PROVE  /\ Count' = Count /\ CountsShown' = CountsShown /\ (IsOver' <=> IsOver)
         /\ (HistoryRight => HistoryRight')
         /\ announced' = announced => TicketAsOf' = TicketAsOf /\ (ReloadDue' <=> ReloadDue)
         /\ /\ announced' = announced /\ TicketKnown
            /\ latest'["details"] = latest["details"] /\ unheard'["details"] = unheard["details"]
            /\ ticket'.at = ticket.at /\ ticket'.active = ticket.active
            => TicketKnown'
         /\ /\ FilesKnown /\ attached' = attached
            /\ latest'["attachments"] = latest["attachments"]
            /\ unheard'["attachments"] = unheard["attachments"]
            => FilesKnown'
         /\ /\ TimelineKnown /\ timeline'.events = timeline.events
            /\ timeline'.page = timeline.page /\ timeline'.hasMore = timeline.hasMore
            /\ latest'["timeline"] = latest["timeline"]
            /\ unheard'["timeline"] = unheard["timeline"]
            => TimelineKnown'
<1>1. Count' = Count
  BY DEF Count
<1>2. CountsShown' = CountsShown /\ (IsOver' <=> IsOver) /\ (HistoryRight => HistoryRight')
  BY <1>1 DEF CountsShown, IsOver, ActiveAt, HistoryRight
<1>3. announced' = announced => TicketAsOf' = TicketAsOf /\ (ReloadDue' <=> ReloadDue)
  BY <1>1, <1>2 DEF TicketAsOf, ReloadDue, ActiveAt
<1>4. ASSUME announced' = announced, TicketKnown,
             latest'["details"] = latest["details"], unheard'["details"] = unheard["details"],
             ticket'.at = ticket.at, ticket'.active = ticket.active
      PROVE  TicketKnown'
  BY <1>2, <1>3, <1>4 DEF TicketKnown
<1>5. ASSUME FilesKnown, attached' = attached, latest'["attachments"] = latest["attachments"],
             unheard'["attachments"] = unheard["attachments"]
      PROVE  FilesKnown'
  <2>1. \A n : LatestWithFiles(n)' = LatestWithFiles(n)
    BY DEF LatestWithFiles
  <2> QED
    BY <1>2, <1>5, <2>1 DEF FilesKnown
<1>6. ASSUME TimelineKnown, timeline'.events = timeline.events, timeline'.page = timeline.page,
             timeline'.hasMore = timeline.hasMore, latest'["timeline"] = latest["timeline"],
             unheard'["timeline"] = unheard["timeline"]
      PROVE  TimelineKnown'
  <2>1. \A n : ShowsPages(n)' <=> ShowsPages(n)
    BY <1>6 DEF ShowsPages, Newest, Summarised
  <2> QED
    BY <1>2, <1>6, <2>1 DEF TimelineKnown
<1> QED
  BY <1>1, <1>2, <1>3, <1>4, <1>5, <1>6

(* What is to be shown of a step that leaves the events as they are.       *)
LEMMA StepRight ==
  ASSUME PageInv, TicketPageTypeOK', UNCHANGED <<history, announced>>,
         announced # <<>> => room' = room, NeverAhead',
         ~ReloadDue => TicketKnown' /\ FilesKnown' /\ TimelineKnown'
  PROVE  PageInv'
<1>1. HistoryRight' /\ (ReloadDue' <=> ReloadDue) /\ Count' = Count
  BY KnownKept DEF PageInv
<1>2. AnnouncedInOrder'
  BY <1>1 DEF PageInv, AnnouncedInOrder
<1> QED
  BY <1>1, <1>2 DEF PageInv

(* The requests that begin. *)
LEMMA BeganRight ==
  ASSUME TicketPageTypeOK, NEW D \in SUBSET AllHooks,
         NEW starts \in [D -> LoadRequest \cup {NoPageLoad}], Began(starts)
  PROVE  /\ latest' \in [AllHooks -> LoadRequest \cup {NoPageLoad}]
         /\ overtaken' \in [AllHooks -> LoadRequest \cup {NoPageLoad}]
         /\ \A h \in AllHooks : latest'[h] = IF h \in D THEN starts[h] ELSE latest[h]
<1>0. /\ latest \in [AllHooks -> LoadRequest \cup {NoPageLoad}]
      /\ overtaken \in [AllHooks -> LoadRequest \cup {NoPageLoad}] /\ DOMAIN starts = D
  BY DEF TicketPageTypeOK
<1>1. latest' = [h \in AllHooks |-> IF h \in D THEN starts[h] ELSE latest[h]]
  BY <1>0 DEF Began
<1>2. overtaken' = [h \in AllHooks |-> IF h \in D THEN NowOvertaken(h) ELSE overtaken[h]]
  BY <1>0 DEF Began
<1>3. \A h \in AllHooks : NowOvertaken(h) \in LoadRequest \cup {NoPageLoad}
  BY <1>0 DEF NowOvertaken
<1> QED
  BY <1>0, <1>1, <1>2, <1>3

(* Steps that no hook takes notice of. *)
LEMMA UnnoticedRight ==
  ASSUME PageInv,
         RoomJoined \/ ActionRefused \/ \E kind \in {"action", "handoff"} : ActionSent(kind)
  PROVE  PageInv'
<1>0. /\ TicketPageTypeOK /\ AnnouncedInOrder /\ NeverAhead
      /\ UNCHANGED <<history, announced, latest, overtaken, ticket, timeline, opened, attached,
                     unheard, pageFaults>>
  BY DEF PageInv, RoomJoined, ActionRefused, ActionSent, shownVars
<1>1. /\ room' \in {"offline", "joining", "joined"} /\ (announced # <<>> => room' = room)
      /\ own' \in OwnState /\ (own'.step = "answered" => own' = own)
  <2>0. NoAction \in OwnState /\ NoAction.step = "none"
    BY TicketPageAssumption DEF NoAction, OwnState
  <2>1. CASE RoomJoined
    BY <1>0, <2>1 DEF RoomJoined, TicketPageTypeOK, AnnouncedInOrder
  <2>2. CASE ActionRefused
    BY <1>0, <2>0, <2>2 DEF ActionRefused, TicketPageTypeOK
  <2>3. ASSUME NEW kind \in {"action", "handoff"}, ActionSent(kind)
        PROVE  /\ room' = room /\ own' \in OwnState /\ own'.step = "sent"
    BY <2>0, <2>3 DEF ActionSent, OwnState
  <2> QED
    BY <1>0, <2>1, <2>2, <2>3 DEF TicketPageTypeOK
<1>2. TicketPageTypeOK'
  BY <1>0, <1>1, KnownKept DEF TicketPageTypeOK
<1>3. NeverAhead'
  BY <1>0, <1>1, KnownKept DEF NeverAhead, RequestRight
<1>4. ~ReloadDue => TicketKnown' /\ FilesKnown' /\ TimelineKnown'
  BY <1>0, KnownKept DEF PageInv
<1> QED
  BY <1>0, <1>1, <1>2, <1>3, <1>4, StepRight

(* The service reads the last event for a request. *)
LEMMA ServiceReadsRight ==
  ASSUME PageInv, NEW h \in AllHooks, ServiceReads(h)
  PROVE  PageInv'
<1>0. /\ TicketPageTypeOK /\ HistoryRight /\ NeverAhead
      /\ latest[h] # NoPageLoad /\ latest[h] \in LoadRequest /\ latest[h].read = 0
      /\ UNCHANGED <<history, room, announced, overtaken, ticket, timeline, opened, attached, own,
                     unheard, pageFaults>>
  BY DEF PageInv, TicketPageTypeOK, ServiceReads, shownVars
<1>1. PICK q : q = [latest[h] EXCEPT !.read = Count]
  OBVIOUS
<1>2. latest' = [latest EXCEPT ![h] = q]
  BY <1>1 DEF ServiceReads
<1>3. /\ q \in LoadRequest /\ q # NoPageLoad /\ q.read = Count
      /\ q.page = latest[h].page /\ q.append = latest[h].append
  <2>1. Count \in 0 .. MaxEvents
    BY <1>0, EventFacts
  <2> QED
    BY <1>0, <1>1, <2>1, NoPageLoadAssumption DEF LoadRequest
<1>4. /\ latest' \in [AllHooks -> LoadRequest \cup {NoPageLoad}] /\ latest'[h] = q
      /\ \A k \in AllHooks : k # h => latest'[k] = latest[k]
  BY <1>0, <1>2, <1>3 DEF TicketPageTypeOK
<1>5. TicketPageTypeOK'
  BY <1>0, <1>4, KnownKept DEF TicketPageTypeOK
<1>6. NeverAhead'
  <2>1. Count' = Count /\ Count \in Nat
    BY <1>0, KnownKept, EventFacts
  <2>2. \A k \in AllHooks : RequestRight(k)'
    BY <1>0, <1>3, <1>4, <2>1 DEF NeverAhead, RequestRight
  <2> QED
    BY <1>0, <2>1, <2>2 DEF NeverAhead
<1>7. ~ReloadDue => TicketKnown' /\ FilesKnown' /\ TimelineKnown'
  <2> SUFFICES ASSUME ~ReloadDue PROVE TicketKnown' /\ FilesKnown' /\ TimelineKnown'
    OBVIOUS
  <2>0. /\ TicketKnown /\ FilesKnown /\ TimelineKnown
        /\ {"details", "attachments", "timeline"} \subseteq AllHooks
        /\ Count \in CountsShown' /\ Count \in TicketAsOf'
    BY <1>0, KnownKept, EventFacts DEF PageInv, AllHooks, Hooks
  <2>1. TicketKnown'
    <3>1. CASE h = "details"
      BY <1>3, <1>4, <2>0, <3>1 DEF TicketKnown
    <3>2. CASE h # "details"
      BY <1>0, <1>4, <2>0, <3>2, KnownKept
    <3> QED
      BY <3>1, <3>2
  <2>2. FilesKnown'
    <3>1. CASE h = "attachments"
      BY <1>3, <1>4, <2>0, <3>1 DEF FilesKnown
    <3>2. CASE h # "attachments"
      BY <1>0, <1>4, <2>0, <3>2, KnownKept
    <3> QED
      BY <3>1, <3>2
  <2>3. TimelineKnown'
    <3>1. CASE h = "timeline"
      <4>1. \A n : ShowsPages(n)' <=> ShowsPages(n)
        BY <1>0 DEF ShowsPages, Newest, Summarised
      <4>2. /\ CountsShown' = CountsShown /\ \A n \in CountsShown : Count >= n
            /\ unheard' = unheard
        BY <1>0, KnownKept, EventFacts
      <4> QED
        BY <1>0, <1>3, <1>4, <2>0, <3>1, <4>1, <4>2 DEF TimelineKnown
    <3>2. CASE h # "timeline"
      BY <1>0, <1>4, <2>0, <3>2, KnownKept
    <3> QED
      BY <3>1, <3>2
  <2> QED
    BY <2>1, <2>2, <2>3
<1> QED
  BY <1>0, <1>5, <1>6, <1>7, StepRight

(* The answer to a request is used by the hook that began it last.         *)
LEMMA AnswerUsedRight ==
  ASSUME PageInv, NEW h \in AllHooks, NEW request \in LoadRequest, request = latest[h],
         request.read > 0, Used(h, request), Heard(h, request),
         latest' = [latest EXCEPT ![h] = NoPageLoad],
         UNCHANGED <<history, room, announced, overtaken, own, pageFaults>>
  PROVE  PageInv'
<1>0. /\ TicketPageTypeOK /\ HistoryRight /\ NeverAhead /\ request # NoPageLoad
      /\ RequestRight(h) /\ request.read \in 1 .. Count /\ Count \in Nat /\ Count' = Count
  <2>1. TicketPageTypeOK /\ HistoryRight /\ NeverAhead /\ RequestRight(h) /\ Count' = Count
    BY KnownKept DEF PageInv, NeverAhead
  <2> QED
    BY <2>1, EventFacts, NoPageLoadAssumption DEF RequestRight, LoadRequest
<1>1. /\ latest' \in [AllHooks -> LoadRequest \cup {NoPageLoad}] /\ latest'[h] = NoPageLoad
      /\ \A k \in AllHooks : k # h => latest'[k] = latest[k]
  BY <1>0 DEF TicketPageTypeOK
<1>2. /\ unheard' \in [Hooks -> 0 .. MaxEvents] /\ \A k \in Hooks : unheard'[k] <= Count
      /\ \A k \in Hooks : k # h => unheard'[k] = unheard[k]
  <2>1. /\ unheard \in [Hooks -> 0 .. MaxEvents] /\ \A k \in Hooks : unheard[k] <= Count
        /\ Count \in 0 .. MaxEvents /\ 0 \in 0 .. MaxEvents /\ 0 <= Count
    BY <1>0, EventFacts DEF TicketPageTypeOK, NeverAhead
  <2>2. request.append = TRUE => h = "timeline"
    BY <1>0 DEF RequestRight
  <2>3. \/ unheard' = unheard
        \/ h \in Hooks /\ \E n \in {0, Count} : unheard' = [unheard EXCEPT ![h] = n]
    BY <2>2 DEF Heard, Hooks
  <2> QED
    BY <2>1, <2>3
<1>3. ~ReloadDue => TicketKnown /\ FilesKnown /\ TimelineKnown
  BY DEF PageInv
<1>4. /\ {"details", "attachments", "timeline"} \subseteq Hooks /\ Hooks \subseteq AllHooks
      /\ "event" \in AllHooks /\ "event" \notin Hooks
  BY DEF AllHooks, Hooks
<1>5. CASE h = "details"
  <2>1. /\ ticket' = [at |-> request.read, active |-> ActiveAt(request.read), loading |-> FALSE]
        /\ UNCHANGED <<timeline, opened, attached>>
    BY <1>5 DEF Used, UseTicket
  <2>2. ticket'.at = request.read
    BY <2>1
  <2>3. TicketPageTypeOK'
    <3>1. ActiveAt(request.read) \in BOOLEAN /\ request.read \in 0 .. MaxEvents
      BY DEF ActiveAt, LoadRequest
    <3>2. ticket' \in [at : 0 .. MaxEvents, active : BOOLEAN, loading : BOOLEAN]
      BY <2>1, <3>1
    <3> QED
      BY <1>0, <1>1, <1>2, <2>1, <3>2 DEF TicketPageTypeOK
  <2>4. NeverAhead'
    BY <1>0, <1>1, <1>2, <1>5, <2>1, <2>2 DEF NeverAhead, RequestRight
  <2>5. FilesKnown => FilesKnown'
    BY <1>1, <1>2, <1>4, <1>5, <2>1, KnownKept
  <2>6. TimelineKnown => TimelineKnown'
    BY <1>1, <1>2, <1>4, <1>5, <2>1, KnownKept
  <2>7. TicketKnown => TicketKnown'
    <3> SUFFICES ASSUME TicketKnown PROVE TicketKnown'
      OBVIOUS
    <3>1. /\ unheard["details"] \in 0 .. Count /\ TicketAsOf' = TicketAsOf
          /\ TicketAsOf \subseteq 0 .. Count
      BY <1>0, <1>4, KnownKept, EventFacts DEF TicketPageTypeOK, NeverAhead
    <3>2. \/ request.read \in TicketAsOf
          \/ unheard["details"] \in TicketAsOf /\ unheard["details"] > request.read
      BY <1>0, <1>5 DEF TicketKnown
    <3>3. unheard' = IF unheard["details"] <= request.read THEN [unheard EXCEPT !["details"] = 0]
                     ELSE unheard
      BY <1>0, <1>4, <1>5 DEF Heard, RequestRight, LoadRequest
    <3>4. CASE unheard["details"] <= request.read
      <4>1. unheard'["details"] = 0 /\ request.read \in TicketAsOf
        BY <1>0, <1>4, <3>1, <3>2, <3>3, <3>4 DEF TicketPageTypeOK
      <4> QED
        BY <1>1, <1>5, <2>2, <3>1, <4>1 DEF TicketKnown
    <3>5. CASE unheard["details"] > request.read
      <4>1. unheard'["details"] = unheard["details"] /\ unheard["details"] # 0
        BY <1>0, <3>1, <3>3, <3>5
      <4>2. unheard["details"] \in TicketAsOf
        BY <1>0, <3>1, <3>2, <3>5, EventFacts
      <4> QED
        BY <1>1, <1>5, <3>1, <4>1, <4>2 DEF TicketKnown
    <3> QED
      BY <1>0, <3>1, <3>4, <3>5
  <2> QED
    BY <1>0, <1>3, <2>3, <2>4, <2>5, <2>6, <2>7, StepRight
<1>6. CASE h = "attachments"
  <2>1. attached' = LatestWithFiles(request.read) /\ UNCHANGED <<ticket, timeline, opened>>
    BY <1>6 DEF Used, UseFiles
  <2>2. TicketPageTypeOK'
    <3>1. attached' \in 0 .. MaxEvents
      BY <1>0, <2>1, EventFacts, FilesNumbered
    <3> QED
      BY <1>0, <1>1, <1>2, <2>1, <3>1 DEF TicketPageTypeOK
  <2>3. NeverAhead'
    BY <1>0, <1>1, <1>2, <1>6, <2>1 DEF NeverAhead, RequestRight
  <2>4. TicketKnown => TicketKnown'
    BY <1>1, <1>2, <1>4, <1>6, <2>1, KnownKept
  <2>5. TimelineKnown => TimelineKnown'
    BY <1>1, <1>2, <1>4, <1>6, <2>1, KnownKept
  <2>6. FilesKnown => FilesKnown'
    <3> SUFFICES ASSUME FilesKnown, unheard'["attachments"] = 0
                 PROVE  \E n \in CountsShown' : attached' = LatestWithFiles(n)'
      BY <1>1, <1>6 DEF FilesKnown
    <3>1. \A n : LatestWithFiles(n)' = LatestWithFiles(n)
      BY DEF LatestWithFiles
    <3>2. unheard["attachments"] \in Nat
      <4>1. unheard["attachments"] \in 0 .. MaxEvents /\ MaxEvents \in Nat
        BY <1>0, <1>4, TicketPageAssumption DEF TicketPageTypeOK
      <4> QED
        BY <4>1
    <3>3. unheard["attachments"] <= request.read
      <4>1. unheard' = IF unheard["attachments"] <= request.read
                       THEN [unheard EXCEPT !["attachments"] = 0] ELSE unheard
        BY <1>0, <1>4, <1>6 DEF Heard, RequestRight, LoadRequest
      <4> QED
        BY <1>0, <3>2, <4>1
    <3>4. request.read \in CountsShown
      BY <1>0, <1>6, <3>2, <3>3 DEF FilesKnown
    <3> QED
      BY <2>1, <3>1, <3>4, KnownKept
  <2> QED
    BY <1>0, <1>3, <2>2, <2>3, <2>4, <2>5, <2>6, StepRight
<1>7. CASE h = "event"
  <2>1. /\ opened' = [opened EXCEPT !.detail = request.page, !.loading = FALSE]
        /\ UNCHANGED <<ticket, timeline, attached>>
    BY <1>7 DEF Used, UseDetail
  <2>2. /\ opened' \in [event : 0 .. MaxEvents, detail : 0 .. MaxEvents, loading : BOOLEAN]
        /\ opened'.detail = opened'.event /\ opened'.event = opened.event
    <3>1. request.page \in 0 .. MaxEvents /\ request.page = opened.event
      BY <1>0, <1>7, TicketPageAssumption DEF RequestRight, LoadRequest, EventNumbers
    <3> QED
      BY <1>0, <2>1, <3>1 DEF TicketPageTypeOK
  <2>3. TicketPageTypeOK'
    BY <1>0, <1>1, <1>2, <2>1, <2>2 DEF TicketPageTypeOK
  <2>4. NeverAhead'
    BY <1>0, <1>1, <1>2, <1>7, <2>1, <2>2 DEF NeverAhead, RequestRight
  <2>5. TicketKnown => TicketKnown'
    BY <1>1, <1>2, <1>4, <1>7, <2>1, KnownKept
  <2>6. FilesKnown => FilesKnown'
    BY <1>1, <1>2, <1>4, <1>7, <2>1, KnownKept
  <2>7. TimelineKnown => TimelineKnown'
    BY <1>1, <1>2, <1>4, <1>7, <2>1, KnownKept
  <2> QED
    BY <1>0, <1>3, <2>3, <2>4, <2>5, <2>6, <2>7, StepRight
<1>8. CASE h = "timeline"
  <2>0. PICK p \in EventNumbers, n \in 1 .. Count : p = request.page /\ n = request.read
    BY <1>0 DEF LoadRequest
  <2>1. PICK items, more : items = EventPage(n, p).items /\ more = EventPage(n, p).hasMore
    OBVIOUS
  <2>2. /\ items \in Seq(EventNumbers) /\ more \in BOOLEAN /\ (more => p < MaxEvents)
        /\ more = (Len(Summarised(n)) > p * EventsPerPage)
    BY <1>0, <2>1, PagesContinue
  <2>3. PICK events :
          events = IF request.append THEN items \o timeline.events ELSE items
    OBVIOUS
  <2>4. events \in Seq(EventNumbers)
    <3>1. CASE request.append
      BY <1>0, <2>2, <2>3, <3>1, ConcatProperties DEF TicketPageTypeOK
    <3>2. CASE ~request.append
      BY <2>2, <2>3, <3>2
    <3> QED
      BY <3>1, <3>2
  <2>5. /\ timeline' = [timeline EXCEPT !.events = events, !.page = p, !.hasMore = more,
                            !.loading = request.append /\ timeline.loading,
                            !.loadingMore = ~request.append /\ timeline.loadingMore]
        /\ UNCHANGED <<ticket, opened, attached>>
    BY <1>8, <2>0, <2>1, <2>3 DEF Used, UseEvents
  <2>6. /\ timeline' \in [events : Seq(EventNumbers), page : EventNumbers, hasMore : BOOLEAN,
                          loading : BOOLEAN, loadingMore : BOOLEAN, failed : BOOLEAN]
        /\ timeline'.events = events /\ timeline'.page = p /\ timeline'.hasMore = more
    <3>1. /\ (request.append /\ timeline.loading) \in BOOLEAN
          /\ (~request.append /\ timeline.loadingMore) \in BOOLEAN
      OBVIOUS
    <3> QED
      BY <1>0, <2>2, <2>4, <2>5, <3>1 DEF TicketPageTypeOK
  <2>7. TicketPageTypeOK'
    BY <1>0, <1>1, <1>2, <2>5, <2>6 DEF TicketPageTypeOK
  <2>8. NeverAhead'
    BY <1>0, <1>1, <1>2, <1>8, <2>2, <2>5, <2>6 DEF NeverAhead, RequestRight
  <2>9. TicketKnown => TicketKnown'
    BY <1>1, <1>2, <1>4, <1>8, <2>5, KnownKept
  <2>10. FilesKnown => FilesKnown'
    BY <1>1, <1>2, <1>4, <1>8, <2>5, KnownKept
  <2>11. TimelineKnown => TimelineKnown'
    <3> SUFFICES ASSUME TimelineKnown, unheard'["timeline"] = 0
                 PROVE  \E m \in CountsShown' : ShowsPages(m)'
      BY <1>1, <1>8 DEF TimelineKnown
    <3>1. \A m, q : Newest(m, q)' = Newest(m, q) /\ Summarised(m)' = Summarised(m)
      BY DEF Newest, Summarised
    <3>2. /\ CountsShown' = CountsShown /\ unheard["timeline"] \in Nat
          /\ request.append \in BOOLEAN
      BY <1>0, <1>4, KnownKept DEF TicketPageTypeOK, LoadRequest
    <3>3. CASE request.append = FALSE
      <4>1. p = 1
        BY <1>0, <1>8, <2>0, <3>3 DEF RequestRight
      <4>2. unheard["timeline"] <= n
        <5>1. unheard' = IF unheard["timeline"] <= request.read
                         THEN [unheard EXCEPT !["timeline"] = 0] ELSE unheard
          BY <1>4, <1>8, <3>3 DEF Heard
        <5> QED
          BY <2>0, <3>2, <5>1
      <4>3. n \in CountsShown
        BY <1>0, <1>8, <2>0, <3>2, <3>3, <4>2 DEF TimelineKnown
      <4>4. events = Newest(n, p)
        BY <1>0, <2>1, <2>3, <3>3, <4>1, PagesContinue
      <4> QED
        BY <2>2, <2>6, <3>1, <3>2, <4>3, <4>4 DEF ShowsPages
    <3>4. CASE request.append = TRUE
      <4>1. unheard' = IF ActiveAt(request.read) THEN unheard
                       ELSE [unheard EXCEPT !["timeline"] = Count]
        BY <1>4, <1>8, <3>4 DEF Heard
      <4>2. ActiveAt(n) /\ unheard["timeline"] = 0
        BY <1>0, <1>4, <2>0, <4>1, EventFacts DEF TicketPageTypeOK
      <4>3. PICK m \in CountsShown : ShowsPages(m) /\ n >= m
        BY <1>0, <1>8, <2>0, <3>4, <4>2 DEF TimelineKnown
      <4>4. n \in CountsShown /\ m \in 1 .. Count
        BY <1>0, <2>0, <4>3, EventFacts
      <4>5. m = n
        BY <1>0, <4>2, <4>3, <4>4, EventFacts
      <4>6. p = timeline.page + 1 /\ timeline.page \in EventNumbers
        BY <1>0, <1>8, <2>0, <3>4 DEF RequestRight, TicketPageTypeOK
      <4>7. events = Newest(n, p)
        BY <1>0, <2>1, <2>3, <3>4, <4>3, <4>5, <4>6, PagesContinue DEF ShowsPages
      <4> QED
        BY <2>2, <2>6, <3>1, <3>2, <4>4, <4>7 DEF ShowsPages
    <3> QED
      BY <3>2, <3>3, <3>4
  <2> QED
    BY <1>0, <1>3, <2>7, <2>8, <2>9, <2>10, <2>11, StepRight
<1> QED
  BY <1>5, <1>6, <1>7, <1>8 DEF AllHooks, Hooks

(* Any other answer is dropped. *)
LEMMA LoadAnsweredRight ==
  ASSUME PageInv, NEW h \in AllHooks, LoadAnswered(h)
  PROVE  PageInv'
<1>1. PICK request \in {latest[h], overtaken[h]} \ {NoPageLoad} :
        /\ request.read > 0
        /\ IF StillCurrent(h, request)
           THEN Used(h, request) /\ Heard(h, request)
           ELSE UNCHANGED <<shownVars, unheard>>
        /\ IF latest[h] = request
           THEN latest' = [latest EXCEPT ![h] = NoPageLoad] /\ UNCHANGED overtaken
           ELSE overtaken' = [overtaken EXCEPT ![h] = NoPageLoad] /\ UNCHANGED latest
        /\ UNCHANGED <<history, room, announced, own, pageFaults>>
  BY DEF LoadAnswered
<1>0. TicketPageTypeOK /\ NeverAhead /\ request \in LoadRequest
  BY <1>1 DEF PageInv, TicketPageTypeOK
<1>2. CASE latest[h] = request
  BY <1>0, <1>1, <1>2, AnswerUsedRight DEF StillCurrent
<1>3. CASE latest[h] # request
  <2>1. /\ overtaken' = [overtaken EXCEPT ![h] = NoPageLoad]
        /\ UNCHANGED <<history, room, announced, latest, ticket, timeline, opened, attached, own,
                       unheard, pageFaults>>
    BY <1>1, <1>3 DEF StillCurrent, shownVars
  <2>2. TicketPageTypeOK'
    BY <1>0, <2>1, KnownKept DEF TicketPageTypeOK
  <2>3. NeverAhead'
    BY <1>0, <2>1, KnownKept DEF NeverAhead, RequestRight
  <2>4. ~ReloadDue => TicketKnown' /\ FilesKnown' /\ TimelineKnown'
    BY <2>1, KnownKept DEF PageInv
  <2> QED
    BY <2>1, <2>2, <2>3, <2>4, StepRight
<1> QED
  BY <1>2, <1>3

(* A request fails: what its hook shows may be behind. *)
LEMMA LoadFailsRight ==
  ASSUME PageInv, NEW h \in AllHooks, LoadFails(h)
  PROVE  PageInv'
<1>0. /\ TicketPageTypeOK /\ HistoryRight /\ NeverAhead /\ Count \in 2 .. MaxEvents
      /\ Count' = Count /\ Count \in CountsShown /\ Count \in TicketAsOf
      /\ latest[h] # NoPageLoad /\ latest[h] \in LoadRequest
      /\ latest' = [latest EXCEPT ![h] = NoPageLoad]
      /\ unheard' = (IF h \in Hooks THEN [unheard EXCEPT ![h] = Count] ELSE unheard)
      /\ UNCHANGED <<history, room, announced, overtaken, own>>
  BY KnownKept, EventFacts DEF PageInv, TicketPageTypeOK, LoadFails
<1>1. /\ latest' \in [AllHooks -> LoadRequest \cup {NoPageLoad}] /\ latest'[h] = NoPageLoad
      /\ \A k \in AllHooks : k # h => latest'[k] = latest[k]
  BY <1>0 DEF TicketPageTypeOK
<1>2. /\ unheard' \in [Hooks -> 0 .. MaxEvents] /\ (h \in Hooks => unheard'[h] = Count)
      /\ \A k \in Hooks : k # h => unheard'[k] = unheard[k]
      /\ \A k \in Hooks : unheard'[k] <= Count
  BY <1>0 DEF TicketPageTypeOK, NeverAhead
<1>3. pageFaults' \in 0 .. MaxPageFaults
  BY <1>0, TicketPageAssumption DEF LoadFails, PageFault, TicketPageTypeOK
<1>4. /\ {"details", "attachments", "timeline"} \subseteq Hooks /\ Hooks \subseteq AllHooks
      /\ "event" \in AllHooks /\ "event" \notin Hooks
  BY DEF AllHooks, Hooks
<1>5. /\ h = "details" => /\ UNCHANGED <<timeline, opened, attached>>
                          /\ ticket' \in [at : 0 .. MaxEvents, active : BOOLEAN, loading : BOOLEAN]
                          /\ ticket'.at <= Count
  <2>1. CASE h = "details"
    <3>1. /\ UNCHANGED <<timeline, opened, attached>>
          /\ \/ ticket' = [ticket EXCEPT !.loading = FALSE]
             \/ ticket' = [at |-> 0, active |-> FALSE, loading |-> FALSE]
      BY <2>1 DEF LoadFails
    <3>2. /\ 0 \in 0 .. MaxEvents /\ 0 <= Count /\ ticket.at <= Count
          /\ ticket \in [at : 0 .. MaxEvents, active : BOOLEAN, loading : BOOLEAN]
      BY <1>0, TicketPageAssumption DEF TicketPageTypeOK, NeverAhead
    <3>3. CASE ticket' = [ticket EXCEPT !.loading = FALSE]
      BY <3>1, <3>2, <3>3
    <3>4. CASE ticket' = [at |-> 0, active |-> FALSE, loading |-> FALSE]
      BY <3>1, <3>2, <3>4
    <3> QED
      BY <3>1, <3>3, <3>4
  <2> QED
    BY <2>1
<1>6. h = "timeline" =>
        /\ UNCHANGED <<ticket, opened, attached>>
        /\ timeline' \in [events : Seq(EventNumbers), page : EventNumbers, hasMore : BOOLEAN,
                          loading : BOOLEAN, loadingMore : BOOLEAN, failed : BOOLEAN]
        /\ timeline'.page = timeline.page /\ timeline'.hasMore = timeline.hasMore
  <2>1. CASE h = "timeline"
    <3>1. /\ UNCHANGED <<ticket, opened, attached>>
          /\ timeline' = [timeline EXCEPT !.failed = TRUE,
                             !.loading = latest[h].append /\ timeline.loading,
                             !.loadingMore = ~latest[h].append /\ timeline.loadingMore]
      BY <2>1 DEF LoadFails
    <3>2. /\ (latest[h].append /\ timeline.loading) \in BOOLEAN
          /\ (~latest[h].append /\ timeline.loadingMore) \in BOOLEAN
      OBVIOUS
    <3> QED
      BY <1>0, <3>1, <3>2 DEF TicketPageTypeOK
  <2> QED
    BY <2>1
<1>7. /\ h = "attachments" => attached' = 0 /\ UNCHANGED <<ticket, timeline, opened>>
      /\ h = "event" => opened' = [opened EXCEPT !.loading = FALSE] /\ UNCHANGED <<ticket, timeline, attached>>
  BY DEF LoadFails
<1>8. h \in {"details", "timeline", "attachments", "event"}
  BY DEF AllHooks, Hooks
<1>9. TicketPageTypeOK'
  <2>1. /\ ticket' \in [at : 0 .. MaxEvents, active : BOOLEAN, loading : BOOLEAN]
        /\ timeline' \in [events : Seq(EventNumbers), page : EventNumbers, hasMore : BOOLEAN,
                          loading : BOOLEAN, loadingMore : BOOLEAN, failed : BOOLEAN]
        /\ opened' \in [event : 0 .. MaxEvents, detail : 0 .. MaxEvents, loading : BOOLEAN]
        /\ attached' \in 0 .. MaxEvents
    <3>1. /\ ticket \in [at : 0 .. MaxEvents, active : BOOLEAN, loading : BOOLEAN]
          /\ timeline \in [events : Seq(EventNumbers), page : EventNumbers, hasMore : BOOLEAN,
                            loading : BOOLEAN, loadingMore : BOOLEAN, failed : BOOLEAN]
          /\ opened \in [event : 0 .. MaxEvents, detail : 0 .. MaxEvents, loading : BOOLEAN]
          /\ attached \in 0 .. MaxEvents /\ 0 \in 0 .. MaxEvents
      BY <1>0, TicketPageAssumption DEF TicketPageTypeOK
    <3>2. [opened EXCEPT !.loading = FALSE] \in [event : 0 .. MaxEvents, detail : 0 .. MaxEvents,
                                                 loading : BOOLEAN]
      BY <3>1
    <3> QED
      BY <1>5, <1>6, <1>7, <1>8, <3>1, <3>2, Zenon
  <2> QED
    BY <1>0, <1>1, <1>2, <1>3, <2>1 DEF TicketPageTypeOK
<1>10. NeverAhead'
  <2>1. /\ ticket'.at <= Count /\ timeline'.page = timeline.page
        /\ timeline'.hasMore = timeline.hasMore
        /\ opened'.event = opened.event /\ opened'.detail = opened.detail
    BY <1>0, <1>5, <1>6, <1>7, <1>8 DEF TicketPageTypeOK, NeverAhead
  <2>2. \A k \in AllHooks : RequestRight(k)'
    BY <1>0, <1>1, <2>1 DEF NeverAhead, RequestRight
  <2> QED
    BY <1>0, <1>2, <2>1, <2>2 DEF NeverAhead
<1>11. ~ReloadDue => TicketKnown' /\ FilesKnown' /\ TimelineKnown'
  <2> SUFFICES ASSUME ~ReloadDue PROVE TicketKnown' /\ FilesKnown' /\ TimelineKnown'
    OBVIOUS
  <2>1. TicketKnown /\ FilesKnown /\ TimelineKnown
    BY DEF PageInv
  <2>2. TicketKnown'
    <3>1. CASE h = "details"
      <4>1. TicketAsOf' = TicketAsOf
        BY <1>0, KnownKept
      <4> QED
        BY <1>0, <1>1, <1>2, <1>4, <3>1, <4>1 DEF TicketKnown
    <3>2. CASE h # "details"
      BY <1>0, <1>1, <1>2, <1>4, <1>5, <1>6, <1>7, <1>8, <2>1, <3>2, KnownKept
    <3> QED
      BY <3>1, <3>2
  <2>3. FilesKnown'
    <3>1. CASE h = "attachments"
      BY <1>0, <1>1, <1>2, <1>4, <3>1 DEF FilesKnown
    <3>2. CASE h # "attachments"
      BY <1>0, <1>1, <1>2, <1>4, <1>5, <1>6, <1>7, <1>8, <2>1, <3>2, KnownKept
    <3> QED
      BY <3>1, <3>2
  <2>4. TimelineKnown'
    <3>1. CASE h = "timeline"
      BY <1>0, <1>1, <1>2, <1>4, <3>1 DEF TimelineKnown
    <3>2. CASE h # "timeline"
      BY <1>0, <1>1, <1>2, <1>4, <1>5, <1>6, <1>7, <1>8, <2>1, <3>2, KnownKept
    <3> QED
      BY <3>1, <3>2
  <2> QED
    BY <2>2, <2>3, <2>4
<1> QED
  BY <1>0, <1>9, <1>10, <1>11, StepRight

(* An event is committed: it is announced, or it is one not heard of. *)
LEMMA CommittedRight ==
  ASSUME PageInv, NEW kind \in {"change", "request", "delete"}, NEW files \in BOOLEAN,
         Committed(kind, files),
         UNCHANGED <<room, latest, overtaken, ticket, timeline, opened, attached, pageFaults>>,
         own' \in OwnState, own'.step = "answered" => own'.event \in 1 .. Count + 1
  PROVE  PageInv'
<1>0. /\ TicketPageTypeOK /\ HistoryRight /\ AnnouncedInOrder /\ NeverAhead
      /\ Count < MaxEvents /\ ~IsOver /\ Count \in Nat /\ Count >= 2 /\ MaxEvents \in Nat
      /\ Summarised(Count) \in Seq(EventNumbers) /\ Len(Summarised(Count)) \in Nat
      /\ Len(Summarised(Count)) <= Count
  BY EventFacts DEF PageInv, Committed
<1>1. PICK e : e = [kind |-> kind, files |-> files, listed |-> ListedWith(kind)]
  OBVIOUS
<1>2. e \in EventRecord /\ e.kind = kind /\ Len(e.listed) <= Count + 1
  <2>1. Count + 1 \in EventNumbers
    BY <1>0 DEF EventNumbers
  <2>2. /\ ListedWith(kind) \in Seq(EventNumbers) /\ Len(ListedWith(kind)) <= Count + 1
    <3>1. CASE kind = "request"
      BY <1>0, <3>1 DEF ListedWith
    <3>2. CASE kind # "request"
      BY <1>0, <2>1, <3>2, AppendProperties DEF ListedWith
    <3> QED
      BY <3>1, <3>2
  <2> QED
    BY <1>1, <2>2 DEF EventRecord
<1>3. /\ history' \in Seq(EventRecord) /\ Count' = Count + 1 /\ history'[Count + 1] = e
      /\ \A n \in 1 .. Count : history'[n] = history[n]
  <2>1. history' = Append(history, e)
    BY <1>1 DEF Committed
  <2> QED
    BY <1>0, <1>2, <2>1, AppendProperties DEF TicketPageTypeOK, Count
<1>4. \A n \in 1 .. Count :
        /\ ActiveAt(n)' = ActiveAt(n) /\ Summarised(n)' = Summarised(n)
        /\ LatestWithFiles(n)' = LatestWithFiles(n)
        /\ \A p : Newest(n, p)' = Newest(n, p)
  BY <1>0, <1>3, PastIsKept
<1>5. HistoryRight'
  <2>1. \A i \in 1 .. Count + 1 : i < Count + 1 => ActiveAt(i)'
    BY <1>0, <1>4 DEF HistoryRight, IsOver
  <2>2. \A i \in 1 .. Count + 1 : Len(history'[i].listed) <= i
    BY <1>0, <1>2, <1>3 DEF HistoryRight
  <2>3. PICK c \in Nat : c = Count
    BY <1>0
  <2>4. /\ c + 1 >= 2 /\ \A i \in 1 .. c + 1 : i < c + 1 => ActiveAt(i)'
        /\ \A i \in 1 .. c + 1 : Len(history'[i].listed) <= i
    BY <1>0, <2>1, <2>2, <2>3
  <2>5. Count' = c + 1
    BY <1>3, <2>3
  <2> QED
    BY <2>4, <2>5 DEF HistoryRight
<1>6. NeverAhead' <=> \A h \in Hooks : unheard'[h] <= Count'
  <2>1. \A h \in AllHooks : RequestRight(h)'
    <3> SUFFICES ASSUME NEW h \in AllHooks, latest[h] # NoPageLoad PROVE RequestRight(h)'
      BY DEF RequestRight
    <3>1. RequestRight(h) /\ latest[h].read \in Nat
      BY <1>0 DEF NeverAhead, TicketPageTypeOK, LoadRequest
    <3> QED
      BY <1>0, <1>3, <3>1 DEF RequestRight
  <2>2. ticket.at <= Count + 1
    BY <1>0 DEF NeverAhead, TicketPageTypeOK
  <2> QED
    BY <1>0, <1>3, <2>1, <2>2 DEF NeverAhead
<1>7. /\ CountsShown = {Count} /\ TicketAsOf = {Count}
      /\ Count + 1 \in CountsShown' /\ Count + 1 \in TicketAsOf'
  BY <1>0, <1>3 DEF CountsShown, TicketAsOf
<1>8. CASE room = "joined"
  <2>1. announced' = Append(announced, Count + 1) /\ unheard' = unheard
    BY <1>8 DEF Committed
  <2>2. /\ announced \in Seq(EventNumbers) /\ Count + 1 \in EventNumbers /\ Len(announced) \in Nat
    BY <1>0, LenProperties DEF TicketPageTypeOK, EventNumbers
  <2>3. /\ announced' \in Seq(EventNumbers) /\ Len(announced') = Len(announced) + 1
        /\ announced'[Len(announced) + 1] = Count + 1
        /\ \A i \in 1 .. Len(announced) : announced'[i] = announced[i]
    BY <2>1, <2>2, AppendProperties
  <2>4. AnnouncedInOrder'
    <3>1. Len(announced') < Count'
      BY <1>0, <1>3, <2>2, <2>3 DEF AnnouncedInOrder
    <3>2. ASSUME NEW i \in 1 .. Len(announced') PROVE announced'[i] = Count' - Len(announced') + i
      <4>1. CASE i <= Len(announced)
        BY <1>0, <1>3, <2>2, <2>3, <3>2, <4>1 DEF AnnouncedInOrder
      <4>2. CASE i = Len(announced) + 1
        BY <1>0, <1>3, <2>2, <2>3, <4>2
      <4> QED
        BY <2>2, <2>3, <3>2, <4>1, <4>2
    <3> QED
      BY <1>8, <3>1, <3>2 DEF AnnouncedInOrder
  <2>5. TicketPageTypeOK'
    <3>1. Count' \in EventNumbers
      BY <1>0, <1>3 DEF EventNumbers
    <3> QED
      BY <1>0, <1>3, <2>1, <2>3, <3>1 DEF TicketPageTypeOK
  <2>6. NeverAhead'
    <3>1. \A h \in Hooks : unheard'[h] <= Count'
      BY <1>0, <1>3, <2>1 DEF NeverAhead, TicketPageTypeOK
    <3> QED
      BY <1>6, <3>1
  <2>7. CASE announced # <<>>
    <3>1. Head(announced) \in 1 .. Count /\ ActiveAt(Head(announced)) /\ Len(announced) >= 1
      BY <1>0, <2>7, LastAnnouncement
    <3>2. Head(announced') = Head(announced) /\ announced' # <<>>
      <4>1. Head(announced') = announced'[1] /\ Head(announced) = announced[1]
        BY <2>2, <2>3, <3>1
      <4> QED
        BY <2>2, <2>3, <3>1, <4>1, EmptySeq
    <3>3. ReloadDue'
      <4>1. PICK n \in 1 .. Count : n = Head(announced)
        BY <3>1
      <4> QED
        BY <1>4, <3>1, <3>2, <4>1 DEF ReloadDue, ActiveAt
    <3> QED
      BY <1>5, <2>4, <2>5, <2>6, <3>3 DEF PageInv
  <2>8. CASE announced = <<>>
    <3>1. TicketKnown /\ FilesKnown /\ TimelineKnown
      BY <2>8 DEF PageInv, ReloadDue
    <3>2. announced' = <<Count + 1>> /\ Head(announced') = Count + 1 /\ announced' # <<>>
      BY <2>1, <2>8
    <3>3. CASE kind # "delete"
      <4>1. ReloadDue'
        BY <1>2, <1>3, <3>2, <3>3 DEF ReloadDue, ActiveAt
      <4> QED
        BY <1>5, <2>4, <2>5, <2>6, <4>1 DEF PageInv
    <3>4. CASE kind = "delete"
      <4>1. /\ CountsShown' = {Count, Count + 1} /\ TicketAsOf' = CountsShown'
        BY <1>0, <1>2, <1>3, <3>2, <3>4 DEF CountsShown, TicketAsOf, IsOver, ActiveAt
      <4>2. TicketKnown'
        BY <1>0, <1>7, <2>1, <3>1, <4>1 DEF TicketKnown
      <4>3. FilesKnown'
        <5>1. PICK n \in 1 .. Count : n = Count
          BY <1>0
        <5>2. LatestWithFiles(n)' = LatestWithFiles(n) /\ n \in CountsShown' /\ CountsShown = {n}
          BY <1>4, <1>7, <4>1, <5>1
        <5> QED
          BY <2>1, <3>1, <4>1, <5>1, <5>2 DEF FilesKnown
      <4>4. TimelineKnown'
        <5>1. PICK n \in 1 .. Count : n = Count
          BY <1>0
        <5>2. (ShowsPages(n)' <=> ShowsPages(n)) /\ n \in CountsShown' /\ CountsShown = {n}
          BY <1>4, <1>7, <4>1, <5>1 DEF ShowsPages
        <5> QED
          BY <2>1, <3>1, <4>1, <5>1, <5>2 DEF TimelineKnown
      <4> QED
        BY <1>5, <2>4, <2>5, <2>6, <4>2, <4>3, <4>4 DEF PageInv
    <3> QED
      BY <3>3, <3>4
  <2> QED
    BY <2>7, <2>8
<1>9. CASE room # "joined"
  <2>1. /\ announced = <<>> /\ announced' = <<>>
        /\ unheard' = [h \in Hooks |-> Count + 1]
    BY <1>0, <1>9 DEF Committed, AnnouncedInOrder
  <2>2. TicketPageTypeOK'
    <3>1. Count' \in EventNumbers /\ Count + 1 \in 0 .. MaxEvents
      BY <1>0, <1>3 DEF EventNumbers
    <3> QED
      BY <1>0, <1>3, <2>1, <3>1 DEF TicketPageTypeOK
  <2>3. AnnouncedInOrder' /\ ~ReloadDue'
    <3>1. Len(announced') = 0
      BY <2>1
    <3> QED
      BY <1>0, <1>3, <2>1, <3>1 DEF AnnouncedInOrder, ReloadDue
  <2>4. NeverAhead'
    <3>1. Count + 1 <= Count + 1
      BY <1>0
    <3>2. \A h \in Hooks : unheard'[h] <= Count'
      BY <1>3, <2>1, <3>1
    <3> QED
      BY <1>6, <3>2
  <2>5. /\ \A h \in Hooks : unheard'[h] = Count + 1
        /\ \A h \in Hooks : latest'[h] # NoPageLoad => unheard'[h] > latest'[h].read
    <3>1. \A h \in Hooks : latest[h] # NoPageLoad => latest[h].read <= Count /\ latest[h].read \in Nat
      BY <1>0 DEF NeverAhead, RequestRight, TicketPageTypeOK, LoadRequest, AllHooks
    <3> QED
      BY <1>0, <2>1, <3>1
  <2>6. {"details", "attachments", "timeline"} \subseteq Hooks /\ Count + 1 # 0
    BY <1>0 DEF Hooks
  <2>7. TicketKnown'
    BY <1>7, <2>5, <2>6 DEF TicketKnown
  <2>8. FilesKnown'
    BY <2>5, <2>6 DEF FilesKnown
  <2>9. TimelineKnown'
    BY <2>5, <2>6 DEF TimelineKnown
  <2> QED
    BY <1>5, <2>2, <2>3, <2>4, <2>7, <2>8, <2>9 DEF PageInv
<1> QED
  BY <1>8, <1>9

(* What others do. *)
LEMMA SomeoneActsRight ==
  ASSUME PageInv, SomeoneActs
  PROVE  PageInv'
<1>1. PICK kind \in {"change", "request", "delete"}, files \in BOOLEAN : Committed(kind, files)
  BY DEF SomeoneActs
<1>2. UNCHANGED <<room, latest, overtaken, ticket, timeline, opened, attached, own, pageFaults>>
  BY DEF SomeoneActs, shownVars
<1>3. own' \in OwnState /\ (own'.step = "answered" => own'.event \in 1 .. Count + 1)
  <2>1. Count \in Nat
    BY EventFacts DEF PageInv
  <2> QED
    BY <1>2, <2>1 DEF PageInv, TicketPageTypeOK, NeverAhead
<1> QED
  BY <1>1, <1>2, <1>3, CommittedRight

(* The own action is committed. *)
LEMMA ActionCommitsRight ==
  ASSUME PageInv, ActionCommits
  PROVE  PageInv'
<1>1. PICK kind \in {"change", "delete"}, files \in BOOLEAN : Committed(kind, files)
  BY DEF ActionCommits
<1>2. UNCHANGED <<room, latest, overtaken, ticket, timeline, opened, attached, pageFaults>>
  BY DEF ActionCommits, shownVars
<1>3. own' \in OwnState /\ own'.event \in 1 .. Count + 1
  <2>1. /\ Count < MaxEvents /\ Count \in Nat /\ MaxEvents \in Nat /\ own \in OwnState
    BY <1>1, EventFacts DEF PageInv, Committed, TicketPageTypeOK
  <2>2. PICK n \in 0 .. MaxEvents : n = Count + 1
    BY <2>1
  <2>3. own' = [own EXCEPT !.step = "answered", !.event = n]
    BY <2>2 DEF ActionCommits
  <2>4. own' \in OwnState /\ own'.event = n
    BY <2>1, <2>3 DEF OwnState
  <2> QED
    BY <2>1, <2>2, <2>4
<1> QED
  BY <1>1, <1>2, <1>3, CommittedRight

(* The announcements that wait are lost with the connection. *)
LEMMA ConnectionLostRight ==
  ASSUME PageInv, ConnectionLost
  PROVE  PageInv'
<1>0. /\ TicketPageTypeOK /\ HistoryRight /\ NeverAhead /\ Count \in 2 .. MaxEvents
      /\ MaxEvents \in Nat /\ Count \in CountsShown' /\ HistoryRight'
      /\ Count' = Count /\ room' = "offline" /\ announced' = <<>>
      /\ UNCHANGED <<history, latest, overtaken, ticket, timeline, opened, attached, own>>
  BY KnownKept, EventFacts DEF PageInv, ConnectionLost, shownVars
<1>1. /\ pageFaults' \in 0 .. MaxPageFaults
  BY <1>0, TicketPageAssumption DEF ConnectionLost, PageFault, TicketPageTypeOK
<1>2. /\ unheard' \in [Hooks -> 0 .. MaxEvents] /\ \A h \in Hooks : unheard'[h] <= Count
  <2>1. \/ unheard' = unheard
        \/ unheard' = [h \in Hooks |-> Count]
    BY DEF ConnectionLost
  <2> QED
    BY <1>0, <2>1 DEF TicketPageTypeOK, NeverAhead
<1>3. TicketPageTypeOK'
  BY <1>0, <1>1, <1>2 DEF TicketPageTypeOK
<1>4. NeverAhead'
  BY <1>0, <1>2 DEF NeverAhead, RequestRight
<1>5. AnnouncedInOrder'
  BY <1>0 DEF AnnouncedInOrder
<1>6. TicketKnown' /\ FilesKnown' /\ TimelineKnown'
  <2>1. CASE announced = <<>>
    BY <1>0, <2>1, KnownKept DEF PageInv, ReloadDue, ConnectionLost
  <2>2. CASE announced # <<>>
    <3>1. /\ \A h \in Hooks : unheard'[h] = Count
          /\ {"details", "attachments", "timeline"} \subseteq Hooks /\ Count # 0
          /\ Count \in TicketAsOf'
      BY <1>0, <2>2 DEF ConnectionLost, Hooks, TicketAsOf
    <3>2. \A h \in Hooks : latest[h] # NoPageLoad =>
             latest[h].read \in {0} \cup CountsShown' \/ latest[h].read < Count
      <4> SUFFICES ASSUME NEW h \in Hooks, latest[h] # NoPageLoad
                   PROVE  latest[h].read = Count \/ latest[h].read < Count
        BY <1>0
      <4>1. latest[h].read \in Nat /\ latest[h].read <= Count
        BY <1>0 DEF NeverAhead, RequestRight, TicketPageTypeOK, LoadRequest, AllHooks
      <4> QED
        BY <1>0, <4>1
    <3>3. latest["details"] # NoPageLoad => latest["details"].read = Count \/ latest["details"].read < Count
      <4>1. latest["details"] # NoPageLoad => latest["details"].read \in Nat /\ latest["details"].read <= Count
        BY <1>0 DEF NeverAhead, RequestRight, TicketPageTypeOK, LoadRequest, AllHooks, Hooks
      <4> QED
        BY <1>0, <4>1
    <3>4. TicketKnown'
      BY <1>0, <3>1, <3>3 DEF TicketKnown
    <3>5. FilesKnown'
      BY <1>0, <3>1, <3>2 DEF FilesKnown
    <3>6. TimelineKnown'
      BY <1>0, <3>1, <3>2 DEF TimelineKnown
    <3> QED
      BY <3>4, <3>5, <3>6
  <2> QED
    BY <2>1, <2>2
<1> QED
  BY <1>0, <1>3, <1>4, <1>5, <1>6 DEF PageInv

(* A reload of everything. *)
LEMMA ReloadRight ==
  ASSUME PageInv, RemoteUpdate(FALSE), UNCHANGED <<history, opened, attached, own, pageFaults>>,
         room' \in {"offline", "joining", "joined"}, announced' \in Seq(EventNumbers),
         AnnouncedInOrder'
  PROVE  PageInv'
<1>0. /\ TicketPageTypeOK /\ HistoryRight' /\ NeverAhead /\ Count' = Count
      /\ Count \in Nat
  BY KnownKept, EventFacts DEF PageInv
<1>1. /\ Began([h \in Hooks |-> IF h = "attachments" THEN PageLoad ELSE Refresh])
      /\ UNCHANGED <<ticket, timeline, unheard>>
  BY DEF RemoteUpdate
<1>2. PICK starts : starts = [h \in Hooks |-> IF h = "attachments" THEN PageLoad ELSE Refresh]
  OBVIOUS
<1>3. /\ Hooks \in SUBSET AllHooks /\ starts \in [Hooks -> LoadRequest \cup {NoPageLoad}]
      /\ \A h \in Hooks : /\ starts[h] \in LoadRequest /\ starts[h].read = 0
                          /\ starts[h].append = FALSE /\ starts[h].page = 1
  BY <1>2, RequestTypes DEF AllHooks
<1>4. /\ latest' \in [AllHooks -> LoadRequest \cup {NoPageLoad}]
      /\ overtaken' \in [AllHooks -> LoadRequest \cup {NoPageLoad}]
      /\ \A h \in AllHooks : latest'[h] = IF h \in Hooks THEN starts[h] ELSE latest[h]
  BY <1>0, <1>1, <1>2, <1>3, BeganRight
<1>5. \A h \in Hooks : latest'[h] \in LoadRequest /\ latest'[h].read = 0 /\ latest'[h].append = FALSE
                       /\ latest'[h].page = 1
  BY <1>3, <1>4
<1>6. TicketPageTypeOK'
  BY <1>0, <1>1, <1>4 DEF TicketPageTypeOK
<1>7. NeverAhead'
  <2>1. ASSUME NEW h \in AllHooks PROVE RequestRight(h)'
    <3>1. CASE h \in Hooks
      BY <1>0, <1>5, <3>1 DEF RequestRight, Hooks
    <3>2. CASE h \notin Hooks
      BY <1>0, <1>1, <1>4, <3>2 DEF NeverAhead, RequestRight, Hooks
    <3> QED
      BY <3>1, <3>2
  <2> QED
    BY <1>0, <1>1, <2>1 DEF NeverAhead
<1>8. TicketKnown' /\ FilesKnown' /\ TimelineKnown'
  BY <1>5, BegunKnown DEF Hooks
<1> QED
  BY <1>0, <1>6, <1>7, <1>8 DEF PageInv

(* The room is asked for again. *)
LEMMA ReconnectedRight ==
  ASSUME PageInv, Reconnected
  PROVE  PageInv'
<1>1. announced = <<>> /\ announced' = announced /\ history' = history /\ Count' = Count
  BY KnownKept DEF PageInv, AnnouncedInOrder, Reconnected
<1>2. AnnouncedInOrder'
  BY <1>1 DEF PageInv, AnnouncedInOrder
<1> QED
  BY <1>1, <1>2, ReloadRight DEF Reconnected, PageInv, TicketPageTypeOK

(* An announcement has everything loaded again, or ends the ticket.        *)
LEMMA EventHandledRight ==
  ASSUME PageInv, EventHandled
  PROVE  PageInv'
<1>0. /\ TicketPageTypeOK /\ HistoryRight /\ AnnouncedInOrder /\ NeverAhead /\ announced # <<>>
      /\ announced' = Tail(announced) /\ Count \in 2 .. MaxEvents /\ Count \in Nat /\ Count' = Count
      /\ HistoryRight' /\ CountsShown' = CountsShown /\ (IsOver' <=> IsOver)
      /\ UNCHANGED <<history, room, opened, attached, own, pageFaults>>
  BY KnownKept, EventFacts DEF PageInv, EventHandled
<1>1. /\ Head(announced) \in 1 .. Count /\ Len(announced) \in Nat \ {0}
      /\ Tail(announced) \in Seq(EventNumbers) /\ Len(Tail(announced)) = Len(announced) - 1
      /\ \A i \in 1 .. Len(Tail(announced)) : Tail(announced)[i] = announced[i + 1]
      /\ ~ActiveAt(Head(announced)) => IsOver /\ Len(announced) = 1 /\ Tail(announced) = <<>>
  BY <1>0, LastAnnouncement
<1>2. AnnouncedInOrder'
  <2>1. Len(announced') < Count' /\ room = "joined"
    BY <1>0, <1>1 DEF AnnouncedInOrder
  <2>2. ASSUME NEW i \in 1 .. Len(announced') PROVE announced'[i] = Count' - Len(announced') + i
    <3>1. announced'[i] = announced[i + 1] /\ i + 1 \in 1 .. Len(announced)
      BY <1>0, <1>1, <2>2
    <3>2. PICK len \in Nat, count \in Nat : len = Len(announced) /\ count = Count
      BY <1>0, <1>1
    <3>3. announced[i + 1] = count - len + (i + 1)
      BY <1>0, <3>1, <3>2 DEF AnnouncedInOrder
    <3> QED
      BY <1>0, <1>1, <2>2, <3>1, <3>2, <3>3
  <2> QED
    BY <1>0, <2>1, <2>2 DEF AnnouncedInOrder
<1>3. CASE ActiveAt(Head(announced))
  <2>1. RemoteUpdate(FALSE)
    BY <1>3 DEF EventHandled, ActiveAt
  <2> QED
    BY <1>0, <1>1, <1>2, <2>1, ReloadRight DEF TicketPageTypeOK
<1>4. CASE ~ActiveAt(Head(announced))
  <2>1. /\ ticket' = [ticket EXCEPT !.active = FALSE]
        /\ unheard' = [unheard EXCEPT !["details"] = IF latest["details"] # NoPageLoad \/ ticket.at = 0
                                                     THEN Count ELSE unheard["details"]]
        /\ UNCHANGED <<latest, overtaken, timeline>>
    BY <1>4 DEF EventHandled, ActiveAt, RemoteUpdate
  <2>2. /\ IsOver /\ announced' = <<>> /\ ~ReloadDue /\ FilesKnown /\ TimelineKnown
    BY <1>0, <1>1, <1>4 DEF ReloadDue, PageInv
  <2>3. /\ ticket' \in [at : 0 .. MaxEvents, active : BOOLEAN, loading : BOOLEAN]
        /\ ticket'.at = ticket.at /\ ticket'.active = FALSE
    BY <1>0, <2>1 DEF TicketPageTypeOK
  <2>4. /\ unheard' \in [Hooks -> 0 .. MaxEvents] /\ \A h \in Hooks : unheard'[h] <= Count
        /\ \A h \in Hooks : h # "details" => unheard'[h] = unheard[h]
        /\ latest["details"] # NoPageLoad => unheard'["details"] = Count
    <3>1. unheard \in [Hooks -> 0 .. MaxEvents] /\ (\A h \in Hooks : unheard[h] <= Count)
          /\ Count \in 0 .. MaxEvents /\ "details" \in Hooks
      BY <1>0 DEF TicketPageTypeOK, NeverAhead, Hooks
    <3> QED
      BY <2>1, <3>1
  <2>5. TicketPageTypeOK'
    BY <1>0, <1>1, <2>1, <2>3, <2>4 DEF TicketPageTypeOK
  <2>6. NeverAhead'
    BY <1>0, <2>1, <2>3, <2>4 DEF NeverAhead, RequestRight
  <2>7. FilesKnown' /\ TimelineKnown'
    BY <1>0, <2>1, <2>2, <2>4, KnownKept DEF Hooks
  <2>8. TicketKnown'
    <3>1. CASE latest["details"] = NoPageLoad
      BY <1>0, <2>1, <2>2, <2>3, <3>1 DEF TicketKnown
    <3>2. CASE latest["details"] # NoPageLoad
      <4>1. latest["details"].read \in Nat /\ latest["details"].read <= Count
        BY <1>0, <3>2 DEF NeverAhead, RequestRight, TicketPageTypeOK, LoadRequest, AllHooks, Hooks
      <4>2. latest["details"].read = Count \/ Count > latest["details"].read
        BY <1>0, <4>1
      <4>3. TicketAsOf' = {Count}
        BY <1>0, <2>2 DEF TicketAsOf
      <4> QED
        BY <2>1, <2>4, <3>2, <4>2, <4>3 DEF TicketKnown
    <3> QED
      BY <3>1, <3>2
  <2> QED
    BY <1>0, <1>2, <2>5, <2>6, <2>7, <2>8 DEF PageInv
<1> QED
  BY <1>3, <1>4

(* A load that failed is tried again. *)
LEMMA TryAgainRight ==
  ASSUME PageInv, TryAgain
  PROVE  PageInv'
<1>0. /\ TicketPageTypeOK /\ NeverAhead /\ Count' = Count
      /\ UNCHANGED <<history, room, announced, opened, attached, own, unheard, pageFaults>>
  BY KnownKept DEF PageInv, TryAgain
<1>1. PICK h \in {"details", "timeline"} :
        /\ Began([k \in {h} |-> PageLoad])
        /\ \/ h = "details" /\ ticket' = [ticket EXCEPT !.loading = TRUE] /\ timeline' = timeline
           \/ /\ h = "timeline" /\ timeline' = [timeline EXCEPT !.loading = TRUE, !.failed = FALSE]
              /\ ticket' = ticket
  BY DEF TryAgain, TimelineLoading
<1>2. PICK starts : starts = [k \in {h} |-> PageLoad]
  OBVIOUS
<1>3. {h} \in SUBSET AllHooks /\ starts \in [{h} -> LoadRequest \cup {NoPageLoad}] /\ starts[h] = PageLoad
  BY <1>2, RequestTypes DEF AllHooks, Hooks
<1>4. /\ latest' \in [AllHooks -> LoadRequest \cup {NoPageLoad}]
      /\ overtaken' \in [AllHooks -> LoadRequest \cup {NoPageLoad}]
      /\ \A k \in AllHooks : latest'[k] = IF k \in {h} THEN starts[k] ELSE latest[k]
  BY <1>0, <1>1, <1>2, <1>3, BeganRight
<1>5. /\ latest'[h] = PageLoad /\ \A k \in AllHooks : k # h => latest'[k] = latest[k]
      /\ {"details", "timeline", "attachments", "event"} \subseteq AllHooks
  BY <1>3, <1>4 DEF AllHooks, Hooks
<1>6. /\ ticket' \in [at : 0 .. MaxEvents, active : BOOLEAN, loading : BOOLEAN]
      /\ timeline' \in [events : Seq(EventNumbers), page : EventNumbers, hasMore : BOOLEAN,
                        loading : BOOLEAN, loadingMore : BOOLEAN, failed : BOOLEAN]
      /\ ticket'.at = ticket.at /\ ticket'.active = ticket.active /\ timeline'.events = timeline.events
      /\ timeline'.page = timeline.page /\ timeline'.hasMore = timeline.hasMore
  BY <1>0, <1>1 DEF TicketPageTypeOK
<1>7. TicketPageTypeOK'
  BY <1>0, <1>4, <1>6 DEF TicketPageTypeOK
<1>8. NeverAhead'
  <2>1. ASSUME NEW k \in AllHooks PROVE RequestRight(k)'
    <3>1. CASE k = h
      BY <1>0, <1>5, <3>1, RequestTypes, EventFacts DEF RequestRight, PageInv
    <3>2. CASE k # h
      BY <1>0, <1>5, <1>6, <3>2 DEF NeverAhead, RequestRight
    <3> QED
      BY <3>1, <3>2
  <2> QED
    BY <1>0, <1>6, <2>1 DEF NeverAhead
<1>9. ~ReloadDue => TicketKnown' /\ FilesKnown' /\ TimelineKnown'
  <2> SUFFICES ASSUME ~ReloadDue PROVE TicketKnown' /\ FilesKnown' /\ TimelineKnown'
    OBVIOUS
  <2>1. TicketKnown /\ FilesKnown /\ TimelineKnown
    BY DEF PageInv
  <2>2. TicketKnown'
    BY <1>0, <1>5, <1>6, <2>1, BegunKnown, KnownKept, RequestTypes
  <2>3. FilesKnown'
    BY <1>0, <1>5, <2>1, KnownKept
  <2>4. TimelineKnown'
    BY <1>0, <1>5, <1>6, <2>1, BegunKnown, KnownKept, RequestTypes
  <2> QED
    BY <2>2, <2>3, <2>4
<1> QED
  BY <1>0, <1>7, <1>8, <1>9, StepRight

(* Older events are asked for: what is shown of the newer ones is known.   *)
LEMMA LoadOlderEventsRight ==
  ASSUME PageInv, LoadOlderEvents
  PROVE  PageInv'
<1>0. /\ TicketPageTypeOK /\ NeverAhead /\ Count' = Count /\ Count \in 2 .. MaxEvents
      /\ MaxEvents \in Nat /\ CountsShown' = CountsShown
      /\ UNCHANGED <<history, room, announced, ticket, opened, attached, own, pageFaults>>
  BY KnownKept, EventFacts DEF PageInv, LoadOlderEvents
<1>1. PICK q : q = [PageLoad EXCEPT !.page = timeline.page + 1, !.append = TRUE]
  OBVIOUS
<1>2. /\ q \in LoadRequest /\ q.page = timeline.page + 1 /\ q.append = TRUE /\ q.read = 0
      /\ q # NoPageLoad
  <2>1. timeline.page + 1 \in EventNumbers
    BY <1>0 DEF LoadOlderEvents, TicketPageTypeOK, NeverAhead, EventNumbers
  <2> QED
    BY <1>1, <2>1, RequestTypes DEF PageLoad, LoadRequest
<1>3. PICK starts : starts = [k \in {"timeline"} |-> q]
  OBVIOUS
<1>4. /\ {"timeline"} \in SUBSET AllHooks /\ starts \in [{"timeline"} -> LoadRequest \cup {NoPageLoad}]
      /\ starts["timeline"] = q
  BY <1>2, <1>3 DEF AllHooks, Hooks
<1>5. Began(starts)
  BY <1>1, <1>3 DEF LoadOlderEvents
<1>6. /\ latest' \in [AllHooks -> LoadRequest \cup {NoPageLoad}]
      /\ overtaken' \in [AllHooks -> LoadRequest \cup {NoPageLoad}]
      /\ \A k \in AllHooks : latest'[k] = IF k \in {"timeline"} THEN starts[k] ELSE latest[k]
  BY <1>0, <1>4, <1>5, BeganRight
<1>7. /\ latest'["timeline"] = q /\ \A k \in AllHooks : k # "timeline" => latest'[k] = latest[k]
      /\ {"details", "timeline", "attachments", "event"} \subseteq AllHooks
  BY <1>4, <1>6 DEF AllHooks, Hooks
<1>8. /\ timeline' \in [events : Seq(EventNumbers), page : EventNumbers, hasMore : BOOLEAN,
                        loading : BOOLEAN, loadingMore : BOOLEAN, failed : BOOLEAN]
      /\ timeline'.events = timeline.events
      /\ timeline'.page = timeline.page /\ timeline'.hasMore = timeline.hasMore
  BY <1>0 DEF TicketPageTypeOK, LoadOlderEvents
<1>9. /\ unheard' \in [Hooks -> 0 .. MaxEvents] /\ \A h \in Hooks : unheard'[h] <= Count
      /\ \A h \in Hooks : h # "timeline" => unheard'[h] = unheard[h]
      /\ unheard'["timeline"] = 0 => latest["timeline"] = NoPageLoad /\ unheard["timeline"] = 0
  <2>1. /\ unheard \in [Hooks -> 0 .. MaxEvents] /\ \A h \in Hooks : unheard[h] <= Count
        /\ Count \in 0 .. MaxEvents /\ Count # 0 /\ "timeline" \in Hooks
    BY <1>0 DEF TicketPageTypeOK, NeverAhead, Hooks
  <2>2. unheard' = [unheard EXCEPT !["timeline"] = IF latest["timeline"] # NoPageLoad THEN Count
                                                   ELSE unheard["timeline"]]
    BY DEF LoadOlderEvents
  <2> QED
    BY <2>1, <2>2
<1>10. TicketPageTypeOK'
  BY <1>0, <1>6, <1>8, <1>9 DEF TicketPageTypeOK
<1>11. NeverAhead'
  <2>1. ASSUME NEW k \in AllHooks PROVE RequestRight(k)'
    <3>1. CASE k = "timeline"
      BY <1>0, <1>2, <1>7, <1>8, <3>1 DEF RequestRight
    <3>2. CASE k # "timeline"
      BY <1>0, <1>7, <1>8, <3>2 DEF NeverAhead, RequestRight
    <3> QED
      BY <3>1, <3>2
  <2> QED
    BY <1>0, <1>8, <1>9, <2>1 DEF NeverAhead
<1>12. ~ReloadDue => TicketKnown' /\ FilesKnown' /\ TimelineKnown'
  <2> SUFFICES ASSUME ~ReloadDue PROVE TicketKnown' /\ FilesKnown' /\ TimelineKnown'
    OBVIOUS
  <2>1. TicketKnown /\ FilesKnown /\ TimelineKnown
    BY DEF PageInv
  <2>2. TicketKnown' /\ FilesKnown'
    BY <1>0, <1>7, <1>9, <2>1, KnownKept DEF Hooks
  <2>3. TimelineKnown'
    <3>1. \A n : ShowsPages(n)' <=> ShowsPages(n)
      BY <1>0, <1>8 DEF ShowsPages, Newest, Summarised
    <3> QED
      BY <1>0, <1>2, <1>7, <1>9, <2>1, <3>1 DEF TimelineKnown
  <2> QED
    BY <2>2, <2>3
<1> QED
  BY <1>0, <1>10, <1>11, <1>12, StepRight

(* An event is opened or closed. *)
LEMMA SelectEventRight ==
  ASSUME PageInv, NEW e \in EventNumbers, SelectEvent(e)
  PROVE  PageInv'
<1>0. /\ TicketPageTypeOK /\ NeverAhead /\ Count' = Count /\ Count \in Nat
      /\ UNCHANGED <<history, room, announced, ticket, timeline, attached, own, unheard, pageFaults>>
  BY KnownKept, EventFacts DEF PageInv, SelectEvent
<1>1. PICK q \in LoadRequest \cup {NoPageLoad} :
        /\ Began([k \in {"event"} |-> q])
        /\ \/ q = NoPageLoad /\ opened' = [event |-> 0, detail |-> 0, loading |-> FALSE]
           \/ /\ q # NoPageLoad /\ q.page = e /\ q.read = 0 /\ q.append = FALSE
              /\ opened' = [event |-> e, detail |-> 0, loading |-> TRUE]
  <2>1. CASE opened.event = e
    BY <2>1 DEF SelectEvent
  <2>2. CASE opened.event # e
    <3>1. PICK q : q = [PageLoad EXCEPT !.page = e]
      OBVIOUS
    <3>2. q \in LoadRequest /\ q.page = e /\ q.read = 0 /\ q.append = FALSE
      BY <3>1, RequestTypes DEF PageLoad, LoadRequest
    <3>3. q # NoPageLoad
      BY <3>2, RequestTypes
    <3> QED
      BY <2>2, <3>1, <3>2, <3>3 DEF SelectEvent
  <2> QED
    BY <2>1, <2>2
<1>2. PICK starts : starts = [k \in {"event"} |-> q]
  OBVIOUS
<1>3. /\ {"event"} \in SUBSET AllHooks /\ starts \in [{"event"} -> LoadRequest \cup {NoPageLoad}]
      /\ starts["event"] = q /\ Began(starts)
  BY <1>1, <1>2 DEF AllHooks
<1>4. /\ latest' \in [AllHooks -> LoadRequest \cup {NoPageLoad}]
      /\ overtaken' \in [AllHooks -> LoadRequest \cup {NoPageLoad}]
      /\ \A k \in AllHooks : latest'[k] = IF k \in {"event"} THEN starts[k] ELSE latest[k]
  BY <1>0, <1>3, BeganRight
<1>5. /\ latest'["event"] = q /\ \A k \in AllHooks : k # "event" => latest'[k] = latest[k]
      /\ {"details", "timeline", "attachments", "event"} \subseteq AllHooks
  BY <1>3, <1>4 DEF AllHooks, Hooks
<1>6. /\ opened' \in [event : 0 .. MaxEvents, detail : 0 .. MaxEvents, loading : BOOLEAN]
      /\ opened'.detail = 0 /\ (q # NoPageLoad => opened'.event = e)
  <2>1. 0 \in 0 .. MaxEvents /\ e \in 0 .. MaxEvents
    BY TicketPageAssumption DEF EventNumbers
  <2>2. CASE opened' = [event |-> 0, detail |-> 0, loading |-> FALSE] /\ q = NoPageLoad
    BY <2>1, <2>2
  <2>3. CASE opened' = [event |-> e, detail |-> 0, loading |-> TRUE]
    BY <2>1, <2>3
  <2> QED
    BY <1>1, <2>2, <2>3
<1>7. TicketPageTypeOK'
  BY <1>0, <1>4, <1>6 DEF TicketPageTypeOK
<1>8. NeverAhead'
  <2>1. ASSUME NEW k \in AllHooks PROVE RequestRight(k)'
    <3>1. CASE k = "event"
      BY <1>0, <1>1, <1>5, <1>6, <3>1 DEF RequestRight
    <3>2. CASE k # "event"
      BY <1>0, <1>5, <3>2 DEF NeverAhead, RequestRight
    <3> QED
      BY <3>1, <3>2
  <2> QED
    BY <1>0, <1>6, <2>1 DEF NeverAhead
<1>9. ~ReloadDue => TicketKnown' /\ FilesKnown' /\ TimelineKnown'
  BY <1>0, <1>5, KnownKept DEF PageInv
<1> QED
  BY <1>0, <1>7, <1>8, <1>9, StepRight

(* The own action's answer: it says what there was when it was committed.  *)
LEMMA ActionAnsweredRight ==
  ASSUME PageInv, ActionAnswered
  PROVE  PageInv'
<1>0. /\ TicketPageTypeOK /\ HistoryRight /\ NeverAhead /\ Count' = Count /\ Count \in 2 .. MaxEvents
      /\ MaxEvents \in Nat /\ own.event \in 1 .. Count
      /\ UNCHANGED <<history, room, announced, opened, attached, pageFaults>>
  BY KnownKept, EventFacts DEF PageInv, ActionAnswered, NeverAhead
<1>1. /\ timeline' \in [events : Seq(EventNumbers), page : EventNumbers, hasMore : BOOLEAN,
                        loading : BOOLEAN, loadingMore : BOOLEAN, failed : BOOLEAN]
      /\ timeline'.page = timeline.page /\ timeline'.hasMore = timeline.hasMore
  BY <1>0 DEF ActionAnswered, TimelineLoading, TicketPageTypeOK
<1>2. own' \in OwnState /\ own'.step # "answered"
  BY TicketPageAssumption DEF ActionAnswered, NoAction, OwnState
<1>3. PICK D \in SUBSET AllHooks :
        /\ Began([h \in D |-> PageLoad]) /\ "timeline" \in D /\ D \subseteq Hooks
        /\ \/ D = {"details", "timeline"} /\ unheard' = unheard
              /\ ticket' = [ticket EXCEPT !.loading = TRUE]
           \/ /\ D = {"timeline", "attachments"}
              /\ ticket' = [ticket EXCEPT !.at = own.event, !.active = ActiveAt(own.event)]
              /\ unheard' = [unheard EXCEPT !["details"] =
                               IF ActiveAt(own.event) /\ ~ticket.active THEN Count
                               ELSE IF own.event < ticket.at THEN Later(ticket.at, unheard["details"])
                               ELSE IF own.event >= unheard["details"] /\ latest["details"] = NoPageLoad
                               THEN 0 ELSE unheard["details"]]
  BY DEF ActionAnswered, AllHooks, Hooks
<1>4. PICK starts : starts = [h \in D |-> PageLoad]
  OBVIOUS
<1>5. starts \in [D -> LoadRequest \cup {NoPageLoad}] /\ Began(starts) /\ \A h \in D : starts[h] = PageLoad
  BY <1>3, <1>4, RequestTypes
<1>6. /\ latest' \in [AllHooks -> LoadRequest \cup {NoPageLoad}]
      /\ overtaken' \in [AllHooks -> LoadRequest \cup {NoPageLoad}]
      /\ \A h \in AllHooks : latest'[h] = IF h \in D THEN starts[h] ELSE latest[h]
  BY <1>0, <1>5, BeganRight
<1>7. /\ \A h \in AllHooks : latest'[h] = IF h \in D THEN PageLoad ELSE latest[h]
      /\ {"details", "timeline", "attachments", "event"} \subseteq AllHooks
      /\ {"details", "timeline", "attachments"} \subseteq Hooks
  BY <1>5, <1>6 DEF AllHooks, Hooks
<1>8. /\ unheard \in [Hooks -> 0 .. MaxEvents] /\ \A h \in Hooks : unheard[h] \in 0 .. Count
      /\ ticket \in [at : 0 .. MaxEvents, active : BOOLEAN, loading : BOOLEAN]
      /\ ticket.at \in 0 .. Count /\ ticket.active \in BOOLEAN /\ ActiveAt(own.event) \in BOOLEAN
  <2>1. /\ unheard \in [Hooks -> 0 .. MaxEvents] /\ \A h \in Hooks : unheard[h] <= Count
        /\ ticket \in [at : 0 .. MaxEvents, active : BOOLEAN, loading : BOOLEAN]
        /\ ticket.at <= Count
    BY <1>0 DEF TicketPageTypeOK, NeverAhead
  <2>2. ActiveAt(own.event) \in BOOLEAN
    BY DEF ActiveAt
  <2> QED
    BY <1>0, <2>1, <2>2
<1>9. PICK known \in 0 .. Count : known = unheard["details"]
  BY <1>7, <1>8
<1>10. PICK left \in 0 .. Count :
         /\ unheard' = [unheard EXCEPT !["details"] = left]
         /\ D = {"details", "timeline"} => left = known
         /\ D = {"timeline", "attachments"} =>
              left = IF ActiveAt(own.event) /\ ~ticket.active THEN Count
                     ELSE IF own.event < ticket.at THEN Later(ticket.at, known)
                     ELSE IF own.event >= known /\ latest["details"] = NoPageLoad THEN 0 ELSE known
  <2>1. Count \in 0 .. Count /\ 0 \in 0 .. Count /\ Later(ticket.at, known) \in 0 .. Count
    BY <1>0, <1>8 DEF Later
  <2>2. unheard = [unheard EXCEPT !["details"] = known] /\ {"details", "timeline"} # {"timeline", "attachments"}
    BY <1>8, <1>9
  <2>3. CASE D = {"details", "timeline"}
    BY <1>3, <2>2, <2>3
  <2>4. CASE D = {"timeline", "attachments"}
    BY <1>3, <1>9, <2>1, <2>2, <2>4
  <2> QED
    BY <1>3, <2>3, <2>4
<1>11. /\ unheard' \in [Hooks -> 0 .. MaxEvents] /\ \A h \in Hooks : unheard'[h] <= Count
       /\ \A h \in Hooks : h # "details" => unheard'[h] = unheard[h]
       /\ unheard'["details"] = left
  BY <1>0, <1>7, <1>8, <1>10
<1>12. /\ ticket' \in [at : 0 .. MaxEvents, active : BOOLEAN, loading : BOOLEAN]
       /\ ticket'.at <= Count
       /\ D = {"timeline", "attachments"} => ticket'.at = own.event /\ ticket'.active = ActiveAt(own.event)
  <2>0. {"details", "timeline"} # {"timeline", "attachments"}
    <3>1. "details" \in {"details", "timeline"} /\ "details" \notin {"timeline", "attachments"}
      OBVIOUS
    <3> QED
      BY <3>1, Zenon
  <2>1. CASE D = {"details", "timeline"}
    <3>1. ticket' = [ticket EXCEPT !.loading = TRUE]
      BY <1>3, <2>0, <2>1, Zenon
    <3>2. /\ ticket' \in [at : 0 .. MaxEvents, active : BOOLEAN, loading : BOOLEAN]
          /\ ticket'.at = ticket.at
      BY <1>8, <3>1
    <3> QED
      BY <1>0, <1>8, <2>0, <2>1, <3>2
  <2>2. CASE D = {"timeline", "attachments"}
    <3>1. ticket' = [ticket EXCEPT !.at = own.event, !.active = ActiveAt(own.event)]
      BY <1>3, <2>0, <2>2, Zenon
    <3>2. PICK e \in 0 .. MaxEvents, active \in BOOLEAN : e = own.event /\ active = ActiveAt(own.event)
      BY <1>0, <1>8
    <3>3. ticket' = [ticket EXCEPT !.at = e, !.active = active]
      BY <3>1, <3>2
    <3>4. /\ ticket' \in [at : 0 .. MaxEvents, active : BOOLEAN, loading : BOOLEAN]
          /\ ticket'.at = e /\ ticket'.active = active
      BY <1>8, <3>3
    <3> QED
      BY <1>0, <3>2, <3>4
  <2> QED
    BY <1>3, <2>1, <2>2
<1>13. TicketPageTypeOK'
  BY <1>0, <1>1, <1>2, <1>6, <1>11, <1>12 DEF TicketPageTypeOK
<1>14. NeverAhead'
  <2>1. ASSUME NEW h \in AllHooks PROVE RequestRight(h)'
    <3>1. CASE h \in D
      BY <1>0, <1>3, <1>7, <3>1, RequestTypes DEF RequestRight, Hooks
    <3>2. CASE h \notin D
      BY <1>0, <1>1, <1>7, <3>2 DEF NeverAhead, RequestRight
    <3> QED
      BY <3>1, <3>2
  <2> QED
    BY <1>0, <1>1, <1>2, <1>11, <1>12, <2>1 DEF NeverAhead
<1>15. ~ReloadDue => TicketKnown' /\ FilesKnown' /\ TimelineKnown'
  <2> SUFFICES ASSUME ~ReloadDue PROVE TicketKnown' /\ FilesKnown' /\ TimelineKnown'
    OBVIOUS
  <2>0. TicketKnown /\ FilesKnown /\ TimelineKnown
    BY DEF PageInv
  <2>1. TimelineKnown'
    BY <1>3, <1>7, BegunKnown, RequestTypes
  <2>2. FilesKnown'
    <3>1. CASE "attachments" \in D
      BY <1>7, <3>1, BegunKnown, RequestTypes
    <3>2. CASE "attachments" \notin D
      BY <1>0, <1>7, <1>11, <2>0, <3>2, KnownKept
    <3> QED
      BY <3>1, <3>2
  <2>3. CASE D = {"details", "timeline"}
    <3>1. TicketKnown'
      BY <1>7, <2>3, BegunKnown, RequestTypes
    <3> QED
      BY <2>1, <2>2, <3>1
  <2>4. CASE D = {"timeline", "attachments"}
    <3>0. /\ latest'["details"] = latest["details"] /\ unheard'["details"] = left
          /\ ticket'.at = own.event /\ ticket'.active = ActiveAt(own.event)
          /\ left = IF ActiveAt(own.event) /\ ~ticket.active THEN Count
                    ELSE IF own.event < ticket.at THEN Later(ticket.at, known)
                    ELSE IF own.event >= known /\ latest["details"] = NoPageLoad THEN 0 ELSE known
      BY <1>7, <1>10, <1>11, <1>12, <2>4
    <3>1. /\ TicketAsOf' = TicketAsOf /\ (IsOver' <=> IsOver) /\ Count \in TicketAsOf /\ 0 \notin TicketAsOf
          /\ \A a, b \in 0 .. Count : a <= b /\ a \in TicketAsOf => b \in TicketAsOf
      BY <1>0, KnownKept, EventFacts
    <3>2. /\ latest["details"] # NoPageLoad =>
               \/ latest["details"].read \in {0} \cup TicketAsOf
               \/ known \in TicketAsOf /\ known > latest["details"].read
          /\ latest["details"] = NoPageLoad =>
               \/ IsOver /\ ticket.active = FALSE
               \/ (IF known = 0 THEN ticket.at ELSE known) \in TicketAsOf
      BY <1>9, <2>0 DEF TicketKnown
    <3>3. latest["details"] # NoPageLoad => latest["details"].read \in 0 .. Count
      BY <1>0, <1>7 DEF NeverAhead, RequestRight, TicketPageTypeOK, LoadRequest
    <3>4. own.event < ticket.at => ActiveAt(own.event)
      BY <1>0, <1>8 DEF HistoryRight
    <3>5. CASE ActiveAt(own.event) /\ ~ticket.active
      <4>1. left = Count /\ Count # 0
        BY <1>0, <3>0, <3>5
      <4>2. latest["details"] # NoPageLoad => latest["details"].read = Count \/ Count > latest["details"].read
        BY <1>0, <3>3
      <4> QED
        BY <2>1, <2>2, <3>0, <3>1, <4>1, <4>2 DEF TicketKnown
    <3>6. CASE ~(ActiveAt(own.event) /\ ~ticket.active) /\ own.event < ticket.at
      <4>1. left = Later(ticket.at, known) /\ ticket.active = TRUE
        BY <1>8, <3>0, <3>4, <3>6
      <4>2. left >= known /\ left >= ticket.at /\ left # 0
        BY <1>0, <1>8, <3>6, <4>1 DEF Later
      <4>3. latest["details"] = NoPageLoad => left \in TicketAsOf
        BY <1>8, <3>1, <3>2, <4>1, <4>2
      <4>4. known \in TicketAsOf => left \in TicketAsOf
        BY <3>1, <4>2
      <4>5. latest["details"] # NoPageLoad /\ known > latest["details"].read => left > latest["details"].read
        BY <1>0, <3>3, <4>2
      <4> QED
        BY <2>1, <2>2, <3>0, <3>1, <3>2, <4>2, <4>3, <4>4, <4>5 DEF TicketKnown
    <3>7. CASE ~(ActiveAt(own.event) /\ ~ticket.active) /\ ~(own.event < ticket.at)
      <4>1. ticket.active = FALSE => ActiveAt(own.event) = FALSE
        BY <1>8, <3>7
      <4>2. left = IF own.event >= known /\ latest["details"] = NoPageLoad THEN 0 ELSE known
        BY <3>0, <3>7
      <4>3. CASE latest["details"] # NoPageLoad
        BY <2>1, <2>2, <3>0, <3>1, <3>2, <4>2, <4>3 DEF TicketKnown
      <4>4. CASE latest["details"] = NoPageLoad
        <5>1. CASE IsOver /\ ticket.active = FALSE
          BY <2>1, <2>2, <3>0, <3>1, <4>1, <4>4, <5>1 DEF TicketKnown
        <5>2. CASE (IF known = 0 THEN ticket.at ELSE known) \in TicketAsOf
          <6>1. own.event \in 0 .. Count /\ own.event >= ticket.at
            BY <1>0, <1>8, <3>7
          <6>2. (IF left = 0 THEN own.event ELSE left) \in TicketAsOf
            BY <1>8, <3>1, <4>2, <4>4, <5>2, <6>1
          <6> QED
            BY <2>1, <2>2, <3>0, <3>1, <4>4, <6>2 DEF TicketKnown
        <5> QED
          BY <3>2, <4>4, <5>1, <5>2
      <4> QED
        BY <4>3, <4>4
    <3> QED
      BY <3>5, <3>6, <3>7
  <2> QED
    BY <1>3, <2>3, <2>4
<1> QED
  BY <1>0, <1>13, <1>14, <1>15, StepRight

(* What is known when the page has been opened. *)
LEMMA PageInitRight ==
  ASSUME TicketPageInit
  PROVE  PageInv
<1>1. 0 \in 0 .. MaxEvents /\ 1 \in EventNumbers /\ 2 \in EventNumbers /\ 0 \in 0 .. MaxPageFaults
  BY TicketPageAssumption DEF EventNumbers
<1>2. /\ history = <<[kind |-> "change", files |-> TRUE, listed |-> <<1>>],
                     [kind |-> "change", files |-> FALSE, listed |-> <<1, 2>>]>>
      /\ room = "joining" /\ announced = <<>>
  BY DEF TicketPageInit
<1>3. /\ [kind |-> "change", files |-> TRUE, listed |-> <<1>>] \in EventRecord
      /\ [kind |-> "change", files |-> FALSE, listed |-> <<1, 2>>] \in EventRecord
  BY <1>1 DEF EventRecord
<1>4. /\ history \in Seq(EventRecord) /\ Count = 2 /\ announced \in Seq(EventNumbers)
      /\ Len(announced) = 0
  BY <1>2, <1>3 DEF Count
<1>5. HistoryRight
  <2>1. \A i \in 1 .. 2 : ActiveAt(i) /\ Len(history[i].listed) <= i
    <3>1. \A i \in 1 .. 2 : i = 1 \/ i = 2
      OBVIOUS
    <3>2. /\ history[1].kind = "change" /\ history[1].listed = <<1>>
          /\ history[2].kind = "change" /\ history[2].listed = <<1, 2>>
      BY <1>2
    <3>3. Len(<<1>>) = 1 /\ Len(<<1, 2>>) = 2
      OBVIOUS
    <3>4. ActiveAt(1) /\ ActiveAt(2) /\ Len(history[1].listed) <= 1 /\ Len(history[2].listed) <= 2
      BY <3>2, <3>3 DEF ActiveAt
    <3> QED
      BY <3>1, <3>4
  <2> QED
    BY <1>4, <2>1 DEF HistoryRight
<1>6. /\ latest \in [AllHooks -> LoadRequest \cup {NoPageLoad}]
      /\ overtaken \in [AllHooks -> LoadRequest \cup {NoPageLoad}]
      /\ \A h \in Hooks : latest[h] = PageLoad
      /\ latest["event"] = NoPageLoad
  BY RequestTypes DEF TicketPageInit, AllHooks, Hooks
<1>7. /\ ticket \in [at : 0 .. MaxEvents, active : BOOLEAN, loading : BOOLEAN] /\ ticket.at = 0
      /\ timeline \in [events : Seq(EventNumbers), page : EventNumbers, hasMore : BOOLEAN,
                       loading : BOOLEAN, loadingMore : BOOLEAN, failed : BOOLEAN]
      /\ timeline.hasMore = FALSE
      /\ opened \in [event : 0 .. MaxEvents, detail : 0 .. MaxEvents, loading : BOOLEAN]
      /\ opened.detail = 0 /\ attached \in 0 .. MaxEvents
      /\ own \in OwnState /\ own.step = "none"
      /\ unheard \in [Hooks -> 0 .. MaxEvents] /\ \A h \in Hooks : unheard[h] = 0
      /\ pageFaults \in 0 .. MaxPageFaults
  BY <1>1 DEF TicketPageInit, NoAction, OwnState
<1>8. TicketPageTypeOK
  BY <1>1, <1>2, <1>4, <1>6, <1>7 DEF TicketPageTypeOK
<1>9. AnnouncedInOrder
  BY <1>2, <1>4 DEF AnnouncedInOrder
<1>10. NeverAhead
  <2>1. \A h \in AllHooks : RequestRight(h)
    BY <1>4, <1>6, RequestTypes DEF RequestRight, AllHooks, Hooks
  <2> QED
    BY <1>4, <1>7, <2>1 DEF NeverAhead
<1>11. TicketKnown /\ FilesKnown /\ TimelineKnown
  <2>1. /\ latest["details"] = PageLoad /\ latest["attachments"] = PageLoad
        /\ latest["timeline"] = PageLoad /\ PageLoad # NoPageLoad
    BY <1>6, RequestTypes DEF Hooks
  <2> QED
    BY <2>1, RequestTypes DEF TicketKnown, FilesKnown, TimelineKnown
<1> QED
  BY <1>5, <1>8, <1>9, <1>10, <1>11 DEF PageInv

(* The inductive invariant of the page: what its hooks show, or ask for, is *)
(* as of the last event, unless they are still to be told of it; the        *)
(* announcements that wait are those of the last events, in order.          *)
THEOREM PageInvariant == TicketPageSpec => []PageInv
<1>1. TicketPageInit => PageInv
  BY PageInitRight
<1>2. PageInv /\ [TicketPageNext]_pageVars => PageInv'
  <2> SUFFICES ASSUME PageInv, [TicketPageNext]_pageVars PROVE PageInv'
    OBVIOUS
  <2>1. CASE SomeoneActs
    BY <2>1, SomeoneActsRight
  <2>2. CASE RoomJoined \/ ActionRefused \/ \E kind \in {"action", "handoff"} : ActionSent(kind)
    BY <2>2, UnnoticedRight
  <2>3. CASE ConnectionLost
    BY <2>3, ConnectionLostRight
  <2>4. CASE Reconnected
    BY <2>4, ReconnectedRight
  <2>5. CASE EventHandled
    BY <2>5, EventHandledRight
  <2>6. ASSUME NEW h \in AllHooks, ServiceReads(h) PROVE PageInv'
    BY <2>6, ServiceReadsRight
  <2>7. ASSUME NEW h \in AllHooks, LoadAnswered(h) PROVE PageInv'
    BY <2>7, LoadAnsweredRight
  <2>8. ASSUME NEW h \in AllHooks, LoadFails(h) PROVE PageInv'
    BY <2>8, LoadFailsRight
  <2>9. CASE TryAgain
    BY <2>9, TryAgainRight
  <2>10. CASE LoadOlderEvents
    BY <2>10, LoadOlderEventsRight
  <2>11. ASSUME NEW e \in EventNumbers, SelectEvent(e) PROVE PageInv'
    BY <2>11, SelectEventRight
  <2>12. CASE ActionCommits
    BY <2>12, ActionCommitsRight
  <2>13. CASE ActionAnswered
    BY <2>13, ActionAnsweredRight
  <2>14. CASE UNCHANGED pageVars
    <3>1. /\ UNCHANGED <<history, room, announced, latest, overtaken, ticket, timeline, opened,
                         attached, own, unheard, pageFaults>>
      BY <2>14 DEF pageVars, shownVars
    <3>2. TicketPageTypeOK' /\ NeverAhead'
      BY <3>1, KnownKept DEF PageInv, TicketPageTypeOK, NeverAhead, RequestRight
    <3>3. ~ReloadDue => TicketKnown' /\ FilesKnown' /\ TimelineKnown'
      BY <3>1, KnownKept DEF PageInv
    <3> QED
      BY <3>1, <3>2, <3>3, StepRight
  <2> QED
    BY <2>1, <2>2, <2>3, <2>4, <2>5, <2>6, <2>7, <2>8, <2>9, <2>10, <2>11, <2>12, <2>13, <2>14
       DEF TicketPageNext
<1> QED
  BY <1>1, <1>2, PTL DEF TicketPageSpec

(* The page's variables keep their types. *)
THEOREM PageTypeCorrect == TicketPageSpec => []TicketPageTypeOK
<1>1. PageInv => TicketPageTypeOK
  BY DEF PageInv
<1> QED
  BY <1>1, PageInvariant, PTL

(* When nothing is under way any more, the page shows the ticket as its    *)
(* last event left it, whatever order announcements and answers came in.   *)
THEOREM TicketPageIsCurrent == TicketPageSpec => []TicketPageCurrent
<1>1. PageInv => TicketPageCurrent
  <2> SUFFICES ASSUME PageInv PROVE TicketPageCurrent
    OBVIOUS
  <2>1. opened.detail \in {0, opened.event}
    BY DEF PageInv, NeverAhead
  <2>2. ASSUME announced = <<>> PROVE TicketKnown /\ FilesKnown /\ TimelineKnown /\ TicketAsOf = {Count}
    BY <2>2 DEF PageInv, ReloadDue, TicketAsOf
  <2>3. ASSUME HookIdle("details") PROVE ticket.at = Count \/ (IsOver /\ ~ticket.active)
    BY <2>2, <2>3 DEF HookIdle, PageQuiet, Hooks, TicketKnown
  <2>4. ASSUME HookIdle("timeline") PROVE \E n \in CountsShown : ShowsPages(n)
    BY <2>2, <2>4 DEF HookIdle, PageQuiet, Hooks, TimelineKnown
  <2>5. ASSUME HookIdle("attachments") PROVE \E n \in CountsShown : attached = LatestWithFiles(n)
    BY <2>2, <2>5 DEF HookIdle, PageQuiet, Hooks, FilesKnown
  <2> QED
    BY <2>1, <2>3, <2>4, <2>5 DEF TicketPageCurrent, ShowsPages
<1> QED
  BY <1>1, PageInvariant, PTL

=============================================================================
