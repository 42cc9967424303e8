----------------------------- MODULE UnreadBadge -----------------------------
(***************************************************************************)
(* The unread mark of one conversation for one reader: the read receipt of *)
(* ChatService, the notification of a new message, and the badge that      *)
(* NotificationProvider keeps from notifications, a delayed refresh and    *)
(* the answers of markConversationRead.                                    *)
(*                                                                         *)
(* Messages are those of others.  Time advances when one is created; a     *)
(* message is unread if it was created after the time of the receipt.      *)
(***************************************************************************)
EXTENDS Naturals

CONSTANTS
  MaxMessages,   \* BOUND: messages that others send
  Marks,         \* BOUND: read requests of the reader that can be under way
  Counts,        \* BOUND: count requests that can be under way
  MaxBadgeFaults,\* BOUND: lost pushes and failed requests
  NoCount        \* no count request is the current one

ASSUME BadgeAssumption ==
  MaxMessages \in Nat /\ MaxBadgeFaults \in Nat /\ NoCount \notin Counts

VARIABLES
  clock,        \* creation times so far
  writing,      \* the creation time of a message being committed, or 0
  last,         \* the creation time of the last message, or 0
  receipt,      \* lastReadAt of the reader, or 0
  notices,      \* notifications under way to the reader
  arriving,     \* messages pushed to the reader's open conversation
  page,         \* the page of the conversation
  window,       \* the reader's window
  marks,        \* the read requests
  counts,       \* the count requests
  current,      \* the count request whose answer is used
  timer,        \* a refresh is scheduled
  badge,        \* the conversation is in unreadChatIds
  missed,       \* something was lost that no later refresh made up for (history)
  badgeFaults

badgeVars == <<clock, writing, last, receipt, notices, arriving, page, window,
               marks, counts, current, timer, badge, missed, badgeFaults>>

server == <<clock, writing, last, receipt>>

Times == 0 .. MaxMessages

(* A read request on its way, with the time it took on the server, or      *)
(* answered; a count request on its way, or what it found.                 *)
MarkState == [step : {"none", "sent", "timed", "done"}, time : Times]

NoMark == [step |-> "none", time |-> 0]

CountState == {"none", "asked", "unread", "read"}

BadgeTypeOK ==
  /\ clock \in Times /\ writing \in Times /\ last \in Times /\ receipt \in Times
  /\ notices \in 0 .. MaxMessages /\ arriving \in 0 .. MaxMessages
  /\ page \in {"away", "loading", "open"} /\ window \in {"focused", "visible", "hidden"}
  /\ marks \in [Marks -> MarkState]
  /\ counts \in [Counts -> CountState] /\ current \in Counts \cup {NoCount}
  /\ timer \in BOOLEAN /\ badge \in BOOLEAN /\ missed \in BOOLEAN
  /\ badgeFaults \in 0 .. MaxBadgeFaults

BadgeInit ==
  /\ clock = 0 /\ writing = 0 /\ last = 0 /\ receipt = 0
  /\ notices = 0 /\ arriving = 0 /\ page = "away" /\ window = "focused"
  /\ marks = [m \in Marks |-> NoMark]
  /\ counts = [c \in Counts |-> "none"] /\ current = NoCount
  /\ timer = FALSE /\ badge = FALSE /\ missed = FALSE /\ badgeFaults = 0

Unread == last > receipt

BadgeFault == badgeFaults < MaxBadgeFaults /\ badgeFaults' = badgeFaults + 1

-----------------------------------------------------------------------------
(* The service *)

(* createMessage reads the clock under the lock of the ticket's row. *)
CreateStarts ==
  /\ writing = 0 /\ clock < MaxMessages
  /\ clock' = clock + 1 /\ writing' = clock + 1
  /\ UNCHANGED <<last, receipt, notices, arriving, page, window, marks, counts,
                 current, timer, badge, missed, badgeFaults>>

(* The message is committed, pushed to those in the room, and its viewers  *)
(* are notified.                                                           *)
CreateCommits ==
  /\ writing > 0
  /\ last' = writing /\ writing' = 0
  /\ notices' = notices + 1
  /\ arriving' = IF page # "away" THEN arriving + 1 ELSE arriving
  /\ UNCHANGED <<clock, receipt, page, window, marks, counts, current, timer,
                 badge, missed, badgeFaults>>

(* markConversationRead reads the clock, and overwrites the receipt. *)
MarkTimed(m) ==
  /\ marks[m].step = "sent"
  /\ marks' = [marks EXCEPT ![m] = [step |-> "timed", time |-> clock]]
  /\ UNCHANGED <<server, notices, arriving, page, window, counts, current, timer,
                 badge, missed, badgeFaults>>

MarkWritten(m) ==
  /\ marks[m].step = "timed"
  /\ receipt' = marks[m].time /\ marks' = [marks EXCEPT ![m].step = "done"]
  /\ UNCHANGED <<clock, writing, last, notices, arriving, page, window, counts,
                 current, timer, badge, missed, badgeFaults>>

(* The inbox is read for the reader: what was lost before no longer counts. *)
CountRead(c) ==
  /\ counts[c] = "asked"
  /\ counts' = [counts EXCEPT ![c] = IF Unread THEN "unread" ELSE "read"]
  /\ missed' = IF c = current THEN FALSE ELSE missed
  /\ UNCHANGED <<server, notices, arriving, page, window, marks, current, timer,
                 badge, badgeFaults>>

-----------------------------------------------------------------------------
(* The badge *)

(* A new count request becomes the current one.  The answers of the others *)
(* can still be on their way.                                              *)
BeginCount ==
  \E c \in Counts :
    /\ counts[c] = "none"
    /\ counts' = [counts EXCEPT ![c] = "asked"] /\ current' = c

(* Mutation: any answer is used. *)
BugIsCurrent(c) == TRUE

(* useLatestRequest: only the current request's answer is used. *)
IsCurrent(c) == c = current

CountAnswered(c) ==
  /\ counts[c] \in {"unread", "read"}
  /\ badge' = IF IsCurrent(c) THEN counts[c] = "unread" ELSE badge
  /\ counts' = [counts EXCEPT ![c] = "none"]
  /\ current' = IF IsCurrent(c) THEN NoCount ELSE current
  /\ UNCHANGED <<server, notices, arriving, page, window, marks, timer, missed,
                 badgeFaults>>

CountFails(c) ==
  /\ counts[c] # "none" /\ BadgeFault
  /\ counts' = [counts EXCEPT ![c] = "none"]
  /\ current' = IF c = current THEN NoCount ELSE current
  /\ missed' = TRUE
  /\ UNCHANGED <<server, notices, arriving, page, window, marks, timer, badge>>

(* The scheduled refresh begins. *)
TimerFires ==
  /\ timer /\ timer' = FALSE
  /\ BeginCount
  /\ UNCHANGED <<server, notices, arriving, page, window, marks, badge, missed,
                 badgeFaults>>

(* The read request was answered: the badge is cleared, a count that may   *)
(* have read the old receipt is cancelled, and a new one begins.           *)
MarkChatRead(m) ==
  /\ marks[m].step = "done"
  /\ marks' = [marks EXCEPT ![m] = NoMark]
  /\ badge' = FALSE /\ timer' = FALSE
  /\ BeginCount
  /\ UNCHANGED <<server, notices, arriving, page, window, missed, badgeFaults>>

MarkFails(m) ==
  /\ marks[m] # NoMark /\ BadgeFault
  /\ marks' = [marks EXCEPT ![m] = NoMark] /\ missed' = TRUE
  /\ UNCHANGED <<server, notices, arriving, page, window, counts, current, timer, badge>>

(* focusedRef follows the focus and visibility events, but not the blur. *)
FocusedRef == window # "hidden"

(* A notification of the conversation whose page is open only sounds; it   *)
(* is lost if the page is left before it has loaded.  The push of a message*)
(* comes before its notification.                                          *)
IsCurrentChat == page # "away" /\ FocusedRef

NoticeArrives ==
  /\ notices > arriving /\ notices' = notices - 1
  /\ badge' = (badge \/ ~IsCurrentChat) /\ timer' = (timer \/ ~IsCurrentChat)
  /\ missed' = (missed \/ (IsCurrentChat /\ page = "loading"))
  /\ UNCHANGED <<server, arriving, page, window, marks, counts, current, badgeFaults>>

NoticeLost ==
  /\ notices > 0 /\ BadgeFault
  /\ notices' = notices - 1 /\ missed' = TRUE
  /\ UNCHANGED <<server, arriving, page, window, marks, counts, current, timer, badge>>

-----------------------------------------------------------------------------
(* The page of the conversation *)

IsConversationVisible == window = "focused"

SendMark ==
  \E m \in Marks : marks[m] = NoMark /\ marks' = [marks EXCEPT ![m].step = "sent"]

(* Whoever goes to a page or leaves it has the window focused. *)
ViewChat ==
  /\ page = "away" /\ window = "focused" /\ page' = "loading"
  /\ UNCHANGED <<server, notices, arriving, window, marks, counts, current, timer,
                 badge, missed, badgeFaults>>

(* The history has been loaded: it is marked read if it is in sight. *)
HistoryLoaded ==
  /\ page = "loading" /\ page' = "open"
  /\ IF IsConversationVisible THEN SendMark ELSE UNCHANGED marks
  /\ UNCHANGED <<server, notices, arriving, window, counts, current, timer, badge,
                 missed, badgeFaults>>

LeaveChat ==
  /\ page # "away" /\ window = "focused" /\ page' = "away"
  /\ arriving' = 0
  /\ UNCHANGED <<server, notices, window, marks, counts, current, timer, badge,
                 missed, badgeFaults>>

PushShown ==
  /\ arriving > 0 /\ arriving' = arriving - 1
  /\ IF IsConversationVisible THEN SendMark ELSE UNCHANGED marks
  /\ UNCHANGED <<server, notices, page, window, counts, current, timer, badge,
                 missed, badgeFaults>>

(* Coming back resets the title and schedules a refresh; with the focus,   *)
(* the open conversation is marked read.                                   *)
WindowComesBack ==
  /\ \/ window = "visible" /\ window' = "focused"
     \/ window = "hidden" /\ window' \in {"visible", "focused"}
  /\ timer' = TRUE
  /\ IF page = "open" /\ window' = "focused" THEN SendMark ELSE UNCHANGED marks
  /\ UNCHANGED <<server, notices, arriving, page, counts, current, badge, missed,
                 badgeFaults>>

WindowGoes ==
  /\ \/ window = "focused" /\ window' \in {"visible", "hidden"}
     \/ window = "visible" /\ window' = "hidden"
  /\ UNCHANGED <<server, notices, arriving, page, marks, counts, current, timer,
                 badge, missed, badgeFaults>>

-----------------------------------------------------------------------------
ServiceStep == CreateStarts \/ CreateCommits
                 \/ \E m \in Marks : MarkTimed(m) \/ MarkWritten(m)
                 \/ \E c \in Counts : CountRead(c)

ReaderStep ==
  \/ TimerFires \/ NoticeArrives \/ NoticeLost
  \/ \E c \in Counts : CountAnswered(c) \/ CountFails(c)
  \/ \E m \in Marks : MarkChatRead(m) \/ MarkFails(m)
  \/ ViewChat \/ HistoryLoaded \/ LeaveChat \/ PushShown \/ WindowComesBack \/ WindowGoes

BadgeNext == ServiceStep \/ ReaderStep

BadgeSpec == BadgeInit /\ [][BadgeNext]_badgeVars

-----------------------------------------------------------------------------
(* Properties *)

Quiet ==
  /\ writing = 0 /\ notices = 0 /\ arriving = 0 /\ ~timer
  /\ \A m \in Marks : marks[m] = NoMark
  /\ \A c \in Counts : counts[c] = "none"

(* When everything under way has arrived, the badge shows what the receipt *)
(* and the messages say, unless the reader is on the page or something was *)
(* lost since the inbox was last read: no late answer restores an unread   *)
(* mark, and none takes away the mark of a new message.                    *)
BadgeAgrees == (Quiet /\ page = "away" /\ ~missed) => badge = Unread

=============================================================================
