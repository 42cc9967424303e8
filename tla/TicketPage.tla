------------------------------ MODULE TicketPage ------------------------------
(***************************************************************************)
(* The page of one ticket in the browser: the ticket itself, its timeline, *)
(* its newest files and the event opened in the timeline are loaded by     *)
(* four hooks, each with its own requests.  They are reloaded when the     *)
(* ticket's room announces an event and after the user's own actions, and  *)
(* an own action's answer replaces the ticket at once.                     *)
(*                                                                         *)
(* An event of the ticket is known by its number.  What a request read is  *)
(* the number of events there were: a ticket read at 3 is the ticket as    *)
(* event 3 left it.                                                        *)
(***************************************************************************)
EXTENDS Naturals, Sequences, FiniteSetsExt

CONSTANTS
  EventsPerPage,  \* events on a page of the timeline
  MaxEvents,      \* BOUND: events of the ticket
  MaxPageFaults,  \* BOUND: lost connections and failed requests
  NoPageLoad

ASSUME TicketPageAssumption ==
  EventsPerPage \in Nat \ {0} /\ MaxEvents \in Nat \ {0, 1} /\ MaxPageFaults \in Nat

VARIABLES
  history,        \* the ticket's events in the database
  room,           \* the page's place in the ticket's room
  announced,      \* events announced to the page and not yet handled
  latest,         \* of each hook: the request whose answer it will use
  overtaken,      \* of each hook: an older request whose answer is on its way
  ticket,         \* the ticket shown
  timeline,       \* the timeline shown
  opened,         \* the event opened in the timeline
  attached,       \* the event whose files are shown as the ticket's, or 0
  own,            \* the user's own action
  unheard,        \* of each hook: the last event it may not know of (history)
  pageFaults

shownVars == <<ticket, timeline, opened, attached>>
pageVars == <<history, room, announced, latest, overtaken, shownVars, own,
              unheard, pageFaults>>

Hooks == {"details", "timeline", "attachments"}
AllHooks == Hooks \cup {"event"}

EventNumbers == 1 .. MaxEvents
Count == Len(history)

(* A handoff request is an event that the timeline leaves out; "delete" is *)
(* the cancellation that ends the ticket.  listed is what the timeline     *)
(* lists with this event as the last.                                      *)
EventRecord ==
  [kind : {"change", "request", "delete"}, files : BOOLEAN, listed : Seq(EventNumbers)]

(* read is 0 until the service has read the database.  page is the page of *)
(* the timeline, or the event to open.                                     *)
LoadRequest == [page : EventNumbers, append : BOOLEAN, silent : BOOLEAN, read : 0 .. MaxEvents]

ASSUME NoPageLoadAssumption == NoPageLoad \notin LoadRequest

PageLoad == [page |-> 1, append |-> FALSE, silent |-> FALSE, read |-> 0]
Refresh == [PageLoad EXCEPT !.silent = TRUE]

OwnState == [step : {"none", "sent", "answered"}, kind : {"action", "handoff"}, event : 0 .. MaxEvents]
NoAction == [step |-> "none", kind |-> "action", event |-> 0]

TicketPageTypeOK ==
  /\ history \in Seq(EventRecord) /\ Count \in EventNumbers
  /\ room \in {"offline", "joining", "joined"}
  /\ announced \in Seq(EventNumbers)
  /\ latest \in [AllHooks -> LoadRequest \cup {NoPageLoad}]
  /\ overtaken \in [AllHooks -> LoadRequest \cup {NoPageLoad}]
  /\ ticket \in [at : 0 .. MaxEvents, active : BOOLEAN, loading : BOOLEAN]
  /\ timeline \in [events : Seq(EventNumbers), page : EventNumbers, hasMore : BOOLEAN,
                   loading : BOOLEAN, loadingMore : BOOLEAN, failed : BOOLEAN]
  /\ opened \in [event : 0 .. MaxEvents, detail : 0 .. MaxEvents, loading : BOOLEAN]
  /\ attached \in 0 .. MaxEvents
  /\ own \in OwnState /\ unheard \in [Hooks -> 0 .. MaxEvents]
  /\ pageFaults \in 0 .. MaxPageFaults

(* The page is opened: it asks for the room and starts its three loads. *)
TicketPageInit ==
  /\ history = <<[kind |-> "change", files |-> TRUE, listed |-> <<1>>],
                 [kind |-> "change", files |-> FALSE, listed |-> <<1, 2>>]>>
  /\ room = "joining" /\ announced = <<>>
  /\ latest = [h \in AllHooks |-> IF h \in Hooks THEN PageLoad ELSE NoPageLoad]
  /\ overtaken = [h \in AllHooks |-> NoPageLoad]
  /\ ticket = [at |-> 0, active |-> FALSE, loading |-> TRUE]
  /\ timeline = [events |-> <<>>, page |-> 1, hasMore |-> FALSE, loading |-> TRUE,
                 loadingMore |-> FALSE, failed |-> FALSE]
  /\ opened = [event |-> 0, detail |-> 0, loading |-> FALSE] /\ attached = 0
  /\ own = NoAction
  /\ unheard = [h \in Hooks |-> 0] /\ pageFaults = 0

PageFault == pageFaults < MaxPageFaults /\ pageFaults' = pageFaults + 1

-----------------------------------------------------------------------------
(* What the service reads *)

ActiveAt(n) == history[n].kind # "delete"

IsOver == ~ActiveAt(Count)

Summarised(n) == history[n].listed

ListedWith(kind) ==
  IF kind = "request" THEN Summarised(Count) ELSE Append(Summarised(Count), Count + 1)

(* A page counts from the newest event, and lists its own oldest first. *)
EventPage(n, page) ==
  LET all == Summarised(n)
      last == IF Len(all) > (page - 1) * EventsPerPage THEN Len(all) - (page - 1) * EventsPerPage ELSE 0
      first == IF last > EventsPerPage THEN last - EventsPerPage + 1 ELSE 1
  IN [items |-> SubSeq(all, first, last), hasMore |-> first > 1]

LatestWithFiles(n) == Max({0} \cup {i \in 1 .. n : history[i].files})

(* The service reads the database for a request. *)
ServiceReads(h) ==
  /\ latest[h] # NoPageLoad /\ latest[h].read = 0
  /\ latest' = [latest EXCEPT ![h].read = Count]
  /\ UNCHANGED <<history, room, announced, overtaken, shownVars, own, unheard, pageFaults>>

-----------------------------------------------------------------------------
(* The room *)

(* An event is committed and announced to the room. *)
Committed(kind, files) ==
  /\ Count < MaxEvents /\ ~IsOver
  /\ history' = Append(history, [kind |-> kind, files |-> files, listed |-> ListedWith(kind)])
  /\ IF room = "joined"
     THEN announced' = Append(announced, Count + 1) /\ UNCHANGED unheard
     ELSE unheard' = [h \in Hooks |-> Count + 1] /\ UNCHANGED announced

SomeoneActs ==
  /\ \E kind \in {"change", "request", "delete"}, files \in BOOLEAN :
       (files => kind = "change") /\ Committed(kind, files)
  /\ UNCHANGED <<room, latest, overtaken, shownVars, own, pageFaults>>

RoomJoined ==
  /\ room = "joining" /\ room' = "joined"
  /\ UNCHANGED <<history, announced, latest, overtaken, shownVars, own, unheard, pageFaults>>

ConnectionLost ==
  /\ room # "offline" /\ PageFault
  /\ room' = "offline" /\ announced' = <<>>
  /\ unheard' = IF announced = <<>> THEN unheard ELSE [h \in Hooks |-> Count]
  /\ UNCHANGED <<history, latest, overtaken, shownVars, own>>

-----------------------------------------------------------------------------
(* The hooks *)

(* A wrong variant: the answer of a replaced request is used as well. *)
BugStillCurrent(h, request) == TRUE

(* A hook uses the answer of the last request it began. *)
StillCurrent(h, request) == latest[h] = request

(* A request begins and the one before is aborted; an answer that is       *)
(* already on its way can still arrive.                                    *)
NowOvertaken(h) == IF latest[h] # NoPageLoad /\ latest[h].read > 0 THEN latest[h] ELSE overtaken[h]

Began(starts) ==
  /\ latest' = [h \in AllHooks |-> IF h \in DOMAIN starts THEN starts[h] ELSE latest[h]]
  /\ overtaken' = [h \in AllHooks |-> IF h \in DOMAIN starts THEN NowOvertaken(h) ELSE overtaken[h]]

TimelineLoading == [timeline EXCEPT !.loading = TRUE, !.failed = FALSE]

(* The listener of the ticket's room: the announced status is shown at     *)
(* once; unless the ticket is over, everything is reloaded silently.  A    *)
(* load of the ticket under way is not cancelled by its end.               *)
RemoteUpdate(over) ==
  IF over
  THEN /\ ticket' = [ticket EXCEPT !.active = FALSE]
       /\ unheard' = [unheard EXCEPT !["details"] = IF latest["details"] # NoPageLoad \/ ticket.at = 0
                                                    THEN Count ELSE @]
       /\ UNCHANGED <<latest, overtaken, timeline>>
  ELSE /\ Began([h \in Hooks |-> IF h = "attachments" THEN PageLoad ELSE Refresh])
       /\ UNCHANGED <<ticket, timeline, unheard>>

EventHandled ==
  /\ announced # <<>> /\ announced' = Tail(announced)
  /\ RemoteUpdate(history[Head(announced)].kind = "delete")
  /\ UNCHANGED <<history, room, opened, attached, own, pageFaults>>

(* The socket is back: the room is asked for again, and the listener told. *)
Reconnected ==
  /\ room = "offline" /\ room' = "joining"
  /\ RemoteUpdate(FALSE)
  /\ UNCHANGED <<history, announced, opened, attached, own, pageFaults>>

(* What an answer leaves to be told of, when it is used.  Older events are *)
(* counted from the newest: those read after the end of the ticket, which  *)
(* no reload followed, do not join those shown.                            *)
Heard(h, request) ==
  unheard' = CASE h \notin Hooks -> unheard
               [] request.append -> IF ActiveAt(request.read) THEN unheard
                                    ELSE [unheard EXCEPT !["timeline"] = Count]
               [] OTHER -> IF unheard[h] <= request.read THEN [unheard EXCEPT ![h] = 0]
                           ELSE unheard

UseTicket(request) ==
  /\ ticket' = [at |-> request.read, active |-> ActiveAt(request.read), loading |-> FALSE]
  /\ UNCHANGED <<timeline, opened, attached>>

(* "Load older" puts the page it asked for before the events shown. *)
UseEvents(request) ==
  LET page == EventPage(request.read, request.page) IN
  /\ timeline' =
       [timeline EXCEPT !.events = IF request.append THEN page.items \o @ ELSE page.items,
                        !.page = request.page, !.hasMore = page.hasMore,
                        !.loading = request.append /\ @, !.loadingMore = ~request.append /\ @]
  /\ UNCHANGED <<ticket, opened, attached>>

UseFiles(request) ==
  /\ attached' = LatestWithFiles(request.read)
  /\ UNCHANGED <<ticket, timeline, opened>>

UseDetail(request) ==
  /\ opened' = [opened EXCEPT !.detail = request.page, !.loading = FALSE]
  /\ UNCHANGED <<ticket, timeline, attached>>

Used(h, request) ==
  CASE h = "details" -> UseTicket(request)
    [] h = "timeline" -> UseEvents(request)
    [] h = "attachments" -> UseFiles(request)
    [] h = "event" -> UseDetail(request)

LoadAnswered(h) ==
  \E request \in {latest[h], overtaken[h]} \ {NoPageLoad} :
    /\ request.read > 0
    /\ IF StillCurrent(h, request)
       THEN Used(h, request) /\ Heard(h, request)
       ELSE UNCHANGED <<shownVars, unheard>>
    /\ IF latest[h] = request
       THEN latest' = [latest EXCEPT ![h] = NoPageLoad] /\ UNCHANGED overtaken
       ELSE overtaken' = [overtaken EXCEPT ![h] = NoPageLoad] /\ UNCHANGED latest
    /\ UNCHANGED <<history, room, announced, own, pageFaults>>

(* apiRequest throws: the network, a status that is not 2xx, or an answer  *)
(* that is not JSON.  Only a load that is not silent takes the ticket away.*)
LoadFails(h) ==
  /\ latest[h] # NoPageLoad /\ PageFault
  /\ latest' = [latest EXCEPT ![h] = NoPageLoad]
  /\ unheard' = IF h \in Hooks THEN [unheard EXCEPT ![h] = Count] ELSE unheard
  /\ CASE h = "details" ->
            /\ ticket' = IF latest[h].silent THEN [ticket EXCEPT !.loading = FALSE]
                         ELSE [at |-> 0, active |-> FALSE, loading |-> FALSE]
            /\ UNCHANGED <<timeline, opened, attached>>
       [] h = "timeline" ->
            /\ timeline' = [timeline EXCEPT !.failed = TRUE, !.loading = latest[h].append /\ @,
                                            !.loadingMore = ~latest[h].append /\ @]
            /\ UNCHANGED <<ticket, opened, attached>>
       [] h = "attachments" -> attached' = 0 /\ UNCHANGED <<ticket, timeline, opened>>
       [] h = "event" -> opened' = [opened EXCEPT !.loading = FALSE]
                         /\ UNCHANGED <<ticket, timeline, attached>>
  /\ UNCHANGED <<history, room, announced, overtaken, own>>

-----------------------------------------------------------------------------
(* The user *)

TicketShown == ticket.at > 0 /\ ~ticket.loading

TimelineShown == TicketShown /\ ~timeline.loading /\ ~timeline.failed

(* The buttons offered where a load failed. *)
TryAgain ==
  /\ \/ /\ ticket.at = 0 /\ ~ticket.loading
        /\ Began([h \in {"details"} |-> PageLoad]) /\ ticket' = [ticket EXCEPT !.loading = TRUE]
        /\ UNCHANGED timeline
     \/ /\ TicketShown /\ timeline.failed /\ ~timeline.loading
        /\ Began([h \in {"timeline"} |-> PageLoad]) /\ timeline' = TimelineLoading
        /\ UNCHANGED ticket
  /\ UNCHANGED <<history, room, announced, opened, attached, own, unheard, pageFaults>>

(* Loading older events is a request of the same hook: a reload under way  *)
(* is given up for it.                                                     *)
LoadOlderEvents ==
  /\ TimelineShown /\ timeline.hasMore /\ ~timeline.loadingMore
  /\ Began([h \in {"timeline"} |-> [PageLoad EXCEPT !.page = timeline.page + 1, !.append = TRUE]])
  /\ timeline' = [timeline EXCEPT !.loadingMore = TRUE]
  /\ unheard' = [unheard EXCEPT !["timeline"] = IF latest["timeline"] # NoPageLoad THEN Count ELSE @]
  /\ UNCHANGED <<history, room, announced, ticket, opened, attached, own, pageFaults>>

(* Selecting an event opens it, or closes it if it is the one open. *)
SelectEvent(e) ==
  /\ TimelineShown /\ \E i \in 1 .. Len(timeline.events) : timeline.events[i] = e
  /\ IF opened.event = e
     THEN /\ Began([h \in {"event"} |-> NoPageLoad])
          /\ opened' = [event |-> 0, detail |-> 0, loading |-> FALSE]
     ELSE /\ Began([h \in {"event"} |-> [PageLoad EXCEPT !.page = e]])
          /\ opened' = [event |-> e, detail |-> 0, loading |-> TRUE]
  /\ UNCHANGED <<history, room, announced, ticket, timeline, attached, own, unheard, pageFaults>>

(* An action of the ticket, or an answer to a handoff request. *)
ActionSent(kind) ==
  /\ own.step = "none" /\ TicketShown /\ ticket.active
  /\ own' = [NoAction EXCEPT !.step = "sent", !.kind = kind]
  /\ UNCHANGED <<history, room, announced, latest, overtaken, shownVars, unheard, pageFaults>>

ActionCommits ==
  /\ own.step = "sent"
  /\ \E kind \in {"change", "delete"}, files \in BOOLEAN :
       /\ own.kind = "handoff" => kind = "change" /\ ~files
       /\ files => kind = "change"
       /\ Committed(kind, files)
  /\ own' = [own EXCEPT !.step = "answered", !.event = Count + 1]
  /\ UNCHANGED <<room, latest, overtaken, shownVars, pageFaults>>

ActionRefused ==
  /\ own.step = "sent" /\ own' = NoAction
  /\ UNCHANGED <<history, room, announced, latest, overtaken, shownVars, unheard, pageFaults>>

Later(a, b) == IF a > b THEN a ELSE b

(* The ticket of the answer is shown whatever is shown already; the answer *)
(* to a handoff request carries none, and the ticket is loaded again.      *)
ActionAnswered ==
  /\ own.step = "answered" /\ own' = NoAction
  /\ timeline' = TimelineLoading
  /\ IF own.kind = "handoff"
     THEN /\ Began([h \in {"details", "timeline"} |-> PageLoad])
          /\ ticket' = [ticket EXCEPT !.loading = TRUE] /\ UNCHANGED unheard
     ELSE /\ Began([h \in {"timeline", "attachments"} |-> PageLoad])
          /\ ticket' = [ticket EXCEPT !.at = own.event, !.active = ActiveAt(own.event)]
          /\ unheard' = [unheard EXCEPT !["details"] =
                           IF ActiveAt(own.event) /\ ~ticket.active THEN Count
                           ELSE IF own.event < ticket.at THEN Later(ticket.at, @)
                           ELSE IF own.event >= @ /\ latest["details"] = NoPageLoad THEN 0
                           ELSE @]
  /\ UNCHANGED <<history, room, announced, opened, attached, pageFaults>>

TicketPageNext ==
  \/ SomeoneActs \/ RoomJoined \/ ConnectionLost \/ Reconnected \/ EventHandled
  \/ \E h \in AllHooks : ServiceReads(h) \/ LoadAnswered(h) \/ LoadFails(h)
  \/ TryAgain \/ LoadOlderEvents \/ \E e \in EventNumbers : SelectEvent(e)
  \/ \E kind \in {"action", "handoff"} : ActionSent(kind)
  \/ ActionCommits \/ ActionRefused \/ ActionAnswered

TicketPageSpec == TicketPageInit /\ [][TicketPageNext]_pageVars

-----------------------------------------------------------------------------
(* Properties *)

PageQuiet == announced = <<>> /\ own = NoAction /\ room = "joined"

HookIdle(h) == PageQuiet /\ latest[h] = NoPageLoad /\ (h \in Hooks => unheard[h] = 0)

(* The number of events that the timeline and the files stand for: the end *)
(* of a ticket by another is not followed by a reload of them.             *)
CountsShown == IF IsOver THEN {Count - 1, Count} ELSE {Count}

(* The pages shown, as one list. *)
Newest(n, pages) ==
  LET all == Summarised(n)
  IN SubSeq(all, IF Len(all) > pages * EventsPerPage THEN Len(all) - pages * EventsPerPage + 1 ELSE 1, Len(all))

(* When nothing is under way any more, and no announcement was missed, no  *)
(* load failed and no request was given up for an older page, the page     *)
(* shows the ticket as its last event left it, every event of the loaded   *)
(* pages once and in order, the files of the newest event that has any,    *)
(* and the event that is selected: whatever order answers, announcements   *)
(* and own actions came in.                                                *)
TicketPageCurrent ==
  /\ HookIdle("details") => ticket.at = Count \/ (IsOver /\ ~ticket.active)
  /\ HookIdle("timeline") =>
       \E n \in CountsShown : /\ timeline.events = Newest(n, timeline.page)
                        /\ timeline.hasMore = (Len(Summarised(n)) > timeline.page * EventsPerPage)
  /\ HookIdle("attachments") => \E n \in CountsShown : attached = LatestWithFiles(n)
  /\ opened.detail \in {0, opened.event}

=============================================================================
