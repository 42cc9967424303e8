------------------------------ MODULE MCServices ------------------------------
(***************************************************************************)
(* Ten specifications that share no state, checked in one run: in each     *)
(* behaviour one of them moves, in one of its scenarios, and the others    *)
(* stay where they start.  A scenario keeps a specification to a share of  *)
(* its steps that TLC can exhaust, and the scenarios of a specification    *)
(* take every one of its actions.                                          *)
(***************************************************************************)
EXTENDS MCChatMessages, UnreadBadge, OperationsGateway, AssistantConversation,
        Notifications, UserAccounts, MembershipTool, FilterOptions,
        TicketPage, ListPages

CONSTANTS p1, p2,   \* tabs
          a1, a2,   \* editors
          q2,       \* a priority
          s1, s2, l1, l2, k1, k2,   \* sessions, logins and sockets
          w1, w2,   \* authentications
          i1,       \* an identity
          n2,       \* a ticket
          o2        \* a run of the tool

VARIABLE part    \* the specification and the scenario that move

servicesVars == <<part, chatVars, badgeVars, operationsVars, assistantVars, notificationVars,
                  accountsVars, toolVars, optionsVars, pageVars, listVars>>

ServicesInit ==
  /\ ChatInit /\ BadgeInit /\ OperationsInit /\ AssistantInit /\ NotificationsInit
  /\ AccountsInit /\ ToolInit /\ OptionsInit /\ TicketPageInit /\ ListInit
  /\ part \in {"writer", "reader", "badge", "badge, a fault", "logins", "sockets",
               "tickets named", "prefill", "notifications", "accounts", "tool",
               "rows", "options", "ticket", "timeline", "files", "event", "lists"}
  /\ list = "tickets" \/ part = "lists"
  /\ part # "prefill" => ~available
  /\ part # "notifications" => state = "none"
  /\ emailOf[i1] = SomeEmail
  /\ part # "accounts" => \A i \in Identities : emailOf[i] = SomeEmail

-----------------------------------------------------------------------------
(* Chat: both texts are sent, and something fails or the ticket is claimed *)
(* and released, and only the writer has a panel; or one text is sent, and *)
(* the reader has a panel, the writer's loading nothing.                   *)
WriterOnly ==
  panel'[2] = panel[2] /\ socket'[2] = socket[2] /\ (chatFaults' > 0 => claimed')

OneText == task'[2] = task[2] /\ ~panel'[1].fetch.read /\ ~socket'[1].room

ChatPart ==
  /\ \/ part = "writer" /\ ChatNext /\ WriterOnly
     \/ part = "reader" /\ ChatNext /\ OneText
  /\ UNCHANGED <<part, badgeVars, operationsVars, assistantVars, notificationVars,
                 accountsVars, toolVars, optionsVars, pageVars, listVars>>

(* Badge: something fails, one count request is under way at a time, and   *)
(* the window is looked at; or nothing fails and there are two.            *)
OneCount ==
  /\ \A c, d \in Counts : counts'[c] # "none" /\ counts'[d] # "none" => c = d
  /\ window' = "focused"

BadgePart ==
  /\ \/ part = "badge, a fault" /\ BadgeNext /\ OneCount
     \/ part = "badge" /\ BadgeNext /\ badgeFaults' = 0
  /\ UNCHANGED <<part, chatVars, operationsVars, assistantVars, notificationVars,
                 accountsVars, toolVars, optionsVars, pageVars, listVars>>

(* Sessions, logins and sockets are each used once and do not differ: it   *)
(* is enough to use the first one first.                                   *)
InOrder ==
  /\ store'[s1] = "unused" => store'[s2] = "unused"
  /\ authState'[l1] = "none" => authState'[l2] = "none"
  /\ conn'[k1].step = "new" => conn'[k2].step = "new"

(* Operations: two sessions and a socket, one authentication at a time; or *)
(* a session and two sockets, HTTP requests being authenticated by w1 and  *)
(* what the sockets ask by w2.                                             *)
OneSocket ==
  conn'[k2].step = "new" /\ auth'[w2] = NoAuth /\ authState'[l2] # "expired"

OneLogin ==
  /\ authState'[l2] = "none" /\ \A l \in Logins : authState'[l] # "expired"
  /\ auth'[w1].conn = NoSocket /\ (auth'[w2] # NoAuth => auth'[w2].conn # NoSocket)

OperationsPart ==
  /\ \/ part = "logins" /\ OperationsNext /\ InOrder /\ OneSocket
     \/ part = "sockets" /\ OperationsNext /\ InOrder /\ OneLogin
  /\ UNCHANGED <<part, chatVars, badgeVars, assistantVars, notificationVars,
                 accountsVars, toolVars, optionsVars, pageVars, listVars>>

-----------------------------------------------------------------------------
(* Assistant: two requests of one tab name tickets; or three requests of   *)
(* two tabs ask for a prefill.                                             *)
About(asked) == \A r \in Asks : ask'[r].message \in asked

TicketsNamed ==
  /\ ask'[1].tab # p2 /\ ask'[1].message # n2
  /\ ask'[2].message # "many" /\ ask'[3].step = "idle"
  /\ About({"plain", "many"} \cup Tickets) /\ available' = available

PrefillAsked ==
  /\ About({"plain", "asks"}) /\ (available' => available) /\ ask'[3].message = "plain"
  /\ ask'[2].step # "idle" => conversationId'[p1] = 1
  /\ conversationId'[p2] = conversationId[p2] /\ sending'[p2] = sending[p2]

AssistantPart ==
  /\ \/ part = "tickets named" /\ AssistantNext /\ TicketsNamed
     \/ part = "prefill" /\ AssistantNext /\ PrefillAsked
  /\ UNCHANGED <<part, chatVars, badgeVars, operationsVars, notificationVars,
                 accountsVars, toolVars, optionsVars, pageVars, listVars>>

NotificationsPart ==
  /\ part = "notifications" /\ NotificationsNext
  /\ UNCHANGED <<part, chatVars, badgeVars, operationsVars, assistantVars,
                 accountsVars, toolVars, optionsVars, pageVars, listVars>>

(* Accounts: requests to Microsoft fail in a first sign-in, of an address  *)
(* that stays; or two sign-ins follow, and addresses move.                 *)
AccountsPart ==
  /\ part = "accounts" /\ AccountsNext
  /\ accountFaults' > 0 => signIn'[2].step = "idle" /\ emailMoves' = 0
  /\ UNCHANGED <<part, chatVars, badgeVars, operationsVars, assistantVars,
                 notificationVars, toolVars, optionsVars, pageVars, listVars>>

(* The tool is run twice, or once beside two changes by the application.   *)
ToolPart ==
  /\ part = "tool" /\ ToolNext
  /\ tool'[o2] # NoRun => appChanges' = 0
  /\ UNCHANGED <<part, chatVars, badgeVars, operationsVars, assistantVars,
                 notificationVars, accountsVars, optionsVars, pageVars, listVars>>

-----------------------------------------------------------------------------
(* Options: two administrators change rows and nothing is published; or    *)
(* one does, and the browser follows, twice if nothing fails.              *)
RowsOnly ==
  <<published, reading, channel, clientVars, lapsed, optionFaults>>'
    = <<published, reading, channel, clientVars, lapsed, optionFaults>>

OneEditor ==
  /\ edit'[a2].step = "idle" /\ edit'[a1].item \in {q2} \cup DepartmentRows \cup {NoEdit}
  /\ ~edit'[a1].renames /\ together' = together
  /\ optionFaults' > 0 => edits' <= 1

OptionsPart ==
  /\ \/ part = "rows" /\ OptionsNext /\ RowsOnly
     \/ part = "options" /\ OptionsNext /\ OneEditor
  /\ UNCHANGED <<part, chatVars, badgeVars, operationsVars, assistantVars,
                 notificationVars, accountsVars, toolVars, pageVars, listVars>>

-----------------------------------------------------------------------------
(* The ticket's page: one hook at a time has its requests answered; the    *)
(* others keep theirs open, once they have what that hook needs.           *)
Open(h) == latest'[h] # NoPageLoad => latest'[h].read = 0

OpenOnce(h, loaded) == loaded => Open(h)

TicketLoads == Open("timeline") /\ Open("attachments")

TimelineLoads ==
  /\ OpenOnce("details", ticket.at > 0) /\ Open("attachments")
  /\ own'.kind = "action" /\ opened'.event = 0
  /\ \A i \in 3 .. Len(history') : ~history'[i].files
  /\ pageFaults' > 0 => own' = NoAction /\ Len(history') <= 3

FilesLoad ==
  /\ OpenOnce("details", ticket.at > 0) /\ Open("timeline")
  /\ own'.kind = "action"
  /\ pageFaults' > 0 => own' = NoAction /\ Len(history') <= 3

EventOpens ==
  /\ OpenOnce("details", ticket.at > 0) /\ Open("attachments")
  /\ OpenOnce("timeline", timeline.events # <<>> /\ ~timeline.hasMore)
  /\ own' = own /\ history' = history /\ overtaken'["timeline"] = overtaken["timeline"]

PagePart ==
  /\ \/ part = "ticket" /\ TicketPageNext /\ TicketLoads
     \/ part = "timeline" /\ TicketPageNext /\ TimelineLoads
     \/ part = "files" /\ TicketPageNext /\ FilesLoad
     \/ part = "event" /\ TicketPageNext /\ EventOpens
  /\ UNCHANGED <<part, chatVars, badgeVars, operationsVars, assistantVars,
                 notificationVars, accountsVars, toolVars, optionsVars, listVars>>

(* Lists: two visits, and a request may fail; or one, and the rows change. *)
ListsPart ==
  /\ part = "lists" /\ ListNext /\ (listFaults' > 0 => data' = 1) /\ (data' > 1 => visits' <= 1)
  /\ UNCHANGED <<part, chatVars, badgeVars, operationsVars, assistantVars,
                 notificationVars, accountsVars, toolVars, optionsVars, pageVars>>

ServicesNext ==
  \/ ChatPart \/ BadgePart \/ OperationsPart \/ AssistantPart \/ NotificationsPart
  \/ AccountsPart \/ ToolPart \/ OptionsPart \/ PagePart \/ ListsPart

(* VIEW: what moves.  The rest is as ServicesInit has it, which leaves no   *)
(* choice in a specification that does not move.                           *)
movingVars ==
  <<part, CASE part \in {"writer", "reader"} -> chatVars
            [] part \in {"badge", "badge, a fault"} -> badgeVars
            [] part \in {"logins", "sockets"} -> operationsVars
            [] part \in {"tickets named", "prefill"} -> assistantVars
            [] part = "notifications" -> notificationVars
            [] part = "accounts" -> accountsVars
            [] part = "tool" -> toolVars
            [] part \in {"rows", "options"} -> optionsVars
            [] part = "lists" -> listVars
            [] OTHER -> pageVars>>

ServicesSpec == ServicesInit /\ [][ServicesNext]_servicesVars

=============================================================================
