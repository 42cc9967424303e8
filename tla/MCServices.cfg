\* Chat: two texts, one page of one message, two attempts, one fault.
\* Badge: two messages, one read request and two counts at a time, one fault.
\* Operations: two sessions, two logins with two callbacks, two sockets.
\* Assistant: three requests, two tabs, one conversation and one turn kept.
\* Notifications: two mails, two attempts, two faults, one move.
\* Accounts: two identities and addresses, two sign-ins, two accounts.
\* Tool: two runs, one department beside Administration, two other changes.
\* Options: two priorities, one department, two administrators, two edits.
\* Ticket page: four events, one to a page, one fault.
\* Lists: two sections, filters and pages, two visits, one change of the data.
SPECIFICATION ServicesSpec
CONSTANTS
  People = {1, 2}
  NumTexts = 2
  Author <- MCAuthor
  PageSize = 1
  MaxAttempts = 2
  MaxChatFaults = 1
  MaxJoins = 1
  MaxMessages = 2
  Marks = {m1}
  Counts = {c1, c2}
  MaxBadgeFaults = 1
  NoCount = NoCount
  s1 = s1
  s2 = s2
  l1 = l1
  l2 = l2
  w1 = w1
  w2 = w2
  k1 = k1
  k2 = k2
  SessionIds = {s1, s2}
  Logins = {l1, l2}
  Callbacks = {b1, b2}
  Sockets = {k1, k2}
  Requests = {w1, w2}
  NoLogin = NoLogin
  NoSession = NoSession
  NoSocket = NoSocket
  p1 = p1
  p2 = p2
  Tabs = {p1, p2}
  MaxAsks = 3
  Tickets = {n1, n2}
  MaxTurns = 1
  MaxConversations = 1
  MaxToolCalls = 1
  Nothing = Nothing
  Persons = {1, 2, 3}
  Submitter = 1
  Requester = 1
  AskedAgent = 2
  Mails = {1, 2}
  MaxMailAttempts = 2
  MaxMailFaults = 2
  MaxMoves = 1
  Nobody = Nobody
  Identities = {i1, i2}
  Emails = {e1, e2}
  Rows = {1, 2}
  SignIns = {1, 2}
  MaxFetches = 2
  MaxAccountFaults = 2
  MaxEmailMoves = 1
  NoIdentity = NoIdentity
  NoRow = NoRow
  Ordinary = {d1}
  Administration = Administration
  Operators = {o1, o2}
  MaxAppChanges = 2
  NoOperator = NoOperator
  a1 = a1
  a2 = a2
  q2 = q2
  Priorities = {q1, q2}
  DepartmentRows = {r1}
  FirstOptions = {q1, q2}
  Editors = {a1, a2}
  MaxEdits = 2
  MaxOptionFaults = 1
  NoEdit = NoEdit
  o2 = o2
  i1 = i1
  n2 = n2
  EventsPerPage = 1
  MaxEvents = 4
  MaxPageFaults = 1
  NoPageLoad = NoPageLoad
  MaxDataChanges = 1
  MaxVisits = 2
  MaxListFaults = 1
  NoLoad = NoLoad
INVARIANTS
  MessageOnce OrderKept SendsAdvance SyncedPanelShowsNewest  SessionsJustified
   PresenceFollowsSockets OneTicketInspected 
  MailAccounted AccountKept  TicketPageCurrent ListPageCurrent
PROPERTIES
  SentWhileClaimed StoredStaysStored NoRevival PrefillJustified 
VIEW movingVars
CHECK_DEADLOCK FALSE
