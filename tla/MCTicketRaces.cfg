\* Two requests at a time on one ticket, with the reminder worker or with
\* deactivation and membership removal.
SPECIFICATION RacesSpec
CONSTANTS
  sub = sub
  ann = ann
  ada = ada
  it = it
  hr = hr
  admins = admins
  Users = {sub, ann, ada}
  Departments = {it, admins}
  Administration = admins
  TicketIds = {t1}
  HandoffIds = {h1, h2}
  Contents = {c1}
  MaxLifecycles = 2
  Workload <- MCRaces
  Slots = {s1, s2}
  Workers = {w1}
  NoUser = NoUser
  NoSlot = NoSlot
  InitialUsers <- MCUsers
  InitialMembers <- MCMembers
SYMMETRY MCSymmetry
INVARIANTS TypeOK TicketsConsistent PendingHandoffsLive NoDuplicatePending
PROPERTIES ResolvedOnce FollowsProtocol OnlyOwnTicketsSwept
