\* Two reopenings, with a claim and a close in between.
SPECIFICATION Spec
CONSTANTS
  sub = sub
  ann = ann
  ada = ada
  it = it
  hr = hr
  admins = admins
  Users = {sub, ann, ada}
  Departments = {it, admins}
  Administration = admins
  TicketIds = {t1}
  HandoffIds = {h1, h2}
  Contents = {c1, c2}
  MaxLifecycles = 2
  Workload <- MCContents
  Slots = {s1, s2}
  Workers = {w1}
  NoUser = NoUser
  NoSlot = NoSlot
  InitialUsers <- MCUsers
  InitialMembers <- MCMembers
INVARIANTS HistoryReproducesContent
