\* Sweeps that lock two tickets in any order, beside claims.
SPECIFICATION FairSpec
CONSTANTS
  sub = sub
  ann = ann
  ada = ada
  it = it
  hr = hr
  admins = admins
  Users = {ann, ada}
  Departments = {it, admins}
  Administration = admins
  TicketIds = {t1, t2}
  HandoffIds = {h1}
  Contents = {c1}
  MaxLifecycles = 1
  Workload <- MCSweeps
  Slots = {s1, s2}
  Workers = {w1}
  NoUser = NoUser
  NoSlot = NoSlot
  InitialUsers <- MCPair
  InitialMembers <- MCMembers
PROPERTIES RequestsEnd
CHECK_DEADLOCK FALSE
