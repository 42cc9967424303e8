\* Two administrators, each demoted or deactivated.
SPECIFICATION Spec
CONSTANTS
  sub = sub
  ann = ann
  ada = ada
  it = it
  hr = hr
  admins = admins
  Users = {sub, ann, ada}
  Departments = {it, admins}
  Administration = admins
  TicketIds = {t1}
  HandoffIds = {h1, h2}
  Contents = {c1}
  MaxLifecycles = 1
  Workload <- MCAdmin
  Slots = {s1, s2}
  Workers = {w1}
  NoUser = NoUser
  NoSlot = NoSlot
  InitialUsers <- MCTwoAdmins
  InitialMembers <- MCTwoAdminMembers
INVARIANTS SomeActiveAdmin
