\* A claim beside a modification that moves the ticket.
SPECIFICATION Spec
CONSTANTS
  sub = sub
  ann = ann
  ada = ada
  it = it
  hr = hr
  admins = admins
  Users = {sub, ann, ada}
  Departments = {it, hr, admins}
  Administration = admins
  TicketIds = {t1}
  HandoffIds = {h1, h2}
  Contents = {c1}
  MaxLifecycles = 2
  Workload <- MCClaimModify
  Slots = {s1, s2}
  Workers = {w1}
  NoUser = NoUser
  NoSlot = NoSlot
  InitialUsers <- MCUsers
  InitialMembers <- MCMembers
INVARIANTS AgentsEligible
CHECK_DEADLOCK FALSE
