\* Two reminder workers beside three lifecycles of a ticket.
SPECIFICATION Spec
CONSTANTS
  sub = sub
  ann = ann
  ada = ada
  it = it
  hr = hr
  admins = admins
  Users = {ann, ada}
  Departments = {it, admins}
  Administration = admins
  TicketIds = {t1}
  HandoffIds = {h1}
  Contents = {c1}
  MaxLifecycles = 3
  Workload <- MCReminders
  Slots = {s1}
  Workers = {w1, w2}
  NoUser = NoUser
  NoSlot = NoSlot
  InitialUsers <- MCPair
  InitialMembers <- MCMembers
INVARIANTS OneReminderPerLifecycle
