\* What product-specs.md says of the ticket lists. Expected: violated.
SPECIFICATION Spec
CONSTANTS
  sub = sub
  ann = ann
  ada = ada
  it = it
  hr = hr
  admins = admins
  AnyValue = AnyValue
  Users = {ann, ada}
  Departments = {it, admins}
  Administration = admins
  TicketIds = {t1}
  HandoffIds = {h1}
  Contents = {c1}
  MaxLifecycles = 2
  Workload <- MCSerialRequests
  Slots = {s1}
  Workers = {w1}
  NoUser = NoUser
  NoSlot = NoSlot
  InitialUsers <- MCPair
  InitialMembers <- MCMembers
INVARIANT SearchedAreViewable
