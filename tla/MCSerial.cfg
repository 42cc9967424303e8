\* One request at a time: administration, departments, contents, handoffs;
\* and what the queries show after each.
SPECIFICATION Spec
CONSTANTS
  sub = sub
  ann = ann
  ada = ada
  it = it
  hr = hr
  admins = admins
  AnyValue = AnyValue
  Users = {ann, ada}
  Departments = {it, admins}
  Administration = admins
  TicketIds = {t1}
  HandoffIds = {h1}
  Contents = {c1, c2}
  MaxLifecycles = 2
  Workload <- MCSerialRequests
  Slots = {s1}
  Workers = {w1}
  NoUser = NoUser
  NoSlot = NoSlot
  InitialUsers <- MCPair
  InitialMembers <- MCMembers
SYMMETRY MCSymmetry
INVARIANTS AgentsEligible PartiesEligible SomeActiveAdmin EmployeesHaveNoDepartment ActiveTicketsInActiveDepartments HistoryReproducesContent
  ListedAreViewable ViewsAgree
