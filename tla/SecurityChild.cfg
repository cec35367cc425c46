SPECIFICATION AdmissionSpec
CONSTANTS
  m1 = m1
  m2 = m2
  m3 = m3
  o1 = o1
  o2 = o2
  None = None
  Models = {m1, m2, m3}
  Operations = {o1, o2}
  Amounts = {1, 2}
  Policies <- ListRows
  MaxRows = 3
  write = write
  drop = drop
  v1 = v1
  v2 = v2
  Tools = {write, drop}
  RiskOf <- ToolRisks
  Values = {v1, v2}
  Limits = {1, 2}
  ToolPolicies <- ToolRows
  Plans <- PlanRows
  ToolRowsAtMost = 2
  c1 = c1
  c2 = c2
  c3 = c3
  rpm = rpm
  server = server
  tool = tool
  other = other
  Calls = {c1, c2, c3}
  Counters = {rpm, server, tool, other}
  Windows = {rpm}
  Uses <- Lists
  Limit <- CounterLimits
  WindowLength = 2
  WindowTtl = 4
  SlotTtl <- SlotTtls
  Deadline <- Deadlines
  Punctual = {c1, c2}
  Kinds = {"secret", "mail"}
  Recommended <- BlockOrRedact
  Findings <- FoundSets
  SecurityPolicies <- SecurityRules
  Tiers = {"free", "core", "pro"}
  Requests <- TwoParts
  SecurityRowsAtMost = 2
  MaxEdits = 1
  TextLength = 4
  Leaf <- Strings
  k1 = k1
  p1 = p1
  p2 = p2
  t = t
  u = u
  Kids = {k1}
  Tenants = {t, u}
  Projects = {p1, p2}
  OwnerOf <- ProjectsOfT
  AdminRole = "gateway_admin"
  TokenRoles <- SomeRoles
  Callers = {"a", "b"}
  CacheTtl = 2
INVARIANTS
  ChildCannotWeaken
CHECK_DEADLOCK FALSE
