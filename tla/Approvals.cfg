SPECIFICATION Spec
CONSTANTS
  x0 = x0
  x1 = x1
  x2 = x2
  y = y
  z = z
  alice = alice
  bob = bob
  X = X
  Y = Y
  a = a
  b = b
  k = k
  l = l
  d = d
  e = e
  None = None
  Calls = {x0, x1, x2, y, z}
  Who <- WhoCalls
  Hash <- HashOfCall
  Sensitive = {X}
  Harmless = {}
  Approvals = {a}
  Keys = {k, l}
  Admins = {d}
  StrayReferences = TRUE
INVARIANTS
  OneRunPerApproval
  OnlyApprovedCallsRun
  ReplayIsOfTheSameCall
PROPERTIES
  ImplementsLifecycle
CHECK_DEADLOCK FALSE
