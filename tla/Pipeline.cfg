SPECIFICATION InferenceOfChosen
CONSTANTS
  q = q
  g = g
  h = h
  old = old
  late = late
  Requests = {q}
  Gateways = {g, h}
  Home <- HomeOnFirst
  Routes = 3
  Webhooks = {old, late}
  OldWebhooks = {old}
  Batch = 1
  Plans <- UpToTwoTargets
  Principals <- OneTenant
  Models <- TwoModels
  Dialect <- OwnDialect
  None = None
  MaxChunks = 2
  MaxText = 1
  Capacity = 1
INVARIANTS
  ServedIsAccounted
  BillingFollowsLedger
  RoutesAreTriedInOrder
  ClientGetsTheText
  DeliveredIsCharged
PROPERTIES
  ImplementsLedger
  RequestSettles
CHECK_DEADLOCK FALSE
