SPECIFICATION Quota
CONSTANTS
  j1 = j1
  j2 = j2
  a1 = a1
  a2 = a2
  ka = ka
  Jwt = Jwt
  Tenant = Tenant
  Keys = {ka}
  Requests = {j1, j2, a1, a2}
  OwnerOf <- OwnerByRequest
  Cost <- MixedCost
  Limit <- LimitTwo
  PlanLimit = 2
  DailyRequests = 2
  Budget = 4
  ScopeTokens = 4
  ScopeActive = 1
  MaxCharge = 2
  MaxDays = 1
INVARIANTS
  JwtWithinLimit
  ActiveOvershootBounded
  OwnerOvershootExplained
  PlanOvershootExplained
PROPERTIES
  ReserveAlwaysEnds
CHECK_DEADLOCK FALSE
