SPECIFICATION Quota
CONSTANTS
  j1 = j1
  j2 = j2
  a1 = a1
  a2 = a2
  ka = ka
  Jwt = Jwt
  Tenant = Tenant
  Keys = {ka}
  Requests = {a1, a2}
  OwnerOf <- OwnerByRequest
  Cost <- UnitCost
  Limit <- LimitOne
  PlanLimit = 2
  DailyRequests = 2
  Budget = 4
  ScopeTokens = 3
  ScopeActive = 2
  MaxCharge = 1
  MaxDays = 1
INVARIANTS
  DailyLimitIsExact
CHECK_DEADLOCK FALSE
