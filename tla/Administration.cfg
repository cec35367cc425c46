SPECIFICATION Administration
CONSTANTS
  q1 = q1
  q2 = q2
  NoSecret = NoSecret
  Unlimited = Unlimited
  Providers = {p}
  Routes = {r}
  Secrets = {s1, s2, s3}
  Requests = {q1, q2}
  MaxVersion = 3
  Sole = q1
  RouteIds = {1, 2}
  Aliases = {a, b}
  Asked = {1}
  Limits = {0}
  MaxTime = 4
  MaxTroubles = 1
INVARIANTS
  CredentialsAreExact
  PrioritiesAreRanks
  ActivationCompletes
PROPERTIES
  RuntimeSettles
CHECK_DEADLOCK FALSE
