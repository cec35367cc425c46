SPECIFICATION Registry
CONSTANTS
  NoCall = NoCall
  None = None
  Resources = {r1, r2}
  Requests = {q1, q2}
  Limit = 1
  Tools = {t1, t2}
  Calls = {c1, c2}
  MaxVersion = 3
  MaxSessions = 2
  StdioCalls = {x1, x2, x3}
  MaxLines = 2
INVARIANTS
  SessionsAreCurrent
  AnswersMatch
  PlanCapacityHolds
  ChangesAreKept
PROPERTIES
  RefreshReplacesTools
  StdioRequestsEnd
CHECK_DEADLOCK FALSE
