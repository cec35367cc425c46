SPECIFICATION Registry
CONSTANTS
  NoCall = NoCall
  None = None
  Resources = {r1, r2}
  Requests = {q1, q2}
  Limit = 1
  Tools = {t1}
  Calls = {c1}
  MaxVersion = 3
  MaxSessions = 2
  StdioCalls = {x1}
  MaxLines = 1
PROPERTIES
  AdministratorAnnotationsWin
CHECK_DEADLOCK FALSE
