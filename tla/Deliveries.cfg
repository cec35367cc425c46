SPECIFICATION Deliveries
CONSTANTS
  e1 = e1
  e2 = e2
  w1 = w1
  w2 = w2
  NoEvent = NoEvent
  Events = {e1, e2}
  Workers = {w1, w2}
  MaxAttempts = 2
  Emails = {e}
  Requests = {r1, r2}
  Nothing = Nothing
INVARIANTS
  TokenVouchesForPassword
PROPERTIES
  EventsAreSettled
  MailsSettle
CHECK_DEADLOCK FALSE
