SPECIFICATION Spec
CONSTANTS
  Users = {u1, u2}
  Tenants = {t1, t2}
  Invitations = {i}
  Requests = {q1, q2}
INVARIANTS
  InvitationsGrantOnce
  OneGatewayAdmin
CHECK_DEADLOCK FALSE
