SPECIFICATION Spec
CONSTANTS
  Request = {q1, q2}
  PasskeyId = {k1, k2, k3}
  Password = {p1, p2}
  NoPassword = NoPassword
INVARIANT OneMethodLeft
CHECK_DEADLOCK FALSE
