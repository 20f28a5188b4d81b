SPECIFICATION Spec
CONSTANTS
  Request = {q1, q2, q3}
  PasskeyId = {k1, k2, k3}
  Password = {p1, p2}
  NoPassword = NoPassword
SYMMETRY Symmetry
INVARIANTS
  PasswordMatchesPermission
  OneAtATimeKeepsAMethod
CHECK_DEADLOCK FALSE
