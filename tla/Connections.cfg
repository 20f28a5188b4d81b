\* Two requests at a time for the two connections of the pool, which
\* passkey logins may empty.
CONSTANTS
  Request = {r1, r2}
  bob = bob
  Bob = Bob
  alice = alice
  u1 = u1
  u2 = u2
  Account = {bob}
  User = {u1}
  UserOf <- MCUserOf
  Connections = 2
  MaxFailed = 1
  Null = Null
SPECIFICATION Spec
PROPERTY RequestsEnd
