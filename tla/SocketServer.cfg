SPECIFICATION ServerSpec
CONSTANTS
  Socket = {s1, s2, s3}
  RoomId = {r1}
  Nobody = Nobody
  MaxPending = 1
  User = {u1}
  Host = {h1}
  HostOf <- MCHostOf
  NoUser = NoUser
  MaxLogins = 1
  Area = {r1}
  AreaOf <- MCAreaOf
SYMMETRY Symmetry
CHECK_DEADLOCK FALSE
INVARIANTS
  ServerTypeOK
  MatesAreNoticed
  NobodyPlaysTwice
PROPERTIES
  ImplementsAccounts
