\* A browser with two requests at a time, and one user under two spellings.
CONSTANTS
  Request = {r1, r2}
  bob = bob
  Bob = Bob
  alice = alice
  u1 = u1
  u2 = u2
  Account = {bob, Bob}
  User = {u1}
  UserOf <- MCUserOf
  Connections = 2
  MaxFailed = 1
  Null = Null
SPECIFICATION SafetySpec
SYMMETRY Symmetry
INVARIANTS NoAccountTwice
PROPERTIES OnlyPasskeyLoginsKeepConnections OthersStayAsTheyAre
