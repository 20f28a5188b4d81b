\* A request that overlaps stores its copy over a login.
CONSTANTS
  Call = {c, d}
  bob = bob
  Bob = Bob
  al = al
  Account = {bob, al}
  User = {bob, al}
  UserOf <- OneRowForBob
  MaxUsers = 2
  MaxCopies = 1
  Null = Null
SPECIFICATION Spec
INVARIANT LoginsAreKept
