\* A session of up to two accounts, two calls of a page at a time, and one copy
\* of the session that is older than what others have stored.
CONSTANTS
  Call = {c, d}
  bob = bob
  Bob = Bob
  al = al
  Account = {bob, al}
  User = {bob, al}
  UserOf <- OneRowForBob
  MaxUsers = 2
  MaxCopies = 1
  Null = Null
SPECIFICATION Spec
SYMMETRY Symmetry
INVARIANT OneToken
PROPERTIES LoginGoesToItsUser PasskeyGoesToItsUser
