\* Another tab removes or overwrites an account; the buttons keep their indices.
CONSTANTS
  Call = {c, d}
  bob = bob
  Bob = Bob
  al = al
  Account = {bob, al}
  User = {bob, al}
  UserOf <- OneRowForBob
  MaxUsers = 2
  MaxCopies = 1
  Null = Null
SPECIFICATION Spec
INVARIANT ButtonsKeepTheirAccounts
