\* A page with two users and two calls at a time; a refresh is tried twice.
CONSTANTS
  Call = {a, b}
  MaxUsers = 2
  MaxRetries = 1
  Null = Null
SPECIFICATION FairSpec
INVARIANTS TypeOK LostIsNoticed
PROPERTIES OnlyLoggedInBecomeCurrent CallsEnd
