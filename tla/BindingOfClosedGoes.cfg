SPECIFICATION AccountFairSpec
CONSTANTS
  s1 = s1
  s2 = s2
  s3 = s3
  h1 = h1
  h2 = h2
  Socket <- MCSocket
  Host <- MCHost
  HostOf <- MCHostOf
  User = {u1}
  NoUser = NoUser
  MaxLogins = 2
CHECK_DEADLOCK FALSE
PROPERTY BindingOfClosedGoes
