SPECIFICATION ServerFairSpec
CONSTANTS
  Socket = {s1, s2, s3}
  RoomId = {r1, r2}
  Nobody = Nobody
  MaxPending = 1
  User = {u1}
  Host = {h1}
  HostOf <- MCHostOf
  NoUser = NoUser
  MaxLogins = 1
  Area = {r1, r2}
  AreaOf <- MCAreaOf
CHECK_DEADLOCK FALSE
PROPERTY NoticeStaysInArea
