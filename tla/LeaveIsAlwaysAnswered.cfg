SPECIFICATION FairSpec
CONSTANTS
  Socket = {s1, s2, s3}
  RoomId = {r1}
  Nobody = Nobody
  MaxPending = 3
PROPERTY LeaveIsAlwaysAnswered
CHECK_DEADLOCK FALSE
