SPECIFICATION FairSpec
CONSTANTS
  Socket = {s1, s2, s3}
  RoomId = {r1, r2}
  Nobody = Nobody
  MaxPending = 1
INVARIANTS
  TypeOK
  ListFollowsMembers
  MembersAgreeOnDM
  EmptyRoomIsOnItsWayOut
  LostDMIsReplaced
PROPERTIES
  EmptyRoomIsDestroyed
  DMRecovers
  ClosedIsForgotten
CHECK_DEADLOCK FALSE
