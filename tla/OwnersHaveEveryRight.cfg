\* The permission createTableByUserId adds names no table.
CONSTANTS
  Request = {r1, r2}
  k1 = k1
  User = {u1}
  Host = {h}
  Key = {key}
  Value = {v}
  Token = {k1}
  TableId = {t1, t2}
  EntryId = {e1}
  ByHand <- MCByHand
  Null = Null
SPECIFICATION Spec
INVARIANT OwnersHaveEveryRight
CHECK_DEADLOCK FALSE
