\* Two requests at a time on two tables: every pair of queries may interleave.
CONSTANTS
  Request = {r1, r2}
  k1 = k1
  User = {u1}
  Host = {h}
  Key = {key}
  Value = {v}
  Token = {k1}
  TableId = {t1, t2}
  EntryId = {e1}
  ByHand <- MCByHand
  Null = Null
SPECIFICATION Spec
SYMMETRY Symmetry
INVARIANTS StatementsAreAllowed RowsReferToRows
PROPERTY ChangesAreAllowed
CHECK_DEADLOCK FALSE
