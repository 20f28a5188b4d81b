SPECIFICATION Spec
CONSTANTS
  Char = {a, b}
  IdLength = 1
  MaxLength = 3
  MaxKeys = 3
SYMMETRY Symmetry
INVARIANTS
  FreshUntilReused
  ExtensionsComeAfter
CHECK_DEADLOCK FALSE
