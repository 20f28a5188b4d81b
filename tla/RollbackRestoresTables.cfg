SPECIFICATION FairSpec
CONSTANT MaxStops = 3
INVARIANT RollbackRestoresTables
CHECK_DEADLOCK FALSE
