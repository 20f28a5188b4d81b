SPECIFICATION FairSpec
CONSTANT MaxStops = 3
INVARIANTS
  ServesOnTheLatestTables
PROPERTIES
  RowsTellTheTables
  StopsThatAreRecovered
CHECK_DEADLOCK FALSE
