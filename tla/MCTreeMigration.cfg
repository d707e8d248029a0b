CONSTANTS
  MaxStops = 0
SPECIFICATION MigrationSpec
INVARIANTS KindIsDerived
CHECK_DEADLOCK FALSE
