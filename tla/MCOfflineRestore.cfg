CONSTANTS
  MaxRestores = 1
  MaxTroubles = 2
  Writable = {"root", "users"}
SPECIFICATION RestoreSpec
INVARIANTS FailureLeavesDataUntouched
CHECK_DEADLOCK FALSE
