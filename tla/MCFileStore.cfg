CONSTANTS
  MaxPages = 2
  Slugs = {1, 2}
  MaxFailures = 1
  MaxCrashes = 1
  t1 = t1
  t2 = t2
  i1 = i1
  i2 = i2
  NoThread = NoThread
  Nobody = Nobody
  Thread <- Threads
  Content = {1, 2}
  MaxHistory = 2
  MaxMade = 3
  MaxFaults = 1
  MaxStops = 3
  Importer <- Importers
  MaxEdits = 2
  MaxMishaps = 1
  MaxRestores = 1
  MaxTroubles = 2
  Writable = {"root", "users"}
SYMMETRY Alike
CONSTRAINT NotRaced
ACTION_CONSTRAINT Untorn
SPECIFICATION Parts
INVARIANTS TreeFollowsDisk PagesKept HistoryImports MigrationKeeps ImportIsWhole ReportsAreTrue RestoreIsWhole OriginalsAreKept
CHECK_DEADLOCK FALSE
