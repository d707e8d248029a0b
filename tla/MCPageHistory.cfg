CONSTANTS
  target = target
  other = other
  n1 = n1
  n2 = n2
  d1 = d1
  d2 = d2
  u1 = u1
  u2 = u2
  NoOne = NoOne
  Page <- Pair
  Below <- Flat
  Initial <- Pair
  LinksOld = {TRUE, FALSE}
  User <- Users
  Name = {}
  Data = {}
  Target = {target}
  Deletable = {other}
  Restorable = {}
  MaxRevisions = 2
  MaxSaves = 2
  MaxTouches = 1
  MaxUploads = 0
  t1 = t1
  t2 = t2
  Id = {1}
  Thread <- Threads
  Resync = Resync
  MaxStamp = 2
  MaxRebuilds = 2
  MaxFailures = 1
SPECIFICATION Parts
SYMMETRY Alike
INVARIANTS HistoryCurrent HistoryReadable SavesKept AssetsSettled MetadataSettles
CHECK_DEADLOCK FALSE
