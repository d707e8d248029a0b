CONSTANTS
  x = x
  y = y
  c1 = c1
  Place = {x, y}
  Items <- TwoFiles
  Edited = {y}
  Request = {c1}
  NoPlan = NoPlan
  NoPage = NoPage
  MaxUploads = 2
  MaxRuns = 2
  MaxEdits = 1
  MaxFaults = 2
  Spent <- Budgets
  Name <- Names
  Index = "index"
  Dotted = {"v"}
  Up = "up"
  Fold <- Lower
  Slug <- SlugOf
  Archive <- Archives
  MaxUploadFailures = 1
  MaxResumes = 1
SPECIFICATION Parts
INVARIANTS OutcomesComplete ImportedLinksLand
PROPERTIES WritesAreFresh ImportEnds
CHECK_DEADLOCK FALSE
