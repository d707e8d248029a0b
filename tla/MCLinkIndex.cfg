CONSTANTS
  a = a
  b = b
  c = c
  t1 = t1
  t2 = t2
  one = one
  two = two
  x = x
  y = y
  up = up
  NoPage = NoPage
  Page = {a, b, c}
  Initial <- Start
  Place <- Paths
  Title = {one, two}
  Content <- Contents
  Thread <- Threads
  Operations = {"create", "save", "restore", "relocate", "delete", "pin", "rebuild", "refactor"}
  MaxStamp = 3
  MaxCalls = 2
  Segment <- Slugs
  Up = up
  Path <- PagePaths
  Text <- Texts
SPECIFICATION SideBySide
SYMMETRY Symmetric
INVARIANTS OutgoingSettles ResolutionSettles ChangesAreRight LinksFollow
CHECK_DEADLOCK FALSE
