CONSTANTS
  a = a
  b = b
  c = c
  t1 = t1
  t2 = t2
  one = one
  two = two
  x = x
  y = y
  up = up
  NoPage = NoPage
  Page = {a, b, c}
  Initial <- Family
  Place <- Paths
  Title = {one, two}
  Content <- Contents
  Thread <- Threads
  Operations = {"refactor"}
  MaxStamp = 3
  MaxCalls = 1
  Segment <- Slugs
  Up = up
  Path <- PagePaths
  Text = {}
SPECIFICATION SideBySide
SYMMETRY Symmetric
INVARIANTS LinksFollowRefactoring
CHECK_DEADLOCK FALSE
