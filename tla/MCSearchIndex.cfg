CONSTANTS
  t1 = t1
  t2 = t2
  place1 = place1
  place2 = place2
  Startup = Startup
  Resync = Resync
  Page = {1, 2}
  Place = {place1, place2}
  Thread <- Threads
  MaxStamp = 2
  MaxRebuilds = 0
  EffectsFail = FALSE
  Bare = {}
SPECIFICATION Parts
SYMMETRY Alike
INVARIANTS IndexSettles OnlyClearsCloseCircles
PROPERTY IndexAdvances
CHECK_DEADLOCK FALSE
