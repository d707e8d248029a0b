CONSTANTS
  root = root
  n1 = n1
  n2 = n2
  n3 = n3
  n4 = n4
  lower = lower
  upper = upper
  other = other
  third = third
  Root = root
  Id <- Pages
  Slug = {lower, upper, other, third}
  Fold <- Folded
SYMMETRY Interchangeable
SPECIFICATION TreeSpec
INVARIANTS TreeShape MovesLand
PROPERTIES ImplementsOrder
CHECK_DEADLOCK FALSE
