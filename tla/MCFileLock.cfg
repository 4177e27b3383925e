SPECIFICATION LockSpec
CONSTANTS
  Contenders = {p1, p2}
  NoOne = NoOne
  MaxFaults = 0
  Renewing = FALSE
SYMMETRY Symmetry
INVARIANT Exclusive
