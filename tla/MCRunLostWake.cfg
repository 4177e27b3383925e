SPECIFICATION PromisesSpec
CONSTANTS
  Callers = {c1, c2}
  MaxSeq = 3
  NoEntry = NoEntry
SYMMETRY Symmetry
INVARIANT NoWakeLost
