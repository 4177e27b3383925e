SPECIFICATION ServicesSpec
CONSTANTS
  Callers = {c1, c2}
  MaxSeq = 3
  NoEntry = NoEntry
  Prompters = {p1, p2}
  MaxBodies = 2
  Contenders = {p1, p2}
  NoOne = NoOne
  MaxFaults = 1
  Renewing = TRUE
INVARIANT PlainWakeNotLost
INVARIANT NoOrphanWaiter
PROPERTY PromisedRunAnswered
PROPERTY LockRecovers
PROPERTY PromptsAnswered
CHECK_DEADLOCK FALSE
