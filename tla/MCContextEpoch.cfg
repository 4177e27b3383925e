SPECIFICATION EpochSpec
CONSTANTS
  Drains = {n1, n2}
  Places = {l1, l2}
  Agents = {g1}
  DefaultAgent = g1
  NoAgent = NoAgent
  NoEpoch = NoEpoch
  Unread = Unread
  Unavailable = Unavailable
  MaxEvents = 2
  MaxWorld = 0
INVARIANT NoStaleContext
CHECK_DEADLOCK FALSE
