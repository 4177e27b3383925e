SPECIFICATION CoreSpec
CONSTANTS
  Aggregates = {n1, n2}
  EventIds = {e1, e2, e3}
  Bodies = {m1, m2}
  Owners = {q1, q2}
  NoOwner = NoOwner
  Fibers = {f1}
  Tails = {}
  MaxSeq = 2
  MaxAnnounced = 0
  Drains = {n1, n2}
  Places = {l1, l2}
  Home = l1
  Agents = {g1, g2}
  DefaultAgent = g1
  NoAgent = NoAgent
  NoEpoch = NoEpoch
  Unread = Unread
  Unavailable = Unavailable
  MaxEvents = 2
  MaxWorld = 1
  Tasks = {n1, n2}
  Prompters = {n1, n2}
  MaxBodies = 3
  Contenders = {p1, p2, p3}
  NoOne = NoOne
  MaxFaults = 1
  Renewing = TRUE
SYMMETRY Symmetry
INVARIANT LogContiguous
INVARIANT PendingCounts
INVARIANT CompletedWithLast
INVARIANT DeliveredOnce
INVARIANT HeldIsMine
PROPERTY KeepsHistory
INVARIANT OneAtATime
PROPERTY CancelStops
PROPERTY OwnAgentOnly
PROPERTY ToldTheSnapshot
PROPERTY RequestHonoured
CHECK_DEADLOCK FALSE
