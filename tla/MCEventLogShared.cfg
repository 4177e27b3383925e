SPECIFICATION SharedSpec
CONSTANTS
  Aggregates = {a1}
  EventIds = {e1, e2, e3}
  Bodies = {b1}
  Owners = {o1}
  NoOwner = NoOwner
  Fibers = {f1, f2}
  Tails = {s1}
  MaxSeq = 2
  MaxAnnounced = 2
INVARIANT TailGapFree
INVARIANT NoLostWake
PROPERTY TailCatchesUp
