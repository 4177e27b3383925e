SPECIFICATION InboxSpec
CONSTANTS
  Sessions = {s1, s2}
  Ids = {m1, m2}
  Prompts = {p1}
  Clients = {c1, c2}
  Runners = {r1, r2}
  NoRow = NoRow
  MaxSeq = 3
SYMMETRY Symmetry
INVARIANT HistoryMatchesInbox
INVARIANT PromotedInOrder
INVARIANT ReceiptsHold
PROPERTY DiesOnlyPoisoned
CHECK_DEADLOCK FALSE
