SPECIFICATION LiveExecution
CONSTANTS
  Sessions = {s1}
  Ids = {m1, m2}
  Prompts = {p1}
  Clients = {c1}
  Runners = {r1}
  NoRow = NoRow
  MaxSeq = 2
  Callers = {u1}
  NoEntry = NoEntry
  MaxSteps = 2
INVARIANT InboxDrained
PROPERTY PromptReachesHistory
