\* Requests and answers get lost or late, handlers and the gateway die.
CONSTANTS
  NoWithdrawal = NoWithdrawal
  Nothing = Nothing
  Users = {u1}
  Calls = {c1, c2}
  Amounts = {1, 2}
  CreditTypes = {"ad_view"}
  MaxEarned = 3
  MaxWallets = 1
  Withdrawals = {w1, w2}
  MinWithdrawal = 1
  Methods = {"gateway"}
  Requests = {}
  Costs = {1}
  MaxSpent = 0
  MaxCrashes = 1
\* The handlers are done when the withdrawals are used up.
CHECK_DEADLOCK FALSE
SPECIFICATION FairWithdrawSpec
INVARIANT NothingLost
INVARIANT TwiceOnlyIfLate
PROPERTY Settles
