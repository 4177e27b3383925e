\* Two calls interleave between their database statements.
CONSTANTS
  NoWithdrawal = NoWithdrawal
  Users = {u1}
  Calls = {c1, c2}
  Amounts = {1, 2}
  CreditTypes = {"ad_view"}
  MaxEarned = 3
  MaxWallets = 2
  Withdrawals = {w1}
  MinWithdrawal = 1
  Methods = {"manual", "gateway"}
\* Nothing is left to do once the credits MaxEarned allows are spent.
CHECK_DEADLOCK FALSE
SPECIFICATION Spec
INVARIANT BalanceNonNegative
