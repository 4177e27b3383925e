SPECIFICATION CreditsSpec
CONSTANTS
  Users = {u1}
  Calls = {c1, c2}
  Amounts = {1, 2}
  CreditTypes = {"ad_view"}
  MaxEarned = 12
  MaxWallets = 2
  Withdrawals = {w1, w2}
  NoWithdrawal = NoWithdrawal
  MinWithdrawal = 1
  Methods = {"manual", "gateway"}
  Claims = {k1, k2}
  Impressions = {i1, i2}
  NoImpression = NoImpression
  ViewReward = 1
  ClickReward = 2
  DailyCap = 3
  MaxDays = 1
  Sessions = {s1}
  Advertisers = {a1, a2}
  NoAd = NoAd
  Slots = {t1, t2}
  MaxPerHour = 2
  FrequencyCap = 1
  Interval = 2
  Hour = 3
  Starts = {0, 2}
  MaxTime = 5
  MaxAds = 4
  Accounts = {b1, b2}
  Refs = {r1, r2}
  Requests = {q1, q2}
  Nothing = Nothing
  Costs = {1, 2}
  Deposits <- PaysOrTakes
  MaxSpent = 3
  MaxCrashes = 2
  Asks = {k1, k2}
  Repliers = {i1, i2}
  Nil = Nil
  SessionIds = {d1, d2}
  Resources = {e1, e2}
  MaxLost = 1
SYMMETRY Symmetry
INVARIANT LedgerExplainsWallet
INVARIANT OverdraftBounded
INVARIANT PaidOnce
INVARIANT DailyCapHolds
INVARIANT MarkedIsPaid
INVARIANT CapsHold
INVARIANT BooksOffByCrashes
INVARIANT OverdraftByInFlight
INVARIANT NotLeftAsking
INVARIANT AnswersAgree
PROPERTY SerialContract
PROPERTY Spaced
\* Nothing is left to do once the bounds are reached.
CHECK_DEADLOCK FALSE
