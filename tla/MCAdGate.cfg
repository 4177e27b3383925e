SPECIFICATION AdSpec
CONSTANTS
  Sessions = {s1}
  Advertisers = {d1, d2}
  NoAd = NoAd
  Slots = {t1}
  MaxPerHour = 1
  FrequencyCap = 2
  Interval = 1
  Hour = 3
  Starts = {2}
  MaxTime = 5
  MaxAds = 4
INVARIANT AtMostPerHour
CHECK_DEADLOCK FALSE
