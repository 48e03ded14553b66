\* One client, one run of the strategies, in the live bucket.
CONSTANTS
  A = A
  c1 = c1
  k1 = k1
  Live = TRUE
  Symbols <- MCSymbols
  Price = 1
  RateFloor = 1
  RateMid = 2
  RateCeil = 3
  Limits <- MCLimits
  Clients = {c1}
  Cycles = {k1}
  Intents <- MCIntents
  Quotes <- MCQuotes
  Cash <- MCCash
  Marks <- MCMarks
  Lots0 <- MCLots0
  MaxOrders = 2
  MaxCrashes = 1
  AmendQty = {2}
SPECIFICATION Spec
INVARIANTS TypeOK OpenOvershoot DailyOvershoot ApprovedIsUnsent UncountedIsExplained ShortHasACause
