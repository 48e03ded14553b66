\* One order of two lots, TC3 fills, a crash and the boot after it, under fairness.
CONSTANTS
  c1 = c1
  c2 = c2
  r1 = r1
  boot = boot
  Clients = {c1}
  MaxOrdNo = 1
  Qty = 2
  Recs = {r1}
  Boot = boot
  MaxCrashes = 1
  MaxCalls = 1
  Amends = FALSE
  Realtime = TRUE
SPECIFICATION FairSpec
CHECK_DEADLOCK FALSE
PROPERTIES ImplementsLifeCycle OrdersAreTracked BootEnds
