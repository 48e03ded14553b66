\* One order of two lots that is amended while reconcile runs.
CONSTANTS
  c1 = c1
  c2 = c2
  r1 = r1
  boot = boot
  Clients = {c1}
  MaxOrdNo = 2
  Qty = 2
  Recs = {r1}
  Boot = boot
  MaxCrashes = 0
  MaxCalls = 1
  Amends = TRUE
  Realtime = FALSE
SPECIFICATION Spec
CHECK_DEADLOCK FALSE
INVARIANTS FillsAreExecutions ClosedIsClosed
PROPERTIES CatchesUp
