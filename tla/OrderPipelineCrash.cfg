\* Two orders of one lot, a crash and the boot after it.
CONSTANTS
  c1 = c1
  c2 = c2
  r1 = r1
  boot = boot
  Clients = {c1, c2}
  MaxOrdNo = 2
  Qty = 1
  Recs = {r1}
  Boot = boot
  MaxCrashes = 1
  MaxCalls = 0
  Amends = FALSE
  Realtime = FALSE
SPECIFICATION Spec
CHECK_DEADLOCK FALSE
SYMMETRY Sym
INVARIANTS TypeOK AtMostOneOrder BookedOnce
PROPERTIES BootResolves
