\* One order of two lots; amends, cancels, a crash, an order of another program.
CONSTANTS
  c1 = c1
  kr = kr
  ovs = ovs
  Clients = {c1}
  Markets <- MCMarkets
  MarketOf <- MCMarketOf
  OVS = ovs
  Codes <- MCCodes
  MaxOrdNo = 2
  Qty = 2
  AmendQty = {2}
  Recs = {r1}
  Boot = boot
  MaxCrashes = 1
  MaxCalls = 1
  Foreign <- MCForeign
SPECIFICATION FairSpec
INVARIANTS TypeOK LiveClosedIsClosed LiveFillsAreExecuted DoubledStaysOpen ActiveIsSynced
PROPERTIES LiveImplementsLifeCycle LiveBootEnds
CHECK_DEADLOCK FALSE
