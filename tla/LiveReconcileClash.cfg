\* One order, executed, and the reconcile of the next boot.
CONSTANTS
  c1 = c1
  kr = kr
  ovs = ovs
  Clients = {c1}
  Markets <- MCMarkets
  MarketOf <- MCMarketOf
  OVS = ovs
  Codes <- MCCodes
  MaxOrdNo = 2
  Qty = 2
  AmendQty = {}
  Recs = {r1}
  Boot = boot
  MaxCrashes = 1
  MaxCalls = 1
  Foreign = {}
SPECIFICATION Spec
INVARIANT OrphansAreUnknown
CHECK_DEADLOCK FALSE
