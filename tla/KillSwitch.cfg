\* A paper entry, level 1 in the account or level 2 in the market, one request
\* at a time.
CONSTANTS
  e1 = e1
  x1 = x1
  r1 = r1
  Orders = {e1}
  Live = {}
  Exits = {}
  Runs = {r1}
  Lots0 = 0
  Requests <- MCRequests
SPECIFICATION Spec
INVARIANTS TypeOK HaltStopsEntries SweepsTheBook NeverOversells
