\* A long lot and one more execution, two prices, two origins, two days and a
\* restart.
CONSTANTS
  Lots = {1, 2}
  Prices <- MCPrices
  Mult = 2
  PnlGiven = {TRUE, FALSE}
  Origins = {"recon", "tc"}
  LimitRealized = 24
  LimitEval = 48
  MaxNet = 2
  Opening <- MCOpening
  MaxExecs = 2
  MaxDays = 2
  MaxRestarts = 1
  None = None
SPECIFICATION Spec
INVARIANTS TypeOK HaltIffLoss ProfitAddsUp
