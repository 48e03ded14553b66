----------------------------- MODULE MCDailyLoss -----------------------------
(* Prices and an opening position for the run of DailyLoss; the averages of *)
(* lots bought at these prices are integers.                                *)
EXTENDS DailyLoss

MCPrices == {12, 24}
MCOpening == <<[q |-> 1, p |-> 12]>>
==============================================================================
