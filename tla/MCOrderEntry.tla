----------------------------- MODULE MCOrderEntry -----------------------------
(* Values for TLC: one lot costs 1, so that every limit is met by small numbers. *)
EXTENDS OrderEntry, TLC

CONSTANTS A, c1, k1

MCSymbols == {A}
MCLimits == [contracts |-> 2, open |-> 1, positions |-> 2, weight |-> 100, orderCap |-> 6,
             bucketCap |-> 2, liveCap |-> 2, daily |-> 5, guard |-> FALSE]
MCIntents ==
  {[sym |-> A, side |-> "buy", exit |-> FALSE, qty |-> n, limit |-> TRUE] : n \in 1..2}
MCQuotes == [MCSymbols -> {"rise", "drop"}]
MCLots0 == [s \in MCSymbols |-> IF s = A THEN 1 ELSE 0]
MCCash == {-1}
MCMarks == {MCSymbols}
===============================================================================
