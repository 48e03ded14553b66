------------------------------- MODULE RiskGate -------------------------------
(***************************************************************************)
(* The decisions of the risk gate (risk/gate.py, risk/caps.py,             *)
(* portfolio/metrics.py, portfolio/fx.py) as operators, for one bucket     *)
(* with one market and one currency.  All prices are Price, the contract   *)
(* multiplier is part of it, and money is an integer.  Engine state and    *)
(* halts come before these checks; KillSwitch has them.                    *)
(*                                                                         *)
(* An intent is a record [sym, side, exit, qty, limit]; limit is FALSE for *)
(* a market order, which has no price.  A context is what _build_ctx has   *)
(* read: [open, com, pos, cash], with pos[s] = [qty, eval]; cash is the     *)
(* orderable amount, -1 where there is none.                               *)
(***************************************************************************)
EXTENDS Integers, FiniteSets, FiniteSetsExt

CONSTANTS
  Live,       \* TRUE: the live bucket; FALSE: the paper bucket
  Symbols,
  Price,      \* price of one lot, in the currency of the order
  RateFloor,  \* the three exchange rates of FxRateProvider: with the buffer
  RateMid,    \*   taken off, as observed, and
  RateCeil,   \*   with the buffer added
  Limits      \* RiskLimits and the caps of the settings, as a record

ASSUME RateAssumption ==
  /\ Live \in BOOLEAN
  /\ IsFiniteSet(Symbols) /\ Symbols # {}
  /\ Price \in Nat \ {0}
  /\ {RateFloor, RateMid, RateCeil} \subseteq Nat
  /\ RateFloor <= RateMid /\ RateMid <= RateCeil

ASSUME LimitsAssumption ==
  Limits \in [contracts : Nat, open : Nat, positions : Nat, weight : 0..100,
              orderCap : Nat, bucketCap : Nat, liveCap : Nat, daily : Nat,
              guard : BOOLEAN]

Abs(n)  == IF n < 0 THEN -n ELSE n

Held(pos) == {s \in Symbols : pos[s].qty # 0}  \* positions_for: qty != 0

(* notional_in_ccy and notional_krw_ceil.                                   *)
Notional(i)    == i.qty * Price
NotionalKrw(i) == Notional(i) * RateCeil

(* _reduce_only_ok: against the position and not above it.                  *)
ReduceOnly(pos, i) ==
  LET q == pos[i.sym].qty
  IN  \/ q > 0 /\ i.side = "sell" /\ i.qty <= q
      \/ q < 0 /\ i.side = "buy" /\ i.qty <= -q

(* projected_weights and exposure_violations, for the symbol: what the      *)
(* symbol would weigh if the order were filled.                             *)
EvalOf(pos, S) == MapThenSumSet(LAMBDA s : pos[s].eval, S)

OverWeight(i, c) ==
  LET add   == Notional(i) * RateMid
      total == EvalOf(c.pos, Held(c.pos)) + c.com + add
      mine  == EvalOf(c.pos, Held(c.pos) \cap {i.sym}) + add
  IN  total > 0 /\ 100 * mine > Limits.weight * total

OverNotional(i) ==
  \/ Notional(i) > Limits.bucketCap
  \/ Live /\ Notional(i) > Limits.liveCap
  \/ NotionalKrw(i) > Limits.orderCap

(* A cap of 0 is not applied. *)
OverDaily(i, used) ==
  Live /\ Limits.daily # 0 /\ used + NotionalKrw(i) > Limits.daily

(* Mutant: one open order too many. *)
RefusedPastLimit(i, c, used) ==
  \/ i.limit /\ (OverNotional(i) \/ OverDaily(i, used))
  \/ c.open > Limits.open

(* Mutant: without the daily notional. *)
RefusedAnyDay(i, c, used) == (i.limit /\ OverNotional(i)) \/ c.open >= Limits.open

(* The reasons for which pre_check refuses an order that opens a position.  *)
(* A market order of the paper bucket has no notional to compare.           *)
Refused(i, c, used) ==
  \/ i.qty > Limits.contracts
  \/ Live /\ ~i.limit
  \/ i.limit /\ (OverNotional(i) \/ OverDaily(i, used))
  \/ i.limit /\ Held(c.pos) # {} /\ OverWeight(i, c)
  \/ i.sym \notin Held(c.pos) /\ Cardinality(Held(c.pos)) >= Limits.positions
  \/ c.open >= Limits.open
  \/ Live /\ Limits.guard /\ Held(c.pos) \ {i.sym} # {}
  \/ i.limit /\ c.cash >= 0 /\ NotionalKrw(i) > c.cash * RateFloor

(* The reasons for which check_amend refuses the new quantity: neither the  *)
(* number of open orders, nor the daily notional, nor reduce-only.          *)
AmendRefused(i, c) ==
  \/ i.qty > Limits.contracts
  \/ Live /\ ~i.limit
  \/ i.limit /\ OverNotional(i)
  \/ i.limit /\ Held(c.pos) # {} /\ OverWeight(i, c)
===============================================================================
