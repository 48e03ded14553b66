------------------------------ MODULE OrderEntry ------------------------------
(***************************************************************************)
(* How an order gets past the gate: OrderService.place and amend from the  *)
(* first read of the context to the daily notional, called by clients and  *)
(* by the strategy engine (strategies/engine.py, strategies/threshold.py). *)
(*                                                                         *)
(* Everything the gate decides on was read some awaits earlier: the open   *)
(* orders, then the positions, then the daily notional; and what it lets   *)
(* pass becomes a row, and is counted, some awaits later.  A step is what  *)
(* a coroutine does between two of those awaits.                           *)
(*                                                                         *)
(* Left to other modules: engine state and halts (KillSwitch), the steps   *)
(* of cancel and of reconcile, which are one step each here (OrderPipeline,*)
(* LiveReconcile).  An order is executed whole.                            *)
(***************************************************************************)
EXTENDS RiskGate

CONSTANTS
  Clients,    \* requests of the API that run at the same time
  Cycles,     \* runs of the strategy engine: the loop and POST /strategy/run
  Intents,    \* what clients ask for
  Quotes,     \* what the market may show: functions [Symbols -> {"drop", "rise", "none"}]
  Cash,       \* orderable amounts in the balance snapshot; -1: no snapshot
  Marks,      \* sets of symbols the aggregator may have marked
  Lots0,      \* lots held of each symbol at the start
  MaxOrders,  \* bound: orders that get a row
  MaxCrashes, \* bound: crashes of the server
  AmendQty    \* quantities that clients amend orders to

Callers == Clients \cup Cycles
Ids     == 1..MaxOrders

IntentType == [sym : Symbols, side : {"buy", "sell"}, exit : BOOLEAN,
               qty : Nat \ {0}, limit : BOOLEAN]

ASSUME EntryAssumption ==
  /\ IsFiniteSet(Callers) /\ Callers # {}
  /\ Clients \cap Cycles = {}
  /\ Intents \subseteq IntentType
  /\ Quotes \subseteq [Symbols -> {"drop", "rise", "none"}]
  /\ Cash \subseteq Nat \cup {-1}
  /\ Marks \subseteq SUBSET Symbols
  /\ Lots0 \in [Symbols -> Nat]
  /\ MaxOrders \in Nat
  /\ MaxCrashes \in Nat
  /\ AmendQty \subseteq Nat \ {0}

VARIABLES
  p,        \* the place or amend request of each caller
  signals,  \* intents a run of the strategies has still to place
  armed,    \* OrderService._live_armed
  row,      \* table orders, by id; twin: reconcile made a second row for it;
            \*   history: counted, the crashes before it, whether it was amended
  used,     \* risk_state.daily_notional_used_krw
  crashes,  \* number of crashes so far
  brk,      \* the broker's book, by id
  held,     \* lots really held
  pos,      \* quantities in table positions
  exitKrw   \* history: notional counted for orders that skipped the limits

vars == <<p, signals, armed, row, used, crashes, brk, held, pos, exitKrw>>
market == <<brk, held>>

PosType == [qty : Int, eval : Nat]  \* as the context has them
CtxType == [open : Nat, com : Nat, pos : [Symbols -> PosType], cash : Nat \cup {-1}]
NoCtx   == [open |-> 0, com |-> 0,
            pos |-> [s \in Symbols |-> [qty |-> 0, eval |-> 0]], cash |-> -1]
PlaceType == [pc : {"idle", "asked", "gate", "passed", "inserted", "sending",
                    "taken", "refused", "lost", "count", "amend", "amending"},
              i : IntentType, skip : BOOLEAN, ctx : CtxType, id : Ids \cup {0}]
AnyIntent == [sym |-> CHOOSE s \in Symbols : TRUE, side |-> "buy", exit |-> FALSE,
              qty |-> 1, limit |-> TRUE]
Idle == [pc |-> "idle", i |-> AnyIntent, skip |-> FALSE, ctx |-> NoCtx, id |-> 0]

RowStatus == {"none", "approved", "submitted", "accepted", "in_doubt", "rejected",
              "canceled", "filled", "quarantined"}
OpenRow == {"approved", "submitted", "accepted", "in_doubt"}  \* not TERMINAL_STATES
RowType == [st : RowStatus, i : IntentType, skip : BOOLEAN, twin : BOOLEAN,
            counted : Nat, era : Nat, amended : BOOLEAN]
NoRow == [st |-> "none", i |-> AnyIntent, skip |-> FALSE, twin |-> FALSE,
          counted |-> 0, era |-> 0, amended |-> FALSE]
BrkType == [st : {"none", "working", "done", "closed"}, qty : Nat]

TypeOK ==
  /\ p \in [Callers -> PlaceType]
  /\ signals \in [Cycles -> SUBSET IntentType]
  /\ armed \in BOOLEAN
  /\ row \in [Ids -> RowType]
  /\ used \in Nat
  /\ crashes \in Nat
  /\ brk \in [Ids -> BrkType]
  /\ held \in [Symbols -> Int]
  /\ pos \in [Symbols -> Int]
  /\ exitKrw \in Nat

Init ==
  /\ p = [c \in Callers |-> Idle]
  /\ signals = [k \in Cycles |-> {}]
  /\ armed = TRUE
  /\ row = [n \in Ids |-> NoRow]
  /\ used = 0
  /\ crashes = 0
  /\ brk = [n \in Ids |-> [st |-> "none", qty |-> 0]]
  /\ held = Lots0
  /\ pos = Lots0
  /\ exitKrw = 0

------------------------------------------------------------------------------
(* The repository. *)

OpenIds == {n \in Ids : row[n].st \in OpenRow}
Twins   == {n \in Ids : row[n].twin}

(* _committed_krw: the whole quantity of every open order at the neutral    *)
(* rate, whatever its side; a market order counts nothing.                  *)
Mid(n) == IF row[n].i.limit THEN Notional(row[n].i) * RateMid ELSE 0
Committed(but) == MapThenSumSet(Mid, OpenIds \ but) + MapThenSumSet(Mid, Twins \ but)

(* make_order_adapter raises LIVE_DISABLED.                                 *)
Closed == Live /\ ~armed

Step(c, to) == p' = [p EXCEPT ![c].pc = to]
Leave(c)    == p' = [p EXCEPT ![c] = Idle]

(* place raises: a run of the strategies ends without its other signals.    *)
Abort(c) ==
  /\ Leave(c)
  /\ signals' = [k \in Cycles |-> IF k = c THEN {} ELSE signals[k]]

------------------------------------------------------------------------------
(* The strategy engine. *)

(* ThresholdStrategy.evaluate, on the positions read once for the whole run. *)
Entry(s)   == [sym |-> s, side |-> "buy", exit |-> FALSE, qty |-> 1, limit |-> TRUE]
(* Mutant: the sign of the position is kept. *)
SellOffSigned(s) == [sym |-> s, side |-> "sell", exit |-> TRUE, qty |-> pos[s], limit |-> TRUE]

SellOff(s) == [sym |-> s, side |-> "sell", exit |-> TRUE, qty |-> Abs(pos[s]),
               limit |-> TRUE]

Evaluate(quotes) ==
  {Entry(s) : s \in {x \in Symbols : pos[x] = 0 /\ quotes[x] = "drop"}}
    \cup {SellOff(s) : s \in {x \in Symbols : pos[x] # 0 /\ quotes[x] = "rise"}}

(* The master toggle only decides whether a run begins; a run that has      *)
(* begun goes on, so that the model lets runs begin when they like.         *)
RunOnce(k) ==
  /\ p[k].pc = "idle" /\ signals[k] = {}
  /\ \E quotes \in Quotes : signals' = [signals EXCEPT ![k] = Evaluate(quotes)]
  /\ UNCHANGED <<p, armed, row, used, crashes, market, pos, exitKrw>>

------------------------------------------------------------------------------
(* place: the context. *)

Ask(c, i) ==
  /\ p[c].pc = "idle"
  /\ p' = [p EXCEPT ![c] = [Idle EXCEPT
              !.pc = "asked", !.i = i,
              !.ctx.open = Cardinality(OpenIds) + Cardinality(Twins),
              !.ctx.com = Committed({})]]

AskClient(c) ==
  /\ \E i \in Intents : Ask(c, i)
  /\ UNCHANGED <<signals, armed, row, used, crashes, market, pos, exitKrw>>

AskCycle(k) ==
  /\ \E i \in signals[k] : Ask(k, i) /\ signals' = [signals EXCEPT ![k] = @ \ {i}]
  /\ UNCHANGED <<armed, row, used, crashes, market, pos, exitKrw>>

(* The marks of the aggregator are as old as its last tick: a position that *)
(* has not been marked has no value.                                        *)
Marked(marks) ==
  [s \in Symbols |-> [qty  |-> pos[s],
                      eval |-> IF s \in marks THEN Abs(pos[s]) * Price * RateMid ELSE 0]]

ReadPositions(c) ==
  /\ p[c].pc = "asked"
  /\ \E cash \in Cash, marks \in Marks :
       p' = [p EXCEPT ![c].pc = "gate", ![c].ctx.pos = Marked(marks), ![c].ctx.cash = cash]
  /\ UNCHANGED <<signals, armed, row, used, crashes, market, pos, exitKrw>>

------------------------------------------------------------------------------
(* place: the gate. *)

(* An exit that only reduces the position skips the limits; any other exit  *)
(* is taken for an entry.                                                   *)
Skips(c) == p[c].i.exit /\ ReduceOnly(p[c].ctx.pos, p[c].i)

Quarantined == \E n \in Ids : row[n].st = "quarantined"

Passes(c) ==
  /\ ~Closed
  /\ Skips(c) \/ (~Quarantined /\ ~Refused(p[c].i, p[c].ctx, used))

GatePasses(c) ==
  /\ p[c].pc = "gate"
  /\ Passes(c)
  /\ p' = [p EXCEPT ![c].pc = "passed", ![c].skip = Skips(c), ![c].ctx = NoCtx]
  /\ UNCHANGED <<signals, armed, row, used, crashes, market, pos, exitKrw>>

GateRefuses(c) ==
  /\ p[c].pc = "gate"
  /\ ~Passes(c)
  /\ Leave(c)
  /\ UNCHANGED <<signals, armed, row, used, crashes, market, pos, exitKrw>>

------------------------------------------------------------------------------
(* place: the row, the broker and the count. *)

Insert(c) ==
  /\ p[c].pc = "passed"
  /\ \E n \in Ids :
       /\ row[n].st = "none" /\ \A m \in Ids : m < n => row[m].st # "none"
       /\ row' = [row EXCEPT ![n] = [NoRow EXCEPT !.st = "approved", !.i = p[c].i,
                                      !.skip = p[c].skip, !.era = crashes]]
       /\ p' = [p EXCEPT ![c].pc = "inserted", ![c].id = n]
  /\ UNCHANGED <<signals, armed, used, crashes, market, pos, exitKrw>>

(* Mutant: the state is recorded after the call. *)
SubmitUnrecorded(c) ==
  /\ p[c].pc = "inserted" /\ ~Closed
  /\ Step(c, "sending")
  /\ UNCHANGED <<signals, armed, row, used, crashes, market, pos, exitKrw>>

Submit(c) ==
  /\ p[c].pc = "inserted" /\ ~Closed
  /\ row' = [row EXCEPT ![p[c].id].st = "submitted"]
  /\ Step(c, "sending")
  /\ UNCHANGED <<signals, armed, used, crashes, market, pos, exitKrw>>

(* LIVE was disarmed after the gate: the adapter is refused, the row stays. *)
SubmitRaises(c) ==
  /\ p[c].pc = "inserted" /\ Closed
  /\ Abort(c)
  /\ UNCHANGED <<armed, row, used, crashes, market, pos, exitKrw>>

RecordAck(c) ==
  /\ p[c].pc = "taken" /\ ~row[p[c].id].twin
  /\ row' = [row EXCEPT ![p[c].id].st = "accepted"]
  /\ Step(c, "count")
  /\ UNCHANGED <<signals, armed, used, crashes, market, pos, exitKrw>>

(* Reconcile has given the number to a row of its own: the unique index     *)
(* raises and place ends.                                                   *)
RecordAckRaises(c) ==
  /\ p[c].pc = "taken" /\ row[p[c].id].twin
  /\ Abort(c)
  /\ UNCHANGED <<armed, row, used, crashes, market, pos, exitKrw>>

RecordRefusal(c) ==
  /\ p[c].pc = "refused"
  /\ row' = [row EXCEPT ![p[c].id].st = "rejected"]
  /\ Leave(c)
  /\ UNCHANGED <<signals, armed, used, crashes, market, pos, exitKrw>>

RecordDoubt(c) ==
  /\ p[c].pc = "lost"
  /\ row' = [row EXCEPT ![p[c].id].st = "in_doubt"]
  /\ Leave(c)
  /\ UNCHANGED <<signals, armed, used, crashes, market, pos, exitKrw>>

(* Mutant: the notional of one lot. *)
CostOfALot(c) == IF Live /\ p[c].i.limit THEN Price * RateCeil ELSE 0

(* _bump_daily_notional; the database adds.                                 *)
Cost(c) == IF Live /\ p[c].i.limit THEN NotionalKrw(p[c].i) ELSE 0

Count(c) ==
  /\ p[c].pc = "count"
  /\ used' = used + Cost(c)
  /\ exitKrw' = IF p[c].skip THEN exitKrw + Cost(c) ELSE exitKrw
  /\ row' = [row EXCEPT ![p[c].id].counted = Cost(c)]
  /\ Leave(c)
  /\ UNCHANGED <<signals, armed, crashes, market, pos>>

------------------------------------------------------------------------------
(* amend: _get_mutable and the context, check_amend, the broker. *)

AmendRead(c, n, q) ==
  /\ ~Closed
  /\ p[c].pc = "idle"
  /\ row[n].st = "accepted"
  /\ \E marks \in Marks :
       p' = [p EXCEPT ![c] = [Idle EXCEPT
               !.pc = "amend", !.id = n, !.i = [row[n].i EXCEPT !.qty = q],
               !.ctx.com = Committed({n}), !.ctx.pos = Marked(marks)]]
  /\ UNCHANGED <<signals, armed, row, used, crashes, market, pos, exitKrw>>

AmendCheck(c) ==
  /\ p[c].pc = "amend"
  /\ IF Closed \/ AmendRefused(p[c].i, p[c].ctx) THEN Leave(c) ELSE Step(c, "amending")
  /\ UNCHANGED <<signals, armed, row, used, crashes, market, pos, exitKrw>>

(* The broker's answer may be lost: then the row keeps the old quantity.    *)
AmendAnswer(c) ==
  LET n == p[c].id
  IN  /\ p[c].pc = "amending"
      /\ \/ /\ brk[n].st = "working"
            /\ brk' = [brk EXCEPT ![n].qty = p[c].i.qty]
            /\ \/ row' = [row EXCEPT ![n].i.qty = p[c].i.qty, ![n].amended = TRUE]
               \/ row' = [row EXCEPT ![n].amended = TRUE]
         \/ UNCHANGED <<brk, row>>
      /\ Leave(c)
      /\ UNCHANGED <<signals, armed, used, crashes, held, pos, exitKrw>>

------------------------------------------------------------------------------
(* The broker. *)

(* The answer may be lost, and _ack may take it for a failure: an error     *)
(* message or a status beside the number, or no number.                     *)
BrokerTakes(c) ==
  /\ p[c].pc = "sending"
  /\ brk' = [brk EXCEPT ![p[c].id] = [st |-> "working", qty |-> p[c].i.qty]]
  /\ (Step(c, "taken") \/ Step(c, "refused") \/ Step(c, "lost"))
  /\ UNCHANGED <<signals, armed, row, used, crashes, held, pos, exitKrw>>

BrokerRefuses(c) ==
  /\ p[c].pc = "sending"
  /\ (Step(c, "refused") \/ Step(c, "lost"))
  /\ UNCHANGED <<signals, armed, row, used, crashes, market, pos, exitKrw>>

Execute(n) ==
  LET i == row[n].i
  IN  /\ brk[n].st = "working"
      /\ brk' = [brk EXCEPT ![n].st = "done"]
      /\ held' = [held EXCEPT ![i.sym] = @ + IF i.side = "buy" THEN brk[n].qty ELSE -brk[n].qty]
      /\ UNCHANGED <<p, signals, armed, row, used, crashes, pos, exitKrw>>

------------------------------------------------------------------------------
(* cancel, reconcile, arming, a restart. *)

Cancel(n) ==
  /\ ~Closed
  /\ row[n].st = "accepted" /\ brk[n].st = "working"
  /\ row' = [row EXCEPT ![n].st = "canceled"]
  /\ brk' = [brk EXCEPT ![n].st = "closed"]
  /\ UNCHANGED <<p, signals, armed, used, crashes, held, pos, exitKrw>>

(* An order the broker works on without its number in the table gets a row  *)
(* of its own, which closes with it; positions the broker lists are copied. *)
Reconciled(n) ==
  [row[n] EXCEPT
     !.st   = IF @ = "accepted" /\ brk[n].st = "done" THEN "filled" ELSE @,
     !.twin = /\ row[n].st \in {"submitted", "in_doubt", "rejected", "quarantined"}
              /\ brk[n].st = "working"]

(* Mutant: the upsert adds to the row. *)
AddedPositions == [s \in Symbols |-> pos[s] + held[s]]

SyncedPositions ==
  [s \in Symbols |-> IF held[s] # 0 THEN held[s] ELSE pos[s]]

Reconcile ==
  /\ ~Closed
  /\ row' = [n \in Ids |-> Reconciled(n)]
  /\ pos' = SyncedPositions
  /\ UNCHANGED <<p, signals, armed, used, crashes, market, exitKrw>>

ArmOrDisarm ==
  /\ Live
  /\ armed' = ~armed
  /\ UNCHANGED <<p, signals, row, used, crashes, market, pos, exitKrw>>

(* The boot of the paper bucket quarantines what reconcile has not closed;  *)
(* that of the live bucket does not.  Requests on their way still arrive.   *)
Booted(n) ==
  IF ~Live /\ row[n].st \in {"submitted", "in_doubt"}
  THEN [Reconciled(n) EXCEPT !.st = "quarantined"]
  ELSE Reconciled(n)

Arrived(S) ==
  [n \in Ids |-> IF \E c \in S : p[c].pc = "sending" /\ p[c].id = n
                 THEN [st |-> "working", qty |-> row[n].i.qty] ELSE brk[n]]

Restart ==
  /\ crashes < MaxCrashes
  /\ crashes' = crashes + 1
  /\ p' = [c \in Callers |-> Idle]
  /\ signals' = [k \in Cycles |-> {}]
  /\ armed' = TRUE
  /\ row' = [n \in Ids |-> Booted(n)]
  /\ pos' = SyncedPositions
  /\ \E S \in SUBSET Callers : brk' = Arrived(S)
  /\ UNCHANGED <<used, held, exitKrw>>

------------------------------------------------------------------------------
CallerStep(c) ==
  \/ ReadPositions(c) \/ GatePasses(c) \/ GateRefuses(c)
  \/ Insert(c) \/ Submit(c) \/ SubmitRaises(c)
  \/ RecordAck(c) \/ RecordAckRaises(c) \/ RecordRefusal(c) \/ RecordDoubt(c) \/ Count(c)
  \/ AmendCheck(c) \/ AmendAnswer(c)
  \/ BrokerTakes(c) \/ BrokerRefuses(c)

Next ==
  \/ \E c \in Callers : CallerStep(c)
  \/ \E c \in Clients : AskClient(c)
  \/ \E c \in Clients, n \in Ids : \E q \in AmendQty : AmendRead(c, n, q)
  \/ \E k \in Cycles : RunOnce(k) \/ AskCycle(k)
  \/ \E n \in Ids : Execute(n) \/ Cancel(n)
  \/ Reconcile \/ ArmOrDisarm \/ Restart

Spec == Init /\ [][Next]_vars

------------------------------------------------------------------------------
(* Properties. *)

Admitted(c) == p[c].pc \in {"passed", "inserted", "sending", "taken", "refused",
                            "lost", "count"} /\ ~p[c].skip

(* max_open_orders is compared with a count that is several awaits old, so  *)
(* that it is exceeded, but by less than the number of requests that run at *)
(* the same time: those that still may insert a row are paid for already.   *)
Tickets ==
  {c \in Callers : \/ p[c].pc \in {"asked", "gate"} /\ p[c].ctx.open < Limits.open
                   \/ p[c].pc = "passed" /\ ~p[c].skip}

OpenEntries == {n \in OpenIds : ~row[n].skip}

OpenOvershoot ==
  Cardinality(OpenEntries) + Cardinality(Tickets) < Limits.open + Cardinality(Callers)

(* The daily notional is read by the gate and added to after the answer:    *)
(* beyond the cap go the orders of all concurrent requests but one, and what *)
(* exits add, which are counted without being checked.  A cap of 0 is none. *)
DailyOvershoot ==
  Limits.daily # 0 => used <= exitKrw + Limits.daily + Limits.orderCap * (Cardinality(Callers) - 1)

(* A crash, or a disarm of LIVE, may leave a row APPROVED for good: no      *)
(* reconcile and no cancel looks at it, and it counts as an open order.     *)
(* What it stands for has never reached the broker.                         *)
ApprovedIsUnsent == \A n \in Ids : row[n].st = "approved" => brk[n].st = "none"

(* What the broker holds and the daily notional does not: an order whose    *)
(* answer was lost or could not be recorded, one whose answer was taken for *)
(* a failure, one whose place still runs, one that a crash left uncounted,  *)
(* the difference an amend makes, and an exit at the market, which has no   *)
(* price.                                                                   *)
UncountedIsExplained ==
  \A n \in Ids :
    Live /\ brk[n].st # "none" /\ row[n].counted # brk[n].qty * Price * RateCeil =>
      \/ row[n].st \in {"submitted", "in_doubt", "rejected"}
      \/ \E c \in Callers : p[c].id = n
      \/ row[n].era < crashes
      \/ row[n].amended
      \/ ~row[n].i.limit

(* Reduce-only compares an exit with the table of positions and with no     *)
(* other exit.  So an account goes short only by two exits of one symbol,   *)
(* by an exit that was amended, or by a sale that passed as an entry.       *)
Sales(s) == {n \in Ids : brk[n].st = "done" /\ row[n].i.sym = s /\ row[n].i.side = "sell"}

ShortHasACause ==
  \A s \in Symbols : held[s] < 0 =>
    \/ Cardinality(Sales(s)) >= 2
    \/ \E n \in Sales(s) : row[n].amended \/ ~row[n].skip
==============================================================================
