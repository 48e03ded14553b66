---------------------------- MODULE LiveReconcile ----------------------------
(***************************************************************************)
(* The live bucket: the Korean and the overseas stock adapter, and         *)
(* OrderService._reconcile_live, which unlike the paper one lists all      *)
(* orders of a market at once, gets cumulative executions without a number *)
(* of their own, and never takes a missing order for a closed one.  With   *)
(* it run place, amend and cancel, a crash and the boot of the bucket.     *)
(*                                                                         *)
(* A step is what a coroutine does between two awaits that matter here.    *)
(* LIVE is armed; what the gate decides is in OrderEntry, halts are in     *)
(* KillSwitch.  Besides boot it is only cancel_all_open that reconciles    *)
(* this bucket.  The broker is outside src/.                               *)
(***************************************************************************)
EXTENDS OrderStates, Integers, FiniteSets, Sequences, FiniteSetsExt

CONSTANTS
  Clients,     \* orders requested, by idempotency key
  Markets,     \* the markets of the bucket, in the order of markets_of
  MarketOf,    \* the market of a requested order
  OVS,         \* the overseas market, whose adapter also looks at rsp_cd
  Codes,       \* rsp_cd of the answers of the broker to accepted requests
  MaxOrdNo,    \* bound: order numbers the broker hands out
  Qty,         \* bound: lots of an order
  AmendQty,    \* quantities that orders are amended to
  Recs,        \* concurrent runs of cancel_all_open
  Boot,        \* the run inside the boot of the bucket
  MaxCrashes,  \* bound: crashes of the server
  MaxCalls,    \* bound: cancel and amend requests on their way
  Foreign      \* bound: numbers other programs on the account may get, with the market

OrdNos    == 1..MaxOrdNo
OrdNos0   == 0..MaxOrdNo         \* 0: broker_order_id IS NULL
Rows      == Clients \cup OrdNos \* n stands for "recon:<market>:n"
Procs     == Recs \cup {Boot}
MarketSet == {Markets[i] : i \in DOMAIN Markets}
Events    == OrdNos \X (1..Qty)  \* "recon:<OrdNo>" with the executed quantity

ASSUME LiveAssumption ==
  /\ Clients \cap Int = {} /\ IsFiniteSet(Clients)
  /\ Markets \in Seq(MarketSet) /\ Markets # <<>>
  /\ MarketOf \in [Clients -> MarketSet]
  /\ {MaxOrdNo, Qty} \subseteq Nat \ {0}
  /\ AmendQty \subseteq 1..Qty
  /\ Boot \notin Recs
  /\ {MaxCrashes, MaxCalls} \subseteq Nat
  /\ Foreign \subseteq OrdNos \X MarketSet

VARIABLES
  row,      \* table orders with its fills
  pc,       \* where the place request of a client is
  got,      \* the broker's answer to it: the order number, or 0
  calls,    \* cancel and amend requests
  rec,      \* runs of reconcile, and what they have read
  engine,   \* EngineState of the bucket ("booting": RECONCILING)
  crashes,  \* number of crashes so far
  synced,   \* history: markets read since the start: orders and positions
  misled,   \* history: requests that were taken and whose answer was not
            \*   taken for that
  brk       \* the broker's book, by order number

vars == <<row, pc, got, calls, rec, engine, crashes, synced, misled, brk>>

RowType == [status : RowState, ordno : OrdNos0, qty : 0..Qty, rem : (-1)..Qty,
            fills : SUBSET Events]   \* rem: remaining_qty, -1 for NULL
BrkType == [st : {"none", "working", "closed"}, mkt : MarketSet, org : OrdNos0,
            owner : Rows, qty : 0..Qty, execs : 0..Qty]
CallType == [op : {"cancel", "amend"}, row : Rows, ordno : OrdNos, qty : 1..Qty,
             st : {"sent", "acked"}, new : OrdNos0]
RecType == [pc : {"idle", "list", "query", "orders", "done", "aborted", "clashed"},
            mkt : DOMAIN Markets, todo : SUBSET Rows, seen : [Rows -> OrdNos0],
            view : [OrdNos -> (-1)..Qty], left : [OrdNos -> 0..Qty],
            orphan : OrdNos0, ok : BOOLEAN]

NoRow   == [status |-> "none", ordno |-> 0, qty |-> 0, rem |-> -1, fills |-> {}]
Unused(n) == [st |-> "none", mkt |-> Markets[1], org |-> 0, owner |-> n, qty |-> 0,
              execs |-> 0]
IdleRec == [pc |-> "idle", mkt |-> 1, todo |-> {}, seen |-> [r \in Rows |-> 0],
            view |-> [n \in OrdNos |-> -1], left |-> [n \in OrdNos |-> 0],
            orphan |-> 0, ok |-> TRUE]

TypeOK ==
  /\ row \in [Rows -> RowType]
  /\ pc \in [Clients -> {"idle", "approved", "sending", "taken", "refused", "lost", "over"}]
  /\ got \in [Clients -> OrdNos0]
  /\ calls \subseteq CallType
  /\ rec \in [Procs -> RecType]
  /\ engine \in {"booting", "active", "read_only"}
  /\ crashes \in Nat
  /\ synced \subseteq MarketSet
  /\ misled \subseteq Clients
  /\ brk \in [OrdNos -> BrkType]

Init ==
  /\ row = [r \in Rows |-> NoRow]
  /\ pc = [c \in Clients |-> "idle"]
  /\ got = [c \in Clients |-> 0]
  /\ calls = {}
  /\ rec = [p \in Procs |-> IdleRec]
  /\ engine = "booting"
  /\ crashes = 0
  /\ synced = {}
  /\ misled = {}
  /\ brk = [n \in OrdNos |-> Unused(n)]

------------------------------------------------------------------------------
(* The repository. *)

Booked(fills)  == MapThenSumSet(LAMBDA e : e[2], fills)
MarketRow(r)   == IF r \in Clients THEN MarketOf[r] ELSE brk[r].mkt
Exists(r)      == row[r].status # "none"
Taken(n, but)  == \E r \in Rows \ {but} : row[r].ordno = n
SetStatus(r, s) == [row EXCEPT ![r].status = IF CanTransition(@, s) THEN s ELSE @]

(* The lock of an order, which place holds while it waits for the broker.   *)
Locked(r) == r \in Clients /\ pc[r] \in {"sending", "taken", "refused", "lost"}

(* Mutant: the executed quantity is part of the key of an execution. *)
ApplyFillEach(o, n, q, left) ==
  LET fills == o.fills \cup {<<n, q>>}
  IN  IF o.status \in TERMINAL_STATES \/ q = 0 \/ <<n, q>> \in o.fills THEN o
      ELSE [o EXCEPT !.fills = fills, !.rem = left,
                     !.status = IF left = 0 THEN "filled" ELSE "partially_filled"]

(* Mutant: a closed row is opened again. *)
ApplyFillAlways(o, n, q, left) ==
  IF q = 0 \/ \E e \in o.fills : e[1] = n THEN o
  ELSE [o EXCEPT !.fills = @ \cup {<<n, q>>}, !.rem = left,
                 !.status = IF left = 0 THEN "filled" ELSE "partially_filled"]

(* open_order_to_fill and apply_fill: the key of an execution is the order  *)
(* number, as there is no other, so that the first quantity seen stays.     *)
ApplyFill(o, n, q, left) ==
  LET to == IF left = 0 THEN "filled" ELSE "partially_filled"
  IN  IF o.status \in TERMINAL_STATES \/ q = 0 \/ \E e \in o.fills : e[1] = n THEN o
      ELSE [o EXCEPT !.fills = @ \cup {<<n, q>>}, !.rem = left,
                     !.status = IF CanTransition(@, to) THEN to ELSE @]

------------------------------------------------------------------------------
(* place: the row, the request, the answer. *)

Approve(c) ==
  /\ engine = "active"
  /\ pc[c] = "idle" /\ ~Exists(c)
  /\ row' = [row EXCEPT ![c] = [NoRow EXCEPT !.status = "approved", !.qty = Qty]]
  /\ pc' = [pc EXCEPT ![c] = "approved"]
  /\ UNCHANGED <<got, calls, rec, engine, crashes, synced, misled, brk>>

Submit(c) ==
  /\ pc[c] = "approved"
  /\ row' = SetStatus(c, "submitted")
  /\ pc' = [pc EXCEPT ![c] = "sending"]
  /\ UNCHANGED <<got, calls, rec, engine, crashes, synced, misled, brk>>

(* The number was given to a row of its own by reconcile: the index raises  *)
(* and place ends.                                                          *)
RecordAck(c) ==
  /\ pc[c] = "taken"
  /\ row' = IF Taken(got[c], c) THEN row
            ELSE [SetStatus(c, "accepted") EXCEPT ![c].ordno = got[c]]
  /\ pc' = [pc EXCEPT ![c] = "over"]
  /\ got' = [got EXCEPT ![c] = 0]
  /\ UNCHANGED <<calls, rec, engine, crashes, synced, misled, brk>>

RecordRefusal(c) ==
  /\ pc[c] = "refused"
  /\ row' = SetStatus(c, "rejected")
  /\ pc' = [pc EXCEPT ![c] = "over"]
  /\ UNCHANGED <<got, calls, rec, engine, crashes, synced, misled, brk>>

(* Mutant: no answer is a refusal. *)
RecordDoubtRejects(c) ==
  /\ pc[c] = "lost"
  /\ row' = SetStatus(c, "rejected")
  /\ pc' = [pc EXCEPT ![c] = "over"]
  /\ UNCHANGED <<got, calls, rec, engine, crashes, synced, misled, brk>>

RecordDoubt(c) ==
  /\ pc[c] = "lost"
  /\ row' = SetStatus(c, "in_doubt")
  /\ pc' = [pc EXCEPT ![c] = "over"]
  /\ UNCHANGED <<got, calls, rec, engine, crashes, synced, misled, brk>>

------------------------------------------------------------------------------
(* amend and cancel. *)

(* _remaining_qty: what was left when an execution was booked last; an      *)
(* amend does not touch it.                                                 *)
CancelQty(r) ==
  IF row[r].rem = -1 THEN row[r].qty - Booked(row[r].fills) ELSE row[r].rem

Call(op, r, q) ==
  /\ row[r].ordno # 0
  /\ Cardinality(calls) < MaxCalls
  /\ calls' = calls \cup {[op |-> op, row |-> r, ordno |-> row[r].ordno, qty |-> q,
                           st |-> "sent", new |-> 0]}
  /\ UNCHANGED <<row, pc, got, rec, engine, crashes, synced, misled, brk>>

(* Neither asks for the status of the order; the kill switch cancels in any *)
(* state of the engine.  Without a quantity the adapters refuse to cancel.  *)
Amend(r, q) == engine = "active" /\ Call("amend", r, q)
Cancel(r)   == CancelQty(r) \in 1..Qty /\ Call("cancel", r, CancelQty(r))

(* The new number is of another row already: the index raises.              *)
RecordAmend(m) ==
  /\ m.op = "amend" /\ m.st = "acked"
  /\ row' = IF Taken(m.new, m.row) THEN row
            ELSE [row EXCEPT ![m.row].ordno = m.new, ![m.row].qty = m.qty]
  /\ calls' = calls \ {m}
  /\ UNCHANGED <<pc, got, rec, engine, crashes, synced, misled, brk>>

RecordCancel(m) ==
  /\ m.op = "cancel" /\ m.st = "acked"
  /\ ~Locked(m.row)
  /\ row' = IF row[m.row].status \in NON_TERMINAL_FOR_CANCEL
            THEN SetStatus(m.row, "canceled") ELSE row
  /\ calls' = calls \ {m}
  /\ UNCHANGED <<pc, got, rec, engine, crashes, synced, misled, brk>>

------------------------------------------------------------------------------
(* _reconcile_live: market after market. *)

Market(p) == Markets[rec[p].mkt]

(* Mutant: a market whose orders could not be read does not count. *)
NextMarketAnyway(p, ok) ==
  IF rec[p].mkt < Len(Markets)
  THEN [IdleRec EXCEPT !.pc = "list", !.mkt = rec[p].mkt + 1]
  ELSE IF p = Boot THEN [IdleRec EXCEPT !.pc = "done"] ELSE IdleRec

(* Mutant: one market more than there is. *)
NextMarketPastEnd(p, ok) ==
  IF rec[p].mkt <= Len(Markets)
  THEN [IdleRec EXCEPT !.pc = "list", !.mkt = rec[p].mkt + 1, !.ok = rec[p].ok /\ ok]
  ELSE IF p = Boot THEN [IdleRec EXCEPT !.pc = "done", !.ok = rec[p].ok /\ ok] ELSE IdleRec

NextMarket(p, ok) ==
  IF rec[p].mkt < Len(Markets)
  THEN [IdleRec EXCEPT !.pc = "list", !.mkt = rec[p].mkt + 1, !.ok = rec[p].ok /\ ok]
  ELSE IF p = Boot THEN [IdleRec EXCEPT !.pc = "done", !.ok = rec[p].ok /\ ok] ELSE IdleRec

(* cancel_all_open reconciles if an order is in_doubt.                      *)
RecStart(p) ==
  /\ rec[p].pc = "idle"
  /\ IF p = Boot THEN engine = "booting"
     ELSE engine # "booting" /\ \E r \in Rows : row[r].status = "in_doubt"
  /\ rec' = [rec EXCEPT ![p].pc = "list"]
  /\ UNCHANGED <<row, pc, got, calls, engine, crashes, synced, misled, brk>>

RecList(p) ==
  LET open == {r \in Rows : row[r].status \in NonTerminal /\ MarketRow(r) = Market(p)}
  IN  /\ rec[p].pc = "list"
      /\ rec' = [rec EXCEPT ![p].pc = "query", ![p].todo = open,
                   ![p].seen = [r \in Rows |-> IF r \in open THEN row[r].ordno ELSE 0]]
      /\ UNCHANGED <<row, pc, got, calls, engine, crashes, synced, misled, brk>>

(* get_open_orders: the numbers of one page, or none if the answer is an    *)
(* error without rows.  An order without a number, or not on the page, is   *)
(* left alone.                                                              *)
Open(n)   == IF brk[n].st = "working" THEN brk[n].qty - brk[n].execs ELSE 0
Listed(m) == {n \in OrdNos : brk[n].st # "none" /\ brk[n].mkt = m}

(* Mutant: an open order that is not on the page is closed. *)
RecFetchVanishes(p) ==
  /\ rec[p].pc = "query"
  /\ \E page \in SUBSET Listed(Market(p)) :
       /\ row' = [r \in Rows |->
                    IF r \in rec[p].todo /\ rec[p].seen[r] \notin page \cup {0}
                    THEN [row[r] EXCEPT !.status = "canceled"] ELSE row[r]]
       /\ rec' = [rec EXCEPT ![p].pc = "orders", ![p].todo = {}]
  /\ UNCHANGED <<pc, got, calls, engine, crashes, synced, misled, brk>>

RecFetch(p) ==
  /\ rec[p].pc = "query"
  /\ \E page \in SUBSET Listed(Market(p)) :
       rec' = [rec EXCEPT ![p].pc = "orders",
                 ![p].todo = {r \in @ : rec[p].seen[r] \in page},
                 ![p].view = [n \in OrdNos |-> IF n \in page THEN brk[n].execs ELSE -1],
                 ![p].left = [n \in OrdNos |-> IF n \in page THEN Open(n) ELSE 0]]
  /\ UNCHANGED <<row, pc, got, calls, engine, crashes, synced, misled, brk>>

(* OrderError: the market is left out.                                      *)
RecFetchFails(p) ==
  /\ rec[p].pc = "query"
  /\ rec' = [rec EXCEPT ![p] = NextMarket(p, FALSE)]
  /\ UNCHANGED <<row, pc, got, calls, engine, crashes, synced, misled, brk>>

RecApply(p, r) ==
  LET n == rec[p].seen[r]
  IN  /\ rec[p].pc = "orders"
      /\ r \in rec[p].todo
      /\ ~Locked(r)
      /\ row' = [row EXCEPT ![r] = ApplyFill(@, n, rec[p].view[n], rec[p].left[n])]
      /\ rec' = [rec EXCEPT ![p].todo = @ \ {r}]
      /\ UNCHANGED <<pc, got, calls, engine, crashes, synced, misled, brk>>

Strange(p) == {n \in OrdNos : rec[p].view[n] # -1 /\ \A r \in Rows : rec[p].seen[r] # n}

(* A number no open row had: it follows an order of the table by amend, it  *)
(* has a row from an earlier run, or it gets one.                           *)
RecFollows(p, n) ==
  /\ rec[p].pc = "orders" /\ rec[p].todo = {} /\ rec[p].orphan = 0
  /\ n \in Strange(p)
  /\ Exists(n) \/ (brk[n].org # 0 /\ Taken(brk[n].org, 0))
  /\ rec' = [rec EXCEPT ![p].view[n] = -1]
  /\ UNCHANGED <<row, pc, got, calls, engine, crashes, synced, misled, brk>>

IsOrphan(p, n) ==
  /\ rec[p].pc = "orders" /\ rec[p].todo = {} /\ rec[p].orphan = 0
  /\ n \in Strange(p)
  /\ ~Exists(n) /\ ~(brk[n].org # 0 /\ Taken(brk[n].org, 0))

RecOrphan(p, n) ==
  /\ IsOrphan(p, n) /\ ~Taken(n, n)
  /\ row' = [row EXCEPT ![n] = [NoRow EXCEPT !.status = "accepted", !.ordno = n,
                                             !.qty = brk[n].qty]]
  /\ rec' = [rec EXCEPT ![p].orphan = n]
  /\ UNCHANGED <<pc, got, calls, engine, crashes, synced, misled, brk>>

RecOrphanFill(p) ==
  LET n == rec[p].orphan
  IN  /\ n # 0
      /\ row' = [row EXCEPT ![n] = ApplyFill(@, n, rec[p].view[n], rec[p].left[n])]
      /\ rec' = [rec EXCEPT ![p].orphan = 0, ![p].view[n] = -1]
      /\ UNCHANGED <<pc, got, calls, engine, crashes, synced, misled, brk>>

(* The number is of a row that is closed by now: the index raises.          *)
RecClashes(p, n) ==
  /\ IsOrphan(p, n) /\ Taken(n, n)
  /\ rec' = [rec EXCEPT ![p] = [IdleRec EXCEPT !.pc = "clashed"]]
  /\ UNCHANGED <<row, pc, got, calls, engine, crashes, synced, misled, brk>>

AtPositions(p) ==
  rec[p].pc = "orders" /\ rec[p].todo = {} /\ rec[p].orphan = 0 /\ Strange(p) = {}

RecPositions(p) ==
  /\ AtPositions(p)
  /\ synced' = synced \cup {Market(p)}
  /\ rec' = [rec EXCEPT ![p] = NextMarket(p, TRUE)]
  /\ UNCHANGED <<row, pc, got, calls, engine, crashes, misled, brk>>

RecPositionsFail(p) ==
  /\ AtPositions(p)
  /\ rec' = [rec EXCEPT ![p] = NextMarket(p, FALSE)]
  /\ UNCHANGED <<row, pc, got, calls, engine, crashes, synced, misled, brk>>

(* Anything but an OrderError ends the run.                                 *)
RecRaises(p) ==
  /\ rec[p].pc = "query" \/ AtPositions(p)
  /\ rec' = [rec EXCEPT ![p] = [IdleRec EXCEPT !.pc = "aborted"]]
  /\ UNCHANGED <<row, pc, got, calls, engine, crashes, synced, misled, brk>>

RecOver(p) ==
  /\ p \in Recs /\ rec[p].pc \in {"aborted", "clashed"}
  /\ rec' = [rec EXCEPT ![p] = IdleRec]
  /\ UNCHANGED <<row, pc, got, calls, engine, crashes, synced, misled, brk>>

------------------------------------------------------------------------------
(* _boot_live_bucket and the crash before it. *)

BootFinish ==
  /\ rec[Boot].pc = "done"
  /\ engine' = IF rec[Boot].ok THEN "active" ELSE "read_only"
  /\ rec' = [rec EXCEPT ![Boot] = IdleRec]
  /\ UNCHANGED <<row, pc, got, calls, crashes, synced, misled, brk>>

(* Mutant: boot is tried again until it succeeds. *)
BootFailsAgain ==
  /\ rec[Boot].pc \in {"aborted", "clashed"}
  /\ rec' = [rec EXCEPT ![Boot] = IdleRec]
  /\ UNCHANGED <<row, pc, got, calls, engine, crashes, synced, misled, brk>>

BootFails ==
  /\ rec[Boot].pc \in {"aborted", "clashed"}
  /\ engine' = "read_only"
  /\ rec' = [rec EXCEPT ![Boot] = IdleRec]
  /\ UNCHANGED <<row, pc, got, calls, crashes, synced, misled, brk>>

Crash ==
  /\ crashes < MaxCrashes
  /\ crashes' = crashes + 1
  /\ engine' = "booting"
  /\ pc' = [c \in Clients |-> "idle"]
  /\ got' = [c \in Clients |-> 0]
  /\ calls' = {}
  /\ rec' = [p \in Procs |-> IdleRec]
  /\ synced' = {}
  /\ UNCHANGED <<row, misled, brk>>

------------------------------------------------------------------------------
(* The broker, and how the adapters judge its answers. *)

NextOrdNo(n) == brk[n].st = "none" /\ \A m \in OrdNos : m < n => brk[m].st # "none"

(* _ack of the adapters: a success has an order number, no error message    *)
(* and a status below 400 (clean); the overseas one wants rsp_cd 00000 or   *)
(* none, too.                                                               *)
AckOk(m, code, clean) == clean /\ (m = OVS => code \in {"00000", "none"})

BrokerTakes(c, n) ==
  /\ pc[c] = "sending" /\ NextOrdNo(n)
  /\ brk' = [brk EXCEPT ![n] = [st |-> "working", mkt |-> MarketOf[c], org |-> 0,
                                owner |-> c, qty |-> Qty, execs |-> 0]]
  /\ \/ /\ \E code \in Codes[MarketOf[c]], clean \in BOOLEAN :
             IF AckOk(MarketOf[c], code, clean)
             THEN /\ pc' = [pc EXCEPT ![c] = "taken"]
                  /\ got' = [got EXCEPT ![c] = n]
                  /\ UNCHANGED misled
             ELSE /\ pc' = [pc EXCEPT ![c] = "refused"]
                  /\ misled' = misled \cup {c}
                  /\ UNCHANGED got
     \/ /\ pc' = [pc EXCEPT ![c] = "lost"]
        /\ UNCHANGED <<got, misled>>
  /\ UNCHANGED <<row, calls, rec, engine, crashes, synced>>

BrokerRefuses(c) ==
  /\ pc[c] = "sending"
  /\ \E to \in {"refused", "lost"} : pc' = [pc EXCEPT ![c] = to]
  /\ UNCHANGED <<row, got, calls, rec, engine, crashes, synced, misled, brk>>

(* The answer to a request comes, is taken for a failure, or is lost.       *)
Answer(m, new) ==
  \/ /\ \E code \in Codes[brk[m.ordno].mkt] : AckOk(brk[m.ordno].mkt, code, TRUE)
     /\ calls' = (calls \ {m}) \cup {[m EXCEPT !.st = "acked", !.new = new]}
  \/ calls' = calls \ {m}

(* An order goes on under a new number, or with less, or not at all.        *)
BrokerAmends(m, n) ==
  /\ m.op = "amend" /\ m.st = "sent"
  /\ brk[m.ordno].st = "working" /\ NextOrdNo(n)
  /\ brk' = [brk EXCEPT ![m.ordno].st = "closed",
               ![n] = [brk[m.ordno] EXCEPT !.org = m.ordno, !.qty = m.qty, !.execs = 0]]
  /\ Answer(m, n)
  /\ UNCHANGED <<row, pc, got, rec, engine, crashes, synced, misled>>

BrokerCancels(m) ==
  /\ m.op = "cancel" /\ m.st = "sent"
  /\ brk[m.ordno].st = "working"
  /\ brk' = IF m.qty < Open(m.ordno) THEN [brk EXCEPT ![m.ordno].qty = @ - m.qty]
            ELSE [brk EXCEPT ![m.ordno].st = "closed"]
  /\ Answer(m, 0)
  /\ UNCHANGED <<row, pc, got, rec, engine, crashes, synced, misled>>

BrokerDeclines(m) ==
  /\ m.st = "sent"
  /\ calls' = calls \ {m}
  /\ UNCHANGED <<row, pc, got, rec, engine, crashes, synced, misled, brk>>

BrokerExecutes(n) ==
  /\ brk[n].st = "working"
  /\ brk' = [brk EXCEPT ![n].execs = @ + 1,
               ![n].st = IF brk[n].execs + 1 = brk[n].qty THEN "closed" ELSE @]
  /\ UNCHANGED <<row, pc, got, calls, rec, engine, crashes, synced, misled>>

(* An order of one lot. *)
ForeignOrder(n) ==
  /\ NextOrdNo(n)
  /\ \E f \in Foreign :
       /\ f[1] = n
       /\ brk' = [brk EXCEPT ![n] = [Unused(n) EXCEPT !.st = "working", !.mkt = f[2], !.qty = 1]]
  /\ UNCHANGED <<row, pc, got, calls, rec, engine, crashes, synced, misled>>

------------------------------------------------------------------------------
PlaceStep(c) ==
  Approve(c) \/ Submit(c) \/ RecordAck(c) \/ RecordRefusal(c) \/ RecordDoubt(c)

PlaceAnswer(c) == BrokerRefuses(c) \/ \E n \in OrdNos : BrokerTakes(c, n)

RecStep(p) ==
  \/ RecStart(p) \/ RecList(p) \/ RecFetch(p) \/ RecFetchFails(p)
  \/ RecOrphanFill(p) \/ RecPositions(p) \/ RecPositionsFail(p) \/ RecRaises(p) \/ RecOver(p)
  \/ \E r \in Rows : RecApply(p, r)
  \/ \E n \in OrdNos : RecFollows(p, n) \/ RecOrphan(p, n) \/ RecClashes(p, n)

CallStep ==
  \/ \E r \in Rows : Cancel(r) \/ \E q \in AmendQty : Amend(r, q)
  \/ \E m \in calls : RecordAmend(m) \/ RecordCancel(m)

CallAnswer == \E m \in calls :
  BrokerCancels(m) \/ BrokerDeclines(m) \/ \E n \in OrdNos : BrokerAmends(m, n)

BootStep == BootFinish \/ BootFails

Next ==
  \/ \E c \in Clients : PlaceStep(c) \/ PlaceAnswer(c)
  \/ \E p \in Procs : RecStep(p)
  \/ CallStep \/ CallAnswer \/ BootStep \/ Crash
  \/ \E n \in OrdNos : BrokerExecutes(n) \/ ForeignOrder(n)

Spec == Init /\ [][Next]_vars

(* The event loop runs what can run, and the account queue answers every    *)
(* query or fails it.                                                       *)
FairSpec ==
  /\ Spec
  /\ WF_vars(RecStep(Boot)) /\ WF_vars(BootStep)

------------------------------------------------------------------------------
(* Properties. *)

OwnerOf(r) == IF r \in Clients THEN r ELSE brk[r].owner
Amended(r) == \E n \in OrdNos : brk[n].owner = OwnerOf(r) /\ brk[n].org # 0

(* A closed row is closed at the broker, though a page may miss an order, a *)
(* query may come back empty and answers may be late: that is what the      *)
(* fail-safe of _reconcile_live is for.  Not so after an amend: the table   *)
(* keeps the quantity left before it, and a cancel for less than the order  *)
(* still has closes the row and not the order.  Nor if an adapter has taken *)
(* the answer to an accepted request for a failure.                         *)
LiveClosedIsClosed ==
  \A r \in Rows, n \in OrdNos :
    row[r].status \in {"filled", "canceled", "rejected"} /\ brk[n].st = "working"
      /\ brk[n].owner = OwnerOf(r)
        => Amended(r) \/ r \in misled

(* The fills of a row never exceed what the broker executed for the order,  *)
(* although every query shows the executed quantity as a total.             *)
LiveFillsAreExecuted ==
  \A r \in Rows :
    Booked(row[r].fills) <=
      MapThenSumSet(LAMBDA n : IF brk[n].owner = OwnerOf(r) THEN brk[n].execs ELSE 0, OrdNos)

(* An order gets a second row only while the first one has no number, which *)
(* then stays open without one and counts in every limit, or after an amend *)
(* or an answer that was taken for a failure.                               *)
DoubledStaysOpen ==
  \A c \in Clients, n \in OrdNos :
    Exists(n) /\ brk[n].owner = c
      => row[c].status \in {"submitted", "in_doubt"} \/ Amended(c) \/ c \in misled

(* The engine is ACTIVE only if the orders and the positions of every       *)
(* market were read since the start.                                        *)
ActiveIsSynced == engine = "active" => synced = MarketSet

(* Rows of the live bucket live the life of OrderLifecycle, too.            *)
LifeCycle == INSTANCE OrderLifecycle WITH
  Ids    <- Rows,
  status <- [r \in Rows |-> row[r].status],
  fills  <- [r \in Rows |-> row[r].fills]

LiveImplementsLifeCycle == LifeCycle!LSpec

(* The bucket does not stay in boot.                                        *)
LiveBootEnds == engine = "booting" ~> engine # "booting"

(* order_service.py:654: an orphan is an order number that the table does   *)
(* not know.  (Boot has no requests beside it, which could bring a number   *)
(* into the table meanwhile.)                                               *)
OrphansAreUnknown == rec[Boot].pc # "clashed"
===============================================================================
