---------------------------- MODULE OrderPipeline ----------------------------
(***************************************************************************)
(* The order pipeline of the paper bucket (overseas futures, one account,  *)
(* one symbol): OrderService.place, cancel, amend and _reconcile_paper,    *)
(* the order rows they share in SQLite, the TC3 fill writer, and a crash   *)
(* of the server followed by the boot sequence.                            *)
(*                                                                         *)
(* The server is one asyncio event loop, so a step of the model is what a  *)
(* handler does between two awaits that let another handler act: one       *)
(* database transaction, or one exchange with the broker.  A section under *)
(* the lock of an order is one step when it is a single transaction;       *)
(* otherwise the lock is held across steps (Locked).                       *)
(*                                                                         *)
(* The broker is outside src/.  It is modelled from what the adapter sends *)
(* and reads: it numbers the orders it takes, executes them one lot at a   *)
(* time, and answers a query with the rows of the day, newest first.       *)
(***************************************************************************)
EXTENDS OrderStates, Integers, FiniteSets

CONSTANTS
  Clients,       \* idempotency keys of the orders requested (client_order_id)
  MaxOrdNo,      \* bound: order numbers the broker hands out
  Qty,           \* lots of every requested order
  Recs,          \* concurrent runs of POST /orders/reconcile, by an operator
  Boot,          \* the run of reconcile inside the boot sequence
  MaxCrashes,    \* bound: crashes of the server process
  MaxCalls,      \* bound: cancel and amend requests waiting for the broker
  Amends,        \* TRUE: clients also amend orders
  Realtime       \* TRUE: HANBIT_REALTIME_FILLS is on (off by default)

OrdNos  == 1..MaxOrdNo
OrdNos0 == 0..MaxOrdNo         \* 0: broker_order_id IS NULL
Rows    == Clients \cup OrdNos \* by idempotency key; n stands for "recon:n"
Procs   == Recs \cup {Boot}
Events  == {"recon", "tc"} \X OrdNos \X (1..Qty)

ASSUME PipelineAssumption ==
  /\ MaxOrdNo \in Nat \ {0}
  /\ Qty \in Nat \ {0}
  /\ MaxCrashes \in Nat
  /\ MaxCalls \in Nat
  /\ Clients \cap Int = {}
  /\ Boot \notin Recs
  /\ IsFiniteSet(Clients)
  /\ {Amends, Realtime} \subseteq BOOLEAN

VARIABLES
  row,      \* table orders with its fills, by idempotency key
  pc,       \* where the place request of a client is
  got,      \* order number in the broker's answer to a place request
  calls,    \* cancel and amend requests waiting for the broker or to be recorded
  rec,      \* where each run of reconcile is, and what it has read
  engine,   \* EngineState of the bucket ("booting": READ_ONLY, RECONCILING)
  crashes,  \* number of crashes so far
  brk,      \* the broker's order book, by order number
  session,  \* whether the market is "open" or "closed"
  past,     \* orders of an earlier calendar day: a query for today lacks them
  misled    \* rows that reconcile closed on an empty answer, on a page without
            \* the orders of an earlier day, or on a false word that the market
            \* is closed (only the properties read it)

vars == <<row, pc, got, calls, rec, engine, crashes, brk, session, past, misled>>
server == <<pc, got, calls, rec, engine, crashes>>
broker == <<brk, session, past>>

RowType == [status : RowState, ordno : OrdNos0, qty : 0..Qty, fills : SUBSET Events]
BrkType == [st : {"none", "working", "closed"}, owner : Clients \cup {0},
            org : OrdNos0, qty : 0..Qty, execs : 0..Qty]
CallType == [op : {"cancel", "amend"}, row : Rows, ordno : OrdNos,
             qty : 0..Qty, st : {"sent", "acked"}, new : OrdNos0]
RecType == [pc : {"idle", "listed", "orders", "done", "aborted"},
            todo : SUBSET Rows, seen : [Rows -> OrdNos0],
            view : [OrdNos -> (-1)..Qty], row : Rows \cup {0}, ord : OrdNos0,
            next : 0..Qty, closed : BOOLEAN, applied : BOOLEAN,
            page : {"none", "day", "error"}] \* what the query of the run came to

NoRow  == [status |-> "none", ordno |-> 0, qty |-> 0, fills |-> {}]
Unused == [st |-> "none", owner |-> 0, org |-> 0, qty |-> 0, execs |-> 0]
IdleRec == [pc |-> "idle", todo |-> {}, seen |-> [r \in Rows |-> 0],
            view |-> [n \in OrdNos |-> -1], row |-> 0, ord |-> 0, next |-> 0,
            closed |-> FALSE, applied |-> FALSE, page |-> "none"]

TypeOK ==
  /\ row \in [Rows -> RowType]
  /\ pc \in [Clients -> {"idle", "approved", "sending", "taken", "refused",
                         "failed", "error"}]
  /\ got \in [Clients -> OrdNos0]
  /\ calls \subseteq CallType
  /\ rec \in [Procs -> RecType]
  /\ engine \in {"booting", "active", "read_only"}
  /\ crashes \in Nat
  /\ brk \in [OrdNos -> BrkType]
  /\ session \in {"open", "closed"}
  /\ past \subseteq OrdNos
  /\ misled \subseteq Rows

Init ==
  /\ row = [r \in Rows |-> NoRow]
  /\ pc = [c \in Clients |-> "idle"]
  /\ got = [c \in Clients |-> 0]
  /\ calls = {}
  /\ rec = [p \in Procs |-> IdleRec]
  /\ engine = "booting"
  /\ crashes = 0
  /\ brk = [n \in OrdNos |-> Unused]
  /\ session = "open"
  /\ past = {}
  /\ misled = {}

------------------------------------------------------------------------------
(* The repository. *)

Open(r)   == row[r].status \in NonTerminal
Exists(r) == row[r].status # "none"

(* Mutant: no unique index. *)
TakenNever(n, r) == FALSE

(* The unique index ix_orders_broker refuses n for row r. *)
Taken(n, r) == \E q \in Rows \ {r} : row[q].ordno = n

(* A reconcile run holds the lock of r across several transactions. *)
Locked(r) == \E p \in Procs : rec[p].row = r

(* repo.transition: raises (the caller does not get here) if it is illegal. *)
Transition(r, to) ==
  /\ CanTransition(row[r].status, to)
  /\ row' = [row EXCEPT ![r].status = to]

(* repo.apply_fill of event e; rem is the remaining quantity the event      *)
(* carries, or -1 when it carries none.                                     *)
Filled(fs) == Cardinality(fs)

Remaining(o, fs, rem) ==
  IF rem # -1 THEN rem
  ELSE IF o.qty > Filled(fs) THEN o.qty - Filled(fs) ELSE 0

Target(o, fs, rem) ==
  IF Remaining(o, fs, rem) <= 0 THEN "filled" ELSE "partially_filled"

(* Mutant: the terminal check of apply_fill is gone. *)
ApplyFillAnyStatus(o, e, rem) ==
  IF e \in o.fills
  THEN o
  ELSE LET fs == o.fills \cup {e}
           to == Target(o, fs, rem)
       IN  [o EXCEPT !.fills = fs,
                     !.status = IF CanTransition(@, to) THEN to ELSE @]

ApplyFill(o, e, rem) ==
  IF o.status \notin NonTerminal \/ e \in o.fills
  THEN o
  ELSE LET fs == o.fills \cup {e}
           to == Target(o, fs, rem)
       IN  [o EXCEPT !.fills = fs,
                     !.status = IF CanTransition(@, to) THEN to ELSE @]

------------------------------------------------------------------------------
(* OrderService.place, one request per client at a time.  A request for a  *)
(* key that already has a row answers with that row and sends nothing.  Of *)
(* the risk gate only the engine state is here: it lets an EXIT order pass *)
(* a quarantine and a halt.                                                *)

PlaceInsert(c) ==
  /\ engine = "active"
  /\ pc[c] \in {"idle", "error"}
  /\ ~Exists(c)
  /\ row' = [row EXCEPT ![c] = [status |-> "approved", ordno |-> 0,
                                qty |-> Qty, fills |-> {}]]
  /\ pc' = [pc EXCEPT ![c] = "approved"]
  /\ UNCHANGED <<got, calls, rec, engine, crashes, broker, misled>>

PlaceAgain(c) ==
  /\ engine = "active"
  /\ pc[c] \in {"idle", "error"}
  /\ Exists(c)
  /\ pc' = [pc EXCEPT ![c] = "idle"]
  /\ UNCHANGED <<row, got, calls, rec, engine, crashes, broker, misled>>

PlaceSubmit(c) ==
  /\ pc[c] = "approved"
  /\ Transition(c, "submitted")
  /\ pc' = [pc EXCEPT ![c] = "sending"]
  /\ UNCHANGED <<got, calls, rec, engine, crashes, broker, misled>>

PlaceAck(c) ==
  /\ pc[c] = "taken"
  /\ ~Taken(got[c], c)
  /\ CanTransition(row[c].status, "accepted")
  /\ row' = [row EXCEPT ![c].status = "accepted", ![c].ordno = got[c]]
  /\ pc' = [pc EXCEPT ![c] = "idle"]
  /\ got' = [got EXCEPT ![c] = 0]
  /\ UNCHANGED <<calls, rec, engine, crashes, broker, misled>>

(* The update that would record the answer violates the unique index: the  *)
(* exception leaves place, the row keeps what it had.                      *)
PlaceAckFails(c) ==
  /\ pc[c] = "taken"
  /\ Taken(got[c], c)
  /\ pc' = [pc EXCEPT ![c] = "error"]
  /\ got' = [got EXCEPT ![c] = 0]
  /\ UNCHANGED <<row, calls, rec, engine, crashes, broker, misled>>

PlaceReject(c) ==
  /\ pc[c] = "refused"
  /\ Transition(c, "rejected")
  /\ pc' = [pc EXCEPT ![c] = "idle"]
  /\ UNCHANGED <<got, calls, rec, engine, crashes, broker, misled>>

(* Mutant: an order whose answer was lost is sent again. *)
PlaceRetries(c) ==
  /\ pc[c] = "failed"
  /\ pc' = [pc EXCEPT ![c] = "sending"]
  /\ UNCHANGED <<row, got, calls, rec, engine, crashes, broker, misled>>

PlaceInDoubt(c) ==
  /\ pc[c] = "failed"
  /\ Transition(c, "in_doubt")
  /\ pc' = [pc EXCEPT ![c] = "idle"]
  /\ UNCHANGED <<got, calls, rec, engine, crashes, broker, misled>>

------------------------------------------------------------------------------
(* OrderService.cancel and amend.  The row is read once; the request then  *)
(* waits for the broker without the lock.                                  *)

(* The kill switch cancels open orders also when the engine is not ACTIVE. *)
CancelRead(r) ==
  /\ engine = "active" \/ (engine = "read_only" /\ Open(r))
  /\ row[r].ordno # 0
  /\ Cardinality(calls) < MaxCalls
  /\ calls' = calls \cup {[op |-> "cancel", row |-> r, ordno |-> row[r].ordno,
                           qty |-> 0, st |-> "sent", new |-> 0]}
  /\ UNCHANGED <<row, pc, got, rec, engine, crashes, broker, misled>>

(* Mutant: the row is closed without waiting for the broker. *)
CancelApplyUnasked(m) ==
  /\ m.op = "cancel"
  /\ ~Locked(m.row)
  /\ IF row[m.row].status \in NON_TERMINAL_FOR_CANCEL
     THEN Transition(m.row, "canceled")
     ELSE UNCHANGED row
  /\ calls' = calls \ {m}
  /\ UNCHANGED <<pc, got, rec, engine, crashes, broker, misled>>

CancelApply(m) ==
  /\ m.op = "cancel" /\ m.st = "acked"
  /\ ~Locked(m.row)
  /\ IF row[m.row].status \in NON_TERMINAL_FOR_CANCEL
     THEN Transition(m.row, "canceled")
     ELSE UNCHANGED row
  /\ calls' = calls \ {m}
  /\ UNCHANGED <<pc, got, rec, engine, crashes, broker, misled>>

AmendRead(r) ==
  /\ Amends
  /\ engine = "active"
  /\ row[r].ordno # 0
  /\ Cardinality(calls) < MaxCalls
  /\ \E q \in 1..Qty :
       calls' = calls \cup {[op |-> "amend", row |-> r, ordno |-> row[r].ordno,
                             qty |-> q, st |-> "sent", new |-> 0]}
  /\ UNCHANGED <<row, pc, got, rec, engine, crashes, broker, misled>>

(* update_order_fields takes no lock; the unique index may refuse it. *)
AmendApply(m) ==
  /\ m.op = "amend" /\ m.st = "acked"
  /\ row' = IF Taken(m.new, m.row) THEN row
            ELSE [row EXCEPT ![m.row].ordno = m.new, ![m.row].qty = m.qty]
  /\ calls' = calls \ {m}
  /\ UNCHANGED <<pc, got, rec, engine, crashes, broker, misled>>

------------------------------------------------------------------------------
(* OrderService._reconcile_paper.                                          *)

(* list_open_orders; without an open order no symbol is queried.  Whether   *)
(* the market is closed is the caller's word; boot does not give it.        *)
RecList(p) ==
  /\ IF p = Boot THEN engine = "booting" /\ rec[p].pc = "idle"
                 ELSE engine # "booting" /\ rec[p].pc \in {"idle", "aborted"}
  /\ \E mc \in BOOLEAN :
       /\ mc => p # Boot
       /\ rec' = [rec EXCEPT ![p] =
            LET open == {r \in Rows : Open(r)} IN
            [IdleRec EXCEPT
               !.pc   = IF open # {} THEN "listed" ELSE "orders",
               !.todo = open,
               !.seen = [r \in Rows |-> IF Open(r) THEN row[r].ordno ELSE 0],
               !.closed = mc /\ open # {}]]
  /\ UNCHANGED <<row, pc, got, calls, engine, crashes, broker, misled>>

(* get_open_orders: every order of the day, whatever its status.  view is   *)
(* the number of executions among the rows of an order, -1 without a row.   *)
RecFetch(p) ==
  /\ rec[p].pc = "listed"
  /\ rec' = [rec EXCEPT ![p].pc = "orders", ![p].page = "day",
               ![p].view = [n \in OrdNos |->
                   IF brk[n].st # "none" /\ n \notin past
                   THEN brk[n].execs ELSE -1]]
  /\ UNCHANGED <<row, pc, got, calls, engine, crashes, broker, misled>>

(* The query raises, or comes back with an error: the adapter looks at      *)
(* block2 of the response only, so that an error reads as an empty day.     *)
RecFetchFails(p) ==
  /\ rec[p].pc = "listed"
  /\ \/ rec' = [rec EXCEPT ![p] = [IdleRec EXCEPT !.pc = "aborted"]]
     \/ rec' = [rec EXCEPT ![p].pc = "orders", ![p].page = "error"]
  /\ UNCHANGED <<row, pc, got, calls, engine, crashes, broker, misled>>

AtOrder(p, r) ==
  /\ rec[p].pc = "orders"
  /\ rec[p].row = 0
  /\ r \in rec[p].todo

(* An order without an order number cannot be matched. *)
RecSkip(p, r) ==
  /\ AtOrder(p, r)
  /\ rec[p].seen[r] = 0
  /\ rec' = [rec EXCEPT ![p].todo = @ \ {r}]
  /\ UNCHANGED <<row, pc, got, calls, engine, crashes, broker, misled>>

(* What the run has read does not tell whether the order of r works: its    *)
(* query failed, or the order is of an earlier day.                         *)
Unseen(p, r) == rec[p].page = "error" \/ rec[p].seen[r] \in past

(* The order has no row at the broker. *)
RecVanished(p, r) ==
  /\ AtOrder(p, r)
  /\ rec[p].seen[r] # 0
  /\ rec[p].view[rec[p].seen[r]] = -1
  /\ ~Locked(r)
  /\ IF Open(r)
     THEN /\ Transition(r, IF rec[p].closed THEN "expired" ELSE "canceled")
          /\ misled' = IF Unseen(p, r) THEN misled \cup {r} ELSE misled
     ELSE UNCHANGED <<row, misled>>
  /\ rec' = [rec EXCEPT ![p].todo = @ \ {r}]
  /\ UNCHANGED <<pc, got, calls, engine, crashes, broker>>

(* Mutant: the newest row of the order is skipped. *)
RecLockOffByOne(p, r) ==
  /\ AtOrder(p, r)
  /\ rec[p].seen[r] # 0
  /\ rec[p].view[rec[p].seen[r]] # -1
  /\ ~Locked(r)
  /\ rec' = [rec EXCEPT ![p].row = r, ![p].ord = rec[p].seen[r],
                        ![p].next = IF rec[p].view[rec[p].seen[r]] > 0
                                    THEN rec[p].view[rec[p].seen[r]] - 1 ELSE 0,
                        ![p].applied = FALSE]
  /\ UNCHANGED <<row, pc, got, calls, engine, crashes, broker, misled>>

(* Its rows are applied under the lock of the order. *)
RecLock(p, r) ==
  /\ AtOrder(p, r)
  /\ rec[p].seen[r] # 0
  /\ rec[p].view[rec[p].seen[r]] # -1
  /\ ~Locked(r)
  /\ rec' = [rec EXCEPT ![p].row = r, ![p].ord = rec[p].seen[r],
                        ![p].next = rec[p].view[rec[p].seen[r]],
                        ![p].applied = FALSE]
  /\ UNCHANGED <<row, pc, got, calls, engine, crashes, broker, misled>>

(* Mutant: the fill is booked under the number the row has now. *)
RecApplyCurrentNumber(p) ==
  /\ rec[p].row # 0
  /\ rec[p].next > 0
  /\ LET r == rec[p].row
         k == rec[p].next
         o == ApplyFill(row[r], <<"recon", row[r].ordno, k>>, brk[rec[p].ord].qty - k)
     IN  /\ row' = [row EXCEPT ![r] = o]
         /\ rec' = [rec EXCEPT ![p].next = k - 1,
                               ![p].applied = @ \/ o # row[r]]
  /\ UNCHANGED <<pc, got, calls, engine, crashes, broker, misled>>

(* Mutant: one row too many. *)
RecApplyBelowZero(p) ==
  /\ rec[p].row # 0
  /\ rec[p].next >= 0
  /\ LET r == rec[p].row
         n == rec[p].ord
         k == rec[p].next
         o == ApplyFill(row[r], <<"recon", n, k>>, brk[n].qty - k)
     IN  /\ row' = [row EXCEPT ![r] = o]
         /\ rec' = [rec EXCEPT ![p].next = k - 1,
                               ![p].applied = @ \/ o # row[r]]
  /\ UNCHANGED <<pc, got, calls, engine, crashes, broker, misled>>

(* The rows come newest first; each carries the quantity it left open. *)
RecApply(p) ==
  /\ rec[p].row # 0
  /\ rec[p].next > 0
  /\ LET r == rec[p].row
         n == rec[p].ord
         k == rec[p].next
         o == ApplyFill(row[r], <<"recon", n, k>>, brk[n].qty - k)
     IN  /\ row' = [row EXCEPT ![r] = o]
         /\ rec' = [rec EXCEPT ![p].next = k - 1,
                               ![p].applied = @ \/ o # row[r]]
  /\ UNCHANGED <<pc, got, calls, engine, crashes, broker, misled>>

(* Mutant: the lock is kept when nothing was applied. *)
RecUnlockApplied(p) ==
  /\ rec[p].row # 0
  /\ rec[p].next = 0
  /\ rec[p].applied
  /\ rec' = [rec EXCEPT ![p].todo = @ \ {rec[p].row},
                        ![p].row = 0, ![p].ord = 0]
  /\ UNCHANGED <<row, pc, got, calls, engine, crashes, broker, misled>>

(* Nothing applied, and the market is said to be closed: an accepted order  *)
(* has expired.                                                             *)
RecUnlock(p) ==
  /\ rec[p].row # 0
  /\ rec[p].next = 0
  /\ LET r == rec[p].row IN
       IF ~rec[p].applied /\ rec[p].closed /\ row[r].status = "accepted"
          /\ r \in rec[p].todo
       THEN /\ Transition(r, "expired")
            /\ misled' = IF session = "open" THEN misled \cup {r} ELSE misled
       ELSE UNCHANGED <<row, misled>>
  /\ rec' = [rec EXCEPT ![p].todo = @ \ {rec[p].row},
                        ![p].row = 0, ![p].ord = 0]
  /\ UNCHANGED <<pc, got, calls, engine, crashes, broker>>

(* Then the order numbers among the rows, newest first. *)
AtOrdNo(p, n) ==
  /\ rec[p].pc = "orders"
  /\ rec[p].row = 0
  /\ rec[p].todo = {}
  /\ rec[p].view[n] # -1
  /\ \A m \in OrdNos : m > n => rec[p].view[m] = -1

(* Mutant: every order number passes for known. *)
KnownAlways(p, n) == TRUE

Known(p, n) == \E r \in Rows : rec[p].seen[r] = n

RecKnown(p, n) ==
  /\ AtOrdNo(p, n)
  /\ Known(p, n) \/ Exists(n)
  /\ rec' = [rec EXCEPT ![p].view[n] = -1]
  /\ UNCHANGED <<row, pc, got, calls, engine, crashes, broker, misled>>

(* _register_orphan: a row of its own for an unknown order number. *)
RecOrphan(p, n) ==
  /\ AtOrdNo(p, n)
  /\ ~Known(p, n) /\ ~Exists(n)
  /\ ~Taken(n, n)
  /\ row' = [row EXCEPT ![n] = [status |-> "accepted", ordno |-> n,
                                qty |-> brk[n].qty, fills |-> {}]]
  /\ rec' = [rec EXCEPT ![p].view[n] = -1, ![p].row = n,
                        ![p].ord = n, ![p].next = rec[p].view[n], ![p].applied = FALSE]
  /\ UNCHANGED <<pc, got, calls, engine, crashes, broker, misled>>

(* The insert violates ix_orders_broker and no row has the key: it raises. *)
RecOrphanFails(p, n) ==
  /\ AtOrdNo(p, n)
  /\ ~Known(p, n) /\ ~Exists(n)
  /\ Taken(n, n)
  /\ rec' = [rec EXCEPT ![p] = [IdleRec EXCEPT !.pc = "aborted"]]
  /\ UNCHANGED <<row, pc, got, calls, engine, crashes, broker, misled>>

AllApplied(p) == rec[p].todo = {} /\ \A n \in OrdNos : rec[p].view[n] = -1

(* In the end the positions are read; that may raise, too. *)
RecFinish(p) ==
  /\ rec[p].pc = "orders"
  /\ rec[p].row = 0
  /\ AllApplied(p)
  /\ \E end \in {IF p = Boot THEN "done" ELSE "idle", "aborted"} :
       rec' = [rec EXCEPT ![p] = [IdleRec EXCEPT !.pc = end,
                    !.page = IF end = "done" THEN rec[p].page ELSE "none"]]
  /\ UNCHANGED <<row, pc, got, calls, engine, crashes, broker, misled>>

------------------------------------------------------------------------------
(* RealtimeFutureFillSource: a TC3 message for an execution of the order.  *)
(* It may come late, more than once or never, and carries no remaining     *)
(* quantity.                                                               *)
TcFill(r, k) ==
  /\ Realtime
  /\ engine = "active"
  /\ row[r].ordno # 0
  /\ k <= brk[row[r].ordno].execs
  /\ ~Locked(r)
  /\ row' = [row EXCEPT ![r] = ApplyFill(@, <<"tc", @.ordno, k>>, -1)]
  /\ UNCHANGED <<pc, got, calls, rec, engine, crashes, broker, misled>>

------------------------------------------------------------------------------
(* A crash loses every handler and answer in memory, nothing in SQLite.    *)
(* The next start boots before it serves requests.                         *)

Crash ==
  /\ crashes < MaxCrashes
  /\ crashes' = crashes + 1
  /\ engine' = "booting"
  /\ pc' = [c \in Clients |-> "idle"]
  /\ got' = [c \in Clients |-> 0]
  /\ calls' = {}
  /\ rec' = [p \in Procs |-> IdleRec]
  /\ UNCHANGED <<row, broker, misled>>

(* Mutant: only IN_DOUBT counts, a SUBMITTED row of a crash does not. *)
UnresolvedInDoubt(r) == row[r].status = "in_doubt" /\ row[r].ordno = 0

Unresolved(r) == row[r].status \in IN_FLIGHT /\ row[r].ordno = 0

BootQuarantine(r) ==
  /\ rec[Boot].pc = "done"
  /\ Unresolved(r)
  /\ Transition(r, "quarantined")
  /\ UNCHANGED <<pc, got, calls, rec, engine, crashes, broker, misled>>

(* ACTIVE when the configuration asks for it and the positions were read. *)
BootFinish ==
  /\ rec[Boot].pc = "done"
  /\ \A r \in Rows : ~Unresolved(r)
  /\ rec' = [rec EXCEPT ![Boot] = IdleRec]
  /\ engine' \in {"active", "read_only"}
  /\ UNCHANGED <<row, pc, got, calls, crashes, broker, misled>>

BootFails ==
  /\ engine = "booting"
  /\ rec[Boot].pc = "aborted"
  /\ rec' = [rec EXCEPT ![Boot] = IdleRec]
  /\ engine' = "read_only"
  /\ UNCHANGED <<row, pc, got, calls, crashes, broker, misled>>

------------------------------------------------------------------------------
(* The broker. *)

NextOrdNo(n) == /\ brk[n].st = "none"
                /\ \A m \in OrdNos : m < n => brk[m].st # "none"

BrokerTakes(c, n) ==
  /\ pc[c] = "sending"
  /\ session = "open"
  /\ NextOrdNo(n)
  /\ brk' = [brk EXCEPT ![n] = [st |-> "working", owner |-> c, org |-> 0,
                                qty |-> Qty, execs |-> 0]]
  /\ got' = [got EXCEPT ![c] = n]
  /\ pc' = [pc EXCEPT ![c] = "taken"]
  /\ UNCHANGED <<row, calls, rec, engine, crashes, session, past, misled>>

BrokerRefuses(c) ==
  /\ pc[c] = "sending"
  /\ pc' = [pc EXCEPT ![c] = "refused"]
  /\ UNCHANGED <<row, got, calls, rec, engine, crashes, broker, misled>>

(* _ack judges an order that the broker has taken a failure: the answer has *)
(* an error message, a status, another code, or no order number.            *)
AckMisjudged(c) ==
  /\ pc[c] = "taken"
  /\ pc' = [pc EXCEPT ![c] = "refused"]
  /\ got' = [got EXCEPT ![c] = 0]
  /\ UNCHANGED <<row, calls, rec, engine, crashes, broker, misled>>

(* The request does not arrive, or its answer does not come back. *)
BrokerSilent(c) ==
  /\ pc[c] \in {"sending", "taken"}
  /\ pc' = [pc EXCEPT ![c] = "failed"]
  /\ got' = [got EXCEPT ![c] = 0]
  /\ UNCHANGED <<row, calls, rec, engine, crashes, broker, misled>>

Answer(m, new) ==
  \/ calls' = (calls \ {m}) \cup {[m EXCEPT !.st = "acked", !.new = new]}
  \/ calls' = calls \ {m}

BrokerCancels(m) ==
  /\ m.op = "cancel" /\ m.st = "sent"
  /\ brk[m.ordno].st = "working"
  /\ brk' = [brk EXCEPT ![m.ordno].st = "closed"]
  /\ Answer(m, 0)
  /\ UNCHANGED <<row, pc, got, rec, engine, crashes, session, past, misled>>

(* The order goes on under a new number, with the quantity asked for.      *)
BrokerAmends(m, n) ==
  /\ m.op = "amend" /\ m.st = "sent"
  /\ brk[m.ordno].st = "working"
  /\ m.qty \in 1..(brk[m.ordno].qty - brk[m.ordno].execs)
  /\ NextOrdNo(n)
  /\ brk' = [brk EXCEPT ![m.ordno].st = "closed",
               ![n] = [st |-> "working", owner |-> brk[m.ordno].owner,
                       org |-> m.ordno, execs |-> 0, qty |-> m.qty]]
  /\ Answer(m, n)
  /\ UNCHANGED <<row, pc, got, rec, engine, crashes, session, past, misled>>

(* Refused, or not delivered; an answer that _ack judges a failure leaves   *)
(* the row as it is, like a lost one (Answer).                              *)
BrokerDeclines(m) ==
  /\ m.st = "sent"
  /\ calls' = calls \ {m}
  /\ UNCHANGED <<row, pc, got, rec, engine, crashes, broker, misled>>

BrokerExecutes(n) ==
  /\ brk[n].st = "working"
  /\ brk' = [brk EXCEPT ![n].execs = @ + 1,
               ![n].st = IF brk[n].execs + 1 = brk[n].qty THEN "closed" ELSE @]
  /\ UNCHANGED <<row, server, session, past, misled>>

(* After the close nothing works any more. *)
MarketCloses ==
  /\ session = "open"
  /\ session' = "closed"
  /\ brk' = [n \in OrdNos |-> IF brk[n].st = "working"
                              THEN [brk[n] EXCEPT !.st = "closed"] ELSE brk[n]]
  /\ UNCHANGED <<row, server, past, misled>>

(* Midnight, by the calendar: a night session goes on, and its orders work. *)
DayChanges ==
  LET numbered == {n \in OrdNos : brk[n].st # "none"} IN
  /\ past # numbered
  /\ past' = numbered
  /\ UNCHANGED <<row, server, brk, session, misled>>

------------------------------------------------------------------------------
PlaceStep(c) ==
  \/ PlaceInsert(c) \/ PlaceAgain(c) \/ PlaceSubmit(c) \/ PlaceAck(c)
  \/ PlaceAckFails(c) \/ PlaceReject(c) \/ PlaceInDoubt(c)

(* A run that has started. *)
RecGoesOn(p) ==
  \/ RecFetch(p) \/ RecFetchFails(p) \/ RecApply(p) \/ RecUnlock(p) \/ RecFinish(p)
  \/ \E r \in Rows : RecSkip(p, r) \/ RecVanished(p, r) \/ RecLock(p, r)
  \/ \E n \in OrdNos : RecKnown(p, n) \/ RecOrphan(p, n) \/ RecOrphanFails(p, n)

RecStep(p) == RecList(p) \/ RecGoesOn(p)

CallStep ==
  \/ \E r \in Rows : CancelRead(r) \/ AmendRead(r)
  \/ \E m \in calls : CancelApply(m) \/ AmendApply(m)

TcStep == \E r \in Rows, k \in 1..Qty : TcFill(r, k)

BootStep == (\E r \in Rows : BootQuarantine(r)) \/ BootFinish \/ BootFails

PlaceAnswer(c) ==
  \/ \E n \in OrdNos : BrokerTakes(c, n)
  \/ BrokerRefuses(c) \/ AckMisjudged(c) \/ BrokerSilent(c)

CallAnswer(m) ==
  \/ BrokerCancels(m) \/ BrokerDeclines(m)
  \/ \E n \in OrdNos : BrokerAmends(m, n)

BrokerStep ==
  \/ \E c \in Clients : PlaceAnswer(c)
  \/ \E m \in calls : CallAnswer(m)
  \/ \E n \in OrdNos : BrokerExecutes(n)
  \/ MarketCloses \/ DayChanges

Next ==
  \/ \E c \in Clients : PlaceStep(c)
  \/ \E p \in Procs : RecStep(p)
  \/ CallStep \/ TcStep \/ Crash \/ BootStep \/ BrokerStep

Spec == Init /\ [][Next]_vars

(* Every coroutine that can run is run by the event loop, and a broker      *)
(* request comes to an end (the HTTP client times out).  Nothing makes an   *)
(* operator ask for reconciliation: only boot starts it of itself.          *)
Fairness ==
  /\ \A c \in Clients : WF_vars(PlaceStep(c)) /\ WF_vars(PlaceAnswer(c))
  /\ \A p \in Procs : WF_vars(RecGoesOn(p))
  /\ WF_vars(RecList(Boot))
  /\ WF_vars(BootStep)

FairSpec == Spec /\ Fairness

------------------------------------------------------------------------------
(* Properties. *)

(* place never sends an order twice: whatever is retried, answered late or  *)
(* lost in a crash, the broker takes at most one new order for a client's   *)
(* idempotency key ("auto-retry" is forbidden, a repeated request is        *)
(* answered from the row).                                                  *)
AtMostOneOrder ==
  \A m, n \in OrdNos :
    /\ brk[m].owner # 0 /\ brk[m].owner = brk[n].owner
    /\ brk[m].org = 0 /\ brk[n].org = 0
    => m = n

(* An execution is booked in one row only, although place and reconcile may *)
(* both create a row for the same broker order: the unique index on the     *)
(* order number keeps it out of the second one.                             *)
ExecutionOf(r) == {<<e[2], e[3]>> : e \in row[r].fills}

BookedOnce ==
  \A q, r \in Rows : q # r => ExecutionOf(q) \cap ExecutionOf(r) = {}

(* The client whose order a row stands for: its own key, or the client of   *)
(* the order that an orphan row was registered for.                         *)
OwnerOf(r) == IF r \in Clients THEN r ELSE brk[r].owner

(* A row holds only executions the broker made, and made for the client's   *)
(* order that the row stands for, under whatever number it went on after an *)
(* amend: a client's row those of the client's order, an orphan row "n"     *)
(* those of the order that the broker numbered n.  Reconcile works on a     *)
(* snapshot while amend moves the row to another order number.              *)
FillsAreExecutions ==
  \A r \in Rows : \A e \in row[r].fills :
    /\ e[3] <= brk[e[2]].execs
    /\ brk[e[2]].owner = OwnerOf(r)

(* The book and the broker agree on what is over: a row that is filled,     *)
(* canceled or expired does not name an order that still works there,       *)
(* unless reconcile closed it on an empty answer, on a page that lacks the  *)
(* orders of an earlier day, or on a caller's false market_closed.  No      *)
(* other interleaving of fills, cancels, amends and runs does it.           *)
ClosedIsClosed ==
  \A r \in Rows \ misled :
    row[r].status \in {"filled", "canceled", "expired"} /\ row[r].ordno # 0
      => brk[row[r].ordno].st # "working"

(* When reconcile lets go of an order, the order is terminal or has every   *)
(* execution its rows showed.                                               *)
CatchesUp ==
  [][\A p \in Procs :
       rec[p].row # 0 /\ rec'[p].row # rec[p].row /\ crashes' = crashes
         => LET r == rec[p].row
                n == rec[p].ord
            IN  \/ row'[r].status \notin NonTerminal
                \/ rec[p].view[n] = -1
                \/ \A k \in 1..rec[p].view[n] : <<"recon", n, k>> \in row'[r].fills
    ]_vars

(* The server has given a row up although its order may go on working: the  *)
(* answer was judged a failure, an earlier boot could not resolve the row   *)
(* and left it to the operator, or reconcile was misled.                    *)
GivenUp(r) == row[r].status \in {"rejected", "quarantined"} \/ r \in misled

(* When boot lets the engine become ACTIVE, whatever the crash interrupted, *)
(* every order of the day that works at the broker has a row with its       *)
(* number, and no row is left waiting for an answer that nobody will        *)
(* receive.  Boot finds out unless its query came back as an error without  *)
(* rows, or it asked nothing because every row was terminal -- and then the *)
(* server had given up a row of that order before.                          *)
BootResolves ==
  [][engine = "booting" /\ engine' = "active"
       => /\ \A n \in OrdNos \ past :
               brk[n].st = "working" =>
                 \/ \E r \in Rows : row'[r].ordno = n
                 \/ rec[Boot].page = "error"
                 \/ /\ rec[Boot].page = "none"
                    /\ \E r \in Rows : GivenUp(r) /\ OwnerOf(r) = brk[n].owner
          /\ \A r \in Rows :
               row'[r].status \in IN_FLIGHT => row'[r].ordno # 0]_vars

(* Whatever handler writes it, a row moves as its life cycle allows.        *)
LifeCycle == INSTANCE OrderLifecycle WITH
  Ids    <- Rows,
  status <- [r \in Rows |-> row[r].status],
  fills  <- [r \in Rows |-> row[r].fills]

ImplementsLifeCycle == LifeCycle!LSpec

(* An operator's run works on the orders of the day. *)
DayIsRead == \E p \in Recs : rec[p].pc = "orders" /\ rec[p].page = "day"

(* If operators go on asking for reconciliation, and its query goes on      *)
(* being made and answered, an order the broker has taken gets a row with   *)
(* its number while it is of the day, although the answer may be lost or    *)
(* judged a failure, or the server may crash before it is recorded.         *)
OrdersAreTracked ==
  []<>DayIsRead =>
    \A n \in OrdNos :
      brk[n].st # "none" ~> (n \in past \/ \E r \in Rows : row[r].ordno = n)

(* The server does not stay in boot. *)
BootEnds == engine = "booting" ~> engine # "booting"
==============================================================================
