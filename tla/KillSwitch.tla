----------------------------- MODULE KillSwitch -----------------------------
(***************************************************************************)
(* The kill switch (risk/killswitch.py, risk/halt.py) against orders being *)
(* placed, and the arming of the live bucket.                              *)
(*                                                                         *)
(* engage sets the halt of a scope, lists the open orders of each bucket   *)
(* of the scope and asks the broker to cancel them one by one; level 2     *)
(* then sells the positions it finds in the table.  Meanwhile requests     *)
(* pass the gate, which reads the global halt and the halt of the market   *)
(* in two awaits, and wait for the broker.                                 *)
(*                                                                         *)
(* A step is what a coroutine does between two awaits at which another can *)
(* act on the same data.  An order is for one lot and is executed whole.   *)
(* Of the gate there are the engine state, the halt, the arming and        *)
(* reduce-only; limits are left out.  A reconcile run is one step here     *)
(* (OrderPipeline has its steps).                                          *)
(***************************************************************************)
EXTENDS Integers, FiniteSets

CONSTANTS
  Orders,   \* idempotency keys of orders requested by clients
  Live,     \* those of the live bucket; the others are paper
  Exits,    \* those with intent EXIT (they sell); the others are ENTRY
  Runs,     \* concurrent kill switch requests
  Requests, \* what they ask for: scopes and levels
  Lots0     \* lots held in each bucket at the start

Buckets == {"paper", "live"}
Scopes  == {"global", "market"}  \* "market": overseas_futureoption
Keys    == Orders \cup Buckets   \* b: the key flat:b:<symbol>:0 of a flatten order
Targets == Keys \X {"own", "orphan"}  \* order rows; orphan: made by reconcile

ASSUME KillSwitchAssumption ==
  /\ Live \subseteq Orders /\ Exits \subseteq Orders
  /\ Orders \cap Buckets = {}
  /\ Requests \subseteq Scopes \X {1, 2}
  /\ Lots0 \in Nat
  /\ IsFiniteSet(Orders)

VARIABLES
  halt,     \* table trading_halt
  armed,    \* OrderService._live_armed
  config,   \* HANBIT_ALLOW_LIVE, and the engine state of the buckets after boot
  ppc,      \* where the place request of a key is
  since,    \* history: scopes halted ever since that request began
  row,      \* status of the order rows
  run,      \* where a kill switch request is, and what it has read
  brk,      \* the broker's book
  held,     \* lots really held in a bucket
  pos,      \* lots held according to table positions
  qty,      \* lots a flatten order sells (negative: buys)
  misled    \* history: keys with a row closed while the order may still work

vars == <<halt, armed, config, ppc, since, row, run, brk, held, pos, qty, misled>>

RowStatus == {"none", "approved", "submitted", "accepted", "in_doubt",
              "rejected", "canceled", "filled"}  \* canceled: or expired
OpenRow == {"approved", "submitted", "accepted", "in_doubt"}

RunType == [pc : {"idle", "list", "reconcile", "cancel", "record", "flatten", "place"},
            scope : Scopes, level : {1, 2}, bucket : Buckets,
            todo : SUBSET Targets, at : Targets,
            excused : SUBSET Keys]  \* history: see SweepsTheBook

BucketOf(k) == IF k \in Buckets THEN k ELSE IF k \in Live THEN "live" ELSE "paper"

Lots(k) == IF k \in Buckets THEN qty[k] ELSE IF k \in Exits THEN 1 ELSE -1

TypeOK ==
  /\ halt \in [Scopes -> {"active", "killed"}]
  /\ armed \in BOOLEAN
  /\ config \in [permission : BOOLEAN, active : SUBSET Buckets]
  /\ ppc \in [Keys -> {"idle", "global", "market", "insert", "submit", "sending",
                       "taken", "refused", "failed"}]
  /\ since \in [Keys -> SUBSET Scopes]
  /\ row \in [Targets -> RowStatus]
  /\ run \in [Runs -> RunType]
  /\ brk \in [Keys -> {"none", "working", "filled", "closed"}]
  /\ held \in [Buckets -> Int]
  /\ pos \in [Buckets -> Int]
  /\ qty \in [Buckets -> Int]
  /\ misled \subseteq Keys

IdleRun == [pc |-> "idle", scope |-> "global", level |-> 1, bucket |-> "paper",
            todo |-> {}, at |-> <<"paper", "own">>, excused |-> {}]

(* The live engine becomes ACTIVE in boot only if the environment allows it. *)
Init ==
  /\ halt = [s \in Scopes |-> "active"]
  /\ config \in [permission : BOOLEAN, active : SUBSET Buckets]
  /\ "live" \in config.active => config.permission
  /\ armed = config.permission
  /\ ppc = [k \in Keys |-> "idle"]
  /\ since = [k \in Keys |-> {}]
  /\ row = [t \in Targets |-> "none"]
  /\ run = [r \in Runs |-> IdleRun]
  /\ brk = [k \in Keys |-> "none"]
  /\ held = [b \in Buckets |-> Lots0]
  /\ pos = [b \in Buckets |-> Lots0]
  /\ qty = [b \in Buckets |-> 0]
  /\ misled = {}

------------------------------------------------------------------------------
(* arm_live and disarm_live. *)

Arm ==
  /\ config.permission
  /\ armed' = TRUE
  /\ UNCHANGED <<halt, config, ppc, since, row, run, brk, held, pos, qty, misled>>

Disarm ==
  /\ armed' = FALSE
  /\ UNCHANGED <<halt, config, ppc, since, row, run, brk, held, pos, qty, misled>>

Closed(b) == b = "live" /\ ~armed   \* the live path is closed

------------------------------------------------------------------------------
(* OrderService.place and the gate. *)

(* The halts a request reads: only the futures market has one of its own    *)
(* (normalize_scope).                                                       *)
Reads(k) == IF BucketOf(k) = "live" THEN {"global"} ELSE Scopes

(* An EXIT within the position of the table skips the halt. *)
PlaceStart(k) ==
  /\ ppc[k] = "idle" /\ k \in Orders
  /\ row[<<k, "own">>] = "none"   \* bound: a client asks again only if refused
  /\ BucketOf(k) \in config.active
  /\ ppc' = [ppc EXCEPT ![k] = IF k \in Exits /\ pos[BucketOf(k)] >= 1
                               THEN "insert" ELSE "global"]
  /\ since' = [since EXCEPT ![k] = {s \in Reads(k) : halt[s] = "killed"}]
  /\ UNCHANGED <<halt, armed, config, row, run, brk, held, pos, qty, misled>>

GateGlobal(k) ==
  /\ ppc[k] = "global"
  /\ ppc' = [ppc EXCEPT ![k] = IF halt["global"] = "killed" THEN "idle" ELSE "market"]
  /\ UNCHANGED <<halt, armed, config, since, row, run, brk, held, pos, qty, misled>>

(* Mutant: the halt of the market is not read. *)
GateMarketSkipped(k) ==
  /\ ppc[k] = "market"
  /\ ppc' = [ppc EXCEPT ![k] = "insert"]
  /\ UNCHANGED <<halt, armed, config, since, row, run, brk, held, pos, qty, misled>>

GateMarket(k) ==
  /\ ppc[k] = "market"
  /\ ppc' = [ppc EXCEPT ![k] = IF "market" \in Reads(k) /\ halt["market"] = "killed"
                               THEN "idle" ELSE "insert"]
  /\ UNCHANGED <<halt, armed, config, since, row, run, brk, held, pos, qty, misled>>

(* Mutant: the key of an order is not looked up. *)
PlaceInsertAgain(k) ==
  /\ ppc[k] = "insert"
  /\ IF Closed(BucketOf(k))
     THEN /\ ppc' = [ppc EXCEPT ![k] = "idle"]
          /\ UNCHANGED row
     ELSE /\ ppc' = [ppc EXCEPT ![k] = "submit"]
          /\ row' = [row EXCEPT ![<<k, "own">>] = "approved"]
  /\ UNCHANGED <<halt, armed, config, since, run, brk, held, pos, qty, misled>>

(* The gate's step 2, then the row; a key that has a row sends nothing. *)
PlaceInsert(k) ==
  /\ ppc[k] = "insert"
  /\ IF Closed(BucketOf(k)) \/ row[<<k, "own">>] # "none"
     THEN /\ ppc' = [ppc EXCEPT ![k] = "idle"]
          /\ UNCHANGED row
     ELSE /\ ppc' = [ppc EXCEPT ![k] = "submit"]
          /\ row' = [row EXCEPT ![<<k, "own">>] = "approved"]
  /\ UNCHANGED <<halt, armed, config, since, run, brk, held, pos, qty, misled>>

(* make_order_adapter raises when the live path has been closed since. *)
PlaceSubmit(k) ==
  /\ ppc[k] = "submit"
  /\ IF Closed(BucketOf(k))
     THEN /\ ppc' = [ppc EXCEPT ![k] = "idle"]
          /\ UNCHANGED row
     ELSE /\ ppc' = [ppc EXCEPT ![k] = "sending"]
          /\ row' = [row EXCEPT ![<<k, "own">>] = "submitted"]
  /\ UNCHANGED <<halt, armed, config, since, run, brk, held, pos, qty, misled>>

(* A row reconcile has made for the order number keeps place from recording *)
(* it; the exception leaves the row as it is.                               *)
PlaceAnswered(k) ==
  /\ ppc[k] \in {"taken", "refused", "failed"}
  /\ row' = [row EXCEPT ![<<k, "own">>] =
               CASE ppc[k] = "refused" -> "rejected"
                 [] ppc[k] = "failed" -> "in_doubt"
                 [] row[<<k, "orphan">>] # "none" -> @
                 [] OTHER -> "accepted"]
  /\ ppc' = [ppc EXCEPT ![k] = "idle"]
  /\ UNCHANGED <<halt, armed, config, since, run, brk, held, pos, qty, misled>>

------------------------------------------------------------------------------
(* reconcile. *)

(* The number of k's order is in a row. *)
Numbered(k) ==
  \/ row[<<k, "own">>] \in {"accepted", "canceled", "filled"}
  \/ row[<<k, "orphan">>] # "none"

Accepted(b) == {t \in Targets : BucketOf(t[1]) = b /\ row[t] = "accepted"}

(* What a run can be shown: some of the orders the broker has.  The query   *)
(* of a market may fail and be skipped, its answer may be one page, and an  *)
(* error response or another day reads as a day without orders.             *)
Pages(b) == SUBSET {k \in Keys : BucketOf(k) = b /\ brk[k] # "none"}

(* Open rows of orders not shown: they are over for paper; live keeps them. *)
Lost(b, shown) ==
  IF b = "live" THEN {} ELSE {t \in Accepted(b) : t[1] \notin shown}

(* The rows after a run that was shown these orders and closed the rows     *)
(* gone: executions are booked, an order nobody knows gets a row.           *)
Reconciled(b, shown, gone) ==
  [t \in Targets |->
     IF t \in Accepted(b) /\ t[1] \in shown /\ brk[t[1]] = "filled" THEN "filled"
     ELSE IF t \in gone THEN "canceled"
     ELSE IF t[2] = "orphan" /\ t[1] \in shown /\ ~Numbered(t[1])
     THEN IF brk[t[1]] = "filled" THEN "filled" ELSE "accepted"
     ELSE row[t]]

Applied(b, shown, gone) ==
  /\ row' = Reconciled(b, shown, gone)
  /\ misled' = misled \cup {k \in Keys : brk[k] = "working" /\ \E t \in gone : t[1] = k}

(* The number of an order shown is that of a closed row: the insert of a    *)
(* row for it violates the index and raises.                                *)
Clash(shown) == \E k \in shown : row[<<k, "own">>] \in {"canceled", "filled"}

(* A position the broker no longer lists keeps its row in the table; the    *)
(* query of the positions may fail.                                         *)
Synced(b) == \E p \in {held[b], pos[b]} : pos' = [pos EXCEPT ![b] = p]

(* POST /orders/reconcile reconciles the paper bucket only.  It may break   *)
(* off; told that the market is closed, it closes what has no executions.   *)
Reconcile ==
  /\ \E shown \in Pages("paper") : \E gone \in SUBSET Accepted("paper") :
       Applied("paper", shown, gone)
  /\ Synced("paper")
  /\ UNCHANGED <<halt, armed, config, ppc, since, run, brk, held, qty>>

------------------------------------------------------------------------------
(* killswitch.engage and engage_level2. *)

KillEngage(r) ==
  /\ run[r].pc = "idle"
  /\ \E q \in Requests :
       /\ halt' = [halt EXCEPT ![q[1]] = "killed"]
       /\ run' = [run EXCEPT ![r] = [IdleRun EXCEPT !.pc = "list", !.scope = q[1],
                                                    !.level = q[2]]]
  /\ UNCHANGED <<armed, config, ppc, since, row, brk, held, pos, qty, misled>>

(* Mutant: the scope passes for a bucket. *)
Next1Scope(m) ==
  IF m.scope = "global" /\ m.bucket = "paper"
  THEN [m EXCEPT !.pc = "list", !.bucket = "live"]
  ELSE IF m.level = 2 THEN [m EXCEPT !.pc = "flatten", !.bucket = m.scope]
  ELSE IdleRun

(* _target_buckets: the futures market is in the paper bucket. *)
Next1(m) ==
  IF m.scope = "global" /\ m.bucket = "paper"
  THEN [m EXCEPT !.pc = "list", !.bucket = "live"]
  ELSE IF m.level = 2 THEN [m EXCEPT !.pc = "flatten", !.bucket = "paper"]
  ELSE IdleRun

Next2(m) ==
  IF m.scope = "global" /\ m.bucket = "paper"
  THEN [m EXCEPT !.pc = "flatten", !.bucket = "live"]
  ELSE IdleRun

(* level1 does nothing where no live order can be sent. *)
KillNoOp(r) ==
  /\ run[r].pc = "list"
  /\ Closed(run[r].bucket)
  /\ run' = [run EXCEPT ![r] = Next1(@)]
  /\ UNCHANGED <<halt, armed, config, ppc, since, row, brk, held, pos, qty, misled>>

OpenOf(b) == {t \in Targets : BucketOf(t[1]) = b /\ row[t] \in OpenRow}

InFlight(b) == {k \in Keys : BucketOf(k) = b /\ ppc[k] # "idle"}

Listed(r, pc) ==
  run' = [run EXCEPT ![r].pc = pc,
            ![r].todo = {t \in OpenOf(run[r].bucket) : row[t] = "accepted"},
            ![r].excused = @ \cup InFlight(run[r].bucket)]

(* Mutant: in_doubt orders are not looked at. *)
KillListPlain(r) ==
  /\ run[r].pc = "list"
  /\ ~Closed(run[r].bucket)
  /\ Listed(r, "cancel")
  /\ UNCHANGED <<halt, armed, config, ppc, since, row, brk, held, pos, qty, misled>>

(* cancel_all_open reconciles first if an order is in_doubt. *)
KillList(r) ==
  /\ run[r].pc = "list"
  /\ ~Closed(run[r].bucket)
  /\ IF \E t \in OpenOf(run[r].bucket) : row[t] = "in_doubt"
     THEN Listed(r, "reconcile")
     ELSE Listed(r, "cancel")
  /\ UNCHANGED <<halt, armed, config, ppc, since, row, brk, held, pos, qty, misled>>

(* Orders that no row with a number stands for after the run. *)
Unfound(b, shown) == {k \in Keys \ shown : BucketOf(k) = b /\ ~Numbered(k)}

KillReconcile(r) ==
  /\ run[r].pc = "reconcile"
  /\ ~Closed(run[r].bucket)
  /\ LET b == run[r].bucket IN
       \E shown \in Pages(b) :
         /\ ~Clash(shown)
         /\ Applied(b, shown, Lost(b, shown))
         /\ Synced(b)
         /\ run' = [run EXCEPT ![r].pc = "cancel",
              ![r].todo = {t \in Targets : BucketOf(t[1]) = b /\ row'[t] = "accepted"},
              ![r].excused = @ \cup InFlight(b) \cup Unfound(b, shown)]
  /\ UNCHANGED <<halt, armed, config, ppc, since, brk, held, qty>>

(* LIVE_DISABLED, an error of a query, a clash: the run breaks off anywhere *)
(* and engage with it.                                                      *)
KillBreaks(r) ==
  /\ run[r].pc = "reconcile"
  /\ LET b == run[r].bucket IN
       /\ \E shown \in Pages(b) : \E gone \in SUBSET Lost(b, shown) :
            Applied(b, shown, gone)
       /\ Synced(b)
  /\ run' = [run EXCEPT ![r] = IdleRun]
  /\ UNCHANGED <<halt, armed, config, ppc, since, brk, held, qty>>

(* LIVE_DISABLED, or an error of the request: the loop ends, and engage. *)
KillAborts(r) ==
  /\ run[r].pc = "cancel" /\ run[r].todo # {}
  /\ run' = [run EXCEPT ![r] = IdleRun]
  /\ UNCHANGED <<halt, armed, config, ppc, since, row, brk, held, pos, qty, misled>>

(* The broker cancels.  Its answer may be judged a failure, and the loop    *)
(* goes on, or be lost, which ends it.                                      *)
KillCancel(r) ==
  /\ run[r].pc = "cancel"
  /\ ~Closed(run[r].bucket)
  /\ \E t \in run[r].todo :
       /\ brk[t[1]] = "working"
       /\ brk' = [brk EXCEPT ![t[1]] = "closed"]
       /\ \/ run' = [run EXCEPT ![r].pc = "record", ![r].at = t, ![r].todo = @ \ {t}]
          \/ run' = [run EXCEPT ![r].todo = @ \ {t}]
          \/ run' = [run EXCEPT ![r] = IdleRun]
  /\ UNCHANGED <<halt, armed, config, ppc, since, row, held, pos, qty, misled>>

(* Refused by the broker: not ok, the loop goes on. *)
KillRefused(r) ==
  /\ run[r].pc = "cancel"
  /\ ~Closed(run[r].bucket)
  /\ \E t \in run[r].todo :
       run' = [run EXCEPT ![r].todo = @ \ {t}, ![r].excused = @ \cup {t[1]}]
  /\ UNCHANGED <<halt, armed, config, ppc, since, row, brk, held, pos, qty, misled>>

KillRecord(r) ==
  /\ run[r].pc = "record"
  /\ row' = [row EXCEPT ![run[r].at] = IF @ \in OpenRow THEN "canceled" ELSE @]
  /\ run' = [run EXCEPT ![r].pc = "cancel"]
  /\ UNCHANGED <<halt, armed, config, ppc, since, brk, held, pos, qty, misled>>

KillSwept(r) ==
  /\ run[r].pc = "cancel" /\ run[r].todo = {}
  /\ run' = [run EXCEPT ![r] = Next1(@)]
  /\ UNCHANGED <<halt, armed, config, ppc, since, row, brk, held, pos, qty, misled>>

(* flatten_all_positions: closed bucket, no position, or engine not ACTIVE. *)
KillFlattenSkips(r) ==
  /\ run[r].pc = "flatten"
  /\ \/ Closed(run[r].bucket)
     \/ pos[run[r].bucket] = 0
     \/ run[r].bucket \notin config.active
  /\ run' = [run EXCEPT ![r] = Next2(@)]
  /\ UNCHANGED <<halt, armed, config, ppc, since, row, brk, held, pos, qty, misled>>

(* The whole position of the table, so it is an EXIT for the gate, which    *)
(* reads the table again (here in the same step: a position that shrinks in *)
(* between makes the gate refuse).  Bound: the requests for one key go      *)
(* through place one after the other.                                       *)
KillFlatten(r) ==
  /\ run[r].pc = "flatten"
  /\ LET b == run[r].bucket IN
       /\ ~Closed(b) /\ pos[b] # 0 /\ b \in config.active
       /\ ppc[b] = "idle"
       /\ ppc' = [ppc EXCEPT ![b] = "insert"]
       /\ since' = [since EXCEPT ![b] = {}]
       /\ qty' = IF row[<<b, "own">>] = "none" THEN [qty EXCEPT ![b] = pos[b]] ELSE qty
  /\ run' = [run EXCEPT ![r].pc = "place"]
  /\ UNCHANGED <<halt, armed, config, row, brk, held, pos, misled>>

KillFlattened(r) ==
  /\ run[r].pc = "place"
  /\ ppc[run[r].bucket] = "idle"
  /\ run' = [run EXCEPT ![r] = Next2(@)]
  /\ UNCHANGED <<halt, armed, config, ppc, since, row, brk, held, pos, qty, misled>>

KillRelease(s) ==
  /\ halt' = [halt EXCEPT ![s] = "active"]
  /\ since' = [k \in Keys |-> since[k] \ {s}]
  /\ run' = [r \in Runs |-> IF run[r].pc = "idle" THEN run[r]
                            ELSE [run[r] EXCEPT !.excused = Keys]]
  /\ UNCHANGED <<armed, config, ppc, row, brk, held, pos, qty, misled>>

------------------------------------------------------------------------------
(* The broker. *)

BrokerTakes(k) ==
  /\ ppc[k] = "sending"
  /\ brk' = [brk EXCEPT ![k] = "working"]
  /\ ppc' = [ppc EXCEPT ![k] = "taken"]
  /\ UNCHANGED <<halt, armed, config, since, row, run, held, pos, qty, misled>>

BrokerRefuses(k) ==
  /\ ppc[k] = "sending"
  /\ ppc' = [ppc EXCEPT ![k] = "refused"]
  /\ UNCHANGED <<halt, armed, config, since, row, run, brk, held, pos, qty, misled>>

(* _ack takes the answer for a failure: an error message or a status beside *)
(* the number, or an answer without a number.                               *)
AckMisjudged(k) ==
  /\ ppc[k] = "taken"
  /\ ppc' = [ppc EXCEPT ![k] = "refused"]
  /\ misled' = misled \cup {k}
  /\ UNCHANGED <<halt, armed, config, since, row, run, brk, held, pos, qty>>

BrokerSilent(k) ==
  /\ ppc[k] \in {"sending", "taken"}
  /\ ppc' = [ppc EXCEPT ![k] = "failed"]
  /\ UNCHANGED <<halt, armed, config, since, row, run, brk, held, pos, qty, misled>>

BrokerExecutes(k) ==
  /\ brk[k] = "working"
  /\ brk' = [brk EXCEPT ![k] = "filled"]
  /\ held' = [held EXCEPT ![BucketOf(k)] = @ - Lots(k)]
  /\ UNCHANGED <<halt, armed, config, ppc, since, row, run, pos, qty, misled>>

------------------------------------------------------------------------------
PlaceStep(k) ==
  \/ GateGlobal(k) \/ GateMarket(k) \/ PlaceInsert(k) \/ PlaceSubmit(k)
  \/ PlaceAnswered(k)

PlaceAnswer(k) ==
  BrokerTakes(k) \/ BrokerRefuses(k) \/ AckMisjudged(k) \/ BrokerSilent(k)

KillStep(r) ==
  \/ KillNoOp(r) \/ KillList(r) \/ KillReconcile(r) \/ KillBreaks(r)
  \/ KillCancel(r) \/ KillRefused(r) \/ KillAborts(r) \/ KillRecord(r) \/ KillSwept(r)
  \/ KillFlattenSkips(r) \/ KillFlatten(r) \/ KillFlattened(r)

Next ==
  \/ \E k \in Keys : PlaceStart(k) \/ PlaceStep(k) \/ PlaceAnswer(k) \/ BrokerExecutes(k)
  \/ \E r \in Runs : KillEngage(r) \/ KillStep(r)
  \/ \E s \in Scopes : KillRelease(s)
  \/ Reconcile \/ Arm \/ Disarm

Spec == Init /\ [][Next]_vars

------------------------------------------------------------------------------
(* Properties. *)

(* While a halt holds, no new entry gets past the gate, although the gate   *)
(* reads the two halts one after the other: a request that does has not     *)
(* seen any of them hold since it began.                                    *)
HaltStopsEntries ==
  \A k \in Orders \ Exits :
    ppc[k] \in {"insert", "submit", "sending", "taken"} => since[k] = {}

(* "env=false -> no live order": whatever is armed, disarmed, flattened or  *)
(* reconciled, the broker never sees a live order without the permission.   *)
LiveNeedsPermission ==
  ~config.permission => \A k \in Keys : BucketOf(k) = "live" => brk[k] = "none"

(* Flattening again and again, with a table of positions that lags behind   *)
(* the broker, never sells more than is held - as long as nobody else       *)
(* sells: the key of the flatten order is used once.                        *)
NeverOversells == Exits = {} => \A b \in Buckets : held[b] >= 0

(* When level 1 has gone through a bucket, the entries that still work at   *)
(* the broker are those that were in flight when it listed the orders,      *)
(* those the broker refused to cancel, those in doubt that the broker did   *)
(* not show to the reconcile before the cancels, and those whose row said   *)
(* that they are over: closed by a reconcile that was not shown the order   *)
(* or was told that the market is closed, or rejected on an answer taken    *)
(* for a failure (or the halt was released meanwhile).  An order that is in *)
(* doubt and can be found is not forgotten, nor one known by an orphan row. *)
SweepsTheBook ==
  \A r \in Runs :
    run[r].pc = "cancel" /\ run[r].todo = {}
      => \A k \in Orders \ Exits :
           BucketOf(k) = run[r].bucket /\ brk[k] = "working"
             => k \in run[r].excused \cup misled

------------------------------------------------------------------------------
(* README.md of the server: flatten sends reduce-only exits, which do not   *)
(* sell more than is held.                                                  *)
FlattenReducesOnly ==
  [][\A b \in Buckets :
       brk[b] = "none" /\ brk'[b] = "working" /\ qty[b] > 0 => qty[b] <= held[b]]_vars
==============================================================================
