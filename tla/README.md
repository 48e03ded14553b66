# A verification development for hanbit

hanbit (`src/server`, `src/web`) trades overseas futures on a paper account
and, once armed, Korean and overseas stocks on a live one, through a broker
library (`programgarden_finance`). The server is one Python asyncio process
with a SQLite database. This directory models its order core in TLA+, checks
the models with TLC and proves the most important invariants with TLAPS.

All the modules are in this directory; `PROJECT.json` lists the components,
runs, hazards and theorems, and maps every definition to the lines it models.

    tlc -config OrderPipelineCrash.cfg MCOrderPipeline    # model checking
    tlapm OrderPipelineProofs.tla                         # proofs


## 1. Inventory

### The order core (paths below `src/server/app`)

| Component | State | Operations |
|---|---|---|
| order state machine (`orders/state_machine.py`, `models/order_dto.py`) | none; legal transitions, terminal states; a lock per order | `can_transition`, `OrderLocks.lock` |
| order repository (`repositories/orders_repo.py`, migration 0002) | orders, fills, positions, halt and risk state in SQLite; unique indices on idempotency key, broker order number and fill event | `insert_order`, `transition`, `update_order_fields`, `apply_fill`, `list_open_orders`, ... |
| order service (`services/order_service.py`) | none of its own: rows, engine state, locks | `place`, `amend`, `cancel`, `cancel_all_open`, `_reconcile_paper`, `_reconcile_live`, `_register_orphan` |
| boot (`orders/boot.py`, `core/engine_state.py`) | engine state per bucket: READ_ONLY, RECONCILING, ACTIVE | `boot_engine`, `_boot_paper_bucket`, quarantine |
| realtime fills (`adapters/realtime_future.py`, `orders/fill_tracker.py`) | dedup by event key | `tc3_to_fill`, `_apply_fill` |
| order adapters (`adapters/*_order.py`, `order_registry.py`) | none | what is sent, what an answer is taken for |
| account TR queue (`core/tr_queue.py`) | per bucket: waiting jobs, `draining`, `last_call` | `submit`, the leader's loop |
| kill switch and halt (`risk/killswitch.py`, `risk/halt.py`) | `trading_halt` by scope | engage (levels 1, 2), release, published snapshot |
| risk gate (`risk/gate.py`, `caps.py`, `limits.py`, `portfolio/metrics.py`) | reads halt, open orders, positions, daily notional | `pre_check` |
| daily loss (`risk/daily_loss.py`) | `risk_state` | evaluate, halt, reset at the day boundary |
| arming (`services/confirm_token.py`, `adapters/order_registry.py`) | tokens in memory, the runtime flag | issue, consume, arm, disarm |
| events (`core/event_bus.py`, `api/ws.py`, `src/web/src/lib/ws`) | bounded queue per subscriber, `seq` | publish, subscribe, resync |
| portfolio (`portfolio/*`) | last snapshot | consistent tick, FX, marks, reading the realized profit |
| strategies (`strategies/*`) | cooldown per strategy | evaluate, emit intents |
| realized profit (`portfolio/realized.py`) | none | average cost, folded over the fills |
| stock adapters (`adapters/korea_stock_order.py`, `overseas_stock_order.py`) | none | what an answer is taken for, a page of orders with cumulative executions |

The sessions, market data, the read-only routes, the pages of the web client
and the scripts carry no order state of their own.

### How they interact

* A route of the API or a strategy calls `place`. It reads the gate's context,
  inserts a row under the client's idempotency key, and awaits the broker while
  it holds the lock of the order. `amend` and `cancel` read the row, await the
  broker without the lock and then write.
* `reconcile` runs when an operator asks, when boot runs and before a kill: it
  snapshots the open orders, queries the broker and writes the differences.
* A TC3 message writes executions through the same `apply_fill`.
* Every account query goes through the TR queue, whose leader is one of the
  callers. The kill switch, boot and polling differ by priority only.
* All of them share the rows of SQLite and nothing else; between two awaits a
  handler runs alone.

### What is hard here, and what makes each part correct

* *Order rows.* Place, reconcile, TC3, amend and boot write the same row and
  see stale copies of it. Correct means: a client's key causes one order at
  most; an execution is booked in one row; a closed row is closed at the
  broker; nothing the broker works on stays unknown.
* *Crash and lost answers.* A crash or a timeout separates "sent" from
  "recorded". Correct means: boot leaves no order unknown and no row waiting
  for an answer nobody will receive, and boot ends.
* *Queue.* The leader's role moves from caller to caller, across cancellation.
  Correct means: calls are serial and spaced, no job is left without a leader,
  a kill is next, a routine job is answered.
* *Kill switch.* It changes state, lists orders and cancels them one by one,
  while places that passed the gate are on their way.
* *Gate.* It checks a reading that another order invalidates before the first
  is recorded.
* *Live bucket.* It sees one page of orders with totals, not executions, and
  must close nothing because a page does not show it.
* *Arming, daily loss, events, strategies.* A flag read before an await, a
  reset nobody calls, a profit read in two halves, a dropped message without a
  successor, a signal from a position that has changed.

The list with lines is `hazards` in `PROJECT.json`.


## 2. Modules

| Module | What it is |
|---|---|
| `OrderStates` | the states, terminal sets and legal transitions, as data |
| `OrderLifecycle` | abstract: what every row promises, whoever writes it |
| `OrderPipeline` | place, amend, cancel, paper reconcile, orphans, TC3, crash, boot, and the broker |
| `MCOrderPipeline` | model values and symmetry for TLC |
| `OrderPipelineProofs` | theorems about `OrderPipeline` and its rows |
| `OrderBookProofs` | theorems that relate its rows to the broker's book |
| `TrQueue` | one bucket of the account TR queue |
| `MCTrQueue`, `TrQueueProofs` | its model values; theorems about it |
| `KillSwitch` | halt, sweep, flatten and arming, against orders on their way through the gate |
| `MCKillSwitch`, `KillSwitchProofs` | its model values; theorems about it |
| `RiskGate` | the decisions of the gate, as operators over an intent and a context |
| `OrderEntry` | extends `RiskGate`: place and amend through the gate, by clients and strategies, the daily notional, positions, disarming, restart |
| `MCOrderEntry`, `OrderEntryProofs` | its model values; theorems about it |
| `LiveReconcile` | the live bucket: stock adapters, `_reconcile_live`, amend and cancel by quantity, boot; implements `OrderLifecycle` |
| `MCLiveReconcile`, `LiveReconcileProofs` | its model values; theorems about it |
| `EventStream` | the halt state on its way to a browser tab: bus, WebSocket, reconnect, gap, query |
| `MCEventStream`, `EventStreamProofs` | its model values; theorems about it |
| `DailyLoss` | fills, realized and unrealized profit, the daily limit |
| `MCDailyLoss`, `DailyLossProofs` | its prices and opening position; theorems about it |

`OrderPipeline` and `LiveReconcile` implement the same abstract specification,
`OrderLifecycle`, and both take the states from `OrderStates`. `OrderEntry`
composes the gate (`RiskGate`), the order service, the strategy engine and the
arming of LIVE; what another module has in steps is one step there.

### OrderPipeline

One step is what a handler does between two awaits at which another handler
can act on the same data: one transaction, or one exchange with the broker.

| State | Code |
|---|---|
| `row[r]` | the row of `orders` with idempotency key `r`, and its `fills`. Row `n` (a number) stands for the key `recon:n` of an orphan |
| `pc[c]`, `got[c]` | the coroutine of `place` for client key `c`, and the number in its answer |
| `calls` | `cancel` and `amend` between reading the row and writing it |
| `rec[p]` | a run of `_reconcile_paper`: `todo`/`seen` are its snapshot of the open rows, `view` the rows it has read of each order number, `row` the order whose lock it holds, `next` the execution it applies next |
| `engine`, `crashes` | the engine state of the bucket; a bound |
| `brk`, `session`, `past` | the broker's book, outside `src/`: order numbers, owner, executions; whether the session is open; orders of an earlier calendar day |
| `misled` | history: rows that a run closed without having seen whether the order works |

Things worth knowing when reading it:

* The rows of a query come newest first (`overseas_future_order.py:196`) and
  one row is one execution. So `RecApply` counts down, and the quantity a row
  leaves open is the order's quantity less the executions up to it.
* `RecLock` .. `RecUnlock` are several transactions under one lock
  (`Locked`); the other writers use one transaction under the lock, so that
  they only need `~Locked`. `AmendApply` takes no lock, as in the code.
  `place` holds the lock while it waits for the broker, but no other handler
  acts on a row without an order number, so its lock is not modelled.
* `PlaceAckFails`, `RecOrphanFails` and the refusal in `AmendApply` are the
  unique index on broker order numbers raising.
* In `RecFinish` the query of the positions may raise something other than an
  order error and abort the run; an order error makes boot quarantine and then
  stay READ_ONLY, which is `done` followed by `BootFinish`.
* `BrokerSilent` covers both the request that does not arrive and the answer
  that does not come back. `AckMisjudged` is the adapter's `_ack` judging an
  order that the broker has taken a failure (an error message, a status, a
  code, no number): its row is REJECTED, and the order works.
* An answer of the query with an error and no rows reads as an empty day
  (`RecFetchFails`, `page = "error"`), and `market_closed` is the word of the
  caller of `POST /orders/reconcile`, true or not (`RecList`). The day changes
  at midnight by the calendar, in any session (`DayChanges`), and a query for
  today lacks the orders of before.

`OrderLifecycle` is the abstract specification: each row starts in a state in
which it may be created, moves by legal transitions, books an execution only
while it is not terminal, and never forgets one. `ImplementsLifeCycle` says
that the pipeline implements it, under the mapping row -> (status, fills).

### TrQueue

The queue of one bucket (buckets share nothing). `pc` says at which await a
caller is, `cur` which job a leader has taken out, `before` the order of job
numbers, `promo` the levels aging has added. The clock is two flags: `stamped`
(the interval since `last_call`, which the code consults) and `recent` (the
interval since the last call really ended, which a correct gate would
consult). A caller has one job at a time, also after its task was cancelled.

### KillSwitch

It models both buckets, and less of the pipeline: an order is for one lot, a
reconcile run is one step, and of the gate there are the engine state, the
halt, reduce-only and the guard of the live path. The reconcile before the
cancels sees any part of the book (`Pages`: a market whose query failed, one
page, an empty error response), or breaks off anywhere (`KillBreaks`).

| State | Code |
|---|---|
| `halt` | table `trading_halt` |
| `armed`, `config` | `_live_armed`; `HANBIT_ALLOW_LIVE` and the engine states boot has left |
| `ppc[k]` | the await at which `place` of key `k` is; the keys of flatten orders are named after their bucket |
| `row[<<k, own>>]`, `row[<<k, orphan>>]` | the row of key `k`, and the one reconcile may have made for its order |
| `run[r]` | a kill switch request: its bucket, the orders it has still to cancel, the one it is cancelling |
| `pos`, `held` | lots according to the table of positions, and at the broker |
| `since`, `run[r].excused`, `misled` | history variables, read by properties only |

* `GateGlobal` and `GateMarket` are the two awaits of `is_blocked`; a kill or a
  release may come in between.
* `KillList` .. `KillRecord` are the awaits of `cancel_all_open`; its snapshot
  is `todo`. `KillAborts` is an exception other than an order error (and
  LIVE_DISABLED), which ends `engage` with the halt set and the rest of the
  book untouched; `KillBreaks` is the same in the reconcile before it.
* `Lost` is the difference between the buckets: the paper reconcile closes
  what it is not shown, the live one keeps it.
* `Synced` has two outcomes where nothing is held, because the table keeps a
  position the broker no longer lists.

### RiskGate and OrderEntry

`RiskGate` has no variables. `Refused(i, c, used)` is steps 3 to 7 of
`pre_check`, `AmendRefused` what `check_amend` keeps of them, and a context is
what `_build_ctx` read.

| State | Code |
|---|---|
| `p[c]` | a `place` or `amend` request: the await it is at, its intent, whether the gate let it skip the limits, the context it has read, its row |
| `signals[k]` | intents of one run of the strategies that are still to be placed, one after the other |
| `row[n]` | table `orders`; `twin` says that reconcile has registered a second row for the same order |
| `used` | `risk_state.daily_notional_used_krw` |
| `armed` | `_live_armed` |
| `pos`, `held` | lots according to the table of positions, and at the broker |
| `exitKrw`, `counted`, `era`, `amended` | history variables, read by properties only |

* `Ask` and `ReadPositions` are the two halves of `_build_ctx`; `GatePasses`
  reads the daily notional; `Insert`, `Submit`, the answer and `Count` are
  separate transactions. Each gap is a place where another request acts.
* The table keeps a position the broker no longer lists (`SyncedPositions`),
  as in `KillSwitch`.
* A restart loses the requests, not the orders they may have sent
  (`Arrived`), and arms LIVE again as the settings say.
* Open orders are the rows that are not terminal, and QUARANTINED is terminal.
  A daily cap of 0 is none, as in the code.
* `Reconcile` may be started at any time, also for the live bucket, where only
  the kill switch starts one: more behaviours than the code has.

### LiveReconcile

| State | Code |
|---|---|
| `row[r]`, `pc[c]`, `got[c]`, `calls` | as in `OrderPipeline`; `rem` is `remaining_qty`, row `n` the key `recon:<market>:n` |
| `rec[p]` | a run of `_reconcile_live`: its market, the rows still to do, the numbers they had (`seen`), the page of the broker (`view`, `left`), the orphan it registers, whether every market was read |
| `engine`, `synced`, `misled` | engine state of the bucket; history variables |
| `brk[n]` | the broker's book: an amend gives a new number that names its original (`org`) |

* Beside boot only the kill switch starts a run, when an order of the bucket is
  in doubt (`RecStart`); `POST /orders/reconcile` is for the paper bucket.
* `RecFetch` takes any subset of the orders of the day as the page: the
  adapters fetch one page, and an error without rows reads as an empty one.
  Nothing is closed because it is missing (the fail-safe of the code). Such an
  error counts as a market that was read, here as in the code, so
  `ActiveIsSynced` speaks of queries that came back.
* An execution is a pair of number and total: the key is `recon:<OrdNo>`, so
  the first total seen is the one that stays.
* `AckOk`: `clean` stands for an answer with an order number and without an
  error message or status; the overseas adapter also wants `rsp_cd` to be 00000
  or absent. An answer to an accepted order may fail it (`misled`).
* `CancelQty` is `_remaining_qty`: an amend does not change it, so a cancel
  after an amend can leave lots at the broker.

### EventStream

Server: `halted`, `unsaid` (requests between writing `trading_halt` and
publishing, or raising before they publish), `seq`, `subs`, `queue`. Tab:
`client[c]` (a socket), `socket`, `timers`, `stopped`, `status` (the connection
manager), `lastSeq`, `gap` (the store), `fetch`, `cache` (the query). The bus
carries only the news that something changed; what the page shows is what the
query reads, in `ReadPlan` order, one scope after the other, while requests
change them. A socket lives in a slot until both ends have left it, so that a
second connection and the late `onclose` of the first one are both possible.

### DailyLoss

`execs` are executions in the order of the exchange, `ledger` the order in
which they were booked and under which key, `snap` what the aggregator holds of
the position, `job` one `persist_and_publish` with the evaluation after it,
`risk` the row of `risk_state`. `Account` is `realized_pnl_ccy` as a recursive
function, `Applied` one turn of its loop. The reference is independent of it:
cash flow plus the value of what is held (`Value`).

* An execution may be booked as `recon:` and as `tc:`, once each (`Book`).
* A report of the tracker may lack `pnl_amount`, and then its snap has the
  multiplier 1 whatever the instrument has (`Hidden`).
* `Tick` and `Realize` are the two awaits of `persist_and_publish`; executions,
  bookings and reports come in between.
* What the code does not know is history: `told` and `job.report` (the
  executions behind the snap and the tick), `job.upto` (those in the ledger
  when it was read), and `hist`, which watches the evaluations of the day, by
  the numbers they were given and by the value of the account.
* `AveragesAssumption` says that the average prices of the executions are
  integers, which stands for `float` division without rounding; nothing is
  claimed about the sum of a ledger with a hole or an execution under two keys.


## 3. Runs

Passing runs (deadlock is checked unless the cfg says `CHECK_DEADLOCK FALSE`,
where a bound or a closed session stops the system):

| Run | Question | Bounds | States |
|---|---|---|---|
| `OrderPipelineCrash` | does a crash, a lost or misjudged answer or a second reconcile send an order twice, book an execution twice, or leave boot with an unknown order | 2 keys, 2 order numbers, 1 lot, 1 crash, boot and 1 operator reconcile | 4,221,678 |
| `OrderPipelineAmend` | are fills, status and the broker's book consistent when amend, cancel and reconcile overlap, and queries fail | 1 key, 2 order numbers, 2 lots, 1 amend or cancel at a time | 3,262,675 |
| `OrderPipelineLive` | does every writer keep to the life cycle of a row, with TC3 on; is every order tracked in the end; does boot end | 1 key, 1 order number, 2 lots, 1 cancel at a time, 1 crash, fairness, no symmetry | 316,964 |
| `TrQueueCancel` | is the queue serial and never stranded, and a kill next, when any task is cancelled at any await | 3 callers, one of each priority, 1 retry | 1,331,581 |
| `TrQueueFair` | are calls spaced and jobs answered | 3 callers, 1 retry, fairness | 386,182 |
| `KillSwitch` | does an entry pass a halt; is an order forgotten by the sweep; does flattening sell short | a paper entry, no lots at the start, one request at a time: level 1 for the account or level 2 for the market (it may come again, and be released, at any moment) | 963,099 |
| `OrderEntry` | by how much can limits be exceeded that are compared with old readings; what does the daily notional miss; how can an account go short; what do rows left behind stand for | a client and a run of the strategies in the live bucket, 2 rows, orders of 1 or 2 lots, amended to 2, 1 lot at the start, `max_open_orders` 1, 1 crash | 4,146,232 |
| `LiveReconcile` | does a live row close, or book, what the broker did not; when does an order get two rows; when is the engine ACTIVE; does boot end | 2 markets, 1 key, 2 order numbers, 2 lots, 1 amend or cancel at a time, 1 foreign order in the other market, 1 crash, boot and 1 run of the kill switch, fairness | 148,922 |
| `EventStream` | is a loss always noticed; does the page end up with the truth and with a working stream | 2 sockets, a queue of 1, 3 requests for the global scope, 1 restart, 1 unmount, fairness | 1,525,652 |
| `DailyLoss` | is the halt of the day a loss that the monitor was given, over a restart, and the loss of the account; what do the two halves of the profit add up to | 1 lot held, 1 more execution of 1 or 2 lots, 2 prices, 2 origins, multiplier 2, 2 days, 1 restart | 1,666,604 |

Why the bounds suffice to make the cases happen:

* *Order pipeline.* Two clients make two orders compete for one book; two
  numbers for one client make an orphan or an amended order possible; two lots
  make a partial fill, and an order of rows, possible; one crash suffices
  because the server keeps nothing in memory over a crash. Two runs of
  reconcile (operator and boot) show interference; a third adds no new pair. A
  single run may fail, read an error as an empty day, be told a closed market
  or miss the orders of before midnight, so each of these meets each of the
  other steps; an amendment uses the second of two numbers.
* *Kill switch.* One order and one request suffice to overlap a sweep with a
  place at each of its awaits, and with nothing held at the start there is
  something to flatten once the entry is executed and the table has been brought
  up to date. A live entry beside it makes the run too large; the halt it meets
  is one of the two that a paper entry meets, its rows are never closed as
  missing, and the theorems cover both buckets.
* *Order entry.* With `max_open_orders` 1 two callers already overshoot; the
  daily cap of 5 is below two orders of one lot (3 each at the buffered rate)
  and below one of two lots (6, the order cap), so both the passing and the
  refusing side occur. `weight` is 100 in this instance, so `OverWeight` never
  refuses here, and there is no balance snapshot (`Cash` is -1); both are part
  of `Refused` and the theorems hold for every value of them. Two symbols are
  beyond the size of this run, so that the positions limit is not reached.
* *Live reconcile.* An amend needs a second number, and a foreign order competes
  for it. `Foreign` says which numbers others may get and where; with a foreign
  order in the market of the requested one the run grows without a new case, as
  an orphan is made in the same way. A run begins only when some order is in
  doubt, so it meets the answer of another order on its way only if there are
  two: an instance with two orders of one lot in one market has the same
  properties (1.4 million states), and the theorems have any number. When no
  order is in doubt and every request is done, nothing is left to do, so
  deadlock is not checked there.
* *Event stream.* A queue of one drops at the second message; three messages
  are needed to see one, lose one and notice. Two sockets overlap in one
  remount. A break of one side only, without a restart, is in the module and not
  in this instance (`MaxBreaks` 0).
* *Daily loss.* Two executions open, add to, close or reverse a position, in two
  orders of booking; the halt needs two days and a restart. A third execution,
  on one day without a restart, finds nothing new (1.2 million states), and the
  theorems have any number. Prices are such that the averages are integers
  (`float` in the code); the limits are one and two ticks.

Violation runs, one property each, each a finding in `PROJECT.json`: what a
comment or document of the repository says, and what the code does.

| Run | What happens |
|---|---|
| `KillSwitchFlatten` | an exit is executed, the table of positions still shows the lots, level 2 sells them again |
| `LiveReconcileClash` | an order is cancelled and its row is closed; the list of the live market still shows its number, which is not among the open ones: reconcile takes it for an orphan, the insert violates the unique index, and the boot of the bucket ends in READ_ONLY (an order that was filled goes the same way) |

### Disagreements without a run

These follow from reading, or were seen in larger or differently configured
instances of the modules, and the models behave as the code does:

* *Rows newest first.* `overseas_future_order.py:196` asks for the newest row
  first, and `test_reconcile_future.py:51` feeds one row at a time. Of two
  executions the newest leaves 0 open and makes the row FILLED; the older one
  is refused afterwards and `filled_qty` stays short. `CatchesUp` therefore
  says that reconcile leaves an order terminal or with every execution, no more.
* *Orphan key in the paper bucket.* The comment at `order_service.py:571` says
  the key makes registration idempotent; a number that is in a closed row
  passes the orphan rule (`:518`) and the insert raises: `RecOrphanFails`, the
  paper counterpart of `LiveReconcileClash`.
* *Answer after orphan.* A reconcile that sees the order before `place` has
  recorded the answer registers an orphan with its number; recording
  (`order_service.py:289`) raises and the row stays SUBMITTED, although the
  head of the file (`:5`) leaves only in_doubt to reconcile.
* *Error read as an empty day.* `overseas_future_order.py:202` gives an error
  response without rows back as no orders, and `order_service.py:489` closes
  what is missing. Every run of `OrderPipeline` has such responses.
  `FillsAreExecutions` and `CatchesUp` hold with them; `ClosedIsClosed` leaves
  out the rows that were closed on one (`misled`), and `BootResolves` the boot
  that read one. The live bucket closes nothing it is not shown, and
  `LiveReconcile` includes such pages, too.
* *Market closed.* `market_closed` of `POST /orders/reconcile` is taken at its
  word (`order_service.py:491`): a caller who is wrong expires rows whose orders
  work. `ClosedIsClosed` leaves these rows out.
* *Midnight.* The paper query asks for the orders of the calendar day
  (`overseas_future_order.py:66`); those of a night session that began before
  are missing in it, and their rows are closed. `ClosedIsClosed` and
  `BootResolves` name it.
* *Answer judged a failure.* An order that the broker has taken may be recorded
  REJECTED (`_ack`), which no reconcile looks at again. In the paper bucket a
  reconcile of the day registers the order as an orphan, if another order of the
  symbol is open; boot asks the broker nothing when every row is terminal.
  `BootResolves`, `OrdersAreTracked`, `LiveClosedIsClosed`, `DoubledStaysOpen`,
  `UncountedIsExplained` and `SweepsTheBook` name it as a cause.
* *One tick.* `aggregator.py:8` reads both halves of the profit in one tick, so
  that nothing is missing or counted twice when a position is closed, and
  `daily_loss.py:13` asks the same of the caller. The code replaces the realized
  half after the tick, at an await (`aggregator.py:189`): a lot that is closed
  and booked in between is in both halves. `ProfitAddsUp` says by how much; with
  that difference left out TLC finds it violated.
* *One socket.* `client.ts:12`: there must be exactly one socket. When the
  providers mount again before the socket of the first mount has closed, its late
  `onclose` (`client.ts:103`) schedules a reconnect, and the tab has two open
  sockets and ingests every event twice. TLC finds that state in the instance of
  `EventStream`; `StreamComesBack` asks for one open stream only.
* *Restart with an open position.* A restart empties the aggregator. Until the
  tracker reports, the monitor is given no unrealized profit, and halts falsely
  or takes a wrong baseline; `daily_loss.py:15` has the baseline restored so that
  a boot during the day changes nothing. The caller that might wait for the
  tracker does not exist yet, so there is no run for it: `HaltIffLoss` says that
  the monitor judges rightly by its numbers, and by the account's only on level
  days.
* *Cancelled leader.* A leader cancelled during somebody else's job
  (`tr_queue.py:160-161`) never sets that caller's future. `NoneStranded`
  therefore speaks of queued jobs.
* An in_doubt row without an order number is skipped by every reconcile
  (`order_service.py:485`), although the docstring says reconcile closes it.
* Boot goes ACTIVE after it has quarantined orders (`boot.py:152`), against
  `server/README.md:54`.
* A cancelled call does not stamp `last_call` (`tr_queue.py:184`), so the next
  one starts at once, which is why `CallsAreSpaced` is checked and proved
  without cancellation.
* The strategy is "long only" by its docstring (`threshold.py:3`), but it
  takes the absolute quantity of a short position and sells (`SellOff`); the
  gate then judges the order as an entry.

### Fairness

Only what the code and its environment give: the event loop runs a coroutine
that can run (weak fairness of the steps of place, reconcile, boot and the
leader); a request to the broker comes to an end, since the HTTP client times
out (`PlaceAnswer`, `CallReturns`/`CallExceedsCount` as a part of `Lead`).
Boot starts its reconcile by itself (`RecList(Boot)`), and a run that has
started goes on (`RecGoesOn`). Nothing in the paper bucket reconciles by itself
after boot, and no fairness of operators or of queries is assumed: that
operators go on asking, and their queries go on being made and answered, is the
premise `[]<>DayIsRead` of `OrdersAreTracked`. No fairness of cancels, amends,
executions, the session, the day, crashes or new submissions is assumed.

`LiveReconcile`: weak fairness of the run inside boot and of the end of boot;
the account queue answers every query or fails it, and nothing else is needed
for `LiveBootEnds` (place holds a lock only while a broker call is under way,
and there is no place beside boot).

`EventStream`: the process is started again (`Restart`), its requests end, by
publishing or by raising (`RequestEnds`), its tasks run, the
page stays mounted in the end (`Mount`), the browser delivers socket events and
timers, and an attempt to connect to a server that is down fails. `Poll` is
the `refetchInterval` of the query, which runs whatever the stream does.
Requests, crashes, breaks and unmounts are bounded and have no fairness, so
the two liveness properties say what happens after the last of them.


## 4. Proofs

TLC checks small instances; the theorems hold for every number of orders,
lots, order numbers, crashes and callers, under the named assumptions
`PipelineAssumption`, `TrQueueAssumption`, `KillSwitchAssumption`,
`RateAssumption`, `LimitsAssumption`, `EntryAssumption`, `LiveAssumption`,
`EventStreamAssumption`, `DailyLossAssumption`, `AveragesAssumption` and
`OpeningAssumption`. Four theorems have a hypothesis of their own, explained with
them: `ExecutionsBookedOnce`, `ClosedRowsAreClosed`, `BootResolvesOrders` and
`CallsAreSpacedOut`.

`OrderPipelineProofs`:

* `TypeCorrect`: `Spec => []TypeOK`.
* `AtMostOneOrderPerKey`: `Spec => []AtMostOneOrder`. `AtMostOneOrder` is not
  inductive: that the broker takes an order for `c` once only follows from
  what the row says. The strengthening `SentInv` is `RowInv`, `SentOnce` and
  the property itself. `SentOnce` says: a client whose request is before the
  broker (`sending`) has a row that is beyond `approved`, and a client with an
  order at the broker is no longer `sending`, and its row is beyond
  `approved`. `PlaceInsert` needs a missing row, `PlaceSubmit` an approved
  one, and rows never go back, so no later request gets past them.
* `ExecutionsBookedOnce`: `ASSUME ~Amends PROVE Spec => []BookedOnce`.
  `NumberInv` says: a row that has no status yet or waits for its answer has
  no order number, two rows never have the same one (the index), a row's fills
  carry the number the row has, and the number a reconcile run is working with
  is the one the row had in its snapshot. The last part is where the
  assumption is needed: an amend moves the row to another number in the middle
  of that run. With amends `BookedOnce` fails: reconcile makes an orphan row
  for an order whose answer is late, books its executions there, the orphan is
  amended to a new number, and then the answer gives the old number, which is
  free again, to the client's row, where reconcile books them once more. What
  does hold with amends is `FillsAreExecutions`, see below.
* `PipelineImplementsLifeCycle`: `Spec => ImplementsLifeCycle`. `RowInv`
  connects the coroutine of `place` with the status of its row; then each
  action maps to a step of `OrderLifecycle` or leaves (status, fills) alone.

`OrderBookProofs`, in four layers, each with the one before it:

* `FillsOfOwnOrder`: `Spec => []FillsAreExecutions`. `OwnInv`: every number the
  server holds for a row, whether in the row, in an answer, in a request, or in
  what a run has listed or locked, is a number of the row's owner (for an orphan
  row that is the owner of its own number), and what a
  run has read of an order is never more than what is executed. The broker
  side of it (`BookForward`) is that it takes no execution back and keeps the
  owner of an order when it goes on under a new number.
* `ReconcileCatchesUp`: `Spec => CatchesUp`. `AppliedSoFar`: from the moment a
  run has locked a row until it lets go, the row is terminal or has all the
  executions the run has passed; fills are only added (`FillsForward`), so
  nobody else undoes it.
* `ClosedRowsAreClosed`: `ASSUME ~Realtime PROVE
  Spec => []ClosedIsClosed`. `EndInv`: of an owner's orders at most one works,
  the last of its chain of amendments; when it shuts, all of them are over and
  none follows, since an amendment needs a working order and the key of the
  owner is used up (`SentInv` again). A row becomes filled, canceled or
  expired only on such a fact (`FullIsOver`, `CancelIsOver`, `MissingIsOver`),
  whichever number of the chain it has. A row closed without such a fact is
  `misled`: the query was an error, the order of an earlier day, or the market
  not closed as the caller said. With TC3 fills an execution can count
  twice and fill a row too early.
* `BootResolvesOrders`: `Spec => BootResolves`, under the same hypothesis. It
  speaks of the orders of the day, which is what boot asks for. While the server
  boots no request runs (`Quiet`), and an order that works has an open row of its
  owner unless the server has given up a row of that owner (`OpenOrder`); the run
  of boot has it on its page until there is a row with its number
  (`BootCovers`). A row that still waits for an answer has no number and is
  quarantined. Two cases are left out, and named in the property: boot's query
  came back as an error without rows, which the code takes for a day without
  orders; and boot asked nothing, because every row was terminal, while a row of
  the order's owner had been given up (rejected on a misjudged answer,
  quarantined by an earlier boot, or closed by a misled reconcile).

With `Realtime` TRUE and two lots TLC finds `ClosedIsClosed` violated; the proof
of `BootResolves` rests on the same layer and so has the same hypothesis.

`TrQueueProofs`:

* `QueueTypeCorrect`, `CallsAreSerial`, `NoJobStranded` from `LeadInv`: a
  coroutine leads exactly if `draining`, there is one leader at most, it has a
  job, and without a leader nobody waits.
* `KillComesNext` from `KillInv`: if a kill job has been overtaken by a less
  urgent call already, the job that a leader holds at the gate is a kill job,
  so that no second one overtakes it.
* `CallsAreSpacedOut`: `ASSUME ~Cancels PROVE Spec => CallsAreSpaced`, from
  `Recorded` (`recent => stamped`).

`KillSwitchProofs`:

* `KillSwitchTypeCorrect`: `Spec => []TypeOK`.
* `HaltHolds`: `Spec => []HaltStopsEntries`. A request that is past the gate
  has not seen a halt hold since it began. The strengthening says what is
  known half way: `since` names halts this request reads and that hold now
  (`SinceHalted`), and between the two reads the global one is not among them
  (`GlobalRead`).
* `NeverOversellsAlways`: `Spec => []NeverOversells`. `HeldCoversTable`: until
  the flatten order of a bucket is executed, neither the table nor that order
  says more than is held, because entries only add to it; `KeyUsedOnce`: the
  broker has an order for the key only if the key has a row, and while place is
  sending it has none. The property is about flattening alone (`Exits = {}`);
  with other exits `KillSwitchFlatten` shows that it fails.
* `SweepForgetsNoEntry`: `Spec => []SweepsTheBook`. The reconcile of the model
  works on any page, closes rows that the page lacks and may break off
  (`KillBreaks`), as the code does. `BookRows`: an order that works has an open
  row with its number, or one in doubt, or place has still to record it, or the
  order is `misled`: its row was closed by a reconcile that did not see it work,
  or rejected on an answer taken for a failure. `Sound`: for a run that is
  cancelling, every working entry is still to be done (`ToSweep`), is `misled` or
  `excused` (it was in flight when the list was read, or the broker refused to
  cancel it, or it was in doubt and not on the page, `Unfound`), or its request
  has yet to meet the halt (`Late`). `FoundByReconcile` is the step from one to
  the other: what is in doubt and on the page has a row with a number
  afterwards. `Onward` is what no step takes back but a release of the halt,
  which ends the run's claim.
* `LiveOrdersNeedPermission`: `Spec => []LiveNeedsPermission`, from
  `PathClosed`: without the permission the path is not armed, the live engine
  not ACTIVE, and no live request is past its start. Three checks of the code
  stand behind it (engine, gate, adapter registry), so no single error breaks
  it, and it has no run of its own.

`OrderEntryProofs`, for every number of callers, rows, lots, prices and limits,
in either bucket:

* `ApprovedIsNeverSent`: `Spec => []ApprovedIsUnsent`. The strengthening is
  `Owned`: a request between `Insert` and the recorded answer is the only one
  with its row, which is APPROVED and then SUBMITTED, and a row that is not
  beyond APPROVED has nothing at the broker.
* `OpenIsBounded`: `Spec => []OpenOvershoot`. The property counts open entries,
  which are the rows that are not terminal (a quarantined row is terminal), and
  `Tickets`, requests that may still insert one. It is inductive: asking
  takes a ticket only if the reading was below the limit, and inserting turns
  the ticket into a row.
* `DailyIsBounded`: `Spec => []DailyOvershoot`, for every cap but 0, which the
  code takes for none. `DailyIInv` reserves a whole
  order cap for every admitted order but one; that one passed the gate against
  the sum as it was, and needs no more than its own cost. Passing the gate
  either fits under the daily cap or is refused (`PassedFits`), and counting
  spends what was reserved.
* `UncountedIsAlwaysExplained`: `Spec => []UncountedIsExplained`. The causes are
  six: no answer recorded, an answer to an accepted order taken for a failure, a
  request on its way, a crash since, an amendment, an order at the market. `Agree`
  says that the broker, the row and the request agree about quantity and kind
  unless the order was amended; `Explained` is the property with the only
  request that can explain it, one that is about to count.
* `ShortAlwaysHasACause`: `Spec => []ShortHasACause`. `Covered`: as long as
  nothing has been sold of a symbol, what is held only grows, so that no older
  reading of a position, and no exit let pass by one, exceeds it. The first
  sale of an exit that nobody amended therefore cannot go below zero.
* `EntryTypeCorrect`: `Spec => []TypeOK`. The theorems above use `Typed`, which
  leaves the sum of open orders in a context open; `ComNat` says that it is a
  number, since a fold over finitely many rows is one (`MidSum`).

`EventStreamProofs`:

* `LossIsAlwaysCounted`: `Spec => []LossIsCounted`, for any number of sockets,
  queue sizes and restarts. The property speaks of the last message; the
  strengthening adds that this message is one seen in the present life of the
  server, or nothing is (`LastIsSeen`).
* `EventStreamTypeCorrect`: `Spec => []TypeOK`. What needs an argument is the
  number of reconnect timers: each mount of the page brings one chain of
  connection and timer (`Reconnects`: timers and busy sockets are together at
  most the mounts so far), and the late `onclose` of an old socket does not
  start another. `Budget` bounds the messages by the requests made.

`LiveReconcileProofs`, for every number of markets, orders, lots, runs, requests
and crashes:

* `LiveTypeCorrect`: `Spec => []TypeOK`. `WorkingHasMore` (a working order has
  lots left) keeps executions within an order, `OnPage` says that what a run
  still has to book was on the page it read.
* `LiveActiveIsSynced`: `Spec => []ActiveIsSynced`. `BootInv` follows boot
  through the markets: as long as its `ok` is true, every market behind it has
  been read.
* `LiveBucketImplementsLifeCycle`: `Spec => LiveImplementsLifeCycle`.
  `LiveRowInv` (what a request or a run is about to write exists) makes every
  step one that leaves all rows alone but one (`StepOneRow`), and that one a
  step of `OrderLifecycle`.
* `LiveDoubledStaysOpen`: `Spec => []DoubledStaysOpen`. `DoubledInv` relates the
  book (`BookInv`: an order that was not amended has one number), the rows
  (`NumberInv`: the number of a row is one of its order, and no two rows have
  the same), place requests, requests under way, and what runs have seen. It
  lets the row of an order the broker has be REJECTED (`Waiting`); that this
  comes only of an answer taken for a refusal (`misled`, which the property
  names) is `RefusedInv`.
* `LiveFillsBounded`: `Spec => []LiveFillsAreExecuted`. `BookedInv`: a number a
  run has seen for a row is one of the row's order (`SeenOwn`), a page is never
  ahead of the broker (`ViewInv`), and a row has at most one execution of a
  number, with at most what is executed of it (`FillInv`). From there on it is
  arithmetic: `SumsCompare` compares the sum over the executions of a row with
  the one over the broker's numbers, by induction on the subsets of a finite
  set. What is used of the broker is `BookMove` (it takes no execution back,
  what is open only shrinks, and one number is new in a step), which
  `StepBookMove` shows of every step.
* `LiveClosedRowsAreClosed`: `Spec => []LiveClosedIsClosed`. A row closes in
  three ways, and `ClosedInv` has a part for each. A page with nothing left
  closes it: then nothing is open at the broker (`ViewInv`, `OneNumber`). A
  refusal closes it: then the broker has no order of it, or the adapter has taken
  the answer to an accepted one for a refusal, and its row is `misled`. A
  confirmed cancel closes it: the quantity it was sent with was all the table
  took to be left, which is never less than what is open (`LeftInv`), and what
  is open only shrinks (`CancelInv`). `BlankInv` is for a row whose
  `remaining_qty` is NULL, where the quantity left is computed from the
  executions. All of it is claimed only for orders that were not amended.

`DailyLossProofs`, for every sequence of executions, every lot, price,
multiplier and limit:

* `DailyLossTypeCorrect`: `Spec => []TypeOK`; the part that could go wrong is
  that an execution is in the ledger at most once under each of its two keys.
* `ProfitIsValue`: `Spec => []ProfitAddsUp`, in three layers. It speaks of every
  ledger that holds the executions up to some one, wherever that is relative to
  the tick, and gives the difference: what was earned in between.
  `LedgerBalanced` is about `realized_pnl_ccy` alone: for every list of fills
  whose averages are exact, the realized profit is minus what was paid plus
  the open position at its average, by induction on the fills with one case for
  a larger position (`IncreaseBalanced`) and one for a smaller or reversed one
  (`DecreaseBalanced`). `TotalReordered`: a sum does not depend on the order of
  booking; with it `HeldIsEarned` follows, also for a flat position booked out of
  order, which is what the ledger is after reconcile: a ledger that holds the
  first `n` executions says what these have earned. `ReportAddsUp`: what the
  tracker shows is the rest of the value at its report, on both sides of the
  market, less what a missing `pnl_amount` hides. The invariant `IInv` keeps
  both as they were read (`JobHolds`) while executions, bookings and reports
  come in between, and `JobAddsUp` adds them.
* `HaltedIffLost`: `Spec => []HaltIffLoss`. `HistHolds`: the history and the
  stored baseline are of the same evaluation, so that the two limits decide
  alike (`BreachIsFall`). What the monitor is given is the value of the account
  only on level evaluations (`LevelIsTrue`); for these, and a day of these, the
  halt is a loss of the account.

The induction over a list is on the set of the lists a fact holds of
(`SeqInduction`, from the least element of a set of numbers), since a theorem
with a predicate as parameter cannot be used. `AccountFunExists` shows that the
recursive function a definition chooses exists. Sums over finite sets are
treated alike: `SubsetInduction` is on the set of the subsets a fact holds of,
by cardinality, and `SumFunExists` shows that the function by which
`MapThenSumSet` is defined exists.

Model-checked only: liveness (`OrdersAreTracked`, `BootEnds`, `NoStarvation`,
`LiveBootEnds`, `PolledCatchesUp`, `StreamComesBack`) and everything else that
involves fairness, which TLAPS does not treat here. The claims of the two
violation runs are refuted by a trace, and there is nothing to prove about them.
Every safety property of the passing runs is also proved, some under a
hypothesis that is named above and holds in the run that checks the property.


## 5. Not modelled

* In `OrderPipeline`: the gate (only the engine state), the position table,
  audit children of amend and cancel, metrics and events, the reset of order
  numbers by the broker at a day change, a request that reaches the broker
  after its timeout.
* In `TrQueue`: that a leader's own `submit` returns late, when the queue is
  never empty (no property yet), and several jobs of one task.
* In `KillSwitch`: quarantined orders and their raw cancel,
  `resume_pending_flatten`, the halt by daily loss, partial fills. Reconcile is
  one step there, with the pages, omissions and failures it can have; its own
  steps are in `OrderPipeline` and `LiveReconcile`. The published halt state is
  in `EventStream`.
* In `RiskGate` and `OrderEntry`: the whitelist, the guards of the mode, the
  limits per market and currency where they coincide with the symbol limit,
  concentration figures, the refresh of balances and the limits query for the
  web client. An order is executed whole.
* In `LiveReconcile`: request fields, venues and dates, the gate, arming.
* In `EventStream`: topics other than the halt state, which use the same bus
  and store; the ring buffers of the store, which only show a list. The task
  that forwards the queue to a socket can end alone (`ws.py:40-46`) and leave a
  connection that is open and silent; `StreamComesBack` speaks of the
  connection and says nothing of that one, which only `Poll` makes up for.
* In `DailyLoss`: several instruments and currencies, and its caller: nothing
  in the server calls `DailyLossMonitor.evaluate` yet, so the model calls it
  after the aggregator, one at a time, as the docstrings intend.
* Confirm tokens and order tickets: issuing and consuming is one dictionary
  operation between two awaits; a token is spent once by that alone.
* Sessions, market data, read-only routes, pages, migrations, seeds and
  scripts: input and output without order state.


## 6. Plan

Done: `OrderStates`, `OrderLifecycle`, `OrderPipeline`; `TrQueue`;
`KillSwitch`; `RiskGate` and `OrderEntry` with the strategies; `LiveReconcile`;
`EventStream`; `DailyLoss` with realized profit; and the theorems above.

Left, most important first:

1. A request that reaches the broker after its timeout in `OrderPipeline`
   (`OrderEntry` has it across a restart).
2. `run_seq`, quarantined orders and `resume_pending_flatten` in `KillSwitch`,
   with a property that level 2 empties the account in the end.
3. Two symbols in `OrderEntry`, for the positions and weight limits.
4. The same execution as `tc:` and as `recon:` in one ledger: `DailyLoss` and
   `OrderPipeline` book it twice as the code does; a property that says what
   that does to the position and the profit is missing.
5. The release of a leader under bounded load in `TrQueue`.
