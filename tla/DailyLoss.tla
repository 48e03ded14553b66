------------------------------ MODULE DailyLoss ------------------------------
(***************************************************************************)
(* Profit, loss and the daily loss limit of one bucket: the ledger of      *)
(* fills and the realized profit computed from it (portfolio/realized.py,  *)
(* orders_repo.realized_pnl_krw), the tracker's callbacks                  *)
(* (portfolio/sources/tracker.py), the aggregator that adds the realized   *)
(* profit to the unrealized one (portfolio/aggregator.py) and the monitor  *)
(* that halts the bucket for the day (risk/daily_loss.py).                 *)
(*                                                                         *)
(* One instrument, in KRW.  The exchange, the price and the account        *)
(* tracker are external, and so is the loop that calls the aggregator and  *)
(* then the monitor: one at a time, with what the aggregator returned.     *)
(* Prices are such that the averages are integers (AveragesAssumption).    *)
(*                                                                         *)
(* What the code holds is told against the executions: told is what the    *)
(* snap was made of, job.report what the tick read, job.upto what the      *)
(* ledger held when it was read.  The code has none of the three.          *)
(***************************************************************************)
EXTENDS Integers, SequencesExt

CONSTANTS
  Lots,          \* quantities of an execution
  Prices,
  Mult,          \* the multiplier of the instrument
  PnlGiven,      \* whether the tracker sends pnl_amount
  Origins,       \* what books executions: "recon", and "tc" with its flag on
  LimitRealized, \* max_daily_loss_realized
  LimitEval,     \* max_daily_loss_eval
  MaxNet,        \* bound: lots held
  Opening,       \* executions of earlier days, all of them booked
  MaxExecs,      \* bound: executions, with those of Opening
  MaxDays,       \* bound: trading days
  MaxRestarts,   \* bound: restarts of the server
  None

Trades == [q : Lots \cup {-l : l \in Lots}, p : Prices]  \* executions
Snaps == [side : {"long", "short"}, qty : Nat, avg : Int, price : Prices,
          pnl : Int \cup {None}]  \* positions as the tracker reports them

ASSUME DailyLossAssumption ==
  /\ Lots \subseteq Nat \ {0} /\ Prices \subseteq Nat \ {0}
  /\ Mult \in Nat \ {0}
  /\ PnlGiven \subseteq BOOLEAN
  /\ Origins \subseteq {"recon", "tc"} /\ "recon" \in Origins
  /\ Opening \in Seq(Trades)
  /\ None \notin Int /\ None \notin Snaps
  /\ {LimitRealized, LimitEval, MaxDays} \subseteq Nat \ {0}
  /\ {MaxNet, MaxExecs, MaxRestarts} \subseteq Nat

VARIABLES
  price,    \* the last price
  execs,    \* the executions, in the order of the exchange
  ledger,   \* fills: executions and who booked them, in the order of booking
  snap,     \* what the aggregator holds of the position
  told,     \* history: what the snap was made of
  job,      \* persist_and_publish and the evaluation after it
  today,
  risk,     \* risk_state of the bucket
  restarts,
  hist      \* history: the evaluations of the day

vars == <<price, execs, ledger, snap, told, job, today, risk, restarts, hist>>

Abs(n) == IF n < 0 THEN -n ELSE n
AtLeast0(n) == IF n < 0 THEN 0 ELSE n
Smaller(m, n) == IF m < n THEN m ELSE n

-----------------------------------------------------------------------------
(* realized_pnl_ccy: average cost, fill by fill.                           *)

Flat == [net |-> 0, avg |-> 0, realized |-> 0]

SameDirection(b, q) == b.net = 0 \/ (b.net > 0) = (q > 0)

Increase(b, q, p) ==
  [b EXCEPT !.net = @ + q,
            !.avg = (b.avg * Abs(b.net) + p * Abs(q)) \div Abs(b.net + q)]

\* Closes what is held; lots beyond that open a position at their price.
Decrease(b, q, p) ==
  LET closing == Smaller(Abs(q), Abs(b.net))
      gain == (p - b.avg) * closing * Mult
      net == b.net + q
  IN [net |-> net,
      avg |-> CASE net = 0 -> 0
                [] net # 0 /\ (net > 0) # (b.net > 0) -> p
                [] OTHER -> b.avg,
      realized |-> b.realized + (IF b.net > 0 THEN gain ELSE -gain)]

Applied(b, f) ==
  IF SameDirection(b, f.q) THEN Increase(b, f.q, f.p) ELSE Decrease(b, f.q, f.p)

Account(fills) ==
  LET after[n \in 0..Len(fills)] == IF n = 0 THEN Flat ELSE Applied(after[n - 1], fills[n])
  IN after[Len(fills)]

\* Every average fill by fill is the exact quotient.
Exact(fills) ==
  \A n \in 1..Len(fills) :
    LET b == Account(SubSeq(fills, 1, n - 1))
        f == fills[n]
    IN SameDirection(b, f.q)
         => Increase(b, f.q, f.p).avg * Abs(b.net + f.q) = b.avg * Abs(b.net) + f.p * Abs(f.q)

ASSUME AveragesAssumption ==
  \A n \in 0..MaxExecs : \A fills \in [1..n -> Trades] :
    Abs(Account(fills).net) <= MaxNet => Exact(fills)

ASSUME OpeningAssumption ==
  Len(Opening) <= MaxExecs /\ Abs(Account(Opening).net) <= MaxNet

\* The ledger is read in the order of booking (filled_at, id).
Booked == [i \in DOMAIN ledger |-> execs[ledger[i].exec]]
RealizedPnl == Account(Booked).realized

-----------------------------------------------------------------------------
(* The reference: what the executions cost and what the position is worth. *)

Total(s) ==
  LET total[n \in 0..Len(s)] == IF n = 0 THEN 0 ELSE total[n - 1] + s[n]
  IN total[Len(s)]

Cost(f) == f.q * f.p * Mult
Paid(fills) == Total([n \in DOMAIN fills |-> Cost(fills[n])])

\* The account after n executions, and its value at a price.
First(n) == SubSeq(execs, 1, n)
At(n) == Account(First(n))
Value(n, p) == At(n).net * p * Mult - Paid(First(n))
Net == At(Len(execs)).net

\* The ledger holds n executions, each once and none left out before the last,
\* and in order if the position is open: its average depends on the order.
Order == [i \in DOMAIN ledger |-> ledger[i].exec]
Holds(n) ==
  /\ Len(ledger) = n /\ n <= Len(execs)
  /\ IsInjective(Order) /\ ToSet(Order) \subseteq 1..n
  /\ At(n).net = 0 \/ \A i \in DOMAIN Order : Order[i] = i
Upto == IF Holds(Len(ledger)) THEN Len(ledger) ELSE None

\* A report of the tracker: after n executions, at a price, with or without
\* pnl_amount.  Before the first one it has told nothing.
Report(given) == [n |-> Len(execs), price |-> price, given |-> given]
NoReport == [n |-> 0, price |-> 0, given |-> TRUE]
Position(r) ==
  LET b == At(r.n)
  IN IF b.net = 0 THEN None
     ELSE [side |-> IF b.net > 0 THEN "long" ELSE "short", qty |-> Abs(b.net),
           avg |-> b.avg, price |-> r.price,
           pnl |-> IF r.given THEN b.net * (r.price - b.avg) * Mult ELSE None]

\* A snap has the multiplier 1 (tracker.py:48): what eval - buy leaves out.
Hidden(r) ==
  IF r.given THEN 0 ELSE (Mult - 1) * (At(r.n).net * (r.price - At(r.n).avg))

-----------------------------------------------------------------------------
\* Mutant: a short position is valued like a long one.
UnrealizedLong(s) ==
  CASE s = None -> 0
    [] s # None /\ s.pnl # None -> s.pnl
    [] OTHER -> s.qty * s.price - s.qty * s.avg

\* consistent_tick: the tracker's profit, or eval - buy in the direction held.
Unrealized(s) ==
  CASE s = None -> 0
    [] s # None /\ s.pnl # None -> s.pnl
    [] s # None /\ s.pnl = None /\ s.side = "short" -> s.qty * s.avg - s.qty * s.price
    [] OTHER -> s.qty * s.price - s.qty * s.avg

NoJob == [at |-> "idle", unrealized |-> 0, realized |-> 0, report |-> NoReport,
          upto |-> None]
NoRisk == [state |-> "active", day |-> 0, realized |-> 0, unrealized |-> 0]
NoFigures == [realized |-> 0, sum |-> 0]
NoHist == [day |-> 0, first |-> NoFigures, lost |-> FALSE,
           level |-> FALSE, worth |-> NoFigures, worse |-> FALSE]

TypeOK ==
  /\ price \in Prices
  /\ execs \in UNION {[1..n -> Trades] : n \in 0..MaxExecs}
  /\ IsInjective(ledger)
  /\ ToSet(ledger) \subseteq [exec : DOMAIN execs, origin : Origins]
  /\ Abs(Net) <= MaxNet
  /\ snap = Position(told) /\ told.n \in 0..Len(execs)
  /\ job.at \in {"idle", "ticked", "done"}
  /\ today \in 1..MaxDays /\ risk.day \in 0..today
  /\ risk.state \in {"active", "halted_daily"}
  /\ restarts \in 0..MaxRestarts

Init ==
  /\ price \in Prices
  /\ execs = Opening
  /\ ledger = [i \in DOMAIN Opening |-> [exec |-> i, origin |-> "recon"]]
  /\ snap = None /\ told = NoReport
  /\ job = NoJob /\ today = 1 /\ risk = NoRisk /\ restarts = 0
  /\ hist = NoHist

-----------------------------------------------------------------------------
(* Outside: the exchange, the clock, a restart.                            *)

Execute(q) ==
  /\ Len(execs) < MaxExecs
  /\ Abs(Net + q) <= MaxNet
  /\ execs' = Append(execs, [q |-> q, p |-> price])
  /\ UNCHANGED <<price, ledger, snap, told, job, today, risk, restarts, hist>>

Move(p) ==
  /\ p # price
  /\ price' = p
  /\ UNCHANGED <<execs, ledger, snap, told, job, today, risk, restarts, hist>>

NextDay ==
  /\ today < MaxDays
  /\ today' = today + 1
  /\ UNCHANGED <<price, execs, ledger, snap, told, job, risk, restarts, hist>>

\* Mutant: the baseline and the halt live in memory.
RestartForgets ==
  /\ restarts < MaxRestarts
  /\ restarts' = restarts + 1
  /\ snap' = None /\ told' = NoReport
  /\ job' = NoJob
  /\ risk' = NoRisk
  /\ UNCHANGED <<price, execs, ledger, today, hist>>

\* The aggregator and its caller are gone; ledger and risk_state are not.
Restart ==
  /\ restarts < MaxRestarts
  /\ restarts' = restarts + 1
  /\ snap' = None /\ told' = NoReport
  /\ job' = NoJob
  /\ UNCHANGED <<price, execs, ledger, today, risk, hist>>

-----------------------------------------------------------------------------
\* Mutant: no unique index on the event, reconcile books a fill again.
BookAgain(i, o) ==
  /\ Len(ledger) < 2 * MaxExecs
  /\ ledger' = Append(ledger, [exec |-> i, origin |-> o])
  /\ UNCHANGED <<price, execs, snap, told, job, today, risk, restarts, hist>>

\* apply_fill, for an execution: any that is not booked under the same key.
\* The keys of one execution differ between the origins (realtime_future.py:93).
Book(i, o) ==
  /\ [exec |-> i, origin |-> o] \notin ToSet(ledger)
  /\ ledger' = Append(ledger, [exec |-> i, origin |-> o])
  /\ UNCHANGED <<price, execs, snap, told, job, today, risk, restarts, hist>>

\* on_position_change: a position of quantity 0 leaves the aggregator.
Track(given) ==
  /\ told' = Report(given)
  /\ told' # told
  /\ snap' = Position(told')
  /\ UNCHANGED <<price, execs, ledger, job, today, risk, restarts, hist>>

\* persist_and_publish up to its first await.
Tick ==
  /\ job.at = "idle"
  /\ job' = [at |-> "ticked", unrealized |-> Unrealized(snap), realized |-> 0,
             report |-> told, upto |-> None]
  /\ UNCHANGED <<price, execs, ledger, snap, told, today, risk, restarts, hist>>

\* The realized profit is read from the ledger, after the tick.
Realize ==
  /\ job.at = "ticked"
  /\ job' = [job EXCEPT !.at = "done", !.realized = RealizedPnl, !.upto = Upto]
  /\ UNCHANGED <<price, execs, ledger, snap, told, today, risk, restarts, hist>>

-----------------------------------------------------------------------------
(* DailyLossMonitor.evaluate, with what persist_and_publish returned.      *)

Breach(realized, unrealized) ==
  \/ AtLeast0(risk.realized - realized) >= LimitRealized
  \/ AtLeast0(risk.realized - realized + (risk.unrealized - unrealized)) >= LimitEval

\* A new trading day: the baseline is taken, the halt ends.  The same day:
\* the stored baseline decides, and a halt stays.
Evaluated ==
  IF risk.day # today
  THEN [state |-> "active", day |-> today,
        realized |-> job.realized, unrealized |-> job.unrealized]
  ELSE [risk EXCEPT !.state =
         IF @ = "active" /\ Breach(job.realized, job.unrealized) THEN "halted_daily" ELSE @]

\* What the monitor is given, and what the booked executions have earned and
\* are worth at the price the tracker reported.
Figures == [realized |-> job.realized, sum |-> job.realized + job.unrealized]
TrueFigures ==
  [realized |-> At(job.upto).realized, sum |-> Value(job.upto, job.report.price)]

\* The tracker's report and the ledger speak of the same executions, or both
\* of a position that is closed, and nothing of the profit was hidden.
Level ==
  /\ job.upto # None
  /\ Hidden(job.report) = 0
  /\ \/ job.upto = job.report.n
     \/ At(job.upto).net = 0 /\ At(job.report.n).net = 0

Fell(from, to) ==
  \/ from.realized - to.realized >= LimitRealized
  \/ from.sum - to.sum >= LimitEval

\* The history keeps the first evaluation of its own day, whether a later one
\* was given less by a limit, and as long as every one of them was level,
\* whether the account had lost a limit.
Watched ==
  IF hist.day # today
  THEN [day |-> today, first |-> Figures, lost |-> FALSE, level |-> Level,
        worth |-> IF Level THEN TrueFigures ELSE NoFigures, worse |-> FALSE]
  ELSE LET level == hist.level /\ Level
       IN [hist EXCEPT !.lost = @ \/ Fell(hist.first, Figures),
                       !.level = level,
                       !.worth = IF level THEN @ ELSE NoFigures,
                       !.worse = level /\ (@ \/ Fell(hist.worth, TrueFigures))]

Evaluate ==
  /\ job.at = "done"
  /\ risk' = Evaluated
  /\ hist' = Watched
  /\ job' = NoJob
  /\ UNCHANGED <<price, execs, ledger, snap, told, today, restarts>>

Next ==
  \/ \E l \in Lots : Execute(l) \/ Execute(-l)
  \/ \E p \in Prices : Move(p)
  \/ NextDay \/ Restart
  \/ \E i \in DOMAIN execs, o \in Origins : Book(i, o)
  \/ \E given \in PnlGiven : Track(given)
  \/ Tick \/ Realize \/ Evaluate

Spec == Init /\ [][Next]_vars

-----------------------------------------------------------------------------
(* Properties.                                                             *)

\* Realized profit from the fills plus unrealized profit from the tracker is
\* the value of the account in the tracker's last report, and beside it
\* exactly two things: what the executions have earned that were booked but
\* not reported when ledger and tracker were read (less, what was reported and
\* not booked), and what a snap without pnl_amount hides of a multiplier
\* (aggregator.py:94-102, :184-191).  By its docstring the code reads both in
\* one tick, and the first would be nothing; it is not (aggregator.py:8-9).
\* This speaks of every ledger that holds the executions up to some one, each
\* once, in order unless they close the position; with a hole or an execution
\* booked under two keys the fold earns something else.
ProfitAddsUp ==
  job.at = "done" /\ job.upto # None =>
    job.realized + job.unrealized
      = Value(job.report.n, job.report.price)
        + (At(job.upto).realized - At(job.report.n).realized)
        - Hidden(job.report)

\* The bucket is halted for the day exactly when an evaluation was given less
\* by a limit than the first one of the day, whatever was restarted in between
\* (daily_loss.py:3-16); and on a day whose evaluations were all level, exactly
\* when the account had lost a limit.  An evaluation is not level when
\* something was booked between tick and ledger or is missing in it, and none
\* is after a restart with an open position before the tracker reports.
HaltIffLoss ==
  /\ risk.state = "halted_daily" <=> hist.lost
  /\ hist.level => (hist.lost <=> hist.worse)
==============================================================================
