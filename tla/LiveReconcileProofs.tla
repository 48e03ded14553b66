-------------------------- MODULE LiveReconcileProofs --------------------------
(***************************************************************************)
(* Theorems about LiveReconcile, for any markets, orders, lots, pages,     *)
(* reconcile runs, requests and crashes.                                   *)
(***************************************************************************)
EXTENDS LiveReconcile, WellFoundedInduction, FiniteSetTheorems, TLAPS

------------------------------------------------------------------------------
(* Types. *)

\* A working order has lots left, which is what keeps an execution inside Qty.
WorkingHasMore == \A n \in OrdNos : brk[n].st = "working" => brk[n].execs < brk[n].qty

\* What a run is going to book was on the page.
OnPage ==
  \A p \in Procs :
    /\ rec[p].pc = "orders" => \A r \in rec[p].todo :
         rec[p].seen[r] \in OrdNos /\ rec[p].view[rec[p].seen[r]] # -1
    /\ rec[p].orphan # 0 =>
         rec[p].pc = "orders" /\ rec[p].todo = {} /\ rec[p].view[rec[p].orphan] # -1

TypeInv == TypeOK /\ WorkingHasMore /\ OnPage

PcType == {"idle", "approved", "sending", "taken", "refused", "lost", "over"}

LEMMA ConstantTypes ==
  /\ MaxOrdNo \in Nat \ {0} /\ Qty \in Nat \ {0}
  /\ OrdNos \subseteq Nat /\ 0 \notin OrdNos /\ 1 \in OrdNos
  /\ OrdNos0 = OrdNos \cup {0}
  /\ Clients \cap OrdNos0 = {}
  /\ Len(Markets) \in Nat /\ DOMAIN Markets = 1..Len(Markets) /\ 1 \in DOMAIN Markets
  /\ \A i \in DOMAIN Markets : Markets[i] \in MarketSet
BY LiveAssumption DEF OrdNos, OrdNos0, MarketSet

LEMMA BlankTypes ==
  /\ NoRow \in RowType
  /\ IdleRec \in RecType
  /\ \A n \in OrdNos : Unused(n) \in BrkType
<1> USE ConstantTypes
<1>1. NoRow \in RowType
  BY DEF NoRow, RowType, RowState
<1>2. IdleRec \in RecType
  BY DEF IdleRec, RecType
<1>3. \A n \in OrdNos : Unused(n) \in BrkType
  BY DEF Unused, BrkType, Rows
<1> QED
  BY <1>1, <1>2, <1>3

LEMMA InitTypeInv == Init => TypeInv
<1> SUFFICES ASSUME Init PROVE TypeInv
  OBVIOUS
<1> USE DEF Init
<1>1. TypeOK
  BY BlankTypes, ConstantTypes DEF TypeOK, CallType
<1>2. WorkingHasMore
  BY DEF WorkingHasMore, Unused
<1>3. OnPage
  BY DEF OnPage, IdleRec
<1> QED
  BY <1>1, <1>2, <1>3 DEF TypeInv

------------------------------------------------------------------------------
LEMMA SetStatusType ==
  ASSUME TypeOK, NEW r \in Rows, NEW s \in RowState
  PROVE  SetStatus(r, s) \in [Rows -> RowType]
  BY DEF TypeOK, SetStatus, RowType

LEMMA ApplyFillType ==
  ASSUME NEW o \in RowType, NEW n \in OrdNos, NEW q \in 0..Qty, NEW left \in 0..Qty
  PROVE  ApplyFill(o, n, q, left) \in RowType
<1> USE ConstantTypes
<1>1. q # 0 => <<n, q>> \in Events
  BY DEF Events
<1>2. q # 0 => o.fills \cup {<<n, q>>} \in SUBSET Events
  BY <1>1 DEF RowType
<1>3. {"filled", "partially_filled", o.status} \subseteq RowState
  BY DEF RowType, RowState, OrderState
<1>4. left \in (-1)..Qty
  OBVIOUS
<1> QED
  BY <1>2, <1>3, <1>4 DEF ApplyFill, RowType

LEMMA NextMarketType ==
  ASSUME TypeOK, NEW p \in Procs, NEW ok \in BOOLEAN
  PROVE  /\ NextMarket(p, ok) \in RecType
         /\ NextMarket(p, ok).pc # "orders" /\ NextMarket(p, ok).orphan = 0
<1> USE ConstantTypes
<1>1. rec[p] \in RecType /\ IdleRec \in RecType
  BY BlankTypes DEF TypeOK
<1>2. rec[p].mkt < Len(Markets) => rec[p].mkt + 1 \in DOMAIN Markets
  <2>1. rec[p].mkt \in DOMAIN Markets
    BY <1>1 DEF RecType
  <2> QED
    BY <2>1
<1> DEFINE good == rec[p].ok /\ ok
<1>3. good \in BOOLEAN
  OBVIOUS
<1>4. NextMarket(p, ok) \in RecType
  <2>1. \A i \in DOMAIN Markets, b \in BOOLEAN :
          [IdleRec EXCEPT !.pc = "list", !.mkt = i, !.ok = b] \in RecType
    BY <1>1 DEF RecType
  <2>2. \A b \in BOOLEAN : [IdleRec EXCEPT !.pc = "done", !.ok = b] \in RecType
    BY <1>1 DEF RecType
  <2> QED
    BY <1>1, <1>2, <1>3, <2>1, <2>2 DEF NextMarket
<1> QED
  BY <1>4 DEF NextMarket, IdleRec

\* The steps that leave rows, runs and the broker's book alone.
LEMMA PlaceType ==
  ASSUME TypeInv, NEW c \in Clients, PlaceStep(c)
  PROVE  TypeInv'
<1> USE ConstantTypes
<1>0. TypeOK /\ c \in Rows
  BY DEF TypeInv, Rows
<1>1. UNCHANGED <<rec, brk, calls, engine, crashes, synced, misled>>
  BY DEF PlaceStep, Approve, Submit, RecordAck, RecordRefusal, RecordDoubt
<1>2. pc' \in [Clients -> PcType] /\ got' \in [Clients -> OrdNos0]
  BY <1>0 DEF PlaceStep, Approve, Submit, RecordAck, RecordRefusal, RecordDoubt,
     TypeOK, PcType
<1>3. row' \in [Rows -> RowType]
  <2>1. CASE Approve(c)
    <3>1. [NoRow EXCEPT !.status = "approved", !.qty = Qty] \in RowType
      <4>1. "approved" \in RowState /\ Qty \in 0..Qty
        BY DEF RowState, OrderState
      <4> QED
        BY <4>1, BlankTypes DEF RowType
    <3> QED
      BY <1>0, <2>1, <3>1 DEF Approve, TypeOK
  <2>2. CASE Submit(c) \/ RecordRefusal(c) \/ RecordDoubt(c)
    BY <1>0, <2>2, SetStatusType
    DEF Submit, RecordRefusal, RecordDoubt, RowState, OrderState
  <2>3. CASE RecordAck(c)
    <3>1. SetStatus(c, "accepted") \in [Rows -> RowType]
      BY <1>0, SetStatusType DEF RowState, OrderState
    <3>2. got[c] \in OrdNos0
      BY <1>0 DEF TypeOK
    <3>3. [SetStatus(c, "accepted") EXCEPT ![c].ordno = got[c]] \in [Rows -> RowType]
      BY <1>0, <3>1, <3>2 DEF RowType
    <3> QED
      BY <1>0, <2>3, <3>3 DEF RecordAck, TypeOK
  <2> QED
    BY <2>1, <2>2, <2>3 DEF PlaceStep
<1> QED
  BY <1>1, <1>2, <1>3 DEF TypeInv, TypeOK, WorkingHasMore, OnPage, PcType

LEMMA CallsType ==
  ASSUME TypeInv, CallStep
  PROVE  TypeInv'
<1> USE ConstantTypes
<1>0. TypeOK /\ row \in [Rows -> RowType] /\ calls \subseteq CallType
  BY DEF TypeInv, TypeOK
<1>1. UNCHANGED <<rec, brk, pc, got, engine, crashes, synced, misled>>
  BY DEF CallStep, Amend, Cancel, Call, RecordAmend, RecordCancel
<1>2. row' \in [Rows -> RowType] /\ calls' \subseteq CallType
  <2>1. ASSUME NEW r \in Rows, NEW op \in {"cancel", "amend"}, NEW q \in 1..Qty,
               Call(op, r, q)
        PROVE  row' = row /\ calls' \subseteq CallType
    <3>1. row[r].ordno \in OrdNos
      BY <1>0, <2>1 DEF Call, RowType
    <3>2. [op |-> op, row |-> r, ordno |-> row[r].ordno, qty |-> q,
           st |-> "sent", new |-> 0] \in CallType
      BY <3>1 DEF CallType
    <3> QED
      BY <1>0, <2>1, <3>2 DEF Call
  <2>2. ASSUME NEW r \in Rows, Cancel(r)
        PROVE  row' = row /\ calls' \subseteq CallType
    BY <2>1, <2>2 DEF Cancel
  <2>3. ASSUME NEW r \in Rows, NEW q \in AmendQty, Amend(r, q)
        PROVE  row' = row /\ calls' \subseteq CallType
    BY <2>1, <2>3, LiveAssumption DEF Amend
  <2>4. ASSUME NEW m \in calls, RecordAmend(m)
        PROVE  row' \in [Rows -> RowType] /\ calls' \subseteq CallType
    <3>1. m.row \in Rows /\ m.new \in OrdNos0 /\ m.qty \in 0..Qty
      BY <1>0 DEF CallType
    <3>2. [row[m.row] EXCEPT !.ordno = m.new, !.qty = m.qty] \in RowType
      BY <1>0, <3>1 DEF RowType
    <3> QED
      BY <1>0, <2>4, <3>1, <3>2 DEF RecordAmend
  <2>5. ASSUME NEW m \in calls, RecordCancel(m)
        PROVE  row' \in [Rows -> RowType] /\ calls' \subseteq CallType
    <3>1. m.row \in Rows /\ "canceled" \in RowState
      BY <1>0 DEF CallType, RowState, OrderState
    <3> QED
      BY <1>0, <2>5, <3>1, SetStatusType DEF RecordCancel
  <2> QED
    BY <1>0, <2>2, <2>3, <2>4, <2>5 DEF CallStep
<1> QED
  BY <1>1, <1>2 DEF TypeInv, TypeOK, WorkingHasMore, OnPage

------------------------------------------------------------------------------
\* A run goes on with x; a row may have been written.
RunOnPage(x) ==
  /\ x.pc = "orders" => \A r \in x.todo : x.seen[r] \in OrdNos /\ x.view[x.seen[r]] # -1
  /\ x.orphan # 0 => x.pc = "orders" /\ x.todo = {} /\ x.view[x.orphan] # -1

LEMMA RunType ==
  ASSUME TypeInv, NEW p \in Procs, NEW x \in RecType, RunOnPage(x),
         rec' = [rec EXCEPT ![p] = x], row' \in [Rows -> RowType],
         synced' \subseteq MarketSet, engine' \in {"booting", "active", "read_only"},
         UNCHANGED <<pc, got, calls, crashes, misled, brk>>
  PROVE  TypeInv'
<1>1. rec' \in [Procs -> RecType]
  BY DEF TypeInv, TypeOK
<1>2. OnPage'
  BY DEF TypeInv, TypeOK, OnPage, RunOnPage
<1> QED
  BY <1>1, <1>2 DEF TypeInv, TypeOK, WorkingHasMore

LEMMA RecListType ==
  ASSUME TypeInv, NEW p \in Procs, RecStart(p) \/ RecList(p)
  PROVE  TypeInv'
<1>0. /\ rec \in [Procs -> RecType] /\ rec[p] \in RecType
      /\ row \in [Rows -> RowType]
      /\ synced \subseteq MarketSet /\ engine \in {"booting", "active", "read_only"}
  BY DEF TypeInv, TypeOK
<1>1. CASE RecStart(p)
  <2> DEFINE x == [rec[p] EXCEPT !.pc = "list"]
  <2>1. x \in RecType /\ rec' = [rec EXCEPT ![p] = x]
    BY <1>0, <1>1 DEF RecStart, RecType
  <2>2. RunOnPage(x)
    BY <1>0, <1>1 DEF RecStart, RunOnPage, RecType, TypeInv, OnPage
  <2> HIDE DEF x
  <2> QED
    BY <1>0, <1>1, <2>1, <2>2, RunType DEF RecStart
<1>2. CASE RecList(p)
  <2> DEFINE open == {r \in Rows : row[r].status \in NonTerminal /\ MarketRow(r) = Market(p)}
             seen == [r \in Rows |-> IF r \in open THEN row[r].ordno ELSE 0]
             x == [rec[p] EXCEPT !.pc = "query", !.todo = open, !.seen = seen]
  <2>1. seen \in [Rows -> OrdNos0] /\ open \in SUBSET Rows
    BY <1>0, ConstantTypes DEF RowType
  <2>2. rec' = [rec EXCEPT ![p] = x] /\ rec[p].pc = "list"
    BY <1>0, <1>2 DEF RecList
  <2> HIDE DEF seen, open
  <2>3. x \in RecType
    BY <1>0, <2>1 DEF RecType
  <2>4. RunOnPage(x)
    BY <1>0, <2>2 DEF RunOnPage, RecType, TypeInv, OnPage
  <2> HIDE DEF x
  <2> QED
    BY <1>0, <1>2, <2>2, <2>3, <2>4, RunType DEF RecList
<1> QED
  BY <1>1, <1>2

LEMMA RecFetchType ==
  ASSUME TypeInv, NEW p \in Procs, RecFetch(p)
  PROVE  TypeInv'
<1> USE ConstantTypes
<1>0. /\ rec \in [Procs -> RecType] /\ rec[p] \in RecType
      /\ row \in [Rows -> RowType] /\ brk \in [OrdNos -> BrkType]
      /\ synced \subseteq MarketSet /\ engine \in {"booting", "active", "read_only"}
  BY DEF TypeInv, TypeOK
<1>1. PICK page \in SUBSET Listed(Market(p)) :
        rec' = [rec EXCEPT ![p].pc = "orders",
                  ![p].todo = {r \in @ : rec[p].seen[r] \in page},
                  ![p].view = [n \in OrdNos |-> IF n \in page THEN brk[n].execs ELSE -1],
                  ![p].left = [n \in OrdNos |-> IF n \in page THEN Open(n) ELSE 0]]
  BY DEF RecFetch
<1> DEFINE todo == {r \in rec[p].todo : rec[p].seen[r] \in page}
           view == [n \in OrdNos |-> IF n \in page THEN brk[n].execs ELSE -1]
           left == [n \in OrdNos |-> IF n \in page THEN Open(n) ELSE 0]
           x == [rec[p] EXCEPT !.pc = "orders", !.todo = todo, !.view = view, !.left = left]
<1>2. page \subseteq OrdNos
  BY DEF Listed
<1>3. todo \in SUBSET Rows
  BY <1>0 DEF RecType
<1>4. view \in [OrdNos -> (-1)..Qty] /\ \A n \in page : view[n] # -1
  <2>1. \A n \in OrdNos : brk[n].execs \in 0..Qty
    BY <1>0 DEF BrkType
  <2> QED
    BY <1>2, <2>1
<1>5. left \in [OrdNos -> 0..Qty]
  <2>1. ASSUME NEW n \in OrdNos
        PROVE  Open(n) \in 0..Qty
    <3>1. brk[n].execs \in 0..Qty /\ brk[n].qty \in 0..Qty
      BY <1>0 DEF BrkType
    <3>2. brk[n].st = "working" => brk[n].execs < brk[n].qty
      BY DEF TypeInv, WorkingHasMore
    <3> QED
      BY <3>1, <3>2 DEF Open
  <2> QED
    BY <2>1
<1>6. rec' = [rec EXCEPT ![p] = x] /\ rec[p].pc = "query"
  BY <1>0, <1>1 DEF RecFetch
<1>7. \A r \in todo : rec[p].seen[r] \in page
  OBVIOUS
<1> HIDE DEF todo, view, left
<1>8. x \in RecType /\ x.pc = "orders" /\ x.todo = todo /\ x.view = view
        /\ x.seen = rec[p].seen /\ x.orphan = rec[p].orphan
  BY <1>0, <1>3, <1>4, <1>5 DEF RecType
<1>9. rec[p].orphan = 0
  BY <1>6 DEF TypeInv, OnPage
<1>10. RunOnPage(x)
  <2> HIDE DEF x
  <2> QED
    BY <1>2, <1>4, <1>7, <1>8, <1>9 DEF RunOnPage
<1> HIDE DEF x
<1> QED
  BY <1>0, <1>6, <1>8, <1>10, RunType DEF RecFetch

\* A number of the page is done with.
Passed(x, n) == [x EXCEPT !.orphan = 0, !.view[n] = -1]

LEMMA PassedType ==
  ASSUME NEW x \in RecType, NEW n \in OrdNos
  PROVE  /\ Passed(x, n) \in RecType
         /\ Passed(x, n).todo = x.todo /\ Passed(x, n).orphan = 0
         /\ Passed(x, n).pc = x.pc
<1> DEFINE v == [x.view EXCEPT ![n] = -1]
           y == [x EXCEPT !.orphan = 0, !.view = v]
<1>1. v \in [OrdNos -> (-1)..Qty]
  BY ConstantTypes DEF RecType
<1>2. y = Passed(x, n)
  BY DEF RecType, Passed
<1> HIDE DEF v
<1>3. y \in RecType /\ y.todo = x.todo /\ y.orphan = 0 /\ y.pc = x.pc
  BY <1>1, ConstantTypes DEF RecType
<1> HIDE DEF y
<1> QED
  BY <1>2, <1>3

\* Booking what the page shows of an order, for a row or for an orphan.
LEMMA RecBookType ==
  ASSUME TypeInv, NEW p \in Procs,
         RecOrphanFill(p) \/ \E r \in Rows : RecApply(p, r)
  PROVE  TypeInv'
<1> USE ConstantTypes
<1>0. /\ rec \in [Procs -> RecType] /\ rec[p] \in RecType
      /\ row \in [Rows -> RowType]
      /\ synced \subseteq MarketSet /\ engine \in {"booting", "active", "read_only"}
  BY DEF TypeInv, TypeOK
<1>1. ASSUME NEW r \in Rows, NEW n \in OrdNos, rec[p].view[n] # -1
      PROVE  [row EXCEPT ![r] = ApplyFill(@, n, rec[p].view[n], rec[p].left[n])]
               \in [Rows -> RowType]
  <2>1. rec[p].view[n] \in 0..Qty /\ rec[p].left[n] \in 0..Qty /\ row[r] \in RowType
    BY <1>0, <1>1 DEF RecType
  <2>2. ApplyFill(row[r], n, rec[p].view[n], rec[p].left[n]) \in RowType
    BY <2>1, ApplyFillType
  <2> QED
    BY <1>0, <2>2
<1>2. ASSUME NEW r \in Rows, RecApply(p, r)
      PROVE  TypeInv'
  <2> DEFINE n == rec[p].seen[r]
             x == [rec[p] EXCEPT !.todo = @ \ {r}]
  <2>1. n \in OrdNos /\ rec[p].view[n] # -1
    BY <1>2 DEF RecApply, TypeInv, OnPage
  <2>2. row' \in [Rows -> RowType]
    BY <1>1, <1>2, <2>1 DEF RecApply
  <2>3. x \in RecType /\ rec' = [rec EXCEPT ![p] = x]
    BY <1>0, <1>2 DEF RecApply, RecType
  <2>4. RunOnPage(x)
    BY <1>0 DEF RunOnPage, RecType, TypeInv, OnPage
  <2> HIDE DEF x
  <2> QED
    BY <1>0, <1>2, <2>2, <2>3, <2>4, RunType DEF RecApply
<1>3. CASE RecOrphanFill(p)
  <2> DEFINE n == rec[p].orphan
             x == Passed(rec[p], n)
  <2>1. n \in OrdNos /\ n \in Rows /\ rec[p].view[n] # -1 /\ rec[p].todo = {}
    BY <1>0, <1>3 DEF RecOrphanFill, TypeInv, OnPage, RecType, Rows
  <2>2. row' \in [Rows -> RowType]
    BY <1>1, <1>3, <2>1 DEF RecOrphanFill
  <2>3. rec' = [rec EXCEPT ![p] = x]
    BY <1>0, <1>3 DEF RecOrphanFill, Passed
  <2>4. x \in RecType /\ x.todo = {} /\ x.orphan = 0
    BY <1>0, <2>1, PassedType
  <2>5. RunOnPage(x)
    BY <2>4 DEF RunOnPage
  <2> HIDE DEF x
  <2> QED
    BY <1>0, <1>3, <2>2, <2>3, <2>4, <2>5, RunType DEF RecOrphanFill
<1> QED
  BY <1>2, <1>3

\* A step of a run that books nothing.
LEMMA RecTurnType ==
  ASSUME TypeInv, NEW p \in Procs,
         \/ RecFetchFails(p) \/ RecPositions(p) \/ RecPositionsFail(p)
         \/ RecRaises(p) \/ RecOver(p)
  PROVE  TypeInv'
<1> USE ConstantTypes
<1>0. /\ row \in [Rows -> RowType] /\ rec[p] \in RecType /\ TypeOK
      /\ synced \subseteq MarketSet /\ engine \in {"booting", "active", "read_only"}
  BY DEF TypeInv, TypeOK
<1>1. CASE RecFetchFails(p) \/ RecPositions(p) \/ RecPositionsFail(p)
  <2>1. PICK ok \in BOOLEAN : rec' = [rec EXCEPT ![p] = NextMarket(p, ok)]
    BY <1>1 DEF RecFetchFails, RecPositions, RecPositionsFail
  <2>2. NextMarket(p, ok) \in RecType /\ RunOnPage(NextMarket(p, ok))
    BY <1>0, NextMarketType DEF RunOnPage
  <2>3. Market(p) \in MarketSet
    BY <1>0 DEF Market, RecType
  <2>4. /\ synced' \subseteq MarketSet
        /\ UNCHANGED <<row, engine, pc, got, calls, crashes, misled, brk>>
    BY <1>0, <1>1, <2>3 DEF RecFetchFails, RecPositions, RecPositionsFail
  <2> QED
    BY <1>0, <2>1, <2>2, <2>4, RunType
<1>2. CASE RecRaises(p) \/ RecOver(p)
  <2>1. PICK x \in {IdleRec, [IdleRec EXCEPT !.pc = "aborted"]} :
          rec' = [rec EXCEPT ![p] = x]
    BY <1>2 DEF RecRaises, RecOver
  <2>2. x \in RecType /\ RunOnPage(x)
    BY BlankTypes DEF RecType, RunOnPage, IdleRec
  <2> QED
    BY <1>0, <1>2, <2>1, <2>2, RunType DEF RecRaises, RecOver
<1> QED
  BY <1>1, <1>2

LEMMA RecStrangeType ==
  ASSUME TypeInv, NEW p \in Procs, NEW n \in OrdNos,
         RecFollows(p, n) \/ RecOrphan(p, n) \/ RecClashes(p, n)
  PROVE  TypeInv'
<1> USE ConstantTypes
<1>0. /\ row \in [Rows -> RowType] /\ rec[p] \in RecType /\ rec \in [Procs -> RecType]
      /\ brk[n] \in BrkType /\ n \in Rows
      /\ synced \subseteq MarketSet /\ engine \in {"booting", "active", "read_only"}
  BY DEF TypeInv, TypeOK, Rows
<1>1. CASE RecFollows(p, n)
  <2>1. rec[p].orphan = 0 /\ rec[p].todo = {}
    BY <1>1 DEF RecFollows
  <2>2. rec' = [rec EXCEPT ![p] = Passed(rec[p], n)]
    <3> DEFINE v == [rec[p].view EXCEPT ![n] = -1]
    <3>1. rec' = [rec EXCEPT ![p] = [rec[p] EXCEPT !.view = v]]
      BY <1>0, <1>1 DEF RecFollows, RecType
    <3>2. Passed(rec[p], n) = [rec[p] EXCEPT !.orphan = 0, !.view = v]
      BY <1>0 DEF Passed, RecType
    <3> HIDE DEF v
    <3>3. [rec[p] EXCEPT !.orphan = 0, !.view = v] = [rec[p] EXCEPT !.view = v]
      BY <1>0, <2>1 DEF RecType
    <3> QED
      BY <3>1, <3>2, <3>3
  <2>3. Passed(rec[p], n) \in RecType /\ RunOnPage(Passed(rec[p], n))
    BY <1>0, <2>1, PassedType DEF RunOnPage
  <2> QED
    BY <1>0, <1>1, <2>2, <2>3, RunType DEF RecFollows
<1>2. CASE RecOrphan(p, n)
  <2> DEFINE o == [NoRow EXCEPT !.status = "accepted", !.ordno = n, !.qty = brk[n].qty]
             x == [rec[p] EXCEPT !.orphan = n]
  <2>1. o \in RowType
    BY <1>0, BlankTypes DEF RowType, BrkType, RowState, OrderState
  <2>2. row' \in [Rows -> RowType] /\ rec' = [rec EXCEPT ![p] = x]
    BY <1>0, <1>2, <2>1 DEF RecOrphan
  <2>3. x \in RecType /\ RunOnPage(x)
    BY <1>0, <1>2 DEF RecType, RunOnPage, RecOrphan, IsOrphan, Strange
  <2> HIDE DEF x
  <2> QED
    BY <1>0, <1>2, <2>2, <2>3, RunType DEF RecOrphan
<1>3. CASE RecClashes(p, n)
  <2> DEFINE x == [IdleRec EXCEPT !.pc = "clashed"]
  <2>1. x \in RecType /\ RunOnPage(x)
    BY BlankTypes DEF RecType, RunOnPage, IdleRec
  <2>2. rec' = [rec EXCEPT ![p] = x]
    BY <1>3 DEF RecClashes
  <2> HIDE DEF x
  <2> QED
    BY <1>0, <1>3, <2>1, <2>2, RunType DEF RecClashes
<1> QED
  BY <1>1, <1>2, <1>3

LEMMA BootType ==
  ASSUME TypeInv, BootStep \/ Crash
  PROVE  TypeInv'
<1>0. /\ row \in [Rows -> RowType] /\ synced \subseteq MarketSet /\ TypeOK
  BY DEF TypeInv, TypeOK
<1>1. CASE BootStep
  <2>1. IdleRec \in RecType /\ RunOnPage(IdleRec)
    BY BlankTypes DEF RunOnPage, IdleRec
  <2>2. rec' = [rec EXCEPT ![Boot] = IdleRec] /\ Boot \in Procs
    BY <1>1 DEF BootStep, BootFinish, BootFails, Procs
  <2>3. engine' \in {"booting", "active", "read_only"}
    BY <1>1 DEF BootStep, BootFinish, BootFails
  <2> QED
    BY <1>0, <1>1, <2>1, <2>2, <2>3, RunType DEF BootStep, BootFinish, BootFails
<1>2. CASE Crash
  <2>1. TypeOK'
    BY <1>0, <1>2, BlankTypes, ConstantTypes DEF Crash, TypeOK, CallType
  <2>2. OnPage'
    BY <1>2 DEF Crash, OnPage, IdleRec
  <2> QED
    BY <1>2, <2>1, <2>2 DEF Crash, TypeInv, WorkingHasMore
<1> QED
  BY <1>1, <1>2

------------------------------------------------------------------------------
(* The broker. *)

\* A step of the broker: one entry or two of its book, and the request.
LEMMA BrokerType ==
  ASSUME TypeInv, UNCHANGED <<row, rec, engine, crashes, synced>>,
         brk' \in [OrdNos -> BrkType], WorkingHasMore',
         pc' \in [Clients -> PcType], got' \in [Clients -> OrdNos0],
         calls' \subseteq CallType, misled' \subseteq Clients
  PROVE  TypeInv'
  BY DEF TypeInv, TypeOK, PcType, OnPage

LEMMA AnswerType ==
  ASSUME TypeInv, NEW m \in calls, NEW n \in OrdNos0, Answer(m, n)
  PROVE  calls' \subseteq CallType
<1>1. m \in CallType /\ calls \subseteq CallType
  BY DEF TypeInv, TypeOK
<1>2. [m EXCEPT !.st = "acked", !.new = n] \in CallType
  BY <1>1 DEF CallType
<1> QED
  BY <1>1, <1>2 DEF Answer

LEMMA PlaceAnswerType ==
  ASSUME TypeInv, NEW c \in Clients, PlaceAnswer(c)
  PROVE  TypeInv'
<1> USE ConstantTypes
<1>0. /\ brk \in [OrdNos -> BrkType] /\ pc \in [Clients -> PcType]
      /\ got \in [Clients -> OrdNos0] /\ calls \subseteq CallType /\ misled \subseteq Clients
      /\ WorkingHasMore /\ c \in Rows
  BY DEF TypeInv, TypeOK, PcType, Rows
<1>1. CASE BrokerRefuses(c)
  <2>1. pc' \in [Clients -> PcType]
    BY <1>0, <1>1 DEF BrokerRefuses, PcType
  <2> QED
    BY <1>0, <1>1, <2>1, BrokerType DEF BrokerRefuses, WorkingHasMore
<1>2. ASSUME NEW n \in OrdNos, BrokerTakes(c, n)
      PROVE  TypeInv'
  <2> DEFINE b == [st |-> "working", mkt |-> MarketOf[c], org |-> 0,
                   owner |-> c, qty |-> Qty, execs |-> 0]
  <2>1. b \in BrkType /\ b.execs < b.qty
    BY <1>0, LiveAssumption DEF BrkType
  <2>2. brk' = [brk EXCEPT ![n] = b]
    BY <1>2 DEF BrokerTakes
  <2>3. /\ pc' \in [Clients -> PcType] /\ got' \in [Clients -> OrdNos0]
        /\ misled' \subseteq Clients
    <3>1. /\ \A to \in {"taken", "refused", "lost"} :
                [pc EXCEPT ![c] = to] \in [Clients -> PcType]
          /\ [got EXCEPT ![c] = n] \in [Clients -> OrdNos0]
      BY <1>0 DEF PcType
    <3> QED
      BY <1>0, <1>2, <3>1 DEF BrokerTakes
  <2> HIDE DEF b
  <2>4. brk' \in [OrdNos -> BrkType] /\ WorkingHasMore'
    BY <1>0, <2>1, <2>2 DEF WorkingHasMore
  <2> QED
    BY <1>0, <1>2, <2>3, <2>4, BrokerType DEF BrokerTakes
<1> QED
  BY <1>1, <1>2 DEF PlaceAnswer

LEMMA CallAnswerType ==
  ASSUME TypeInv, CallAnswer
  PROVE  TypeInv'
<1> USE ConstantTypes
<1>0. /\ brk \in [OrdNos -> BrkType] /\ pc \in [Clients -> PcType]
      /\ got \in [Clients -> OrdNos0] /\ calls \subseteq CallType /\ misled \subseteq Clients
      /\ WorkingHasMore
  BY DEF TypeInv, TypeOK, PcType
<1>1. ASSUME NEW m \in calls, BrokerDeclines(m)
      PROVE  TypeInv'
  BY <1>0, <1>1, BrokerType DEF BrokerDeclines, WorkingHasMore
<1>2. ASSUME NEW m \in calls, BrokerCancels(m)
      PROVE  TypeInv'
  <2> DEFINE k == m.ordno
             less == [brk[k] EXCEPT !.qty = @ - m.qty]
             shut == [brk[k] EXCEPT !.st = "closed"]
  <2>1. m \in CallType /\ k \in OrdNos /\ m.qty \in 1..Qty /\ brk[k] \in BrkType
    BY <1>0 DEF CallType
  <2>2. brk[k].st = "working" /\ brk[k].execs < brk[k].qty
    BY <1>0, <1>2, <2>1 DEF BrokerCancels, WorkingHasMore
  <2>3. shut \in BrkType /\ shut.st = "closed"
    BY <2>1 DEF BrkType
  <2>4. ASSUME m.qty < Open(k)
        PROVE  less \in BrkType /\ less.execs < less.qty
    <3>1. brk[k].qty \in 0..Qty /\ brk[k].execs \in 0..Qty
      BY <2>1 DEF BrkType
    <3>2. m.qty < brk[k].qty - brk[k].execs
      BY <2>2, <2>4 DEF Open
    <3>3. brk[k].qty - m.qty \in 0..Qty /\ brk[k].execs < brk[k].qty - m.qty
      BY <2>1, <3>1, <3>2
    <3> QED
      BY <2>1, <3>3 DEF BrkType
  <2>5. brk' = [brk EXCEPT ![k] = IF m.qty < Open(k) THEN less ELSE shut]
    BY <1>0, <1>2, <2>1 DEF BrokerCancels
  <2>6. calls' \subseteq CallType
    BY <1>2, AnswerType DEF BrokerCancels
  <2> HIDE DEF less, shut, k
  <2>7. brk' \in [OrdNos -> BrkType] /\ WorkingHasMore'
    BY <1>0, <2>1, <2>3, <2>4, <2>5 DEF WorkingHasMore
  <2> QED
    BY <1>0, <1>2, <2>6, <2>7, BrokerType DEF BrokerCancels
<1>3. ASSUME NEW m \in calls, NEW n \in OrdNos, BrokerAmends(m, n)
      PROVE  TypeInv'
  <2> DEFINE k == m.ordno
             shut == [brk[k] EXCEPT !.st = "closed"]
             on == [brk[k] EXCEPT !.org = k, !.qty = m.qty, !.execs = 0]
  <2>1. m \in CallType /\ k \in OrdNos /\ m.qty \in 1..Qty /\ brk[k] \in BrkType
    BY <1>0 DEF CallType
  <2>2. k # n /\ brk[k].st = "working"
    BY <1>3 DEF BrokerAmends, NextOrdNo
  <2>3. shut \in BrkType /\ shut.st = "closed"
    BY <2>1 DEF BrkType
  <2>4. on \in BrkType /\ on.execs < on.qty
    <3>1. k \in OrdNos0 /\ m.qty \in 0..Qty /\ 0 \in 0..Qty /\ 0 < m.qty
      BY <2>1
    <3> HIDE DEF k
    <3> QED
      BY <2>1, <3>1 DEF BrkType
  <2>5. brk' = [brk EXCEPT ![k] = shut, ![n] = on]
    BY <1>0, <1>3, <2>1, <2>2 DEF BrokerAmends
  <2>6. calls' \subseteq CallType
    BY <1>3, AnswerType DEF BrokerAmends
  <2> HIDE DEF shut, on, k
  <2>7. brk' \in [OrdNos -> BrkType] /\ WorkingHasMore'
    BY <1>0, <2>1, <2>3, <2>4, <2>5 DEF WorkingHasMore
  <2> QED
    BY <1>0, <1>3, <2>6, <2>7, BrokerType DEF BrokerAmends
<1> QED
  BY <1>1, <1>2, <1>3 DEF CallAnswer

LEMMA BookType ==
  ASSUME TypeInv, NEW n \in OrdNos, BrokerExecutes(n) \/ ForeignOrder(n)
  PROVE  TypeInv'
<1> USE ConstantTypes
<1>0. /\ brk \in [OrdNos -> BrkType] /\ pc \in [Clients -> PcType]
      /\ got \in [Clients -> OrdNos0] /\ calls \subseteq CallType
      /\ WorkingHasMore
  BY DEF TypeInv, TypeOK, PcType
<1>1. PICK b \in BrkType : brk' = [brk EXCEPT ![n] = b]
                         /\ (b.st = "working" => b.execs < b.qty)
  <2>1. CASE BrokerExecutes(n)
    <3> DEFINE b == [brk[n] EXCEPT !.execs = @ + 1,
                       !.st = IF brk[n].execs + 1 = brk[n].qty THEN "closed" ELSE @]
    <3>1. brk[n] \in BrkType /\ brk[n].execs < brk[n].qty
      BY <1>0, <2>1 DEF BrokerExecutes, WorkingHasMore
    <3>2. brk[n].execs \in 0..Qty /\ brk[n].qty \in 0..Qty /\ brk[n].execs + 1 \in 0..Qty
      BY <3>1 DEF BrkType
    <3>3. b \in BrkType
      BY <3>1, <3>2 DEF BrkType
    <3>4. b.st = "working" => b.execs < b.qty
      BY <3>1, <3>2 DEF BrkType
    <3>5. brk' = [brk EXCEPT ![n] = b]
      BY <1>0, <2>1 DEF BrokerExecutes
    <3> HIDE DEF b
    <3> QED
      BY <3>3, <3>4, <3>5
  <2>2. CASE ForeignOrder(n)
    <3>1. PICK f \in Foreign :
            brk' = [brk EXCEPT ![n] = [Unused(n) EXCEPT !.st = "working", !.mkt = f[2], !.qty = 1]]
      BY <2>2 DEF ForeignOrder
    <3> DEFINE b == [Unused(n) EXCEPT !.st = "working", !.mkt = f[2], !.qty = 1]
    <3>2. f[2] \in MarketSet
      BY LiveAssumption
    <3>3. b \in BrkType /\ b.execs < b.qty
      <4>1. 1 \in 0..Qty /\ Unused(n) \in BrkType /\ Unused(n).execs = 0
        BY BlankTypes DEF Unused
      <4>2. ASSUME NEW u \in BrkType, NEW m \in MarketSet, u.execs = 0
            PROVE  LET w == [u EXCEPT !.st = "working", !.mkt = m, !.qty = 1]
                   IN  w \in BrkType /\ w.execs < w.qty
        <5> DEFINE w == [u EXCEPT !.st = "working", !.mkt = m, !.qty = 1]
        <5>1. w \in BrkType
          BY <4>1 DEF BrkType
        <5>2. w.execs = 0 /\ w.qty = 1
          BY <4>2 DEF BrkType
        <5> QED
          BY <5>1, <5>2
      <4> QED
        BY <3>2, <4>1, <4>2
    <3>4. brk' = [brk EXCEPT ![n] = b]
      BY <3>1
    <3> HIDE DEF b
    <3> QED
      BY <3>3, <3>4
  <2> QED
    BY <2>1, <2>2
<1>2. brk' \in [OrdNos -> BrkType] /\ WorkingHasMore'
  BY <1>0, <1>1 DEF WorkingHasMore
<1>3. misled \subseteq Clients
  BY DEF TypeInv, TypeOK
<1> QED
  BY <1>0, <1>2, <1>3, BrokerType DEF BrokerExecutes, ForeignOrder

LEMMA StepType == TypeInv /\ [Next]_vars => TypeInv'
<1> SUFFICES ASSUME TypeInv, [Next]_vars PROVE TypeInv'
  OBVIOUS
<1>1. CASE UNCHANGED vars
  BY <1>1 DEF vars, TypeInv, TypeOK, WorkingHasMore, OnPage
<1>2. ASSUME NEW c \in Clients, PlaceStep(c) \/ PlaceAnswer(c) PROVE TypeInv'
  BY <1>2, PlaceType, PlaceAnswerType
<1>3. ASSUME NEW p \in Procs, RecStep(p) PROVE TypeInv'
  BY <1>3, RecListType, RecFetchType, RecBookType, RecTurnType, RecStrangeType DEF RecStep
<1>4. ASSUME NEW n \in OrdNos, BrokerExecutes(n) \/ ForeignOrder(n) PROVE TypeInv'
  BY <1>4, BookType
<1> QED
  BY <1>1, <1>2, <1>3, <1>4, CallsType, CallAnswerType, BootType DEF Next

\* Every state is well typed: a row keeps at most what the broker can have
\* executed, and no run reads past the last market (repositories/orders_repo.py,
\* services/order_service.py:553-696).
THEOREM LiveTypeCorrect == Spec => []TypeOK
<1>1. TypeInv => TypeOK
  BY DEF TypeInv
<1> QED
  BY <1>1, InitTypeInv, StepType, PTL DEF Spec

------------------------------------------------------------------------------
(* The engine and what boot has read. *)

\* Boot goes through the markets in their order, and ok stays true only while
\* every market behind it was read.
BootInv ==
  /\ synced \subseteq MarketSet
  /\ rec[Boot].pc = "idle" => rec[Boot].mkt = 1
  /\ rec[Boot].pc \in {"list", "query", "orders"} /\ rec[Boot].ok =>
       \A i \in DOMAIN Markets : i < rec[Boot].mkt => Markets[i] \in synced
  /\ rec[Boot].pc = "done" /\ rec[Boot].ok => MarketSet \subseteq synced

SyncInv == ActiveIsSynced /\ BootInv

LEMMA InitSyncInv == Init => SyncInv
  BY DEF Init, SyncInv, ActiveIsSynced, BootInv, IdleRec, Procs

LEMMA NextMarketFields ==
  ASSUME NEW ok, NEW b \in BOOLEAN, b = (rec[Boot].ok /\ ok)
  PROVE  LET y == NextMarket(Boot, ok)
         IN  /\ y.ok = b
             /\ rec[Boot].mkt < Len(Markets) => y.pc = "list" /\ y.mkt = rec[Boot].mkt + 1
             /\ ~(rec[Boot].mkt < Len(Markets)) => y.pc = "done"
<1>1. /\ IdleRec \in RecType
      /\ NextMarket(Boot, ok) =
           IF rec[Boot].mkt < Len(Markets)
           THEN [IdleRec EXCEPT !.pc = "list", !.mkt = rec[Boot].mkt + 1, !.ok = b]
           ELSE [IdleRec EXCEPT !.pc = "done", !.ok = b]
  BY BlankTypes DEF NextMarket
<1> QED
  BY <1>1 DEF RecType

LEMMA BootMoves ==
  ASSUME TypeInv, NEW ok \in BOOLEAN, rec[Boot].pc \in {"query", "orders"}, BootInv,
         rec' = [rec EXCEPT ![Boot] = NextMarket(Boot, ok)],
         synced' \subseteq MarketSet, synced \subseteq synced',
         ok => Market(Boot) \in synced'
  PROVE  BootInv'
<1> USE ConstantTypes
<1>0. /\ Boot \in Procs /\ rec \in [Procs -> RecType] /\ rec[Boot].mkt \in DOMAIN Markets
      /\ rec[Boot].ok \in BOOLEAN
  BY DEF TypeInv, TypeOK, RecType, Procs
<1> DEFINE k == rec[Boot].mkt
           good == rec[Boot].ok /\ ok
<1>1. /\ rec'[Boot].ok = good
      /\ k < Len(Markets) => rec'[Boot].pc = "list" /\ rec'[Boot].mkt = k + 1
      /\ ~(k < Len(Markets)) => rec'[Boot].pc = "done"
  <2>1. rec'[Boot] = NextMarket(Boot, ok) /\ good \in BOOLEAN
    BY <1>0
  <2> QED
    BY <2>1, NextMarketFields
<1>2. good => \A i \in DOMAIN Markets : i < k + 1 => Markets[i] \in synced'
  <2> SUFFICES ASSUME good, NEW i \in DOMAIN Markets, i < k + 1
               PROVE  Markets[i] \in synced'
    OBVIOUS
  <2>1. i < k \/ i = k
    BY <1>0
  <2>2. i < k => Markets[i] \in synced
    BY DEF BootInv
  <2> QED
    BY <2>1, <2>2 DEF Market
<1>3. CASE k < Len(Markets)
  <2>1. /\ rec'[Boot].pc = "list" /\ rec'[Boot].mkt = k + 1 /\ rec'[Boot].ok = good
    BY <1>1, <1>3
  <2> HIDE DEF k, good
  <2> QED
    BY <1>2, <2>1 DEF BootInv
<1>4. CASE ~(k < Len(Markets))
  <2>1. rec'[Boot].pc = "done" /\ rec'[Boot].ok = good
    BY <1>1, <1>4
  <2>2. k = Len(Markets)
    BY <1>0, <1>4
  <2>3. good => MarketSet \subseteq synced'
    <3>1. \A i \in DOMAIN Markets : i < k + 1
      BY <2>2
    <3> HIDE DEF k, good
    <3> QED
      BY <1>2, <3>1 DEF MarketSet
  <2> HIDE DEF k, good
  <2> QED
    BY <2>1, <2>3 DEF BootInv
<1> QED
  BY <1>3, <1>4

LEMMA SyncStep == TypeInv /\ SyncInv /\ [Next]_vars => SyncInv'
<1> SUFFICES ASSUME TypeInv, SyncInv, [Next]_vars PROVE SyncInv'
  OBVIOUS
<1> USE DEF SyncInv
<1>0. /\ Boot \in Procs /\ rec \in [Procs -> RecType] /\ synced \subseteq MarketSet
      /\ rec[Boot] \in RecType
  BY DEF TypeInv, TypeOK, Procs
<1>1. CASE UNCHANGED <<rec, synced, engine>>
  BY <1>1 DEF ActiveIsSynced, BootInv
<1>2. ASSUME NEW p \in Procs, RecStep(p)
      PROVE  SyncInv'
  <2>1. /\ engine' = engine /\ synced \subseteq synced' /\ synced' \subseteq MarketSet
    <3>1. Market(p) \in MarketSet
      BY ConstantTypes DEF Market, TypeInv, TypeOK, RecType
    <3>2. engine' = engine /\ (synced' = synced \/ synced' = synced \cup {Market(p)})
      BY <1>2 DEF RecStep, RecStart, RecList, RecFetch, RecFetchFails, RecOrphanFill,
         RecPositions, RecPositionsFail, RecRaises, RecOver, RecApply, RecFollows,
         RecOrphan, RecClashes
    <3> QED
      BY <1>0, <3>1, <3>2
  <2>2. ActiveIsSynced'
    BY <2>1 DEF ActiveIsSynced
  <2>3. CASE p # Boot
    <3>1. rec'[Boot] = rec[Boot]
      BY <1>0, <1>2, <2>3 DEF RecStep, RecStart, RecList, RecFetch, RecFetchFails,
         RecOrphanFill, RecPositions, RecPositionsFail, RecRaises, RecOver, RecApply,
         RecFollows, RecOrphan, RecClashes
    <3> QED
      BY <2>1, <2>2, <3>1 DEF BootInv
  <2>4. CASE p = Boot
    <3>1. CASE RecStart(p)
      <4>1. rec'[Boot].mkt = 1 /\ rec'[Boot].pc = "list"
        BY <1>0, <2>4, <3>1 DEF RecStart, BootInv, RecType
      <4>2. \A i \in DOMAIN Markets : ~(i < 1)
        BY ConstantTypes
      <4> QED
        BY <2>1, <2>2, <4>1, <4>2 DEF BootInv
    <3>2. CASE \/ RecList(p) \/ RecFetch(p) \/ RecOrphanFill(p)
               \/ \E r \in Rows : RecApply(p, r)
               \/ \E n \in OrdNos : RecFollows(p, n) \/ RecOrphan(p, n)
      <4>1. /\ rec'[Boot].mkt = rec[Boot].mkt /\ rec'[Boot].ok = rec[Boot].ok
            /\ rec[Boot].pc \in {"list", "query", "orders"}
            /\ rec'[Boot].pc \in {"list", "query", "orders"}
        <5>1. CASE RecList(p)
          <6> DEFINE open == {r \in Rows : row[r].status \in NonTerminal
                                         /\ MarketRow(r) = Market(p)}
                     seen == [r \in Rows |-> IF r \in open THEN row[r].ordno ELSE 0]
          <6>1. /\ rec' = [rec EXCEPT ![p].pc = "query", ![p].todo = open, ![p].seen = seen]
                /\ rec[p].pc = "list"
            BY <5>1 DEF RecList
          <6> HIDE DEF open, seen
          <6> QED
            BY <1>0, <2>4, <6>1 DEF RecType
        <5>5. CASE RecFetch(p)
          <6>1. PICK page : rec' = [rec EXCEPT ![p].pc = "orders",
                  ![p].todo = {r \in @ : rec[p].seen[r] \in page},
                  ![p].view = [n \in OrdNos |-> IF n \in page THEN brk[n].execs ELSE -1],
                  ![p].left = [n \in OrdNos |-> IF n \in page THEN Open(n) ELSE 0]]
            BY <5>5 DEF RecFetch
          <6> DEFINE todo == {r \in rec[p].todo : rec[p].seen[r] \in page}
                     view == [n \in OrdNos |-> IF n \in page THEN brk[n].execs ELSE -1]
                     left == [n \in OrdNos |-> IF n \in page THEN Open(n) ELSE 0]
          <6>2. rec' = [rec EXCEPT ![p] = [rec[p] EXCEPT !.pc = "orders", !.todo = todo,
                                                         !.view = view, !.left = left]]
            BY <1>0, <6>1
          <6>3. rec[p].pc = "query"
            BY <5>5 DEF RecFetch
          <6> HIDE DEF todo, view, left
          <6> QED
            BY <1>0, <2>4, <6>2, <6>3 DEF RecType
        <5>2. CASE RecOrphanFill(p)
          BY <1>0, <2>4, <5>2 DEF RecOrphanFill, RecType, TypeInv, OnPage
        <5>3. CASE \E r \in Rows : RecApply(p, r)
          BY <1>0, <2>4, <5>3 DEF RecApply, RecType
        <5>4. CASE \E n \in OrdNos : RecFollows(p, n) \/ RecOrphan(p, n)
          BY <1>0, <2>4, <5>4 DEF RecFollows, RecOrphan, IsOrphan, RecType
        <5> QED
          BY <3>2, <5>1, <5>2, <5>3, <5>4, <5>5
      <4> QED
        BY <2>1, <2>2, <4>1 DEF BootInv
    <3>3. CASE RecFetchFails(p) \/ RecPositions(p) \/ RecPositionsFail(p)
      <4>1. PICK ok \in BOOLEAN : /\ rec' = [rec EXCEPT ![Boot] = NextMarket(Boot, ok)]
                                  /\ ok => Market(Boot) \in synced'
        BY <2>4, <3>3 DEF RecFetchFails, RecPositions, RecPositionsFail
      <4>2. rec[Boot].pc \in {"query", "orders"}
        BY <2>4, <3>3 DEF RecFetchFails, RecPositions, RecPositionsFail, AtPositions
      <4> QED
        BY <2>1, <2>2, <4>1, <4>2, BootMoves
    <3>4. CASE RecRaises(p) \/ \E n \in OrdNos : RecClashes(p, n)
      <4>1. rec'[Boot].pc \in {"aborted", "clashed"}
        BY <1>0, <2>4, <3>4, BlankTypes DEF RecRaises, RecClashes, RecType
      <4> QED
        BY <2>1, <2>2, <4>1 DEF BootInv
    <3>5. CASE RecOver(p)
      BY <2>4, <3>5, LiveAssumption DEF RecOver
    <3> QED
      BY <1>2, <3>1, <3>2, <3>3, <3>4, <3>5 DEF RecStep
  <2> QED
    BY <2>3, <2>4
<1>3. CASE BootStep
  <2>1. rec'[Boot].pc = "idle" /\ rec'[Boot].mkt = 1 /\ synced' = synced
    BY <1>0, <1>3 DEF BootStep, BootFinish, BootFails, IdleRec
  <2>2. engine' = "active" => synced = MarketSet
    BY <1>0, <1>3 DEF BootStep, BootFinish, BootFails, BootInv
  <2> QED
    BY <1>0, <2>1, <2>2 DEF ActiveIsSynced, BootInv
<1>4. CASE Crash
  BY <1>0, <1>4 DEF Crash, ActiveIsSynced, BootInv, IdleRec
<1>5. ASSUME NEW c \in Clients, PlaceStep(c) \/ PlaceAnswer(c)
      PROVE  UNCHANGED <<rec, synced, engine>>
  BY <1>5 DEF PlaceStep, Approve, Submit, RecordAck, RecordRefusal, RecordDoubt,
     PlaceAnswer, BrokerTakes, BrokerRefuses
<1>6. CASE CallStep \/ CallAnswer
  <2>1. UNCHANGED <<rec, synced, engine>>
    BY <1>6 DEF CallStep, Amend, Cancel, Call, RecordAmend, RecordCancel, CallAnswer,
       BrokerCancels, BrokerDeclines, BrokerAmends
  <2> QED
    BY <1>1, <2>1
<1>7. ASSUME NEW n \in OrdNos, BrokerExecutes(n) \/ ForeignOrder(n)
      PROVE  UNCHANGED <<rec, synced, engine>>
  BY <1>7 DEF BrokerExecutes, ForeignOrder
<1>8. CASE UNCHANGED vars
  BY <1>1, <1>8 DEF vars
<1> QED
  BY <1>1, <1>2, <1>3, <1>4, <1>5, <1>6, <1>7, <1>8 DEF Next

\* The engine is ACTIVE only if the orders and the positions of every market
\* were read since the start, whatever the number of markets and whichever of
\* their queries failed (orders/boot.py:203-222, order_service.py:553-696).
THEOREM LiveActiveIsSynced == Spec => []ActiveIsSynced
<1>1. SyncInv => ActiveIsSynced
  BY DEF SyncInv
<1> QED
  BY <1>1, InitTypeInv, StepType, InitSyncInv, SyncStep, PTL DEF Spec

------------------------------------------------------------------------------
(* The life of a row. *)

\* The rows that a request or a run is about to write exist, and a row that
\* does not exist has no executions.
InPlace == {"approved", "sending", "taken", "refused", "lost"}

WritesExisting ==
  /\ \A c \in Clients : pc[c] \in InPlace => Exists(c)
  /\ \A p \in Procs : \A r \in rec[p].todo : Exists(r)
  /\ \A p \in Procs : rec[p].orphan # 0 => Exists(rec[p].orphan)

NoneIsEmpty == \A r \in Rows : Exists(r) \/ row[r].fills = {}

LiveRowInv == TypeInv /\ WritesExisting /\ NoneIsEmpty

\* What one step may do to one row.
Created(a, b) ==
  a.status = "none" /\ b.status \in {"approved", "accepted"} /\ b.fills = {}

Moved(a, b) ==
  a.status # "none" /\ CanTransition(a.status, b.status) /\ b.fills = a.fills

Kept(a, b) == b.status = a.status /\ b.fills = a.fills

BookedOne(a, b) ==
  /\ a.status \in NonTerminal
  /\ \E e \in Events \ a.fills : b.fills = a.fills \cup {e}
  /\ \/ b.status = a.status
     \/ b.status \in {"partially_filled", "filled"} /\ CanTransition(a.status, b.status)

RowStep(a, b) == Created(a, b) \/ Moved(a, b) \/ Kept(a, b) \/ BookedOne(a, b)

OneRow ==
  \E r \in Rows : /\ RowStep(row[r], row'[r])
                  /\ \A q \in Rows \ {r} : row'[q] = row[q]

\* apply_fill books a number once, in an open row, or does nothing.
LEMMA ApplyFillStep ==
  ASSUME NEW o \in RowType, NEW n \in OrdNos, NEW q \in 0..Qty, NEW left,
         o.status # "none"
  PROVE  RowStep(o, ApplyFill(o, n, q, left))
<1> DEFINE fs == o.fills \cup {<<n, q>>}
           to == IF left = 0 THEN "filled" ELSE "partially_filled"
           s == IF CanTransition(o.status, to) THEN to ELSE o.status
           b == [o EXCEPT !.fills = fs, !.rem = left, !.status = s]
<1>1. CASE o.status \in TERMINAL_STATES \/ q = 0 \/ \E e \in o.fills : e[1] = n
  BY <1>1 DEF ApplyFill, RowStep, Kept
<1>2. CASE ~(o.status \in TERMINAL_STATES \/ q = 0 \/ \E e \in o.fills : e[1] = n)
  <2>1. ApplyFill(o, n, q, left) = b
    BY <1>2 DEF ApplyFill
  <2>2. <<n, q>> \in Events \ o.fills
    BY <1>2, ConstantTypes DEF Events
  <2>3. o.status \in NonTerminal
    BY <1>2 DEF RowType, RowState, NonTerminal
  <2>4. to \in {"partially_filled", "filled"}
    OBVIOUS
  <2> HIDE DEF fs, to
  <2>5. b.fills = fs /\ b.status = s
    BY DEF RowType
  <2>6. b.status = o.status \/ (b.status = to /\ CanTransition(o.status, to))
    BY <2>5
  <2> HIDE DEF b, s
  <2> QED
    BY <2>1, <2>2, <2>3, <2>4, <2>5, <2>6 DEF RowStep, BookedOne, fs
<1> QED
  BY <1>1, <1>2

LEMMA SameRows ==
  ASSUME UNCHANGED row
  PROVE  OneRow
<1>1. 1 \in Rows
  BY ConstantTypes DEF Rows
<1> QED
  BY <1>1 DEF OneRow, RowStep, Kept

LEMMA SetStatusRow ==
  ASSUME TypeOK, NEW r \in Rows, NEW s \in OrderState, Exists(r),
         NEW t \in [Rows -> RowType], t[r].status = SetStatus(r, s)[r].status,
         t[r].fills = row[r].fills, \A q \in Rows \ {r} : t[q] = row[q], row' = t
  PROVE  OneRow
<1>1. row[r] \in RowType /\ row \in [Rows -> RowType]
  BY DEF TypeOK
<1>2. t[r].status = IF CanTransition(row[r].status, s) THEN s ELSE row[r].status
  BY <1>1 DEF SetStatus, RowType
<1>3. RowStep(row[r], row'[r])
  BY <1>2 DEF RowStep, Moved, Kept, Exists
<1> QED
  BY <1>3 DEF OneRow

LEMMA SetStatusIsOneRow ==
  ASSUME TypeOK, NEW r \in Rows, NEW s \in OrderState, Exists(r),
         row' = SetStatus(r, s)
  PROVE  OneRow
<1>1. SetStatus(r, s) \in [Rows -> RowType]
  BY SetStatusType DEF RowState
<1>2. /\ SetStatus(r, s)[r].fills = row[r].fills
      /\ \A q \in Rows \ {r} : SetStatus(r, s)[q] = row[q]
  BY DEF SetStatus, TypeOK, RowType
<1> QED
  BY <1>1, <1>2, SetStatusRow

\* Every step leaves all rows alone but one, and does to that one what its life
\* cycle allows.
LEMMA StepOneRow ==
  ASSUME LiveRowInv, [Next]_vars
  PROVE  OneRow
<1> USE ConstantTypes
<1>0. /\ TypeInv /\ TypeOK /\ row \in [Rows -> RowType] /\ rec \in [Procs -> RecType]
      /\ Clients \subseteq Rows /\ OrdNos \subseteq Rows
  BY DEF LiveRowInv, TypeInv, TypeOK, Rows
<1>1. ASSUME NEW c \in Clients, PlaceStep(c)
      PROVE  OneRow
  <2>1. CASE Approve(c)
    <3>1. /\ row'[c].status = "approved" /\ row'[c].fills = {}
          /\ \A q \in Rows \ {c} : row'[q] = row[q]
      BY <1>0, <2>1 DEF Approve, NoRow
    <3> QED
      BY <1>0, <2>1, <3>1 DEF Approve, Exists, OneRow, RowStep, Created
  <2>2. CASE Submit(c) \/ RecordRefusal(c) \/ RecordDoubt(c)
    <3>1. Exists(c)
      BY <2>2 DEF Submit, RecordRefusal, RecordDoubt, LiveRowInv, WritesExisting, InPlace
    <3>2. PICK s \in {"submitted", "rejected", "in_doubt"} : row' = SetStatus(c, s)
      BY <2>2 DEF Submit, RecordRefusal, RecordDoubt
    <3> QED
      BY <1>0, <3>1, <3>2, SetStatusIsOneRow DEF OrderState
  <2>3. CASE RecordAck(c)
    <3>1. Exists(c)
      BY <2>3 DEF RecordAck, LiveRowInv, WritesExisting, InPlace
    <3> DEFINE t == [SetStatus(c, "accepted") EXCEPT ![c].ordno = got[c]]
    <3>2. row' = row \/ row' = t
      BY <2>3 DEF RecordAck
    <3>3. SetStatus(c, "accepted") \in [Rows -> RowType]
      BY <1>0, SetStatusType DEF RowState, OrderState
    <3>4. got[c] \in OrdNos0
      BY <1>0 DEF TypeOK
    <3>5. /\ t \in [Rows -> RowType] /\ t[c].status = SetStatus(c, "accepted")[c].status
          /\ t[c].fills = SetStatus(c, "accepted")[c].fills
          /\ \A q \in Rows \ {c} : t[q] = SetStatus(c, "accepted")[q]
      BY <1>0, <3>3, <3>4 DEF RowType
    <3>6. /\ SetStatus(c, "accepted")[c].fills = row[c].fills
          /\ \A q \in Rows \ {c} : SetStatus(c, "accepted")[q] = row[q]
      BY <1>0 DEF SetStatus, RowType
    <3>7. CASE row' = t
      <4>1. c \in Rows /\ "accepted" \in OrderState
        BY <1>0 DEF OrderState
      <4> HIDE DEF t
      <4>2. t[c].fills = row[c].fills /\ \A q \in Rows \ {c} : t[q] = row[q]
        BY <3>5, <3>6
      <4> QED
        BY <1>0, <3>1, <3>5, <3>7, <4>1, <4>2, SetStatusRow
    <3> QED
      BY <3>2, <3>7, SameRows
  <2> QED
    BY <1>1, <2>1, <2>2, <2>3 DEF PlaceStep
<1>2. CASE CallStep
  <2>1. ASSUME NEW m \in calls, RecordAmend(m)
        PROVE  OneRow
    <3>1. m.row \in Rows
      BY <1>0 DEF TypeOK, CallType
    <3>2. /\ row'[m.row].status = row[m.row].status /\ row'[m.row].fills = row[m.row].fills
          /\ \A q \in Rows \ {m.row} : row'[q] = row[q]
      BY <1>0, <2>1, <3>1 DEF RecordAmend, RowType
    <3> QED
      BY <3>1, <3>2 DEF OneRow, RowStep, Kept
  <2>2. ASSUME NEW m \in calls, RecordCancel(m)
        PROVE  OneRow
    <3>1. m.row \in Rows
      BY <1>0 DEF TypeOK, CallType
    <3>2. CASE row[m.row].status \in NON_TERMINAL_FOR_CANCEL
      <4>1. Exists(m.row) /\ row' = SetStatus(m.row, "canceled")
        BY <2>2, <3>2 DEF RecordCancel, Exists, NON_TERMINAL_FOR_CANCEL
      <4> QED
        BY <1>0, <3>1, <4>1, SetStatusIsOneRow DEF OrderState
    <3> QED
      BY <2>2, <3>2, SameRows DEF RecordCancel
  <2>3. ASSUME NEW r \in Rows, Cancel(r) \/ \E q \in AmendQty : Amend(r, q)
        PROVE  OneRow
    BY <2>3, SameRows DEF Cancel, Amend, Call
  <2> QED
    BY <1>2, <2>1, <2>2, <2>3 DEF CallStep
<1>3. ASSUME NEW p \in Procs, NEW r \in Rows, NEW n \in OrdNos, Exists(r),
             rec[p].view[n] # -1,
             row' = [row EXCEPT ![r] = ApplyFill(@, n, rec[p].view[n], rec[p].left[n])]
      PROVE  OneRow
  <2>1. rec[p].view[n] \in 0..Qty /\ row[r] \in RowType /\ row[r].status # "none"
    BY <1>0, <1>3 DEF RecType, Exists
  <2>2. RowStep(row[r], ApplyFill(row[r], n, rec[p].view[n], rec[p].left[n]))
    BY <2>1, ApplyFillStep
  <2> QED
    BY <1>0, <1>3, <2>2 DEF OneRow
<1>4. ASSUME NEW p \in Procs, RecStep(p)
      PROVE  OneRow
  <2>1. ASSUME NEW r \in Rows, RecApply(p, r)
        PROVE  OneRow
    <3> DEFINE n == rec[p].seen[r]
    <3>1. /\ rec[p].pc = "orders" /\ r \in rec[p].todo
          /\ row' = [row EXCEPT ![r] = ApplyFill(@, n, rec[p].view[n], rec[p].left[n])]
      BY <2>1 DEF RecApply
    <3>2. Exists(r)
      BY <3>1 DEF LiveRowInv, WritesExisting
    <3>3. n \in OrdNos /\ rec[p].view[n] # -1
      BY <1>0, <3>1 DEF TypeInv, OnPage
    <3> HIDE DEF n
    <3> QED
      BY <1>3, <3>1, <3>2, <3>3
  <2>2. CASE RecOrphanFill(p)
    <3> DEFINE n == rec[p].orphan
    <3>1. /\ n # 0
          /\ row' = [row EXCEPT ![n] = ApplyFill(@, n, rec[p].view[n], rec[p].left[n])]
      BY <2>2 DEF RecOrphanFill
    <3>2. Exists(n)
      BY <3>1 DEF LiveRowInv, WritesExisting
    <3>3. n \in OrdNos /\ n \in Rows /\ rec[p].view[n] # -1
      BY <1>0, <3>1 DEF TypeInv, OnPage, RecType
    <3> HIDE DEF n
    <3> QED
      BY <1>3, <3>1, <3>2, <3>3
  <2>3. ASSUME NEW n \in OrdNos, RecOrphan(p, n)
        PROVE  OneRow
    <3>1. /\ n \in Rows /\ row'[n].status = "accepted" /\ row'[n].fills = {}
          /\ \A q \in Rows \ {n} : row'[q] = row[q]
      BY <1>0, <2>3 DEF RecOrphan, NoRow
    <3> QED
      BY <2>3, <3>1 DEF RecOrphan, IsOrphan, Exists, OneRow, RowStep, Created
  <2>4. CASE UNCHANGED row
    BY <2>4, SameRows
  <2> QED
    BY <1>4, <2>1, <2>2, <2>3, <2>4 DEF RecStep, RecStart, RecList, RecFetch, RecFetchFails,
       RecPositions, RecPositionsFail, RecRaises, RecOver, RecFollows, RecClashes
<1>5. CASE \/ CallAnswer \/ BootStep \/ Crash \/ UNCHANGED vars
           \/ \E c \in Clients : PlaceAnswer(c)
           \/ \E n \in OrdNos : BrokerExecutes(n) \/ ForeignOrder(n)
  <2>1. UNCHANGED row
    BY <1>5 DEF CallAnswer, BrokerCancels, BrokerDeclines, BrokerAmends, BootStep, BootFinish,
       BootFails, Crash, vars, PlaceAnswer, BrokerTakes, BrokerRefuses, BrokerExecutes,
       ForeignOrder
  <2> QED
    BY <2>1, SameRows
<1> QED
  BY <1>1, <1>2, <1>4, <1>5 DEF Next

LEMMA LiveStatusForward ==
  ASSUME NEW a \in RowType, NEW b, RowStep(a, b)
  PROVE  /\ a.status # "none" => b.status # "none"
         /\ Moved(a, b) => b.status \in OrderState
<1>1. a.status \in OrderState \cup {"none"}
  BY DEF RowType, RowState
<1>2. \A s \in OrderState : Legal[s] \subseteq OrderState /\ "none" \notin Legal[s]
  BY DEF Legal, OrderState
<1>3. Moved(a, b) => b.status \in OrderState /\ b.status # "none"
  BY <1>1, <1>2 DEF Moved, CanTransition, OrderState
<1>4. Created(a, b) \/ Kept(a, b) => (a.status # "none" => b.status # "none")
  BY DEF Created, Kept
<1>5. BookedOne(a, b) => b.status # "none"
  BY DEF BookedOne, NonTerminal, OrderState
<1> QED
  BY <1>3, <1>4, <1>5 DEF RowStep

LEMMA RowsStay ==
  ASSUME LiveRowInv, [Next]_vars, NEW r \in Rows
  PROVE  /\ Exists(r) => Exists(r)'
         /\ Exists(r)' \/ row'[r].fills = {}
<1>1. row[r] \in RowType /\ (Exists(r) \/ row[r].fills = {})
  BY DEF LiveRowInv, TypeInv, TypeOK, NoneIsEmpty
<1>2. PICK q \in Rows : /\ RowStep(row[q], row'[q])
                        /\ \A s \in Rows \ {q} : row'[s] = row[s]
  BY StepOneRow DEF OneRow
<1>3. CASE q = r
  <2>1. Exists(r) => Exists(r)'
    BY <1>1, <1>2, <1>3, LiveStatusForward DEF Exists
  <2>2. row[r].status = "none" => Created(row[r], row'[r]) \/ Kept(row[r], row'[r])
    BY <1>2, <1>3 DEF RowStep, Moved, BookedOne, NonTerminal, OrderState
  <2> QED
    BY <1>1, <2>1, <2>2 DEF Exists, Created, Kept
<1>4. CASE q # r
  BY <1>1, <1>2, <1>4 DEF Exists
<1> QED
  BY <1>3, <1>4

\* Where the position of a place request, and what a run has left to write, come
\* from.
LEMMA InPlaceSource ==
  ASSUME LiveRowInv, [Next]_vars, NEW c \in Clients, pc'[c] \in InPlace
  PROVE  Exists(c)'
<1>0. pc \in [Clients -> PcType] /\ c \in Rows /\ row \in [Rows -> RowType]
  BY DEF LiveRowInv, TypeInv, TypeOK, PcType, Rows
<1>1. pc[c] \in InPlace => Exists(c)'
  BY <1>0, RowsStay DEF LiveRowInv, WritesExisting
<1>2. CASE pc'[c] = pc[c]
  BY <1>1, <1>2
<1>3. CASE Approve(c)
  BY <1>0, <1>3 DEF Approve, Exists, NoRow
<1>4. CASE Submit(c) \/ RecordAck(c) \/ RecordRefusal(c) \/ RecordDoubt(c)
  BY <1>1, <1>4 DEF Submit, RecordAck, RecordRefusal, RecordDoubt, InPlace
<1>5. CASE PlaceAnswer(c)
  BY <1>1, <1>5 DEF PlaceAnswer, BrokerTakes, BrokerRefuses, InPlace
<1>6. ASSUME NEW d \in Clients, d # c, PlaceStep(d) \/ PlaceAnswer(d)
      PROVE  pc'[c] = pc[c]
  BY <1>0, <1>6 DEF PlaceStep, PlaceAnswer, Approve, Submit, RecordAck, RecordRefusal,
     RecordDoubt, BrokerTakes, BrokerRefuses
<1>7. CASE Crash
  BY <1>7 DEF Crash, InPlace
<1>8. ASSUME NEW p \in Procs, RecStep(p)
      PROVE  pc' = pc
  BY <1>8 DEF RecStep, RecStart, RecList, RecFetch, RecFetchFails, RecOrphanFill,
     RecPositions, RecPositionsFail, RecRaises, RecOver, RecApply, RecFollows,
     RecOrphan, RecClashes
<1>9. CASE \/ CallStep \/ CallAnswer \/ BootStep \/ UNCHANGED vars
           \/ \E n \in OrdNos : BrokerExecutes(n) \/ ForeignOrder(n)
  <2>1. pc' = pc
    BY <1>9 DEF CallStep, Amend, Cancel, Call, RecordAmend, RecordCancel, CallAnswer,
       BrokerCancels, BrokerDeclines, BrokerAmends, BootStep, BootFinish, BootFails, vars,
       BrokerExecutes, ForeignOrder
  <2> QED
    BY <1>2, <2>1
<1> QED
  BY <1>2, <1>3, <1>4, <1>5, <1>6, <1>7, <1>8, <1>9 DEF Next, PlaceStep

LEMMA TodoSource ==
  ASSUME LiveRowInv, [Next]_vars, NEW p \in Procs
  PROVE  /\ rec'[p].todo \subseteq rec[p].todo \/ \A r \in rec'[p].todo : Exists(r)
         /\ rec'[p].orphan # 0 => rec'[p].orphan = rec[p].orphan \/ Exists(rec[p].orphan)'
<1> USE ConstantTypes
<1>0. /\ rec \in [Procs -> RecType] /\ row \in [Rows -> RowType] /\ Boot \in Procs
      /\ OrdNos \subseteq Rows
  BY DEF LiveRowInv, TypeInv, TypeOK, Procs, Rows
<1>1. CASE rec'[p] = rec[p]
  BY <1>1
<1>2. CASE rec'[p].todo = {} /\ rec'[p].orphan = 0
  BY <1>2
<1>3. CASE RecStart(p)
  BY <1>0, <1>3 DEF RecStart, RecType
<1>4. CASE RecList(p)
  <2> DEFINE open == {r \in Rows : row[r].status \in NonTerminal /\ MarketRow(r) = Market(p)}
             seen == [r \in Rows |-> IF r \in open THEN row[r].ordno ELSE 0]
  <2>1. rec' = [rec EXCEPT ![p].pc = "query", ![p].todo = open, ![p].seen = seen]
    BY <1>4 DEF RecList
  <2>2. \A r \in open : Exists(r)
    BY DEF Exists, NonTerminal, OrderState
  <2> HIDE DEF open, seen
  <2> QED
    BY <1>0, <2>1, <2>2 DEF RecType
<1>5. CASE RecFetch(p)
  <2>1. PICK page : rec' = [rec EXCEPT ![p].pc = "orders",
          ![p].todo = {r \in @ : rec[p].seen[r] \in page},
          ![p].view = [n \in OrdNos |-> IF n \in page THEN brk[n].execs ELSE -1],
          ![p].left = [n \in OrdNos |-> IF n \in page THEN Open(n) ELSE 0]]
    BY <1>5 DEF RecFetch
  <2> DEFINE todo == {r \in rec[p].todo : rec[p].seen[r] \in page}
             view == [n \in OrdNos |-> IF n \in page THEN brk[n].execs ELSE -1]
             left == [n \in OrdNos |-> IF n \in page THEN Open(n) ELSE 0]
  <2>2. rec' = [rec EXCEPT ![p] = [rec[p] EXCEPT !.pc = "orders", !.todo = todo,
                                                 !.view = view, !.left = left]]
    BY <1>0, <2>1
  <2>3. todo \subseteq rec[p].todo
    OBVIOUS
  <2> HIDE DEF todo, view, left
  <2> QED
    BY <1>0, <2>2, <2>3 DEF RecType
<1>6. ASSUME NEW r \in Rows, RecApply(p, r)
      PROVE  rec'[p].todo \subseteq rec[p].todo /\ rec'[p].orphan = rec[p].orphan
  BY <1>0, <1>6 DEF RecApply, RecType
<1>7. CASE RecOrphanFill(p)
  BY <1>0, <1>7 DEF RecOrphanFill, RecType
<1>8. ASSUME NEW n \in OrdNos, RecFollows(p, n)
      PROVE  rec'[p].todo = rec[p].todo /\ rec'[p].orphan = rec[p].orphan
  BY <1>0, <1>8 DEF RecFollows, RecType
<1>9. ASSUME NEW n \in OrdNos, RecOrphan(p, n)
      PROVE  rec'[p].todo = rec[p].todo /\ Exists(rec[p].orphan)'
  <2>1. rec'[p].todo = rec[p].todo /\ rec'[p].orphan = n
    BY <1>0, <1>9 DEF RecOrphan, RecType
  <2>2. row'[n].status = "accepted"
    BY <1>0, <1>9 DEF RecOrphan, NoRow
  <2> QED
    BY <2>1, <2>2 DEF Exists
<1>10. CASE RecFetchFails(p) \/ RecPositions(p) \/ RecPositionsFail(p)
  <2>1. PICK ok : rec' = [rec EXCEPT ![p] = NextMarket(p, ok)]
    BY <1>10 DEF RecFetchFails, RecPositions, RecPositionsFail
  <2>2. NextMarket(p, ok).todo = {} /\ NextMarket(p, ok).orphan = 0
    BY DEF NextMarket, IdleRec
  <2> QED
    BY <1>0, <1>2, <2>1, <2>2
<1>11. CASE RecRaises(p) \/ RecOver(p) \/ \E n \in OrdNos : RecClashes(p, n)
  <2>1. rec'[p].todo = {} /\ rec'[p].orphan = 0
    <3>1. PICK to \in {"idle", "aborted", "clashed"} :
            rec' = [rec EXCEPT ![p] = [IdleRec EXCEPT !.pc = to]]
      BY <1>11 DEF RecRaises, RecOver, RecClashes, IdleRec
    <3>2. /\ [IdleRec EXCEPT !.pc = to].todo = {} /\ [IdleRec EXCEPT !.pc = to].orphan = 0
      BY DEF IdleRec
    <3> QED
      BY <1>0, <3>1, <3>2
  <2> QED
    BY <1>2, <2>1
<1>12. ASSUME NEW q \in Procs, q # p, RecStep(q)
       PROVE  rec'[p] = rec[p]
  BY <1>0, <1>12 DEF RecStep, RecStart, RecList, RecFetch, RecFetchFails, RecOrphanFill,
     RecPositions, RecPositionsFail, RecRaises, RecOver, RecApply, RecFollows,
     RecOrphan, RecClashes
<1>13. CASE BootStep \/ Crash
  <2>1. rec'[p] = rec[p] \/ (rec'[p].todo = {} /\ rec'[p].orphan = 0)
    BY <1>0, <1>13 DEF BootStep, BootFinish, BootFails, Crash, IdleRec
  <2> QED
    BY <1>1, <1>2, <2>1
<1>14. CASE \/ CallStep \/ CallAnswer \/ UNCHANGED vars
            \/ \E c \in Clients : PlaceStep(c) \/ PlaceAnswer(c)
            \/ \E n \in OrdNos : BrokerExecutes(n) \/ ForeignOrder(n)
  <2>1. rec' = rec
    BY <1>14 DEF CallStep, Amend, Cancel, Call, RecordAmend, RecordCancel, CallAnswer,
       BrokerCancels, BrokerDeclines, BrokerAmends, vars, PlaceStep, Approve, Submit,
       RecordAck, RecordRefusal, RecordDoubt, PlaceAnswer, BrokerTakes, BrokerRefuses,
       BrokerExecutes, ForeignOrder
  <2> QED
    BY <1>1, <2>1
<1>15. ASSUME RecStep(p)
       PROVE  /\ rec'[p].todo \subseteq rec[p].todo \/ \A r \in rec'[p].todo : Exists(r)
              /\ rec'[p].orphan # 0
                   => rec'[p].orphan = rec[p].orphan \/ Exists(rec[p].orphan)'
  BY <1>3, <1>4, <1>5, <1>6, <1>7, <1>8, <1>9, <1>10, <1>11, <1>15 DEF RecStep
<1> QED
  BY <1>1, <1>12, <1>13, <1>14, <1>15 DEF Next

LEMMA InitLiveRowInv == Init => LiveRowInv
  BY InitTypeInv DEF Init, LiveRowInv, WritesExisting, NoneIsEmpty, NoRow, IdleRec, InPlace

LEMMA StepLiveRowInv == LiveRowInv /\ [Next]_vars => LiveRowInv'
<1> SUFFICES ASSUME LiveRowInv, [Next]_vars PROVE LiveRowInv'
  OBVIOUS
<1>1. TypeInv'
  BY StepType DEF LiveRowInv
<1>2. NoneIsEmpty'
  BY RowsStay DEF NoneIsEmpty
<1>3. ASSUME NEW c \in Clients, pc'[c] \in InPlace
      PROVE  Exists(c)'
  BY <1>3, InPlaceSource
<1>4. ASSUME NEW p \in Procs, NEW r \in rec'[p].todo
      PROVE  Exists(r)'
  <2>1. r \in Rows
    BY <1>1, <1>4 DEF TypeInv, TypeOK, RecType
  <2>2. Exists(r)
    BY <1>4, TodoSource DEF LiveRowInv, WritesExisting
  <2> QED
    BY <2>1, <2>2, RowsStay
<1>5. ASSUME NEW p \in Procs, rec'[p].orphan # 0
      PROVE  Exists(rec[p].orphan)'
  <2>1. rec'[p].orphan \in Rows
    BY <1>1, <1>5, ConstantTypes DEF TypeInv, TypeOK, RecType, Rows
  <2>2. CASE rec'[p].orphan = rec[p].orphan
    <3>1. Exists(rec[p].orphan)
      BY <1>5, <2>2 DEF LiveRowInv, WritesExisting
    <3> DEFINE n == rec[p].orphan
    <3>2. Exists(n)'
      BY <2>1, <2>2, <3>1, RowsStay DEF Exists
    <3> QED
      BY <2>2, <3>2 DEF Exists
  <2> QED
    BY <1>5, <2>2, TodoSource
<1> QED
  BY <1>1, <1>2, <1>3, <1>4, <1>5 DEF LiveRowInv, WritesExisting

LEMMA LiveSameStates ==
  /\ LifeCycle!OrderState = OrderState
  /\ LifeCycle!NonTerminal = NonTerminal
  /\ \A a, b : LifeCycle!CanTransition(a, b) = CanTransition(a, b)
BY DEF LifeCycle!OrderState, OrderState, LifeCycle!NonTerminal, NonTerminal,
       LifeCycle!TERMINAL_STATES, TERMINAL_STATES, LifeCycle!CanTransition,
       CanTransition, LifeCycle!Legal, Legal

LEMMA LiveStepLifeCycle ==
  ASSUME LiveRowInv, LiveRowInv', [Next]_vars
  PROVE  [LifeCycle!LNext]_(LifeCycle!lvars)
<1>0. row \in [Rows -> RowType] /\ row' \in [Rows -> RowType]
  BY DEF LiveRowInv, TypeInv, TypeOK
<1>1. PICK r \in Rows : /\ RowStep(row[r], row'[r])
                        /\ \A q \in Rows \ {r} : row'[q] = row[q]
  BY StepOneRow DEF OneRow
<1>2. /\ [q \in Rows |-> row'[q].status]
           = [[q \in Rows |-> row[q].status] EXCEPT ![r] = row'[r].status]
      /\ [q \in Rows |-> row'[q].fills]
           = [[q \in Rows |-> row[q].fills] EXCEPT ![r] = row'[r].fills]
  BY <1>1
<1>3. row[r] \in RowType
  BY <1>0
<1>4. CASE Created(row[r], row'[r])
  <2>1. row[r].fills = {}
    BY <1>4 DEF Created, LiveRowInv, NoneIsEmpty, Exists
  <2>2. LifeCycle!Create(r)
    BY <1>2, <1>4, <2>1 DEF Created, LifeCycle!Create
  <2> QED
    BY <2>2 DEF LifeCycle!LNext
<1>5. CASE Moved(row[r], row'[r])
  <2>1. row'[r].status \in OrderState
    BY <1>3, <1>5, LiveStatusForward DEF RowStep
  <2>2. LifeCycle!Move(r)
    BY <1>2, <1>5, <2>1, LiveSameStates DEF Moved, LifeCycle!Move
  <2> QED
    BY <2>2 DEF LifeCycle!LNext
<1>6. CASE Kept(row[r], row'[r])
  BY <1>2, <1>6 DEF Kept, LifeCycle!lvars
<1>7. CASE BookedOne(row[r], row'[r])
  <2>1. LifeCycle!Book(r)
    BY <1>2, <1>7, LiveSameStates DEF BookedOne, LifeCycle!Book
  <2> QED
    BY <2>1 DEF LifeCycle!LNext
<1> QED
  BY <1>1, <1>4, <1>5, <1>6, <1>7 DEF RowStep

LEMMA InitLiveLifeCycle == Init => LifeCycle!LInit
  BY DEF Init, LifeCycle!LInit, NoRow

\* The live bucket keeps the life cycle of OrderLifecycle, too: whichever
\* request, run or answer writes a row, and in whatever order, the row is created
\* once, moves along the legal table, only gains executions and is never opened
\* again (order_service.py:553-696, orders_repo.py:355-488).
THEOREM LiveBucketImplementsLifeCycle == Spec => LiveImplementsLifeCycle
<1> QED
  BY InitLiveRowInv, StepLiveRowInv, LiveStepLifeCycle, InitLiveLifeCycle,
     PTL DEF Spec, LiveImplementsLifeCycle, LifeCycle!LSpec

------------------------------------------------------------------------------
(* Second rows. *)

AmendedOf(o) == \E n \in OrdNos : brk[n].owner = o /\ brk[n].org # 0
NoNumber(c)  == \A n \in OrdNos : brk[n].owner # c

\* The row of an order the broker has may wait for its number; or it is rejected
\* when the adapter took the answer for a refusal.
Waiting == {"submitted", "in_doubt", "rejected"}

\* A number is free or belongs to one order, and an order that was not amended
\* has one number.
BookInv ==
  /\ \A n \in OrdNos : brk[n].st = "none" => brk[n].owner = n /\ brk[n].org = 0
  /\ \A c \in Clients, n, k \in OrdNos :
       brk[n].owner = c /\ brk[k].owner = c => n = k \/ AmendedOf(c)

\* The number of a row is one of its own order, no two rows have the same, and
\* the row of an order the broker has shows its number unless it waits for it.
NumberInv ==
  /\ \A r \in Rows : row[r].ordno # 0 =>
       brk[row[r].ordno].st # "none" /\ brk[row[r].ordno].owner = OwnerOf(r)
  /\ \A r, s \in Rows : row[r].ordno # 0 /\ row[r].ordno = row[s].ordno => r = s
  /\ \A n \in OrdNos :
       /\ Exists(n) => /\ brk[n].st # "none" /\ row[n].ordno # 0
                       /\ row[n].ordno = n \/ AmendedOf(brk[n].owner)
       /\ ~Exists(n) => row[n].ordno = 0
  /\ \A c \in Clients, n \in OrdNos : brk[n].owner = c =>
       \/ AmendedOf(c) \/ row[c].ordno = n
       \/ row[c].ordno = 0 /\ row[c].status \in Waiting

\* What the place request of an order knows.
PlaceInv ==
  \A c \in Clients :
    /\ row[c].status \in {"none", "approved"} => row[c].ordno = 0 /\ NoNumber(c)
    /\ pc[c] = "approved" => row[c].status = "approved"
    /\ pc[c] \in {"sending", "taken", "refused", "lost"} =>
         row[c].status = "submitted" /\ row[c].ordno = 0
    /\ pc[c] = "sending" => NoNumber(c)
    /\ pc[c] = "taken" => got[c] \in OrdNos /\ brk[got[c]].owner = c

\* Requests are for a number of the row's order, and so is the new one.
CallInv ==
  \A m \in calls :
    /\ row[m.row].ordno # 0 /\ brk[m.ordno].st # "none"
    /\ brk[m.ordno].owner = OwnerOf(m.row)
    /\ m.op = "amend" /\ m.st = "acked" =>
         /\ m.new \in OrdNos /\ brk[m.new].st # "none" /\ brk[m.new].org # 0
         /\ brk[m.new].owner = OwnerOf(m.row)

\* A run has seen numbers that rows have or the broker gave out.
SeenInv ==
  \A p \in Procs :
    /\ \A r \in Rows : rec[p].seen[r] # 0 => row[r].ordno # 0
    /\ \A n \in OrdNos : rec[p].view[n] # -1 => brk[n].st # "none"

DoubledInv == LiveRowInv /\ BookInv /\ NumberInv /\ PlaceInv /\ CallInv /\ SeenInv

LEMMA Owners ==
  /\ \A c \in Clients : OwnerOf(c) = c /\ OwnerOf(c)' = c /\ c \notin OrdNos /\ c # 0
  /\ \A n \in OrdNos : OwnerOf(n) = brk[n].owner /\ OwnerOf(n)' = brk'[n].owner
  /\ \A r \in Rows : r \in Clients \/ r \in OrdNos
BY ConstantTypes DEF OwnerOf, Rows

LEMMA InitDoubledInv == Init => DoubledInv
<1> SUFFICES ASSUME Init PROVE DoubledInv
  OBVIOUS
<1> USE DEF Init
<1>1. LiveRowInv
  BY InitLiveRowInv
<1>2. /\ \A n \in OrdNos : brk[n].st = "none" /\ brk[n].owner = n /\ brk[n].org = 0
      /\ \A r \in Rows : row[r].status = "none" /\ row[r].ordno = 0
      /\ \A p \in Procs : /\ \A r \in Rows : rec[p].seen[r] = 0
                          /\ \A n \in OrdNos : rec[p].view[n] = -1
  BY DEF Unused, NoRow, IdleRec
<1>3. Clients \subseteq Rows /\ OrdNos \subseteq Rows
  BY DEF Rows
<1>4. BookInv /\ CallInv /\ SeenInv
  BY <1>2, Owners DEF BookInv, CallInv, SeenInv
<1>5. NumberInv
  BY <1>2, <1>3, Owners DEF NumberInv, Exists
<1>6. PlaceInv
  BY <1>2, <1>3, Owners DEF PlaceInv, NoNumber
<1> QED
  BY <1>1, <1>4, <1>5, <1>6 DEF DoubledInv

\* The broker's book as the invariant sees it.
SameBook ==
  \A n \in OrdNos : /\ brk'[n].owner = brk[n].owner /\ brk'[n].org = brk[n].org
                    /\ (brk'[n].st = "none") = (brk[n].st = "none")

BookStays ==
  \A n \in OrdNos : brk[n].st # "none" =>
    /\ brk'[n].st # "none" /\ brk'[n].owner = brk[n].owner /\ brk'[n].org = brk[n].org

OrdnoStays == \A r \in Rows : row[r].ordno # 0 => row'[r].ordno # 0

LEMMA AmendedStays ==
  ASSUME BookInv, BookStays
  PROVE  \A o : AmendedOf(o) => AmendedOf(o)'
BY DEF BookInv, BookStays, AmendedOf

LEMMA HasNumber ==
  ASSUME DoubledInv, NEW r \in Rows, row[r].ordno # 0
  PROVE  /\ Exists(r)
         /\ r \in Clients => row[r].status # "approved"
         /\ r \in OrdNos => brk[r].st # "none"
BY Owners DEF DoubledInv, NumberInv, PlaceInv, Exists

\* Requests stay as good as they were.
LEMMA CallsKept ==
  ASSUME DoubledInv, BookStays, OrdnoStays, NEW m \in calls
  PROVE  /\ row'[m.row].ordno # 0 /\ brk'[m.ordno].st # "none"
         /\ OwnerOf(m.row)' = OwnerOf(m.row)
         /\ brk'[m.ordno].owner = OwnerOf(m.row)
         /\ m.op = "amend" /\ m.st = "acked" =>
              /\ m.new \in OrdNos /\ brk'[m.new].st # "none" /\ brk'[m.new].org # 0
              /\ brk'[m.new].owner = OwnerOf(m.row)
<1>1. m.row \in Rows /\ m.ordno \in OrdNos
  BY DEF DoubledInv, LiveRowInv, TypeInv, TypeOK, CallType
<1>2. /\ row[m.row].ordno # 0 /\ brk[m.ordno].st # "none"
      /\ brk[m.ordno].owner = OwnerOf(m.row)
      /\ m.op = "amend" /\ m.st = "acked" =>
           /\ m.new \in OrdNos /\ brk[m.new].st # "none" /\ brk[m.new].org # 0
           /\ brk[m.new].owner = OwnerOf(m.row)
  BY DEF DoubledInv, CallInv
<1>3. OwnerOf(m.row)' = OwnerOf(m.row)
  BY <1>1, <1>2, HasNumber, Owners DEF BookStays
<1> QED
  BY <1>1, <1>2, <1>3 DEF BookStays, OrdnoStays

LEMMA CallsFewer ==
  ASSUME DoubledInv, BookStays, OrdnoStays, calls' \subseteq calls
  PROVE  CallInv'
<1> SUFFICES ASSUME NEW m \in calls'
             PROVE  /\ row'[m.row].ordno # 0 /\ brk'[m.ordno].st # "none"
                    /\ brk'[m.ordno].owner = OwnerOf(m.row)'
                    /\ m.op = "amend" /\ m.st = "acked" =>
                         /\ m.new \in OrdNos /\ brk'[m.new].st # "none"
                         /\ brk'[m.new].org # 0 /\ brk'[m.new].owner = OwnerOf(m.row)'
  BY DEF CallInv
<1> QED
  BY CallsKept

\* A run sees what rows and the broker have.
LEMMA SeenKept ==
  ASSUME DoubledInv, BookStays, OrdnoStays,
         \A p \in Procs :
           /\ \A r \in Rows : \/ rec'[p].seen[r] = 0 \/ rec'[p].seen[r] = rec[p].seen[r]
                               \/ row[r].ordno # 0
           /\ \A n \in OrdNos : \/ rec'[p].view[n] = -1 \/ rec'[p].view[n] = rec[p].view[n]
                                 \/ brk[n].st # "none"
  PROVE  SeenInv'
BY DEF DoubledInv, SeenInv, BookStays, OrdnoStays

\* Rows with a number may move, and go neither back to "approved" nor away.
LEMMA RowsKept ==
  ASSUME DoubledInv, SameBook,
         \A r \in Rows :
           /\ row'[r].ordno = row[r].ordno
           /\ \/ row'[r].status = row[r].status
              \/ row[r].ordno # 0 /\ row'[r].status \notin {"none", "approved"}
  PROVE  /\ BookInv' /\ NumberInv' /\ BookStays /\ OrdnoStays
         /\ UNCHANGED <<pc, got>> => PlaceInv'
<1>0. /\ BookInv /\ NumberInv /\ PlaceInv
      /\ Clients \subseteq Rows /\ OrdNos \subseteq Rows
      /\ row \in [Rows -> RowType]
  BY DEF DoubledInv, Rows, LiveRowInv, TypeInv, TypeOK
<1>1. BookStays /\ OrdnoStays
  BY DEF SameBook, BookStays, OrdnoStays
<1>2. \A o : AmendedOf(o)' = AmendedOf(o)
  BY DEF SameBook, AmendedOf
<1>3. \A r \in Rows : OwnerOf(r)' = OwnerOf(r)
  BY Owners DEF SameBook
<1>4. BookInv'
  BY <1>0, <1>2 DEF BookInv, SameBook
<1>5. \A r \in Rows : Exists(r)' = Exists(r)
  BY HasNumber DEF Exists
<1>6. \A r \in Rows : row[r].ordno # 0 => row[r].ordno \in OrdNos
  BY <1>0, ConstantTypes DEF RowType
<1>7. NumberInv'
  <2>1. \A r \in Rows : row'[r].ordno # 0 =>
          brk'[row'[r].ordno].st # "none" /\ brk'[row'[r].ordno].owner = OwnerOf(r)'
    BY <1>0, <1>3, <1>6 DEF NumberInv, SameBook
  <2>2. \A r, s \in Rows : row'[r].ordno # 0 /\ row'[r].ordno = row'[s].ordno => r = s
    BY <1>0 DEF NumberInv
  <2>3. \A n \in OrdNos :
          /\ Exists(n)' => /\ brk'[n].st # "none" /\ row'[n].ordno # 0
                           /\ row'[n].ordno = n \/ AmendedOf(brk[n].owner)'
          /\ ~Exists(n)' => row'[n].ordno = 0
    BY <1>0, <1>2, <1>5 DEF NumberInv, SameBook
  <2>4. \A c \in Clients, n \in OrdNos : brk'[n].owner = c =>
          \/ AmendedOf(c)' \/ row'[c].ordno = n
          \/ row'[c].ordno = 0 /\ row'[c].status \in Waiting
    BY <1>0, <1>2 DEF NumberInv, SameBook
  <2> QED
    BY <2>1, <2>2, <2>3, <2>4 DEF NumberInv
<1>8. UNCHANGED <<pc, got>> => PlaceInv'
  <2>1. \A c \in Clients : NoNumber(c)' = NoNumber(c)
    BY DEF NoNumber, SameBook
  <2> QED
    BY <1>0, <2>1, HasNumber DEF PlaceInv, SameBook, Exists
<1> QED
  BY <1>1, <1>4, <1>7, <1>8

\* The row of a place request, before it has a number.
LEMMA PlaceRow ==
  ASSUME DoubledInv, NEW c \in Clients, UNCHANGED brk,
         \A r \in Rows \ {c} : row'[r] = row[r],
         row[c].ordno = 0, row'[c].ordno = 0,
         NoNumber(c) \/ row'[c].status \in Waiting
  PROVE  BookInv' /\ NumberInv' /\ BookStays /\ OrdnoStays
<1>0. /\ BookInv /\ NumberInv /\ Clients \subseteq Rows /\ OrdNos \subseteq Rows
  BY DEF DoubledInv, Rows
<1>1. BookStays /\ OrdnoStays /\ BookInv'
  BY <1>0 DEF BookStays, OrdnoStays, BookInv, AmendedOf
<1>2. \A o : AmendedOf(o)' = AmendedOf(o)
  BY DEF AmendedOf
<1>3. \A r \in Rows : OwnerOf(r)' = OwnerOf(r)
  BY DEF OwnerOf
<1>4. \A n \in OrdNos : row'[n] = row[n] /\ Exists(n)' = Exists(n)
  BY <1>0, Owners DEF Exists
<1>5. \A r, s \in Rows : row'[r].ordno # 0 /\ row'[r].ordno = row'[s].ordno => r = s
  BY <1>0 DEF NumberInv
<1>6. \A d \in Clients, n \in OrdNos : brk'[n].owner = d =>
        \/ AmendedOf(d)' \/ row'[d].ordno = n
        \/ row'[d].ordno = 0 /\ row'[d].status \in Waiting
  BY <1>0, <1>2 DEF NumberInv, NoNumber
<1>7. \A r \in Rows : row'[r].ordno # 0 =>
        brk'[row'[r].ordno].st # "none" /\ brk'[row'[r].ordno].owner = OwnerOf(r)'
  BY <1>0, <1>3 DEF NumberInv
<1>8. \A n \in OrdNos :
        /\ Exists(n)' => /\ brk'[n].st # "none" /\ row'[n].ordno # 0
                         /\ row'[n].ordno = n \/ AmendedOf(brk[n].owner)'
        /\ ~Exists(n)' => row'[n].ordno = 0
  BY <1>0, <1>2, <1>4 DEF NumberInv
<1> QED
  BY <1>1, <1>5, <1>6, <1>7, <1>8 DEF NumberInv

\* A row gets a number of its order that no other row has.
LEMMA Renumber ==
  ASSUME DoubledInv, NEW r \in Rows, NEW n \in OrdNos, UNCHANGED brk,
         \A s \in Rows \ {r} : row'[s] = row[s] /\ row[s].ordno # n,
         row'[r].ordno = n, row'[r].status # "none",
         brk[n].st # "none", brk[n].owner = OwnerOf(r),
         AmendedOf(OwnerOf(r)) \/ r = n \/ r \in Clients,
         r \in OrdNos => brk[r].st # "none"
  PROVE  BookInv' /\ NumberInv' /\ BookStays /\ OrdnoStays
<1>0. /\ BookInv /\ NumberInv /\ PlaceInv /\ Clients \subseteq Rows /\ OrdNos \subseteq Rows
      /\ n # 0
  BY ConstantTypes DEF DoubledInv, Rows
<1>1. BookStays /\ OrdnoStays /\ BookInv'
  BY <1>0 DEF BookStays, OrdnoStays, BookInv, AmendedOf
<1>2. \A o : AmendedOf(o)' = AmendedOf(o)
  BY DEF AmendedOf
<1>3. \A s \in Rows : OwnerOf(s)' = OwnerOf(s)
  BY DEF OwnerOf
<1>4. \A s, t \in Rows : row'[s].ordno # 0 /\ row'[s].ordno = row'[t].ordno => s = t
  BY <1>0 DEF NumberInv
<1>5. \A d \in Clients, k \in OrdNos : brk'[k].owner = d =>
        \/ AmendedOf(d)' \/ row'[d].ordno = k
        \/ row'[d].ordno = 0 /\ row'[d].status \in Waiting
  <2> SUFFICES ASSUME NEW d \in Clients, NEW k \in OrdNos, brk[k].owner = d, ~AmendedOf(d)
               PROVE  \/ row'[d].ordno = k
                      \/ row'[d].ordno = 0 /\ row'[d].status \in Waiting
    BY <1>2
  <2>1. CASE d = r
    <3>1. brk[n].owner = d
      BY <2>1, Owners
    <3>2. k = n
      BY <1>0, <3>1 DEF BookInv
    <3> QED
      BY <2>1, <3>2
  <2>2. CASE d # r
    BY <1>0, <2>2 DEF NumberInv
  <2> QED
    BY <2>1, <2>2
<1>6. \A s \in Rows : row'[s].ordno # 0 =>
        brk'[row'[s].ordno].st # "none" /\ brk'[row'[s].ordno].owner = OwnerOf(s)'
  BY <1>0, <1>3 DEF NumberInv
<1>7. \A k \in OrdNos :
        /\ Exists(k)' => /\ brk'[k].st # "none" /\ row'[k].ordno # 0
                         /\ row'[k].ordno = k \/ AmendedOf(brk[k].owner)'
        /\ ~Exists(k)' => row'[k].ordno = 0
  <2> TAKE k \in OrdNos
  <2>1. CASE k = r
    BY <1>0, <1>2, <2>1, Owners DEF Exists
  <2>2. CASE k # r
    BY <1>0, <1>2, <2>2 DEF NumberInv, Exists
  <2> QED
    BY <2>1, <2>2
<1> QED
  BY <1>1, <1>4, <1>5, <1>6, <1>7 DEF NumberInv

\* The broker hands out a number: to a request that has none, under an order it
\* has, or to somebody else.
LEMMA NewNumber ==
  ASSUME DoubledInv, NEW n \in OrdNos, UNCHANGED row, brk[n].st = "none", brk'[n].st # "none",
         \A k \in OrdNos \ {n} : /\ brk'[k].owner = brk[k].owner /\ brk'[k].org = brk[k].org
                                 /\ (brk'[k].st = "none") = (brk[k].st = "none"),
         \/ brk'[n].owner = n \/ brk'[n].org # 0
         \/ \E c \in Clients : /\ brk'[n].owner = c /\ NoNumber(c)
                               /\ row[c].ordno = 0 /\ row[c].status = "submitted"
  PROVE  BookInv' /\ NumberInv' /\ BookStays /\ OrdnoStays
<1>0. /\ BookInv /\ NumberInv /\ Clients \subseteq Rows /\ OrdNos \subseteq Rows
      /\ row \in [Rows -> RowType]
  BY DEF DoubledInv, Rows, LiveRowInv, TypeInv, TypeOK
<1>1. BookStays /\ OrdnoStays
  BY DEF BookStays, OrdnoStays
<1>2. \A o : AmendedOf(o) => AmendedOf(o)'
  BY <1>0, <1>1, AmendedStays
<1>3. brk'[n].org # 0 => AmendedOf(brk[n].owner)'
  BY DEF AmendedOf
<1>4. BookInv'
  <2>1. \A k \in OrdNos : brk'[k].st = "none" => brk'[k].owner = k /\ brk'[k].org = 0
    BY <1>0 DEF BookInv
  <2>2. ASSUME NEW c \in Clients, NEW k \in OrdNos, NEW j \in OrdNos,
               brk'[k].owner = c, brk'[j].owner = c, k # j
        PROVE  AmendedOf(c)'
    <3>1. CASE k # n /\ j # n
      BY <1>0, <1>2, <2>2, <3>1 DEF BookInv
    <3>2. CASE k = n \/ j = n
      <4>1. PICK i \in {k, j} : i # n /\ brk[i].owner = c /\ brk'[n].owner = c
        BY <2>2, <3>2
      <4>2. brk'[n].org # 0
        BY <4>1, Owners DEF NoNumber
      <4> QED
        BY <4>1, <4>2 DEF AmendedOf
    <3> QED
      BY <3>1, <3>2
  <2> QED
    BY <2>1, <2>2 DEF BookInv
<1>5. \A r \in Rows : row[r].ordno # 0 =>
        /\ row[r].ordno \in OrdNos /\ brk[row[r].ordno].st # "none"
        /\ brk[row[r].ordno].owner = OwnerOf(r) /\ OwnerOf(r)' = OwnerOf(r)
  <2> TAKE r \in Rows
  <2> HAVE row[r].ordno # 0
  <2>1. row[r].ordno \in OrdNos
    BY <1>0, ConstantTypes DEF RowType
  <2>2. OwnerOf(r)' = OwnerOf(r)
    BY <1>1, HasNumber, Owners DEF BookStays
  <2> QED
    BY <1>0, <2>1, <2>2 DEF NumberInv
<1>6. \A r \in Rows : row'[r].ordno # 0 =>
        brk'[row'[r].ordno].st # "none" /\ brk'[row'[r].ordno].owner = OwnerOf(r)'
  BY <1>1, <1>5 DEF BookStays
<1>7. \A k \in OrdNos :
        /\ Exists(k)' => /\ brk'[k].st # "none" /\ row'[k].ordno # 0
                         /\ row'[k].ordno = k \/ AmendedOf(brk[k].owner)'
        /\ ~Exists(k)' => row'[k].ordno = 0
  <2> TAKE k \in OrdNos
  <2>1. Exists(k)' = Exists(k)
    BY DEF Exists
  <2>2. Exists(k) => /\ brk[k].st # "none" /\ row[k].ordno # 0
                     /\ row[k].ordno = k \/ AmendedOf(brk[k].owner)
    BY <1>0 DEF NumberInv
  <2>3. Exists(k) => brk'[k].st # "none" /\ brk'[k].owner = brk[k].owner
    BY <1>1, <2>2 DEF BookStays
  <2>4. Exists(k) /\ AmendedOf(brk[k].owner) => AmendedOf(brk[k].owner)'
    <3> DEFINE o == brk[k].owner
    <3>1. SUFFICES ASSUME Exists(k), AmendedOf(o) PROVE AmendedOf(o)'
      OBVIOUS
    <3>2. PICK j \in OrdNos : brk[j].owner = brk[k].owner /\ brk[j].org # 0
      BY <3>1 DEF AmendedOf
    <3>3. brk'[j].owner = brk'[k].owner /\ brk'[j].org # 0
      BY <1>0, <1>1, <2>3, <3>1, <3>2 DEF BookInv, BookStays
    <3> QED
      BY <3>3 DEF AmendedOf
  <2> QED
    BY <1>0, <2>1, <2>2, <2>3, <2>4 DEF NumberInv
<1>8. \A d \in Clients, k \in OrdNos : brk'[k].owner = d =>
        \/ AmendedOf(d)' \/ row'[d].ordno = k
        \/ row'[d].ordno = 0 /\ row'[d].status \in Waiting
  <2> SUFFICES ASSUME NEW d \in Clients, NEW k \in OrdNos, brk'[k].owner = d
               PROVE  \/ AmendedOf(d)' \/ row[d].ordno = k
                      \/ row[d].ordno = 0 /\ row[d].status \in Waiting
    OBVIOUS
  <2>1. CASE k # n
    BY <1>0, <1>2, <2>1 DEF NumberInv
  <2>2. CASE k = n
    BY <2>2, Owners DEF AmendedOf, Waiting
  <2> QED
    BY <2>1, <2>2
<1>9. \A r, s \in Rows : row'[r].ordno # 0 /\ row'[r].ordno = row'[s].ordno => r = s
  BY <1>0 DEF NumberInv
<1> QED
  BY <1>1, <1>4, <1>6, <1>7, <1>8, <1>9 DEF NumberInv

LEMMA PlaceStepNumbers ==
  ASSUME DoubledInv, NEW c \in Clients, PlaceStep(c)
  PROVE  BookInv' /\ NumberInv' /\ PlaceInv' /\ CallInv' /\ SeenInv'
<1>0. /\ BookInv /\ NumberInv /\ PlaceInv /\ LiveRowInv /\ TypeInv /\ TypeOK
      /\ Clients \subseteq Rows /\ OrdNos \subseteq Rows /\ c \in Rows
      /\ row \in [Rows -> RowType] /\ pc \in [Clients -> PcType]
      /\ got \in [Clients -> OrdNos0]
  BY DEF DoubledInv, Rows, LiveRowInv, TypeInv, TypeOK, PcType
<1>1. UNCHANGED <<rec, brk, calls>>
  BY DEF PlaceStep, Approve, Submit, RecordAck, RecordRefusal, RecordDoubt
<1>2. \A r \in Rows \ {c} : row'[r] = row[r]
  BY <1>0 DEF PlaceStep, Approve, Submit, RecordAck, RecordRefusal, RecordDoubt, SetStatus
<1>3. \A d \in Clients \ {c} : pc'[d] = pc[d] /\ got'[d] = got[d]
  BY <1>0 DEF PlaceStep, Approve, Submit, RecordAck, RecordRefusal, RecordDoubt
<1>4. \A d \in Clients : NoNumber(d)' = NoNumber(d)
  BY <1>1 DEF NoNumber
<1>5. ASSUME BookInv', NumberInv', BookStays, OrdnoStays,
             /\ row'[c].status \in {"none", "approved"} => row'[c].ordno = 0 /\ NoNumber(c)
             /\ pc'[c] = "approved" => row'[c].status = "approved"
             /\ pc'[c] \in {"sending", "taken", "refused", "lost"} =>
                  row'[c].status = "submitted" /\ row'[c].ordno = 0
             /\ pc'[c] = "sending" => NoNumber(c)
             /\ pc'[c] # "taken"
      PROVE  BookInv' /\ NumberInv' /\ PlaceInv' /\ CallInv' /\ SeenInv'
  <2>1. PlaceInv'
    BY <1>0, <1>1, <1>2, <1>3, <1>4, <1>5 DEF PlaceInv
  <2>2. CallInv' /\ SeenInv'
    BY <1>1, <1>5, CallsFewer, SeenKept
  <2> QED
    BY <1>5, <2>1, <2>2
<1>6. CASE Approve(c)
  <2>1. row[c].status = "none" /\ row'[c].status = "approved" /\ row'[c].ordno = 0
    BY <1>0, <1>6 DEF Approve, Exists, NoRow
  <2>2. pc'[c] = "approved" /\ NoNumber(c) /\ row[c].ordno = 0
    BY <1>0, <1>6, <2>1 DEF Approve, PlaceInv
  <2> QED
    BY <1>1, <1>2, <1>5, <2>1, <2>2, PlaceRow
<1>7. CASE Submit(c)
  <2>1. row[c].status = "approved" /\ row[c].ordno = 0 /\ NoNumber(c)
    BY <1>0, <1>7 DEF Submit, PlaceInv
  <2>2. row'[c].status = "submitted" /\ row'[c].ordno = 0
    BY <1>0, <1>7, <2>1 DEF Submit, SetStatus, CanTransition, Legal, TERMINAL_STATES,
       OrderState, RowType
  <2>3. pc'[c] = "sending"
    BY <1>0, <1>7 DEF Submit
  <2> QED
    BY <1>1, <1>2, <1>5, <2>1, <2>2, <2>3, PlaceRow
<1>8. CASE RecordRefusal(c) \/ RecordDoubt(c)
  <2>1. row[c].status = "submitted" /\ row[c].ordno = 0
    BY <1>0, <1>8 DEF RecordRefusal, RecordDoubt, PlaceInv
  <2>2. /\ row'[c].ordno = 0 /\ pc'[c] = "over"
        /\ row'[c].status \in {"rejected", "in_doubt"}
    <3>1. CASE RecordRefusal(c)
      BY <1>0, <2>1, <3>1 DEF RecordRefusal, SetStatus, CanTransition, Legal,
         TERMINAL_STATES, OrderState, RowType
    <3>2. CASE RecordDoubt(c)
      BY <1>0, <2>1, <3>2 DEF RecordDoubt, SetStatus, CanTransition, Legal,
         TERMINAL_STATES, OrderState, RowType
    <3> QED
      BY <1>8, <3>1, <3>2
  <2>3. NoNumber(c) \/ row'[c].status \in Waiting
    BY <2>2 DEF Waiting
  <2> QED
    BY <1>1, <1>2, <1>5, <2>1, <2>2, <2>3, PlaceRow
<1>9. CASE RecordAck(c)
  <2> DEFINE n == got[c]
  <2>1. /\ row[c].status = "submitted" /\ row[c].ordno = 0
        /\ n \in OrdNos /\ brk[n].owner = c /\ pc'[c] = "over"
    BY <1>0, <1>9 DEF RecordAck, PlaceInv
  <2>2. CASE Taken(n, c)
    <3>1. row' = row
      BY <1>9, <2>2 DEF RecordAck
    <3>2. row'[c].status \in Waiting
      BY <2>1, <3>1 DEF Waiting
    <3> QED
      BY <1>1, <1>2, <1>5, <2>1, <3>1, <3>2, PlaceRow
  <2>3. CASE ~Taken(n, c)
    <3>1. row' = [SetStatus(c, "accepted") EXCEPT ![c].ordno = n]
      BY <1>9, <2>3 DEF RecordAck
    <3>2. row'[c].ordno = n /\ row'[c].status = "accepted"
      BY <1>0, <2>1, <3>1 DEF SetStatus, CanTransition, Legal, TERMINAL_STATES,
         OrderState, RowType
    <3>3. \A r \in Rows \ {c} : row[r].ordno # n
      BY <2>3 DEF Taken
    <3>4. brk[n].st # "none" /\ OwnerOf(c) = c /\ c \notin OrdNos
      BY <1>0, <2>1, Owners DEF BookInv
    <3> HIDE DEF n
    <3>5. BookInv' /\ NumberInv' /\ BookStays /\ OrdnoStays
      BY <1>0, <1>1, <1>2, <2>1, <3>2, <3>3, <3>4, Renumber
    <3> QED
      BY <1>5, <2>1, <3>2, <3>5
  <2> QED
    BY <2>2, <2>3
<1> QED
  BY <1>6, <1>7, <1>8, <1>9 DEF PlaceStep

LEMMA RecNumbers ==
  ASSUME DoubledInv, NEW p \in Procs, RecStep(p)
  PROVE  BookInv' /\ NumberInv' /\ PlaceInv' /\ CallInv' /\ SeenInv'
<1> USE ConstantTypes
<1>0. /\ BookInv /\ NumberInv /\ PlaceInv /\ LiveRowInv /\ TypeInv /\ TypeOK
      /\ Clients \subseteq Rows /\ OrdNos \subseteq Rows
      /\ row \in [Rows -> RowType] /\ rec \in [Procs -> RecType]
  BY DEF DoubledInv, Rows, LiveRowInv, TypeInv, TypeOK
<1>1. UNCHANGED <<pc, got, calls, brk>> /\ SameBook
  BY DEF RecStep, RecStart, RecList, RecFetch, RecFetchFails, RecOrphanFill,
     RecPositions, RecPositionsFail, RecRaises, RecOver, RecApply, RecFollows,
     RecOrphan, RecClashes, SameBook
<1>2. ASSUME \A r \in Rows :
               /\ row'[r].ordno = row[r].ordno
               /\ \/ row'[r].status = row[r].status
                  \/ row[r].ordno # 0 /\ row'[r].status \notin {"none", "approved"},
             \A r \in Rows : \/ rec'[p].seen[r] = 0 \/ rec'[p].seen[r] = rec[p].seen[r]
                             \/ row[r].ordno # 0,
             \A n \in OrdNos : \/ rec'[p].view[n] = -1 \/ rec'[p].view[n] = rec[p].view[n]
                               \/ brk[n].st # "none",
             \A q \in Procs \ {p} : rec'[q] = rec[q]
      PROVE  BookInv' /\ NumberInv' /\ PlaceInv' /\ CallInv' /\ SeenInv'
  <2>1. BookInv' /\ NumberInv' /\ PlaceInv' /\ BookStays /\ OrdnoStays
    BY <1>1, <1>2, RowsKept
  <2>2. CallInv' /\ SeenInv'
    BY <1>1, <1>2, <2>1, CallsFewer, SeenKept
  <2> QED
    BY <2>1, <2>2
<1>3. \A q \in Procs \ {p} : rec'[q] = rec[q]
  BY <1>0 DEF RecStep, RecStart, RecList, RecFetch, RecFetchFails, RecOrphanFill,
     RecPositions, RecPositionsFail, RecRaises, RecOver, RecApply, RecFollows,
     RecOrphan, RecClashes
<1>4. ASSUME NEW r \in Rows, NEW n, NEW q, NEW left, row[r].ordno # 0,
             row' = [row EXCEPT ![r] = ApplyFill(@, n, q, left)]
      PROVE  \A s \in Rows :
               /\ row'[s].ordno = row[s].ordno
               /\ \/ row'[s].status = row[s].status
                  \/ row[s].ordno # 0 /\ row'[s].status \notin {"none", "approved"}
  <2> DEFINE o == ApplyFill(row[r], n, q, left)
  <2>1. /\ o.ordno = row[r].ordno
        /\ o.status \in {row[r].status, "filled", "partially_filled"}
    BY <1>0 DEF ApplyFill, RowType
  <2> HIDE DEF o
  <2>2. row' = [row EXCEPT ![r] = o]
    BY <1>0, <1>4 DEF o
  <2> QED
    BY <1>0, <1>4, <2>1, <2>2
<1>5. ASSUME NEW r \in Rows, RecApply(p, r)
      PROVE  BookInv' /\ NumberInv' /\ PlaceInv' /\ CallInv' /\ SeenInv'
  <2> DEFINE n == rec[p].seen[r]
  <2>1. n # 0
    BY <1>0, <1>5 DEF RecApply, TypeInv, OnPage
  <2>2. row[r].ordno # 0
    BY <2>1 DEF DoubledInv, SeenInv
  <2>3. row' = [row EXCEPT ![r] = ApplyFill(@, n, rec[p].view[n], rec[p].left[n])]
    BY <1>5 DEF RecApply
  <2>4. rec'[p].seen = rec[p].seen /\ rec'[p].view = rec[p].view
    BY <1>0, <1>5 DEF RecApply, RecType
  <2> HIDE DEF n
  <2> QED
    BY <1>2, <1>3, <1>4, <2>2, <2>3, <2>4
<1>6. CASE RecOrphanFill(p)
  <2> DEFINE n == rec[p].orphan
  <2>1. n \in OrdNos /\ Exists(n)
    BY <1>0, <1>6 DEF RecOrphanFill, RecType, LiveRowInv, WritesExisting
  <2>2. row[n].ordno # 0
    BY <1>0, <2>1 DEF NumberInv
  <2>3. row' = [row EXCEPT ![n] = ApplyFill(@, n, rec[p].view[n], rec[p].left[n])]
    BY <1>6 DEF RecOrphanFill
  <2>4. /\ rec'[p].seen = rec[p].seen
        /\ \A k \in OrdNos : rec'[p].view[k] \in {-1, rec[p].view[k]}
    BY <1>0, <1>6 DEF RecOrphanFill, RecType
  <2> HIDE DEF n
  <2> QED
    BY <1>0, <1>2, <1>3, <1>4, <2>1, <2>2, <2>3, <2>4
<1>7. ASSUME NEW n \in OrdNos, RecFollows(p, n)
      PROVE  BookInv' /\ NumberInv' /\ PlaceInv' /\ CallInv' /\ SeenInv'
  <2>1. /\ rec'[p].seen = rec[p].seen
        /\ \A k \in OrdNos : rec'[p].view[k] \in {-1, rec[p].view[k]}
    BY <1>0, <1>7 DEF RecFollows, RecType
  <2> QED
    BY <1>2, <1>3, <1>7, <2>1 DEF RecFollows
<1>8. ASSUME NEW n \in OrdNos, RecOrphan(p, n)
      PROVE  BookInv' /\ NumberInv' /\ PlaceInv' /\ CallInv' /\ SeenInv'
  <2>1. /\ row'[n].status = "accepted" /\ row'[n].ordno = n
        /\ \A r \in Rows \ {n} : row'[r] = row[r] /\ row[r].ordno # n
    BY <1>0, <1>8 DEF RecOrphan, Taken, NoRow
  <2>2. brk[n].st # "none"
    BY <1>8 DEF RecOrphan, IsOrphan, Strange, DoubledInv, SeenInv
  <2>3. brk[n].owner = OwnerOf(n) /\ n \in Rows
    BY <1>0, Owners
  <2>4. BookInv' /\ NumberInv' /\ BookStays /\ OrdnoStays
    BY <1>1, <2>1, <2>2, <2>3, Renumber
  <2>5. PlaceInv'
    <3>1. \A c \in Clients : row'[c] = row[c] /\ NoNumber(c)' = NoNumber(c)
      BY <1>0, <1>1, <2>1, Owners DEF NoNumber
    <3> QED
      BY <1>0, <1>1, <3>1 DEF PlaceInv
  <2>6. rec'[p].seen = rec[p].seen /\ rec'[p].view = rec[p].view
    BY <1>0, <1>8 DEF RecOrphan, RecType
  <2>7. CallInv' /\ SeenInv'
    BY <1>1, <1>3, <2>4, <2>6, CallsFewer, SeenKept
  <2> QED
    BY <2>4, <2>5, <2>7
<1>9. CASE RecStart(p)
  <2>1. rec'[p].seen = rec[p].seen /\ rec'[p].view = rec[p].view
    BY <1>0, <1>9 DEF RecStart, RecType
  <2> QED
    BY <1>2, <1>3, <1>9, <2>1 DEF RecStart
<1>10. CASE RecList(p)
  <2> DEFINE open == {r \in Rows : row[r].status \in NonTerminal /\ MarketRow(r) = Market(p)}
             seen == [r \in Rows |-> IF r \in open THEN row[r].ordno ELSE 0]
  <2>1. rec' = [rec EXCEPT ![p].pc = "query", ![p].todo = open, ![p].seen = seen]
    BY <1>10 DEF RecList
  <2>2. \A r \in Rows : seen[r] = 0 \/ row[r].ordno # 0
    OBVIOUS
  <2> HIDE DEF open, seen
  <2>3. rec'[p].seen = seen /\ rec'[p].view = rec[p].view
    BY <1>0, <2>1 DEF RecType
  <2> QED
    BY <1>2, <1>3, <1>10, <2>2, <2>3 DEF RecList
<1>11. CASE RecFetch(p)
  <2>1. PICK page \in SUBSET Listed(Market(p)) : rec' = [rec EXCEPT ![p].pc = "orders",
          ![p].todo = {r \in @ : rec[p].seen[r] \in page},
          ![p].view = [n \in OrdNos |-> IF n \in page THEN brk[n].execs ELSE -1],
          ![p].left = [n \in OrdNos |-> IF n \in page THEN Open(n) ELSE 0]]
    BY <1>11 DEF RecFetch
  <2> DEFINE todo == {r \in rec[p].todo : rec[p].seen[r] \in page}
             view == [n \in OrdNos |-> IF n \in page THEN brk[n].execs ELSE -1]
             left == [n \in OrdNos |-> IF n \in page THEN Open(n) ELSE 0]
  <2>2. rec' = [rec EXCEPT ![p] = [rec[p] EXCEPT !.pc = "orders", !.todo = todo,
                                                 !.view = view, !.left = left]]
    BY <1>0, <2>1
  <2>3. \A n \in OrdNos : view[n] = -1 \/ brk[n].st # "none"
    BY DEF Listed
  <2> HIDE DEF todo, view, left
  <2>4. rec'[p].seen = rec[p].seen /\ rec'[p].view = view
    BY <1>0, <2>2 DEF RecType
  <2> QED
    BY <1>2, <1>3, <1>11, <2>3, <2>4 DEF RecFetch
<1>12. CASE \/ RecFetchFails(p) \/ RecPositions(p) \/ RecPositionsFail(p)
            \/ RecRaises(p) \/ RecOver(p) \/ \E n \in OrdNos : RecClashes(p, n)
  <2>1. PICK x : /\ rec' = [rec EXCEPT ![p] = x]
                 /\ \/ \E ok : x = NextMarket(p, ok)
                    \/ \E to \in {"idle", "aborted", "clashed"} : x = [IdleRec EXCEPT !.pc = to]
    <3>1. CASE RecFetchFails(p) \/ RecPositions(p) \/ RecPositionsFail(p)
      BY <3>1 DEF RecFetchFails, RecPositions, RecPositionsFail
    <3>2. CASE RecRaises(p) \/ RecOver(p) \/ \E n \in OrdNos : RecClashes(p, n)
      BY <3>2 DEF RecRaises, RecOver, RecClashes, IdleRec
    <3> QED
      BY <1>12, <3>1, <3>2
  <2>2. /\ \A r \in Rows : x.seen[r] = 0
        /\ \A n \in OrdNos : x.view[n] = -1
    <3>1. ASSUME NEW ok, x = NextMarket(p, ok)
          PROVE  x.seen = IdleRec.seen /\ x.view = IdleRec.view
      BY <3>1 DEF NextMarket, IdleRec
    <3>2. ASSUME NEW to, x = [IdleRec EXCEPT !.pc = to]
          PROVE  x.seen = IdleRec.seen /\ x.view = IdleRec.view
      BY <3>2 DEF IdleRec
    <3>3. /\ \A r \in Rows : IdleRec.seen[r] = 0
          /\ \A n \in OrdNos : IdleRec.view[n] = -1
      BY DEF IdleRec
    <3> QED
      BY <2>1, <3>1, <3>2, <3>3
  <2>3. rec'[p] = x
    BY <1>0, <2>1
  <2>4. row' = row
    BY <1>12 DEF RecFetchFails, RecPositions, RecPositionsFail, RecRaises, RecOver, RecClashes
  <2> QED
    BY <1>2, <1>3, <2>2, <2>3, <2>4
<1> QED
  BY <1>5, <1>6, <1>7, <1>8, <1>9, <1>10, <1>11, <1>12 DEF RecStep

LEMMA CallNumbers ==
  ASSUME DoubledInv, CallStep
  PROVE  BookInv' /\ NumberInv' /\ PlaceInv' /\ CallInv' /\ SeenInv'
<1>0. /\ BookInv /\ NumberInv /\ PlaceInv /\ CallInv /\ LiveRowInv /\ TypeInv /\ TypeOK
      /\ Clients \subseteq Rows /\ OrdNos \subseteq Rows
      /\ row \in [Rows -> RowType] /\ calls \subseteq CallType
  BY DEF DoubledInv, Rows, LiveRowInv, TypeInv, TypeOK
<1>1. UNCHANGED <<pc, got, rec, brk>> /\ SameBook
  BY DEF CallStep, Amend, Cancel, Call, RecordAmend, RecordCancel, SameBook
<1>2. ASSUME NEW op, NEW r \in Rows, NEW q, Call(op, r, q)
      PROVE  BookInv' /\ NumberInv' /\ PlaceInv' /\ CallInv' /\ SeenInv'
  <2> DEFINE m == [op |-> op, row |-> r, ordno |-> row[r].ordno, qty |-> q,
                   st |-> "sent", new |-> 0]
  <2>1. row' = row /\ row[r].ordno # 0 /\ calls' = calls \cup {m}
    BY <1>2 DEF Call
  <2>2. BookInv' /\ NumberInv' /\ PlaceInv' /\ BookStays /\ OrdnoStays
    BY <1>1, <2>1, RowsKept
  <2>3. SeenInv'
    BY <1>1, <2>2, SeenKept
  <2>4. /\ m.row = r /\ row'[r].ordno # 0 /\ brk'[m.ordno].st # "none"
        /\ brk'[m.ordno].owner = OwnerOf(r)' /\ ~(m.st = "acked")
    BY <2>1, <2>2 DEF NumberInv
  <2> HIDE DEF m
  <2>5. CallInv'
    <3> SUFFICES ASSUME NEW k \in calls'
                 PROVE  /\ row'[k.row].ordno # 0 /\ brk'[k.ordno].st # "none"
                        /\ brk'[k.ordno].owner = OwnerOf(k.row)'
                        /\ k.op = "amend" /\ k.st = "acked" =>
                             /\ k.new \in OrdNos /\ brk'[k.new].st # "none"
                             /\ brk'[k.new].org # 0 /\ brk'[k.new].owner = OwnerOf(k.row)'
      BY DEF CallInv
    <3>1. CASE k = m
      <4>1. k.row = r
        BY <2>4, <3>1
      <4> QED
        BY <2>4, <3>1, <4>1
    <3>2. CASE k # m
      BY <2>1, <2>2, <3>2, CallsKept
    <3> QED
      BY <3>1, <3>2
  <2> QED
    BY <2>2, <2>3, <2>5
<1>3. ASSUME NEW m \in calls, RecordAmend(m)
      PROVE  BookInv' /\ NumberInv' /\ PlaceInv' /\ CallInv' /\ SeenInv'
  <2>1. m.row \in Rows /\ calls' \subseteq calls
    BY <1>0, <1>3 DEF CallType, RecordAmend
  <2>2. CASE Taken(m.new, m.row)
    <3>1. row' = row
      BY <1>3, <2>2 DEF RecordAmend
    <3>2. BookInv' /\ NumberInv' /\ PlaceInv' /\ BookStays /\ OrdnoStays
      BY <1>1, <3>1, RowsKept
    <3> QED
      BY <1>1, <2>1, <3>2, CallsFewer, SeenKept
  <2>3. CASE ~Taken(m.new, m.row)
    <3> DEFINE n == m.new
               r == m.row
    <3>1. /\ n \in OrdNos /\ brk[n].st # "none" /\ brk[n].org # 0
          /\ brk[n].owner = OwnerOf(r) /\ row[r].ordno # 0
      BY <1>0, <1>3 DEF CallInv, RecordAmend
    <3>2. /\ row'[r].ordno = n /\ row'[r].status = row[r].status
          /\ \A s \in Rows \ {r} : row'[s] = row[s] /\ row[s].ordno # n
      BY <1>0, <1>3, <2>1, <2>3 DEF RecordAmend, Taken, RowType
    <3>3. /\ row[r].status # "none" /\ (r \in Clients => row[r].status # "approved")
          /\ r \in OrdNos => brk[r].st # "none"
      BY <2>1, <3>1, HasNumber DEF Exists
    <3>4. AmendedOf(OwnerOf(r))
      BY <3>1 DEF AmendedOf
    <3> HIDE DEF n, r
    <3>5. BookInv' /\ NumberInv' /\ BookStays /\ OrdnoStays
      BY <1>1, <2>1, <3>1, <3>2, <3>3, <3>4, Renumber DEF r
    <3>6. PlaceInv'
      <4>1. \A c \in Clients : NoNumber(c)' = NoNumber(c)
        BY <1>1 DEF NoNumber
      <4>2. \A c \in Clients \ {r} : row'[c] = row[c]
        BY <1>0, <3>2
      <4> QED
        BY <1>0, <1>1, <3>1, <3>2, <3>3, <4>1, <4>2 DEF PlaceInv
    <3> QED
      BY <1>1, <2>1, <3>5, <3>6, CallsFewer, SeenKept
  <2> QED
    BY <2>2, <2>3
<1>4. ASSUME NEW m \in calls, RecordCancel(m)
      PROVE  BookInv' /\ NumberInv' /\ PlaceInv' /\ CallInv' /\ SeenInv'
  <2>1. m.row \in Rows /\ calls' \subseteq calls /\ row[m.row].ordno # 0
    BY <1>0, <1>4 DEF CallType, RecordCancel, CallInv
  <2>2. \A r \in Rows :
          /\ row'[r].ordno = row[r].ordno
          /\ \/ row'[r].status = row[r].status
             \/ row[r].ordno # 0 /\ row'[r].status \notin {"none", "approved"}
    BY <1>0, <1>4, <2>1 DEF RecordCancel, SetStatus, RowType
  <2>3. BookInv' /\ NumberInv' /\ PlaceInv' /\ BookStays /\ OrdnoStays
    BY <1>1, <2>2, RowsKept
  <2> QED
    BY <1>1, <2>1, <2>3, CallsFewer, SeenKept
<1> QED
  BY <1>2, <1>3, <1>4 DEF CallStep, Amend, Cancel

LEMMA AnswerNumbers ==
  ASSUME DoubledInv, NEW m \in calls, m.st = "sent", NEW n \in OrdNos0, Answer(m, n),
         UNCHANGED row, BookStays,
         m.op = "amend" => n \in OrdNos /\ brk'[n].st # "none" /\ brk'[n].org # 0
                           /\ brk'[n].owner = OwnerOf(m.row)
  PROVE  CallInv'
<1> DEFINE a == [m EXCEPT !.st = "acked", !.new = n]
<1>0. m \in CallType /\ OrdnoStays
  BY DEF DoubledInv, LiveRowInv, TypeInv, TypeOK, OrdnoStays
<1>1. calls' \subseteq calls \cup {a}
  BY DEF Answer
<1>2. a.row = m.row /\ a.ordno = m.ordno /\ a.op = m.op /\ a.new = n
  BY <1>0 DEF CallType
<1> HIDE DEF a
<1> SUFFICES ASSUME NEW k \in calls'
             PROVE  /\ row'[k.row].ordno # 0 /\ brk'[k.ordno].st # "none"
                    /\ brk'[k.ordno].owner = OwnerOf(k.row)'
                    /\ k.op = "amend" /\ k.st = "acked" =>
                         /\ k.new \in OrdNos /\ brk'[k.new].st # "none"
                         /\ brk'[k.new].org # 0 /\ brk'[k.new].owner = OwnerOf(k.row)'
  BY DEF CallInv
<1>3. CASE k \in calls
  BY <1>0, <1>3, CallsKept
<1>4. CASE k = a
  <2>1. k.row = m.row /\ k.ordno = m.ordno /\ k.op = m.op /\ k.new = n
    BY <1>2, <1>4
  <2>2. /\ row'[m.row].ordno # 0 /\ brk'[m.ordno].st # "none"
        /\ OwnerOf(m.row)' = OwnerOf(m.row) /\ brk'[m.ordno].owner = OwnerOf(m.row)
    BY <1>0, CallsKept
  <2> QED
    BY <2>1, <2>2
<1> QED
  BY <1>1, <1>3, <1>4

\* The broker says no, executes, or closes: no number changes hands.
LEMMA SameBookNumbers ==
  ASSUME DoubledInv, UNCHANGED <<row, rec>>, SameBook
  PROVE  /\ BookInv' /\ NumberInv' /\ BookStays /\ OrdnoStays /\ SeenInv'
         /\ UNCHANGED <<pc, got>> => PlaceInv'
         /\ calls' \subseteq calls => CallInv'
<1>1. /\ BookInv' /\ NumberInv' /\ BookStays /\ OrdnoStays
      /\ UNCHANGED <<pc, got>> => PlaceInv'
  BY RowsKept
<1>2. SeenInv'
  BY <1>1, SeenKept
<1> QED
  BY <1>1, <1>2, CallsFewer

LEMMA PlaceAnswerNumbers ==
  ASSUME DoubledInv, NEW c \in Clients, PlaceAnswer(c)
  PROVE  BookInv' /\ NumberInv' /\ PlaceInv' /\ CallInv' /\ SeenInv'
<1> USE ConstantTypes
<1>0. /\ BookInv /\ NumberInv /\ PlaceInv
      /\ pc \in [Clients -> PcType] /\ got \in [Clients -> OrdNos0]
      /\ brk \in [OrdNos -> BrkType]
  BY DEF DoubledInv, LiveRowInv, TypeInv, TypeOK, PcType
<1>1. pc[c] = "sending" /\ UNCHANGED <<row, calls, rec>>
  BY DEF PlaceAnswer, BrokerTakes, BrokerRefuses
<1>2. row[c].status = "submitted" /\ row[c].ordno = 0 /\ NoNumber(c)
  BY <1>0, <1>1 DEF PlaceInv
<1>3. CASE BrokerRefuses(c)
  <2>1. brk' = brk /\ got' = got
    BY <1>3 DEF BrokerRefuses
  <2>2. SameBook
    BY <2>1 DEF SameBook
  <2>3. /\ BookInv' /\ NumberInv' /\ SeenInv' /\ CallInv'
    BY <1>1, <2>2, SameBookNumbers
  <2>4. /\ pc'[c] \in {"refused", "lost"}
        /\ \A d \in Clients \ {c} : pc'[d] = pc[d]
    BY <1>0, <1>3 DEF BrokerRefuses
  <2>5. \A d \in Clients : NoNumber(d)' = NoNumber(d)
    BY <2>1 DEF NoNumber
  <2>6. PlaceInv'
    BY <1>0, <1>1, <1>2, <2>1, <2>4, <2>5 DEF PlaceInv
  <2> QED
    BY <2>3, <2>6
<1>4. ASSUME NEW n \in OrdNos, BrokerTakes(c, n)
      PROVE  BookInv' /\ NumberInv' /\ PlaceInv' /\ CallInv' /\ SeenInv'
  <2>1. /\ brk[n].st = "none" /\ brk'[n].st = "working" /\ brk'[n].owner = c
        /\ \A k \in OrdNos \ {n} : brk'[k] = brk[k]
    BY <1>0, <1>4 DEF BrokerTakes, NextOrdNo
  <2>2. BookInv' /\ NumberInv' /\ BookStays /\ OrdnoStays
    BY <1>1, <1>2, <2>1, NewNumber
  <2>3. /\ \/ pc'[c] = "taken" /\ got'[c] = n
           \/ pc'[c] \in {"refused", "lost"}
        /\ \A d \in Clients \ {c} : pc'[d] = pc[d] /\ got'[d] = got[d]
    BY <1>0, <1>4 DEF BrokerTakes
  <2>4. \A d \in Clients \ {c} : NoNumber(d) => NoNumber(d)'
    BY <2>1 DEF NoNumber
  <2>5. PlaceInv'
    <3>1. ASSUME NEW d \in Clients, d # c, pc[d] = "taken"
          PROVE  got[d] \in OrdNos /\ brk'[got[d]].owner = d
      <4>1. got[d] \in OrdNos /\ brk[got[d]].owner = d
        BY <1>0, <3>1 DEF PlaceInv
      <4>2. got[d] # n
        BY <1>0, <2>1, <4>1, Owners DEF BookInv
      <4> QED
        BY <2>1, <4>1, <4>2
    <3> QED
      BY <1>0, <1>1, <1>2, <2>1, <2>3, <2>4, <3>1 DEF PlaceInv
  <2>6. CallInv' /\ SeenInv'
    BY <1>1, <2>2, CallsFewer, SeenKept
  <2> QED
    BY <2>2, <2>5, <2>6
<1> QED
  BY <1>3, <1>4 DEF PlaceAnswer

\* A new number that no place request waits for.
LEMMA OtherNumber ==
  ASSUME DoubledInv, NEW n \in OrdNos, UNCHANGED <<row, rec, pc, got>>,
         brk[n].st = "none", brk'[n].st # "none",
         \A k \in OrdNos \ {n} : /\ brk'[k].owner = brk[k].owner /\ brk'[k].org = brk[k].org
                                 /\ (brk'[k].st = "none") = (brk[k].st = "none"),
         \/ brk'[n].owner = n
         \/ brk'[n].org # 0 /\ \E k \in OrdNos : brk[k].st # "none" /\ brk'[n].owner = brk[k].owner
  PROVE  BookInv' /\ NumberInv' /\ BookStays /\ OrdnoStays /\ PlaceInv' /\ SeenInv'
<1>0. BookInv /\ PlaceInv
  BY DEF DoubledInv
<1>1. BookInv' /\ NumberInv' /\ BookStays /\ OrdnoStays
  BY NewNumber
<1>2. \A c \in Clients : NoNumber(c) => NoNumber(c)'
  BY Owners DEF NoNumber
<1>3. ASSUME NEW c \in Clients, pc[c] = "taken"
      PROVE  brk'[got[c]].owner = c
  <2>1. got[c] \in OrdNos /\ brk[got[c]].owner = c
    BY <1>0, <1>3 DEF PlaceInv
  <2>2. got[c] # n
    BY <1>0, <2>1, Owners DEF BookInv
  <2> QED
    BY <2>1, <2>2
<1>4. PlaceInv'
  BY <1>0, <1>2, <1>3 DEF PlaceInv
<1>5. SeenInv'
  BY <1>1, SeenKept
<1> QED
  BY <1>1, <1>4, <1>5

LEMMA CallAnswerNumbers ==
  ASSUME DoubledInv, CallAnswer
  PROVE  BookInv' /\ NumberInv' /\ PlaceInv' /\ CallInv' /\ SeenInv'
<1> USE ConstantTypes
<1>0. /\ CallInv /\ brk \in [OrdNos -> BrkType] /\ calls \subseteq CallType
  BY DEF DoubledInv, LiveRowInv, TypeInv, TypeOK
<1>1. ASSUME NEW m \in calls, BrokerDeclines(m)
      PROVE  BookInv' /\ NumberInv' /\ PlaceInv' /\ CallInv' /\ SeenInv'
  <2>1. SameBook /\ calls' \subseteq calls /\ UNCHANGED <<row, rec, pc, got>>
    BY <1>1 DEF BrokerDeclines, SameBook
  <2> QED
    BY <2>1, SameBookNumbers
<1>2. ASSUME NEW m \in calls, BrokerCancels(m)
      PROVE  BookInv' /\ NumberInv' /\ PlaceInv' /\ CallInv' /\ SeenInv'
  <2>1. m.ordno \in OrdNos /\ m.op = "cancel" /\ m.st = "sent" /\ brk[m.ordno].st = "working"
    BY <1>0, <1>2 DEF BrokerCancels, CallType
  <2>2. SameBook /\ UNCHANGED <<row, rec, pc, got>>
    BY <1>0, <1>2, <2>1 DEF BrokerCancels, SameBook, BrkType
  <2>3. BookInv' /\ NumberInv' /\ PlaceInv' /\ SeenInv' /\ BookStays
    BY <2>2, SameBookNumbers
  <2>4. CallInv'
    BY <1>2, <2>1, <2>2, <2>3, AnswerNumbers DEF BrokerCancels
  <2> QED
    BY <2>3, <2>4
<1>3. ASSUME NEW m \in calls, NEW n \in OrdNos, BrokerAmends(m, n)
      PROVE  BookInv' /\ NumberInv' /\ PlaceInv' /\ CallInv' /\ SeenInv'
  <2> DEFINE k == m.ordno
  <2>1. /\ k \in OrdNos /\ m.st = "sent" /\ brk[k].st = "working" /\ brk[n].st = "none"
        /\ k # n /\ k # 0
    BY <1>0, <1>3 DEF BrokerAmends, NextOrdNo, CallType
  <2>2. /\ brk'[n].st # "none" /\ brk'[n].owner = brk[k].owner /\ brk'[n].org = k
        /\ \A j \in OrdNos \ {n} :
             /\ brk'[j].owner = brk[j].owner /\ brk'[j].org = brk[j].org
             /\ (brk'[j].st = "none") = (brk[j].st = "none")
    <3> DEFINE shut == [brk[k] EXCEPT !.st = "closed"]
               on == [brk[k] EXCEPT !.org = k, !.qty = m.qty, !.execs = 0]
    <3>1. brk' = [brk EXCEPT ![k] = shut, ![n] = on]
      BY <1>0, <1>3, <2>1 DEF BrokerAmends
    <3>2. brk[k] \in BrkType
      BY <1>0, <2>1
    <3> HIDE DEF k
    <3>3. /\ shut.owner = brk[k].owner /\ shut.org = brk[k].org /\ shut.st = "closed"
          /\ on.owner = brk[k].owner /\ on.org = k /\ on.st = "working"
      BY <2>1, <3>2 DEF BrkType
    <3> HIDE DEF shut, on
    <3> QED
      BY <1>0, <2>1, <3>1, <3>3
  <2>3. UNCHANGED <<row, rec, pc, got>> /\ Answer(m, n)
    BY <1>3 DEF BrokerAmends
  <2>4. brk[k].owner = OwnerOf(m.row)
    BY <1>0 DEF CallInv
  <2> HIDE DEF k
  <2>5. BookInv' /\ NumberInv' /\ PlaceInv' /\ SeenInv' /\ BookStays
    BY <2>1, <2>2, <2>3, OtherNumber
  <2>6. CallInv'
    BY <2>1, <2>2, <2>3, <2>4, <2>5, AnswerNumbers
  <2> QED
    BY <2>5, <2>6
<1> QED
  BY <1>1, <1>2, <1>3 DEF CallAnswer

LEMMA DoubledStep ==
  ASSUME DoubledInv, [Next]_vars
  PROVE  DoubledInv'
<1> USE ConstantTypes
<1>0. LiveRowInv' /\ brk \in [OrdNos -> BrkType]
  BY StepLiveRowInv DEF DoubledInv, LiveRowInv, TypeInv, TypeOK
<1> SUFFICES BookInv' /\ NumberInv' /\ PlaceInv' /\ CallInv' /\ SeenInv'
  BY <1>0 DEF DoubledInv
<1>1. CASE BootStep \/ UNCHANGED vars
  <2>1. SameBook /\ UNCHANGED <<row, pc, got, calls>>
    BY <1>1 DEF BootStep, BootFinish, BootFails, vars, SameBook
  <2>2. BookInv' /\ NumberInv' /\ PlaceInv' /\ BookStays /\ OrdnoStays
    BY <2>1, RowsKept
  <2>3. \A p \in Procs : rec'[p] = rec[p] \/ rec'[p] = IdleRec
    BY <1>1 DEF BootStep, BootFinish, BootFails, vars, DoubledInv, LiveRowInv, TypeInv, TypeOK
  <2>4. CallInv' /\ SeenInv'
    BY <2>1, <2>2, <2>3, CallsFewer, SeenKept DEF IdleRec
  <2> QED
    BY <2>2, <2>4
<1>2. CASE Crash
  <2>1. UNCHANGED <<row, brk>> /\ calls' = {} /\ SameBook
    BY <1>2 DEF Crash, SameBook
  <2>2. BookInv' /\ NumberInv' /\ BookStays /\ OrdnoStays
    BY <2>1, RowsKept
  <2>3. CallInv'
    BY <2>1 DEF CallInv
  <2>4. SeenInv'
    BY <1>2 DEF Crash, SeenInv, IdleRec
  <2>5. PlaceInv'
    <3>1. \A c \in Clients : pc'[c] = "idle" /\ NoNumber(c)' = NoNumber(c)
      BY <1>2 DEF Crash, NoNumber
    <3> QED
      BY <2>1, <3>1 DEF PlaceInv, DoubledInv
  <2> QED
    BY <2>2, <2>3, <2>4, <2>5
<1>3. ASSUME NEW n \in OrdNos, BrokerExecutes(n)
      PROVE  BookInv' /\ NumberInv' /\ PlaceInv' /\ CallInv' /\ SeenInv'
  <2>1. SameBook /\ UNCHANGED <<row, rec, pc, got, calls>>
    BY <1>0, <1>3 DEF BrokerExecutes, SameBook, BrkType
  <2> QED
    BY <2>1, SameBookNumbers
<1>4. ASSUME NEW n \in OrdNos, ForeignOrder(n)
      PROVE  BookInv' /\ NumberInv' /\ PlaceInv' /\ CallInv' /\ SeenInv'
  <2>1. /\ UNCHANGED <<row, rec, pc, got, calls>> /\ brk[n].st = "none"
        /\ \A k \in OrdNos \ {n} : brk'[k] = brk[k]
        /\ brk'[n].st # "none" /\ brk'[n].owner = n
    BY <1>0, <1>4 DEF ForeignOrder, NextOrdNo, Unused
  <2>2. BookInv' /\ NumberInv' /\ BookStays /\ OrdnoStays /\ PlaceInv' /\ SeenInv'
    BY <2>1, OtherNumber
  <2> QED
    BY <2>1, <2>2, CallsFewer
<1> QED
  BY <1>1, <1>2, <1>3, <1>4, PlaceStepNumbers, PlaceAnswerNumbers, RecNumbers, CallNumbers,
     CallAnswerNumbers DEF Next

\* An answer is taken for a refusal when the broker has not taken the request,
\* or the adapter has misjudged it.
RefusedInv ==
  \A c \in Clients : row[c].status = "rejected" \/ pc[c] = "refused"
                       => NoNumber(c) \/ c \in misled

\* Owners of numbers come from the book or are nobody's request.
OldOwners ==
  \A n \in OrdNos :
    brk'[n].owner \in OrdNos \/ \E k \in OrdNos : brk'[n].owner = brk[k].owner

LEMMA RefusedKept ==
  ASSUME RefusedInv, OldOwners, UNCHANGED misled,
         \A c \in Clients : /\ row'[c].status = "rejected"
                                 => row[c].status = "rejected" \/ pc[c] = "refused"
                            /\ pc'[c] = "refused" => pc[c] = "refused"
  PROVE  RefusedInv'
<1>1. \A c \in Clients : NoNumber(c) => NoNumber(c)'
  BY ConstantTypes DEF NoNumber, OldOwners
<1> QED
  BY <1>1 DEF RefusedInv

LEMMA RefusedRow ==
  ASSUME NEW o \in RowType, NEW n, NEW q, NEW l
  PROVE  ApplyFill(o, n, q, l).status \in {o.status, "filled", "partially_filled"}
BY DEF ApplyFill, RowType

LEMMA StatusSet ==
  ASSUME row \in [Rows -> RowType], NEW q \in Rows, NEW s \in RowState
  PROVE  \A r \in Rows : SetStatus(q, s)[r].status \in {row[r].status, s}
<1> SUFFICES ASSUME NEW r \in Rows
             PROVE  SetStatus(q, s)[r].status \in {row[r].status, s}
  OBVIOUS
<1>1. CASE r = q
  BY <1>1 DEF SetStatus, RowType
<1>2. CASE r # q
  BY <1>2 DEF SetStatus
<1> QED
  BY <1>1, <1>2

LEMMA InitRefused == Init => RefusedInv
<1> SUFFICES ASSUME Init, NEW c \in Clients
             PROVE  row[c].status # "rejected" /\ pc[c] # "refused"
  BY DEF RefusedInv
<1> QED
  BY DEF Init, NoRow, Rows

LEMMA PlaceRefused ==
  ASSUME DoubledInv, RefusedInv, NEW c \in Clients, PlaceStep(c)
  PROVE  RefusedInv'
<1>0. /\ row \in [Rows -> RowType] /\ pc \in [Clients -> PcType] /\ c \in Rows
      /\ Clients \subseteq Rows
  BY DEF DoubledInv, LiveRowInv, TypeInv, TypeOK, PcType, Rows
<1>1. OldOwners /\ UNCHANGED misled
  BY DEF OldOwners, PlaceStep, Approve, Submit, RecordAck, RecordRefusal, RecordDoubt
<1>2. \A d \in Clients : pc'[d] = "refused" => pc[d] = "refused"
  BY <1>0 DEF PlaceStep, Approve, Submit, RecordAck, RecordRefusal, RecordDoubt
<1>states. {"submitted", "accepted", "rejected", "in_doubt"} \subseteq RowState
  BY DEF RowState, OrderState
<1>3. ASSUME NEW d \in Clients, row'[d].status = "rejected"
      PROVE  row[d].status = "rejected" \/ pc[d] = "refused"
  <2>1. CASE Approve(c)
    BY <1>0, <1>3, <2>1 DEF Approve, NoRow
  <2>2. CASE Submit(c)
    BY <1>0, <1>3, <1>states, <2>2, StatusSet DEF Submit
  <2>3. CASE RecordAck(c)
    <3>1. SetStatus(c, "accepted")[d].status \in {row[d].status, "accepted"}
      BY <1>0, <1>states, StatusSet
    <3>2. SetStatus(c, "accepted") \in [Rows -> RowType]
      BY <1>0, <1>states, SetStatusType DEF DoubledInv, LiveRowInv, TypeInv
    <3>3. row'[d].status \in {row[d].status, SetStatus(c, "accepted")[d].status}
      BY <1>0, <2>3, <3>2 DEF RecordAck, RowType
    <3> QED
      BY <1>3, <3>1, <3>3
  <2>4. CASE RecordRefusal(c)
    <3>1. pc[c] = "refused"
      BY <2>4 DEF RecordRefusal
    <3>2. d # c => row'[d] = row[d]
      BY <1>0, <2>4 DEF RecordRefusal, SetStatus
    <3> QED
      BY <1>3, <3>1, <3>2
  <2>5. CASE RecordDoubt(c)
    BY <1>0, <1>3, <1>states, <2>5, StatusSet DEF RecordDoubt
  <2> QED
    BY <2>1, <2>2, <2>3, <2>4, <2>5 DEF PlaceStep
<1> QED
  BY <1>1, <1>2, <1>3, RefusedKept

LEMMA AnswerRefused ==
  ASSUME DoubledInv, RefusedInv, NEW c \in Clients, PlaceAnswer(c)
  PROVE  RefusedInv'
<1>0. /\ row \in [Rows -> RowType] /\ pc \in [Clients -> PcType]
      /\ brk \in [OrdNos -> BrkType] /\ PlaceInv
  BY DEF DoubledInv, LiveRowInv, TypeInv, TypeOK, PcType
<1>1. pc[c] = "sending" /\ UNCHANGED row
  BY DEF PlaceAnswer, BrokerRefuses, BrokerTakes
<1>2. NoNumber(c) /\ row[c].status = "submitted"
  BY <1>0, <1>1 DEF PlaceInv
<1>3. CASE BrokerRefuses(c)
  <2>1. UNCHANGED <<brk, misled>> /\ \A d \in Clients \ {c} : pc'[d] = pc[d]
    BY <1>0, <1>3 DEF BrokerRefuses
  <2>2. \A d \in Clients : NoNumber(d)' = NoNumber(d)
    BY <2>1 DEF NoNumber
  <2> QED
    BY <1>1, <1>2, <2>1, <2>2 DEF RefusedInv
<1>4. ASSUME NEW n \in OrdNos, BrokerTakes(c, n)
      PROVE  RefusedInv'
  <2>1. /\ \A k \in OrdNos : brk'[k].owner \in {brk[k].owner, c}
        /\ \A d \in Clients \ {c} : pc'[d] = pc[d]
    BY <1>0, <1>4 DEF BrokerTakes
  <2>2. misled \subseteq misled' /\ (pc'[c] = "refused" => c \in misled')
    BY <1>0, <1>4 DEF BrokerTakes
  <2>3. \A d \in Clients \ {c} : NoNumber(d) => NoNumber(d)'
    BY <2>1 DEF NoNumber
  <2> QED
    BY <1>1, <1>2, <2>1, <2>2, <2>3 DEF RefusedInv
<1> QED
  BY <1>3, <1>4 DEF PlaceAnswer

LEMMA RecRefused ==
  ASSUME DoubledInv, RefusedInv, NEW p \in Procs, RecStep(p)
  PROVE  RefusedInv'
<1>0. /\ row \in [Rows -> RowType] /\ rec \in [Procs -> RecType] /\ Clients \subseteq Rows
      /\ OrdNos \subseteq Rows
  BY DEF DoubledInv, LiveRowInv, TypeInv, TypeOK, Rows
<1>1. UNCHANGED <<brk, pc, misled>>
  BY DEF RecStep, RecStart, RecList, RecFetch, RecFetchFails, RecPositions,
     RecPositionsFail, RecRaises, RecOver, RecApply, RecFollows, RecOrphan, RecOrphanFill,
     RecClashes
<1>2. OldOwners
  BY <1>1 DEF OldOwners
<1>3. ASSUME NEW d \in Clients, row'[d].status = "rejected"
      PROVE  row[d].status = "rejected"
  <2>1. ASSUME NEW r \in Rows, RecApply(p, r)
        PROVE  row[d].status = "rejected"
    BY <1>0, <1>3, <2>1, RefusedRow DEF RecApply
  <2>2. CASE RecOrphanFill(p)
    <3>1. rec[p].orphan \in Rows
      BY <1>0, <2>2, ConstantTypes DEF RecOrphanFill, RecType
    <3> QED
      BY <1>0, <1>3, <2>2, <3>1, RefusedRow DEF RecOrphanFill
  <2>3. ASSUME NEW n \in OrdNos, RecOrphan(p, n)
        PROVE  row[d].status = "rejected"
    BY <1>0, <1>3, <2>3, ConstantTypes DEF RecOrphan
  <2>4. CASE UNCHANGED row
    BY <1>3, <2>4
  <2> QED
    BY <2>1, <2>2, <2>3, <2>4 DEF RecStep, RecStart, RecList, RecFetch, RecFetchFails,
       RecPositions, RecPositionsFail, RecRaises, RecOver, RecFollows, RecClashes
<1> QED
  BY <1>1, <1>2, <1>3, RefusedKept

LEMMA CallRefused ==
  ASSUME DoubledInv, RefusedInv, CallStep \/ CallAnswer
  PROVE  RefusedInv'
<1>0. /\ row \in [Rows -> RowType] /\ calls \subseteq CallType /\ Clients \subseteq Rows
      /\ brk \in [OrdNos -> BrkType]
  BY DEF DoubledInv, LiveRowInv, TypeInv, TypeOK, Rows
<1>1. UNCHANGED <<pc, misled>>
  BY DEF CallStep, Amend, Cancel, Call, RecordAmend, RecordCancel, CallAnswer,
     BrokerCancels, BrokerDeclines, BrokerAmends
<1>2. OldOwners
  <2>1. CASE CallStep
    BY <2>1 DEF OldOwners, CallStep, Amend, Cancel, Call, RecordAmend, RecordCancel
  <2>2. ASSUME NEW m \in calls, BrokerCancels(m)
        PROVE  OldOwners
    <3>1. \A n \in OrdNos : brk'[n].owner = brk[n].owner
      BY <1>0, <2>2 DEF BrokerCancels, CallType, BrkType
    <3> QED
      BY <3>1 DEF OldOwners
  <2>3. ASSUME NEW m \in calls, BrokerDeclines(m)
        PROVE  OldOwners
    BY <2>3 DEF OldOwners, BrokerDeclines
  <2>4. ASSUME NEW m \in calls, NEW n \in OrdNos, BrokerAmends(m, n)
        PROVE  OldOwners
    <3>1. m.ordno \in OrdNos
      BY <1>0 DEF CallType
    <3>2. \A k \in OrdNos : brk'[k].owner \in {brk[k].owner, brk[m.ordno].owner}
      BY <1>0, <2>4, <3>1 DEF BrokerAmends, BrkType
    <3> QED
      BY <3>1, <3>2 DEF OldOwners
  <2> QED
    BY <2>1, <2>2, <2>3, <2>4 DEF CallAnswer
<1>3. ASSUME NEW d \in Clients, row'[d].status = "rejected"
      PROVE  row[d].status = "rejected"
  <2>1. ASSUME NEW m \in calls, RecordAmend(m)
        PROVE  row[d].status = "rejected"
    <3>1. m.row \in Rows
      BY <1>0 DEF CallType
    <3> QED
      BY <1>0, <1>3, <2>1, <3>1 DEF RecordAmend, RowType
  <2>2. ASSUME NEW m \in calls, RecordCancel(m)
        PROVE  row[d].status = "rejected"
    <3>1. m.row \in Rows /\ "canceled" \in RowState
      BY <1>0 DEF CallType, RowState, OrderState
    <3> QED
      BY <1>0, <1>3, <2>2, <3>1, StatusSet DEF RecordCancel
  <2>3. CASE UNCHANGED row
    BY <1>3, <2>3
  <2> QED
    BY <2>1, <2>2, <2>3 DEF CallStep, Amend, Cancel, Call, CallAnswer, BrokerCancels,
       BrokerDeclines, BrokerAmends
<1> QED
  BY <1>1, <1>2, <1>3, RefusedKept

LEMMA RefusedStep ==
  ASSUME DoubledInv, RefusedInv, [Next]_vars
  PROVE  RefusedInv'
<1>0. Clients \subseteq Rows /\ brk \in [OrdNos -> BrkType] /\ pc \in [Clients -> PcType]
  BY DEF DoubledInv, LiveRowInv, TypeInv, TypeOK, Rows, PcType
<1>1. CASE BootStep \/ UNCHANGED vars
  <2>1. UNCHANGED <<row, pc, misled, brk>>
    BY <1>1 DEF BootStep, BootFinish, BootFails, vars
  <2> QED
    BY <2>1, RefusedKept DEF OldOwners
<1>2. CASE Crash
  <2>1. UNCHANGED <<row, misled, brk>> /\ \A c \in Clients : pc'[c] = "idle"
    BY <1>2 DEF Crash
  <2> QED
    BY <2>1, RefusedKept DEF OldOwners
<1>3. ASSUME NEW n \in OrdNos, BrokerExecutes(n) \/ ForeignOrder(n)
      PROVE  RefusedInv'
  <2>1. UNCHANGED <<row, pc, misled>>
    BY <1>3 DEF BrokerExecutes, ForeignOrder
  <2>2. OldOwners
    <3>1. CASE BrokerExecutes(n)
      <4>1. \A k \in OrdNos : brk'[k].owner = brk[k].owner
        BY <1>0, <3>1 DEF BrokerExecutes, BrkType
      <4> QED
        BY <4>1 DEF OldOwners
    <3>2. CASE ForeignOrder(n)
      <4>1. brk'[n].owner = n /\ \A k \in OrdNos \ {n} : brk'[k] = brk[k]
        BY <1>0, <3>2 DEF ForeignOrder, Unused
      <4> QED
        BY <4>1 DEF OldOwners
    <3> QED
      BY <1>3, <3>1, <3>2
  <2> QED
    BY <2>1, <2>2, RefusedKept
<1> QED
  BY <1>1, <1>2, <1>3, PlaceRefused, AnswerRefused, RecRefused, CallRefused DEF Next

\* An order that was not amended gets a second row only while its own row has no
\* number, and then that row stays open for ever, as no answer and no run can
\* give it one; unless the adapter has taken the answer to the accepted request
\* for a failure, when it is closed already: whichever answers are lost, pages
\* incomplete and requests on their way (order_service.py:643-668,
\* orders_repo.py:181-206).
THEOREM LiveDoubledStaysOpen == Spec => []DoubledStaysOpen
<1>1. DoubledInv /\ RefusedInv => DoubledStaysOpen
  <2> SUFFICES ASSUME DoubledInv, RefusedInv, NEW c \in Clients, NEW n \in OrdNos, Exists(n),
                      brk[n].owner = c, c \notin misled
               PROVE  row[c].status \in {"submitted", "in_doubt"} \/ Amended(c)
    BY DEF DoubledStaysOpen
  <2>1. c \in Rows /\ n \in Rows /\ c # n /\ n # 0
    BY Owners, ConstantTypes DEF Rows
  <2>2. Amended(c) = AmendedOf(c)
    BY Owners DEF Amended, AmendedOf
  <2>3. row[c].status # "rejected"
    BY DEF RefusedInv, NoNumber
  <2> QED
    BY <2>1, <2>2, <2>3 DEF DoubledInv, NumberInv, Waiting
<1>2. DoubledInv /\ RefusedInv /\ [Next]_vars => DoubledInv' /\ RefusedInv'
  BY DoubledStep, RefusedStep
<1> QED
  BY <1>1, <1>2, InitDoubledInv, InitRefused, PTL DEF Spec

------------------------------------------------------------------------------
(* Sums over finite sets.                                                   *)

LEMMA Least ==
  ASSUME NEW T, T \subseteq Nat, T # {}
  PROVE  \E m \in T : \A n \in T : m <= n
<1>1. PICK m \in T : \A n \in T : ~ (<<n, m>> \in OpToRel(<, Nat))
  BY WFMin, NatLessThanWellFounded, Zenon
<1>2. m \in Nat /\ T \subseteq Nat
  OBVIOUS
<1>3. \A n \in T : <<n, m>> \in OpToRel(<, Nat) <=> n < m
  BY <1>2 DEF OpToRel
<1>4. \A n \in T : ~ (n < m)
  BY <1>1, <1>3, Zenon
<1>5. \A n \in T : m <= n
  BY <1>2, <1>4
<1> QED
  BY <1>5

LEMMA SetInduction ==
  ASSUME NEW T, 0 \in T, \A n \in Nat : n \in T => n + 1 \in T
  PROVE  \A n \in Nat : n \in T
<1> DEFINE B == Nat \ T
<1> SUFFICES ASSUME B # {} PROVE FALSE
  OBVIOUS
<1>1. B \subseteq Nat
  OBVIOUS
<1> HIDE DEF B
<1>2. PICK m \in B : \A n \in B : m <= n
  BY <1>1, Least
<1> USE DEF B
<1>3. m \in Nat /\ m # 0
  OBVIOUS
<1>4. m - 1 \in Nat /\ m - 1 < m /\ (m - 1) + 1 = m
  BY <1>3
<1>5. m - 1 \in T
  BY <1>2, <1>4
<1> QED
  BY <1>4, <1>5

\* A family of subsets that holds a set with all smaller ones holds them all.
LEMMA SubsetInduction ==
  ASSUME NEW S, IsFiniteSet(S), NEW P,
         \A s \in SUBSET S :
           (\A t \in SUBSET S : Cardinality(t) < Cardinality(s) => t \in P) => s \in P
  PROVE  \A s \in SUBSET S : s \in P
<1> DEFINE C == {Cardinality(s) : s \in {t \in SUBSET S : t \notin P}}
<1> SUFFICES ASSUME NEW u \in SUBSET S, u \notin P PROVE FALSE
  OBVIOUS
<1>1. \A s \in SUBSET S : Cardinality(s) \in Nat
  BY FS_Subset, FS_CardinalityType
<1>2. C \subseteq Nat /\ C # {}
  BY <1>1
<1>3. \A s \in SUBSET S : s \notin P => Cardinality(s) \in C
  OBVIOUS
<1>4. \A k \in C : \E s \in SUBSET S : s \notin P /\ Cardinality(s) = k
  OBVIOUS
<1> HIDE DEF C
<1>5. PICK m \in C : \A n \in C : m <= n
  BY <1>2, Least
<1>6. PICK s \in SUBSET S : s \notin P /\ Cardinality(s) = m
  BY <1>4
<1>7. \A t \in SUBSET S : Cardinality(t) < Cardinality(s) => t \in P
  <2> SUFFICES ASSUME NEW t \in SUBSET S, Cardinality(t) < m, t \notin P PROVE FALSE
    BY <1>6
  <2>1. m <= Cardinality(t)
    BY <1>3, <1>5
  <2> QED
    BY <1>1, <1>2, <2>1
<1> QED
  BY <1>6, <1>7

Any(s) == CHOOSE x \in s : TRUE

\* g sums w over the subsets of S, as MapThenSumSet does.
SumFun(w, S, g) ==
  g = [s \in SUBSET S |-> IF s = {} THEN 0 ELSE w[Any(s)] + g[s \ {Any(s)}]]

LEMMA AnyOf ==
  ASSUME NEW S, IsFiniteSet(S), NEW s \in SUBSET S, s # {}
  PROVE  /\ Any(s) \in s /\ s \ {Any(s)} \in SUBSET S
         /\ Cardinality(s) \in Nat \ {0}
         /\ Cardinality(s \ {Any(s)}) = Cardinality(s) - 1
<1>1. Any(s) \in s
  BY DEF Any
<1>2. IsFiniteSet(s) /\ Cardinality(s) \in Nat /\ Cardinality(s) # 0
  BY FS_Subset, FS_CardinalityType, FS_EmptySet
<1>3. Cardinality(s \ {Any(s)}) = Cardinality(s) - 1
  BY <1>1, <1>2, FS_RemoveElement
<1> QED
  BY <1>1, <1>2, <1>3

LEMMA SumFunExists ==
  ASSUME NEW S, IsFiniteSet(S), NEW w
  PROVE  \E g : SumFun(w, S, g)
<1> DEFINE Upto(n) == {s \in SUBSET S : Cardinality(s) <= n}
           F(n, g) == g = [s \in Upto(n) |-> IF s = {} THEN 0 ELSE w[Any(s)] + g[s \ {Any(s)}]]
           T == {n \in Nat : \E g : F(n, g)}
<1>0. \A s \in SUBSET S : Cardinality(s) \in Nat /\ (Cardinality(s) = 0 <=> s = {})
  BY FS_Subset, FS_CardinalityType, FS_EmptySet
<1>1. 0 \in T
  <2> DEFINE g == [s \in Upto(0) |-> 0]
  <2>1. \A s \in Upto(0) : s = {}
    BY <1>0
  <2>2. \A s \in Upto(0) : g[s] = IF s = {} THEN 0 ELSE w[Any(s)] + g[s \ {Any(s)}]
    BY <2>1
  <2>3. g = [s \in Upto(0) |-> g[s]]
    OBVIOUS
  <2> HIDE DEF g, Upto
  <2>4. F(0, g)
    BY <2>2, <2>3
  <2> HIDE DEF F
  <2> QED
    BY <2>4
<1>2. ASSUME NEW n \in Nat, n \in T PROVE n + 1 \in T
  <2>1. PICK h : F(n, h)
    BY <1>2
  <2> DEFINE g == [s \in Upto(n + 1) |-> IF s = {} THEN 0 ELSE w[Any(s)] + h[s \ {Any(s)}]]
  <2>2. \A s \in Upto(n) : s \in Upto(n + 1) /\ h[s] = g[s]
    <3>1. \A s \in Upto(n) : s \in Upto(n + 1)
      BY <1>0
    <3>2. \A s \in Upto(n) : h[s] = IF s = {} THEN 0 ELSE w[Any(s)] + h[s \ {Any(s)}]
      <4> HIDE DEF Upto
      <4> QED
        BY <2>1
    <3> HIDE DEF Upto
    <3> QED
      BY <3>1, <3>2
  <2>3. \A s \in Upto(n + 1) : s # {} => s \ {Any(s)} \in Upto(n)
    BY <1>0, AnyOf
  <2> HIDE DEF Upto
  <2>4. \A s \in Upto(n + 1) : g[s] = IF s = {} THEN 0 ELSE w[Any(s)] + g[s \ {Any(s)}]
    BY <2>2, <2>3
  <2>5. g = [s \in Upto(n + 1) |-> g[s]]
    OBVIOUS
  <2> HIDE DEF g
  <2>6. F(n + 1, g)
    BY <2>4, <2>5
  <2> HIDE DEF F
  <2> QED
    BY <2>6
<1> HIDE DEF T
<1>3. Cardinality(S) \in T
  BY <1>1, <1>2, SetInduction, FS_CardinalityType
<1> USE DEF T
<1>4. PICK g : F(Cardinality(S), g)
  BY <1>3
<1>5. Upto(Cardinality(S)) = SUBSET S
  BY FS_Subset
<1> HIDE DEF Upto
<1> QED
  BY <1>4, <1>5 DEF SumFun

LEMMA SumsEq ==
  ASSUME NEW S, NEW w, NEW g, SumFun(w, S, g)
  PROVE  /\ g[{}] = 0
         /\ \A s \in SUBSET S : s # {} => g[s] = w[Any(s)] + g[s \ {Any(s)}]
<1>1. g = [s \in SUBSET S |-> IF s = {} THEN 0 ELSE w[Any(s)] + g[s \ {Any(s)}]]
  BY DEF SumFun
<1>2. \A s \in SUBSET S : g[s] = IF s = {} THEN 0 ELSE w[Any(s)] + g[s \ {Any(s)}]
  BY <1>1
<1>3. {} \in SUBSET S
  OBVIOUS
<1> QED
  BY <1>2, <1>3

LEMMA SumsNat ==
  ASSUME NEW S, IsFiniteSet(S), NEW w \in [S -> Nat], NEW g, SumFun(w, S, g)
  PROVE  \A s \in SUBSET S : g[s] \in Nat
<1> DEFINE P == {s \in SUBSET S : g[s] \in Nat}
<1> SUFFICES ASSUME NEW s \in SUBSET S,
                    \A t \in SUBSET S : Cardinality(t) < Cardinality(s) => t \in P
             PROVE  s \in P
  <2> HIDE DEF P
  <2>1. \A s \in SUBSET S : s \in P
    BY SubsetInduction
  <2> QED
    BY <2>1 DEF P
<1>1. CASE s = {}
  BY <1>1, SumsEq
<1>2. CASE s # {}
  <2>1. /\ Any(s) \in S /\ s \ {Any(s)} \in P
    BY <1>2, AnyOf
  <2>2. g[s] = w[Any(s)] + g[s \ {Any(s)}]
    BY <1>2, SumsEq
  <2> QED
    BY <2>1, <2>2
<1> QED
  BY <1>1, <1>2

\* Any element may be taken out first.
LEMMA SumsRemove ==
  ASSUME NEW S, IsFiniteSet(S), NEW w \in [S -> Nat], NEW g, SumFun(w, S, g)
  PROVE  \A s \in SUBSET S : \A y \in s : g[s] = w[y] + g[s \ {y}]
<1> DEFINE P == {s \in SUBSET S : \A y \in s : g[s] = w[y] + g[s \ {y}]}
<1> SUFFICES ASSUME NEW s \in SUBSET S,
                    \A t \in SUBSET S : Cardinality(t) < Cardinality(s) => t \in P
             PROVE  s \in P
  <2> HIDE DEF P
  <2>1. \A s \in SUBSET S : s \in P
    BY SubsetInduction
  <2> QED
    BY <2>1 DEF P
<1>0. \A t \in SUBSET S : g[t] \in Nat
  BY SumsNat
<1> SUFFICES ASSUME NEW y \in s PROVE g[s] = w[y] + g[s \ {y}]
  OBVIOUS
<1> DEFINE x == Any(s)
<1>1. /\ x \in s /\ s \ {x} \in SUBSET S /\ Cardinality(s) \in Nat
      /\ Cardinality(s \ {x}) = Cardinality(s) - 1
  BY AnyOf
<1>2. g[s] = w[x] + g[s \ {x}]
  BY SumsEq
<1>3. CASE y = x
  BY <1>2, <1>3
<1>4. CASE y # x
  <2>1. y \in s \ {x} /\ x \in s \ {y} /\ s \ {y} \in SUBSET S
    BY <1>1, <1>4
  <2>2. Cardinality(s \ {y}) = Cardinality(s) - 1
    BY <1>1, FS_Subset, FS_RemoveElement
  <2>3. s \ {x} \in P /\ s \ {y} \in P
    BY <1>1, <2>1, <2>2
  <2>4. g[s \ {x}] = w[y] + g[(s \ {x}) \ {y}] /\ g[s \ {y}] = w[x] + g[(s \ {y}) \ {x}]
    BY <2>1, <2>3
  <2>5. (s \ {x}) \ {y} = (s \ {y}) \ {x} /\ (s \ {x}) \ {y} \in SUBSET S
    OBVIOUS
  <2>6. w[x] \in Nat /\ w[y] \in Nat /\ g[(s \ {x}) \ {y}] \in Nat
    BY <1>0, <1>1, <2>5
  <2> DEFINE z == g[(s \ {x}) \ {y}]
  <2>7. z \in Nat /\ g[s \ {x}] = w[y] + z /\ g[s \ {y}] = w[x] + z
    BY <2>4, <2>5, <2>6
  <2> HIDE DEF x, z
  <2> QED
    BY <1>2, <2>6, <2>7
<1> QED
  BY <1>3, <1>4

\* A smaller set has a smaller sum.
LEMMA SumsGrow ==
  ASSUME NEW S, IsFiniteSet(S), NEW w \in [S -> Nat], NEW g, SumFun(w, S, g)
  PROVE  \A u \in SUBSET S : \A t \in SUBSET u : g[t] <= g[u]
<1> DEFINE P == {u \in SUBSET S : \A t \in SUBSET u : g[t] <= g[u]}
<1> SUFFICES ASSUME NEW u \in SUBSET S,
                    \A t \in SUBSET S : Cardinality(t) < Cardinality(u) => t \in P
             PROVE  u \in P
  <2> HIDE DEF P
  <2>1. \A s \in SUBSET S : s \in P
    BY SubsetInduction
  <2> QED
    BY <2>1 DEF P
<1>0. \A t \in SUBSET S : g[t] \in Nat
  BY SumsNat
<1> SUFFICES ASSUME NEW t \in SUBSET u PROVE g[t] <= g[u]
  OBVIOUS
<1>1. CASE t = u
  BY <1>0, <1>1
<1>2. CASE t # u
  <2>1. PICK y \in u : y \notin t
    BY <1>2
  <2>2. IsFiniteSet(u) /\ Cardinality(u) \in Nat /\ Cardinality(u \ {y}) = Cardinality(u) - 1
    BY FS_Subset, FS_CardinalityType, FS_RemoveElement
  <2>3. u \ {y} \in P /\ t \in SUBSET (u \ {y})
    BY <2>1, <2>2
  <2>4. g[t] <= g[u \ {y}]
    BY <2>3
  <2>5. g[u] = w[y] + g[u \ {y}]
    BY SumsRemove
  <2>6. g[t] \in Nat /\ g[u \ {y}] \in Nat /\ w[y] \in Nat
    BY <1>0
  <2> QED
    BY <2>4, <2>5, <2>6
<1> QED
  BY <1>1, <1>2

\* One sum is below another when its elements go to different ones of the other
\* that weigh as much.
LEMMA SumsCompare ==
  ASSUME NEW S, IsFiniteSet(S), NEW w \in [S -> Nat], NEW g, SumFun(w, S, g),
         NEW R, IsFiniteSet(R), NEW v \in [R -> Nat], NEW h, SumFun(v, R, h),
         NEW to \in [S -> R], \A a, b \in S : to[a] = to[b] => a = b,
         \A a \in S : w[a] <= v[to[a]]
  PROVE  g[S] <= h[R]
<1> DEFINE Img(s) == {to[a] : a \in s}
           P == {s \in SUBSET S : g[s] <= h[Img(s)]}
<1>0. /\ \A t \in SUBSET S : g[t] \in Nat
      /\ \A t \in SUBSET R : h[t] \in Nat
      /\ \A s \in SUBSET S : Img(s) \in SUBSET R
  BY SumsNat
<1>1. ASSUME NEW s \in SUBSET S,
             \A t \in SUBSET S : Cardinality(t) < Cardinality(s) => t \in P
      PROVE  s \in P
  <2>1. CASE s = {}
    <3>1. Img(s) = {}
      BY <2>1
    <3>2. g[s] = 0 /\ h[Img(s)] = 0
      BY <2>1, <3>1, SumsEq
    <3> QED
      BY <3>2
  <2>2. CASE s # {}
    <3> DEFINE x == Any(s)
    <3>0. /\ x \in s /\ s \ {x} \in SUBSET S /\ Cardinality(s) \in Nat
          /\ Cardinality(s \ {x}) = Cardinality(s) - 1
      BY <2>2, AnyOf
    <3>1. /\ x \in s /\ s \ {x} \in SUBSET S /\ s \ {x} \in P
      <4> HIDE DEF P, x
      <4> QED
        BY <1>1, <3>0
    <3>2. g[s] = w[x] + g[s \ {x}]
      BY <2>2, SumsEq
    <3>3. to[x] \in Img(s) /\ Img(s) \ {to[x]} = Img(s \ {x})
      BY <3>1
    <3>4. h[Img(s)] = v[to[x]] + h[Img(s) \ {to[x]}]
      <4> HIDE DEF Img, x, P
      <4> QED
        BY <1>0, <3>3, SumsRemove
    <3>5. g[s \ {x}] <= h[Img(s \ {x})]
      BY <3>1
    <3>6. g[s \ {x}] \in Nat /\ h[Img(s \ {x})] \in Nat /\ w[x] \in Nat /\ v[to[x]] \in Nat
          /\ w[x] <= v[to[x]]
      BY <1>0, <3>1
    <3> DEFINE a == g[s \ {x}]
               b == h[Img(s \ {x})]
    <3>7. /\ g[s] = w[x] + a /\ h[Img(s)] = v[to[x]] + b /\ a <= b
          /\ a \in Nat /\ b \in Nat
      BY <3>2, <3>3, <3>4, <3>5, <3>6
    <3> HIDE DEF Img, x, a, b
    <3>8. g[s] <= h[Img(s)]
      BY <3>6, <3>7
    <3> QED
      BY <3>8
  <2> QED
    BY <2>1, <2>2
<1>2. S \in P
  <2> HIDE DEF P
  <2> QED
    BY <1>1, SubsetInduction
<1>3. h[Img(S)] <= h[R]
  BY <1>0, SumsGrow
<1>4. g[S] \in Nat /\ h[Img(S)] \in Nat /\ h[R] \in Nat
  BY <1>0
<1> HIDE DEF Img
<1>5. g[S] <= h[Img(S)]
  BY <1>2
<1> QED
  BY <1>3, <1>4, <1>5

LEMMA BookedIsSum ==
  ASSUME NEW F, IsFiniteSet(F), NEW w \in [F -> Nat], \A e \in F : w[e] = e[2]
  PROVE  \E g : SumFun(w, F, g) /\ Booked(F) = g[F]
<1> DEFINE Fun(g) == g = [s \in SUBSET F |-> IF s = {} THEN 0
               ELSE (CHOOSE x \in s : TRUE)[2] + g[s \ {CHOOSE x \in s : TRUE}]]
           k == CHOOSE g : Fun(g)
<1>1. \A g : SumFun(w, F, g) <=> Fun(g)
  <2> TAKE g
  <2>1. \A s \in SUBSET F :
          (IF s = {} THEN 0 ELSE w[Any(s)] + g[s \ {Any(s)}])
            = (IF s = {} THEN 0
               ELSE (CHOOSE x \in s : TRUE)[2] + g[s \ {CHOOSE x \in s : TRUE}])
    BY DEF Any
  <2> QED
    BY <2>1 DEF SumFun
<1>2. Booked(F) = k[F]
  BY DEF Booked, MapThenSumSet, MapThenFoldSet
<1> HIDE DEF Fun
<1>3. Fun(k)
  BY <1>1, SumFunExists
<1> QED
  BY <1>1, <1>2, <1>3

------------------------------------------------------------------------------
(* Executions. *)

\* What a step makes of an order the broker has, and of a free number.
OldOrder(n) ==
  /\ brk'[n].st # "none" /\ brk'[n].owner = brk[n].owner /\ brk'[n].org = brk[n].org
  /\ brk[n].execs <= brk'[n].execs /\ Open(n)' <= Open(n)
  /\ brk'[n].st = "working" => brk[n].st = "working"

NewOrder(n) ==
  \/ brk'[n].owner = n \/ brk'[n].org # 0
  \/ \E c \in Clients : pc[c] = "sending" /\ brk'[n].owner = c /\ Open(n)' <= Qty

BookMove ==
  /\ \A n \in OrdNos : brk[n].st # "none" => OldOrder(n)
  /\ \A n \in OrdNos : brk[n].st = "none" => brk'[n] = brk[n] \/ NewOrder(n)
  /\ \A n, k \in OrdNos :
       brk[n].st = "none" /\ brk[k].st = "none" /\ brk'[n] # brk[n] /\ brk'[k] # brk[k]
         => n = k

LEMMA SameBookMove ==
  ASSUME TypeInv, UNCHANGED brk
  PROVE  BookMove
<1>1. \A n \in OrdNos : Open(n)' = Open(n) /\ Open(n) \in Int /\ brk[n].execs \in Int
  BY DEF Open, TypeInv, TypeOK, BrkType
<1> QED
  BY <1>1 DEF BookMove, OldOrder

LEMMA OneBookMove ==
  ASSUME TypeInv, NEW n \in OrdNos, NEW b \in BrkType, brk' = [brk EXCEPT ![n] = b],
         brk[n].st # "none" => OldOrder(n), brk[n].st = "none" => NewOrder(n)
  PROVE  BookMove
<1>1. \A k \in OrdNos : Open(k) \in Int /\ brk[k].execs \in Int
  BY DEF Open, TypeInv, TypeOK, BrkType
<1>2. \A k \in OrdNos \ {n} : brk'[k] = brk[k] /\ Open(k)' = Open(k)
  BY DEF Open, TypeInv, TypeOK
<1>3. \A k \in OrdNos \ {n} : brk[k].st # "none" => OldOrder(k)
  BY <1>1, <1>2 DEF OldOrder
<1> QED
  BY <1>2, <1>3 DEF BookMove

LEMMA StepBookMove ==
  ASSUME TypeInv, [Next]_vars
  PROVE  BookMove
<1> USE ConstantTypes
<1>0. /\ brk \in [OrdNos -> BrkType] /\ calls \subseteq CallType /\ WorkingHasMore
  BY DEF TypeInv, TypeOK
<1>1. CASE UNCHANGED brk
  BY <1>1, SameBookMove
<1>2. ASSUME NEW c \in Clients, NEW n \in OrdNos, BrokerTakes(c, n)
      PROVE  BookMove
  <2> DEFINE b == [st |-> "working", mkt |-> MarketOf[c], org |-> 0,
                   owner |-> c, qty |-> Qty, execs |-> 0]
  <2>1. b \in BrkType /\ b.owner = c /\ b.qty = Qty /\ b.execs = 0 /\ b.st = "working"
    BY LiveAssumption DEF BrkType, Rows
  <2>2. brk' = [brk EXCEPT ![n] = b] /\ brk[n].st = "none" /\ pc[c] = "sending"
    BY <1>2 DEF BrokerTakes, NextOrdNo
  <2> HIDE DEF b
  <2>3. brk'[n].owner = c /\ Open(n)' <= Qty
    BY <1>0, <2>1, <2>2 DEF Open
  <2> QED
    BY <2>1, <2>2, <2>3, OneBookMove DEF NewOrder
<1>3. ASSUME NEW m \in calls, NEW n \in OrdNos, BrokerAmends(m, n)
      PROVE  BookMove
  <2> DEFINE k == m.ordno
             shut == [brk[k] EXCEPT !.st = "closed"]
             on == [brk[k] EXCEPT !.org = k, !.qty = m.qty, !.execs = 0]
  <2>1. /\ k \in OrdNos /\ brk[k] \in BrkType /\ brk[k].st = "working"
        /\ brk[n].st = "none" /\ k # n /\ k # 0
    BY <1>0, <1>3 DEF BrokerAmends, NextOrdNo, CallType
  <2>2. brk' = [brk EXCEPT ![k] = shut, ![n] = on]
    BY <1>0, <1>3, <2>1 DEF BrokerAmends
  <2> HIDE DEF k
  <2>3. /\ shut.owner = brk[k].owner /\ shut.org = brk[k].org /\ shut.st = "closed"
        /\ shut.execs = brk[k].execs /\ on.org = k
    BY <2>1 DEF BrkType
  <2> HIDE DEF shut, on
  <2>4. /\ brk'[k] = shut /\ brk'[n] = on
        /\ \A j \in OrdNos \ {k, n} : brk'[j] = brk[j]
    BY <1>0, <2>1, <2>2
  <2>5. \A j \in OrdNos : Open(j) \in Int /\ brk[j].execs \in Int
    BY <1>0 DEF Open, BrkType
  <2>6. \A j \in OrdNos \ {k, n} : brk[j].st # "none" => OldOrder(j)
    <3>1. \A j \in OrdNos \ {k, n} : Open(j)' = Open(j)
      BY <2>4 DEF Open
    <3> SUFFICES ASSUME NEW j \in OrdNos \ {k, n}, brk[j].st # "none"
                 PROVE  OldOrder(j)
      OBVIOUS
    <3>2. brk'[j] = brk[j] /\ Open(j)' = Open(j)
      BY <2>4, <3>1
    <3>3. Open(j) \in Int /\ brk[j].execs \in Int
      BY <2>5
    <3>4. Open(j)' <= Open(j) /\ brk[j].execs <= brk'[j].execs
      BY <3>2, <3>3
    <3> QED
      BY <3>2, <3>4 DEF OldOrder
  <2>7. OldOrder(k)
    <3>1. Open(k)' = 0
      BY <2>3, <2>4 DEF Open
    <3>2. 0 <= Open(k)
      <4>1. brk[k].execs < brk[k].qty /\ brk[k].execs \in Int /\ brk[k].qty \in Int
        BY <1>0, <2>1 DEF WorkingHasMore, BrkType
      <4> QED
        BY <2>1, <4>1 DEF Open
    <3>3. /\ brk'[k].st = "closed" /\ brk'[k].owner = brk[k].owner
          /\ brk'[k].org = brk[k].org /\ brk'[k].execs = brk[k].execs
      BY <2>3, <2>4
    <3>4. brk[k].execs \in Int /\ Open(k) \in Int
      BY <2>1, <2>5
    <3>5. brk[k].execs <= brk'[k].execs /\ Open(k)' <= Open(k)
      BY <3>1, <3>2, <3>3, <3>4
    <3> QED
      BY <3>3, <3>5 DEF OldOrder
  <2>8. NewOrder(n)
    BY <2>1, <2>3, <2>4 DEF NewOrder
  <2> QED
    BY <2>1, <2>4, <2>6, <2>7, <2>8 DEF BookMove
<1>4. ASSUME NEW m \in calls, BrokerCancels(m)
      PROVE  BookMove
  <2> DEFINE k == m.ordno
             less == [brk[k] EXCEPT !.qty = @ - m.qty]
             shut == [brk[k] EXCEPT !.st = "closed"]
             b == IF m.qty < Open(k) THEN less ELSE shut
  <2>1. /\ k \in OrdNos /\ brk[k] \in BrkType /\ brk[k].st = "working" /\ m.qty \in 1..Qty
        /\ brk[k].execs < brk[k].qty /\ brk[k].qty \in 0..Qty /\ brk[k].execs \in 0..Qty
    BY <1>0, <1>4 DEF BrokerCancels, CallType, WorkingHasMore, BrkType
  <2>2. brk' = [brk EXCEPT ![k] = b]
    BY <1>0, <1>4, <2>1 DEF BrokerCancels
  <2>3. Open(k) = brk[k].qty - brk[k].execs
    BY <2>1 DEF Open
  <2>4. b \in BrkType
    <3>1. m.qty < Open(k) => brk[k].qty - m.qty \in 0..Qty
      BY <2>1, <2>3
    <3> HIDE DEF k
    <3> QED
      BY <2>1, <3>1 DEF BrkType
  <2> HIDE DEF k
  <2>5. /\ b.owner = brk[k].owner /\ b.org = brk[k].org /\ b.execs = brk[k].execs
        /\ \/ b.st = "working" /\ b.qty = brk[k].qty - m.qty
           \/ b.st = "closed"
    BY <2>1 DEF BrkType
  <2> HIDE DEF b
  <2>6. brk'[k] = b
    BY <1>0, <2>1, <2>2
  <2>7. Open(k)' <= Open(k)
    <3>1. Open(k)' = IF b.st = "working" THEN b.qty - b.execs ELSE 0
      BY <2>6 DEF Open
    <3> QED
      BY <2>1, <2>3, <2>5, <3>1
  <2>8. OldOrder(k)
    BY <2>1, <2>5, <2>6, <2>7 DEF OldOrder
  <2> QED
    BY <2>1, <2>2, <2>4, <2>8, OneBookMove
<1>5. ASSUME NEW n \in OrdNos, BrokerExecutes(n)
      PROVE  BookMove
  <2> DEFINE e == brk[n].execs + 1
             s == IF e = brk[n].qty THEN "closed" ELSE "working"
             b == [brk[n] EXCEPT !.execs = e, !.st = s]
  <2>1. /\ brk[n] \in BrkType /\ brk[n].st = "working" /\ brk[n].execs < brk[n].qty
        /\ brk[n].qty \in 0..Qty /\ brk[n].execs \in 0..Qty
    BY <1>0, <1>5 DEF BrokerExecutes, WorkingHasMore, BrkType
  <2>2. brk' = [brk EXCEPT ![n] = b]
    BY <1>0, <1>5, <2>1 DEF BrokerExecutes
  <2>3. e \in 0..Qty /\ s \in {"working", "closed"}
    BY <2>1
  <2>4. b \in BrkType /\ b.owner = brk[n].owner /\ b.org = brk[n].org /\ b.execs = e
        /\ b.st = s /\ b.qty = brk[n].qty
    <3> HIDE DEF e, s
    <3> QED
      BY <2>1, <2>3 DEF BrkType
  <2> HIDE DEF b
  <2>5. brk'[n] = b
    BY <1>0, <2>2
  <2>6. Open(n)' <= Open(n)
    <3>1. Open(n)' = IF s = "working" THEN brk[n].qty - e ELSE 0
      BY <2>4, <2>5 DEF Open
    <3>2. Open(n) = brk[n].qty - brk[n].execs
      BY <2>1 DEF Open
    <3> QED
      BY <2>1, <3>1, <3>2
  <2>7. OldOrder(n)
    BY <2>1, <2>3, <2>4, <2>5, <2>6 DEF OldOrder
  <2> QED
    BY <2>1, <2>2, <2>4, <2>7, OneBookMove
<1>6. ASSUME NEW n \in OrdNos, ForeignOrder(n)
      PROVE  BookMove
  <2>1. PICK f \in Foreign :
          brk' = [brk EXCEPT ![n] = [Unused(n) EXCEPT !.st = "working", !.mkt = f[2], !.qty = 1]]
    BY <1>6 DEF ForeignOrder
  <2> DEFINE b == [Unused(n) EXCEPT !.st = "working", !.mkt = f[2], !.qty = 1]
  <2>2. f[2] \in MarketSet /\ 1 \in 0..Qty /\ Unused(n) \in BrkType /\ Unused(n).owner = n
    BY LiveAssumption, BlankTypes DEF Unused
  <2>3. b \in BrkType /\ b.owner = n
    BY <2>2 DEF BrkType
  <2>4. brk[n].st = "none" /\ brk' = [brk EXCEPT ![n] = b]
    BY <1>6, <2>1 DEF ForeignOrder, NextOrdNo
  <2> HIDE DEF b
  <2>5. NewOrder(n)
    BY <1>0, <2>3, <2>4 DEF NewOrder
  <2> QED
    BY <2>3, <2>4, <2>5, OneBookMove
<1>7. UNCHANGED brk \/ (\E c \in Clients, n \in OrdNos : BrokerTakes(c, n))
        \/ (\E m \in calls, n \in OrdNos : BrokerAmends(m, n))
        \/ (\E m \in calls : BrokerCancels(m))
        \/ (\E n \in OrdNos : BrokerExecutes(n) \/ ForeignOrder(n))
  BY DEF Next, vars, PlaceStep, PlaceAnswer, Approve, Submit, RecordAck, RecordRefusal,
     RecordDoubt, BrokerRefuses, RecStep, RecStart, RecList, RecFetch, RecFetchFails,
     RecOrphanFill, RecPositions, RecPositionsFail, RecRaises, RecOver, RecApply, RecFollows,
     RecOrphan, RecClashes, CallStep, Amend, Cancel, Call, RecordAmend, RecordCancel,
     CallAnswer, BrokerDeclines, BootStep, BootFinish, BootFails, Crash
<1> QED
  BY <1>1, <1>2, <1>3, <1>4, <1>5, <1>6, <1>7

\* The numbers a run has seen are those of the orders of the rows.
SeenOwn ==
  \A p \in Procs, r \in Rows : rec[p].seen[r] # 0 =>
    brk[rec[p].seen[r]].st # "none" /\ brk[rec[p].seen[r]].owner = OwnerOf(r)

\* A page is never ahead of the broker.
ViewInv ==
  \A p \in Procs, n \in OrdNos : rec[p].view[n] # -1 =>
    rec[p].view[n] <= brk[n].execs /\ Open(n) <= rec[p].left[n]

\* A row has at most one execution of a number, which is one of its order, and
\* no more than the broker has executed of it.
FillInv ==
  \A r \in Rows : \A e \in row[r].fills :
    /\ brk[e[1]].st # "none" /\ brk[e[1]].owner = OwnerOf(r) /\ e[2] <= brk[e[1]].execs
    /\ \A f \in row[r].fills : e[1] = f[1] => e = f

BookedInv == SeenOwn /\ ViewInv /\ FillInv

LEMMA InitBookedInv == Init => BookedInv
  BY DEF Init, BookedInv, SeenOwn, ViewInv, FillInv, IdleRec, NoRow

\* What a step may do to the pages and numbers of a run, and to the executions
\* of a row.
RunMove(p) ==
  /\ \A r \in Rows : \/ rec'[p].seen[r] = 0 \/ rec'[p].seen[r] = rec[p].seen[r]
                     \/ row[r].ordno # 0 /\ rec'[p].seen[r] = row[r].ordno
  /\ \A n \in OrdNos :
       \/ rec'[p].view[n] = -1
       \/ rec'[p].view[n] = rec[p].view[n] /\ rec'[p].left[n] = rec[p].left[n]
       \/ /\ brk[n].st # "none"
          /\ rec'[p].view[n] = brk[n].execs /\ rec'[p].left[n] = Open(n)

FillMove(r) ==
  \/ row'[r].fills = row[r].fills
  \/ row'[r].fills = {}
  \/ \E p \in Procs, n \in OrdNos :
       /\ rec[p].view[n] # -1 /\ brk[n].owner = OwnerOf(r) /\ Exists(r)
       /\ \A e \in row[r].fills : e[1] # n
       /\ row'[r].fills = row[r].fills \cup {<<n, rec[p].view[n]>>}

LEMMA OwnerStays ==
  ASSUME DoubledInv, BookMove, NEW r \in Rows, Exists(r)
  PROVE  OwnerOf(r)' = OwnerOf(r)
<1>1. r \in OrdNos => brk[r].st # "none"
  BY DEF DoubledInv, NumberInv
<1> QED
  BY <1>1, Owners DEF BookMove, OldOrder

LEMMA BookInts ==
  \A b \in BrkType : b.execs \in Int /\ b.qty \in Int
  BY DEF BrkType

LEMMA PageInts ==
  \A x \in RecType, n \in OrdNos : x.view[n] \in Int /\ x.left[n] \in Int
<1> SUFFICES ASSUME NEW x \in RecType, NEW n \in OrdNos
             PROVE  x.view[n] \in Int /\ x.left[n] \in Int
  OBVIOUS
<1>1. x.view \in [OrdNos -> (-1)..Qty] /\ x.left \in [OrdNos -> 0..Qty]
  BY DEF RecType
<1>2. x.view[n] \in (-1)..Qty /\ x.left[n] \in 0..Qty
  BY <1>1
<1> QED
  BY <1>2, ConstantTypes

LEMMA BookedKept ==
  ASSUME DoubledInv, BookedInv, BookMove, \A p \in Procs : RunMove(p),
         \A r \in Rows : FillMove(r), brk' \in [OrdNos -> BrkType]
  PROVE  BookedInv'
<1> USE ConstantTypes
<1>0. /\ row \in [Rows -> RowType] /\ rec \in [Procs -> RecType]
      /\ brk \in [OrdNos -> BrkType]
  BY DEF DoubledInv, LiveRowInv, TypeInv, TypeOK
<1>1. SeenOwn'
  <2> SUFFICES ASSUME NEW p \in Procs, NEW r \in Rows, rec'[p].seen[r] # 0
               PROVE  /\ brk'[rec'[p].seen[r]].st # "none"
                      /\ brk'[rec'[p].seen[r]].owner = OwnerOf(r)'
    BY DEF SeenOwn
  <2> DEFINE n == rec'[p].seen[r]
  <2>1. n = rec[p].seen[r] \/ (row[r].ordno # 0 /\ n = row[r].ordno)
    BY DEF RunMove
  <2>2. /\ row[r].ordno # 0 /\ n \in OrdNos
        /\ brk[n].st # "none" /\ brk[n].owner = OwnerOf(r)
    <3>1. CASE n = rec[p].seen[r]
      <4>1. n \in OrdNos
        BY <1>0, <3>1 DEF RecType
      <4> QED
        BY <3>1, <4>1 DEF BookedInv, SeenOwn, DoubledInv, SeenInv
    <3>2. CASE row[r].ordno # 0 /\ n = row[r].ordno
      <4>1. n \in OrdNos
        BY <1>0, <3>2 DEF RowType
      <4> QED
        BY <3>2, <4>1 DEF DoubledInv, NumberInv
    <3> QED
      BY <2>1, <3>1, <3>2
  <2>3. OwnerOf(r)' = OwnerOf(r)
    BY <2>2, HasNumber, OwnerStays
  <2> HIDE DEF n
  <2>4. brk'[n].st # "none" /\ brk'[n].owner = OwnerOf(r)'
    BY <2>2, <2>3 DEF BookMove, OldOrder
  <2> QED
    BY <2>4 DEF n
<1>2. ViewInv'
  <2> SUFFICES ASSUME NEW p \in Procs, NEW n \in OrdNos, rec'[p].view[n] # -1
               PROVE  rec'[p].view[n] <= brk'[n].execs /\ Open(n)' <= rec'[p].left[n]
    BY DEF ViewInv
  <2>1. /\ brk[n].st # "none"
        /\ \/ rec'[p].view[n] = rec[p].view[n] /\ rec'[p].left[n] = rec[p].left[n]
              /\ rec[p].view[n] <= brk[n].execs /\ Open(n) <= rec[p].left[n]
              /\ rec[p].view[n] \in Int /\ rec[p].left[n] \in Int
           \/ rec'[p].view[n] = brk[n].execs /\ rec'[p].left[n] = Open(n)
    <3>1. \/ rec'[p].view[n] = rec[p].view[n] /\ rec'[p].left[n] = rec[p].left[n]
          \/ /\ brk[n].st # "none"
             /\ rec'[p].view[n] = brk[n].execs /\ rec'[p].left[n] = Open(n)
      BY DEF RunMove
    <3>2. rec[p].view[n] # -1 => /\ rec[p].view[n] <= brk[n].execs
                                 /\ Open(n) <= rec[p].left[n] /\ brk[n].st # "none"
      BY DEF BookedInv, ViewInv, DoubledInv, SeenInv
    <3>3. rec[p].view[n] \in Int /\ rec[p].left[n] \in Int
      BY <1>0, PageInts
    <3> QED
      BY <3>1, <3>2, <3>3
  <2>2. brk[n].execs <= brk'[n].execs /\ Open(n)' <= Open(n)
    BY <2>1 DEF BookMove, OldOrder
  <2>3. /\ brk[n].execs \in Int /\ brk'[n].execs \in Int
        /\ Open(n) \in Int /\ Open(n)' \in Int
    <3>1. /\ brk[n].execs \in Int /\ brk'[n].execs \in Int
          /\ brk[n].qty \in Int /\ brk'[n].qty \in Int
      BY <1>0, BookInts
    <3> QED
      BY <3>1 DEF Open
  <2> QED
    BY <2>1, <2>2, <2>3
<1>3. FillInv'
  <2> SUFFICES ASSUME NEW r \in Rows, NEW e \in row'[r].fills
               PROVE  /\ brk'[e[1]].st # "none" /\ brk'[e[1]].owner = OwnerOf(r)'
                      /\ e[2] <= brk'[e[1]].execs
                      /\ \A f \in row'[r].fills : e[1] = f[1] => e = f
    BY DEF FillInv
  <2> DEFINE Good(x) == /\ x[1] \in OrdNos /\ brk[x[1]].st # "none"
                        /\ brk[x[1]].owner = OwnerOf(r) /\ OwnerOf(r)' = OwnerOf(r)
                        /\ x[2] <= brk[x[1]].execs /\ x[2] \in Int
  <2>1. \A x \in row[r].fills : Good(x) /\ \A f \in row[r].fills : x[1] = f[1] => x = f
    <3>1. \A x \in row[r].fills : x[1] \in OrdNos /\ x[2] \in Int
      BY <1>0 DEF RowType, Events
    <3>2. row[r].fills # {} => OwnerOf(r)' = OwnerOf(r)
      BY OwnerStays DEF DoubledInv, LiveRowInv, NoneIsEmpty
    <3>3. \A x \in row[r].fills :
            /\ brk[x[1]].st # "none" /\ brk[x[1]].owner = OwnerOf(r) /\ x[2] <= brk[x[1]].execs
            /\ \A f \in row[r].fills : x[1] = f[1] => x = f
      BY DEF BookedInv, FillInv
    <3> QED
      BY <3>1, <3>2, <3>3
  <2>2. \A x \in row'[r].fills : Good(x) /\ \A f \in row'[r].fills : x[1] = f[1] => x = f
    <3>1. CASE row'[r].fills = row[r].fills \/ row'[r].fills = {}
      <4> HIDE DEF Good
      <4> QED
        BY <2>1, <3>1
    <3>2. ASSUME NEW p \in Procs, NEW n \in OrdNos, rec[p].view[n] # -1,
                 brk[n].owner = OwnerOf(r), Exists(r), \A x \in row[r].fills : x[1] # n,
                 row'[r].fills = row[r].fills \cup {<<n, rec[p].view[n]>>}
          PROVE  \A x \in row'[r].fills : Good(x) /\ \A f \in row'[r].fills : x[1] = f[1] => x = f
      <4> DEFINE y == <<n, rec[p].view[n]>>
      <4>1. /\ rec[p].view[n] <= brk[n].execs /\ rec[p].view[n] \in Int /\ brk[n].st # "none"
        BY <1>0, <3>2, PageInts DEF BookedInv, ViewInv, DoubledInv, SeenInv
      <4>3. OwnerOf(r)' = OwnerOf(r)
        BY <3>2, OwnerStays
      <4>4. Good(y) /\ y[1] = n
        BY <3>2, <4>1, <4>3
      <4> HIDE DEF Good, y
      <4> QED
        BY <2>1, <3>2, <4>4 DEF y
    <3> HIDE DEF Good
    <3> QED
      BY <3>1, <3>2 DEF FillMove
  <2>3. Good(e) /\ \A f \in row'[r].fills : e[1] = f[1] => e = f
    <3> HIDE DEF Good
    <3> QED
      BY <2>2
  <2> DEFINE k == e[1]
  <2>4. k \in OrdNos /\ brk[k] \in BrkType /\ brk'[k] \in BrkType
    BY <1>0, <2>3
  <2>5. brk[k].execs \in Int /\ brk'[k].execs \in Int
    BY <2>4, BookInts
  <2>6. /\ brk'[k].st # "none" /\ brk'[k].owner = brk[k].owner
        /\ brk[k].execs <= brk'[k].execs
    BY <2>3, <2>4 DEF BookMove, OldOrder
  <2>7. e[2] \in Int /\ e[2] <= brk[k].execs
    BY <2>3
  <2>8. e[2] <= brk'[k].execs
    BY <2>5, <2>6, <2>7
  <2> QED
    BY <2>3, <2>6, <2>8
<1> QED
  BY <1>1, <1>2, <1>3 DEF BookedInv

LEMMA StepRunMove ==
  ASSUME DoubledInv, [Next]_vars
  PROVE  \A p \in Procs : RunMove(p)
<1> USE ConstantTypes
<1>0. rec \in [Procs -> RecType]
  BY DEF DoubledInv, LiveRowInv, TypeInv, TypeOK
<1>1. ASSUME NEW p \in Procs, \/ rec'[p] = rec[p]
                              \/ /\ \A r \in Rows : rec'[p].seen[r] = 0
                                 /\ \A n \in OrdNos : rec'[p].view[n] = -1
      PROVE  RunMove(p)
  BY <1>1 DEF RunMove
<1>2. /\ \A r \in Rows : IdleRec.seen[r] = 0
      /\ \A n \in OrdNos : IdleRec.view[n] = -1
  BY DEF IdleRec
<1>3. CASE UNCHANGED rec
  BY <1>1, <1>3
<1>4. CASE BootStep \/ Crash
  <2>1. \A p \in Procs : rec'[p] = rec[p] \/ rec'[p] = IdleRec
    BY <1>0, <1>4 DEF BootStep, BootFinish, BootFails, Crash
  <2> QED
    BY <1>1, <1>2, <2>1
<1>5. ASSUME NEW p \in Procs, RecStep(p)
      PROVE  \A q \in Procs : RunMove(q)
  <2>1. \A q \in Procs \ {p} : rec'[q] = rec[q]
    BY <1>0, <1>5 DEF RecStep, RecStart, RecList, RecFetch, RecFetchFails, RecOrphanFill,
       RecPositions, RecPositionsFail, RecRaises, RecOver, RecApply, RecFollows,
       RecOrphan, RecClashes
  <2> SUFFICES RunMove(p)
    BY <1>1, <2>1
  <2>2. CASE RecStart(p) \/ (\E r \in Rows : RecApply(p, r)) \/ \E n \in OrdNos : RecOrphan(p, n)
    <3> DEFINE Same == /\ rec'[p].seen = rec[p].seen /\ rec'[p].view = rec[p].view
                       /\ rec'[p].left = rec[p].left
    <3>1. RecStart(p) => Same
      BY <1>0 DEF RecStart, RecType
    <3>2. ASSUME NEW r \in Rows, RecApply(p, r) PROVE Same
      BY <1>0, <3>2 DEF RecApply, RecType
    <3>3. ASSUME NEW n \in OrdNos, RecOrphan(p, n) PROVE Same
      BY <1>0, <3>3 DEF RecOrphan, RecType
    <3>4. Same
      <4> HIDE DEF Same
      <4> QED
        BY <2>2, <3>1, <3>2, <3>3
    <3> QED
      BY <3>4 DEF RunMove
  <2>3. CASE RecOrphanFill(p) \/ \E n \in OrdNos : RecFollows(p, n)
    <3> DEFINE Less == /\ rec'[p].seen = rec[p].seen /\ rec'[p].left = rec[p].left
                       /\ \A k \in OrdNos : rec'[p].view[k] \in {-1, rec[p].view[k]}
    <3>1. RecOrphanFill(p) => Less
      BY <1>0 DEF RecOrphanFill, RecType
    <3>2. ASSUME NEW n \in OrdNos, RecFollows(p, n) PROVE Less
      BY <1>0, <3>2 DEF RecFollows, RecType
    <3>3. Less
      <4> HIDE DEF Less
      <4> QED
        BY <2>3, <3>1, <3>2
    <3> QED
      BY <3>3 DEF RunMove
  <2>4. CASE RecList(p)
    <3> DEFINE open == {r \in Rows : row[r].status \in NonTerminal /\ MarketRow(r) = Market(p)}
               seen == [r \in Rows |-> IF r \in open THEN row[r].ordno ELSE 0]
    <3>1. rec' = [rec EXCEPT ![p].pc = "query", ![p].todo = open, ![p].seen = seen]
      BY <2>4 DEF RecList
    <3>2. \A r \in Rows : seen[r] = 0 \/ (row[r].ordno # 0 /\ seen[r] = row[r].ordno)
      OBVIOUS
    <3> HIDE DEF open, seen
    <3>3. rec'[p].seen = seen /\ rec'[p].view = rec[p].view /\ rec'[p].left = rec[p].left
      BY <1>0, <3>1 DEF RecType
    <3> QED
      BY <3>2, <3>3 DEF RunMove
  <2>5. CASE RecFetch(p)
    <3>1. PICK page \in SUBSET Listed(Market(p)) : rec' = [rec EXCEPT ![p].pc = "orders",
            ![p].todo = {r \in @ : rec[p].seen[r] \in page},
            ![p].view = [n \in OrdNos |-> IF n \in page THEN brk[n].execs ELSE -1],
            ![p].left = [n \in OrdNos |-> IF n \in page THEN Open(n) ELSE 0]]
      BY <2>5 DEF RecFetch
    <3> DEFINE todo == {r \in rec[p].todo : rec[p].seen[r] \in page}
               view == [n \in OrdNos |-> IF n \in page THEN brk[n].execs ELSE -1]
               left == [n \in OrdNos |-> IF n \in page THEN Open(n) ELSE 0]
    <3>2. rec' = [rec EXCEPT ![p] = [rec[p] EXCEPT !.pc = "orders", !.todo = todo,
                                                   !.view = view, !.left = left]]
      BY <1>0, <3>1
    <3>3. \A n \in OrdNos : \/ view[n] = -1
                            \/ brk[n].st # "none" /\ view[n] = brk[n].execs /\ left[n] = Open(n)
      BY DEF Listed
    <3> HIDE DEF todo, view, left
    <3>4. rec'[p].seen = rec[p].seen /\ rec'[p].view = view /\ rec'[p].left = left
      BY <1>0, <3>2 DEF RecType
    <3> QED
      BY <3>3, <3>4 DEF RunMove
  <2>6. CASE \/ RecFetchFails(p) \/ RecPositions(p) \/ RecPositionsFail(p)
             \/ RecRaises(p) \/ RecOver(p) \/ \E n \in OrdNos : RecClashes(p, n)
    <3>1. PICK x : /\ rec' = [rec EXCEPT ![p] = x]
                   /\ x.seen = IdleRec.seen /\ x.view = IdleRec.view
      <4>1. CASE RecFetchFails(p) \/ RecPositions(p) \/ RecPositionsFail(p)
        <5>1. PICK ok : rec' = [rec EXCEPT ![p] = NextMarket(p, ok)]
          BY <4>1 DEF RecFetchFails, RecPositions, RecPositionsFail
        <5>2. NextMarket(p, ok).seen = IdleRec.seen /\ NextMarket(p, ok).view = IdleRec.view
          BY DEF NextMarket, IdleRec
        <5> QED
          BY <5>1, <5>2
      <4>2. CASE RecRaises(p) \/ RecOver(p) \/ \E n \in OrdNos : RecClashes(p, n)
        <5>1. PICK x \in {IdleRec, [IdleRec EXCEPT !.pc = "aborted"],
                          [IdleRec EXCEPT !.pc = "clashed"]} : rec' = [rec EXCEPT ![p] = x]
          BY <4>2 DEF RecRaises, RecOver, RecClashes
        <5>2. x.seen = IdleRec.seen /\ x.view = IdleRec.view
          BY DEF IdleRec
        <5> QED
          BY <5>1, <5>2
      <4> QED
        BY <2>6, <4>1, <4>2
    <3> QED
      BY <1>0, <1>1, <1>2, <3>1
  <2> QED
    BY <1>5, <2>2, <2>3, <2>4, <2>5, <2>6 DEF RecStep
<1>6. ASSUME NEW c \in Clients, PlaceStep(c) \/ PlaceAnswer(c)
      PROVE  rec' = rec
  BY <1>6 DEF PlaceStep, PlaceAnswer, Approve, Submit, RecordAck, RecordRefusal, RecordDoubt,
     BrokerTakes, BrokerRefuses
<1>7. CallStep \/ CallAnswer => rec' = rec
  BY DEF CallStep, Amend, Cancel, Call, RecordAmend, RecordCancel,
     CallAnswer, BrokerAmends, BrokerCancels, BrokerDeclines
<1>8. ASSUME NEW n \in OrdNos, BrokerExecutes(n) \/ ForeignOrder(n)
      PROVE  rec' = rec
  BY <1>8 DEF BrokerExecutes, ForeignOrder
<1>9. UNCHANGED vars => rec' = rec
  BY DEF vars
<1> QED
  BY <1>3, <1>4, <1>5, <1>6, <1>7, <1>8, <1>9 DEF Next

LEMMA StepFillMove ==
  ASSUME DoubledInv, BookedInv, [Next]_vars
  PROVE  \A r \in Rows : FillMove(r)
<1> USE ConstantTypes
<1>0. /\ row \in [Rows -> RowType] /\ rec \in [Procs -> RecType] /\ calls \subseteq CallType
      /\ Clients \subseteq Rows /\ OrdNos \subseteq Rows
  BY DEF DoubledInv, LiveRowInv, TypeInv, TypeOK, Rows
<1>1. ASSUME NEW c \in Clients, PlaceStep(c)
      PROVE  \A r \in Rows : row'[r].fills \in {{}, row[r].fills}
  <2>1. CASE Approve(c)
    BY <1>0, <2>1 DEF Approve, NoRow, RowType
  <2>2. CASE Submit(c) \/ RecordRefusal(c) \/ RecordDoubt(c)
    <3>1. PICK s : row' = SetStatus(c, s)
      BY <2>2 DEF Submit, RecordRefusal, RecordDoubt
    <3>2. \A r \in Rows : row'[r].fills = row[r].fills
      BY <1>0, <3>1 DEF SetStatus, RowType
    <3> QED
      BY <3>2
  <2>3. CASE RecordAck(c)
    <3> DEFINE t == SetStatus(c, "accepted")
    <3>1. /\ t \in [Rows -> RowType] /\ \A r \in Rows : t[r].fills = row[r].fills
      <4>1. t \in [Rows -> RowType]
        BY <1>0, SetStatusType DEF RowState, OrderState, DoubledInv, LiveRowInv, TypeInv
      <4> QED
        BY <1>0, <4>1 DEF SetStatus, RowType
    <3>2. row' = row \/ row' = [t EXCEPT ![c].ordno = got[c]]
      BY <2>3 DEF RecordAck
    <3> HIDE DEF t
    <3>3. ASSUME row' = [t EXCEPT ![c].ordno = got[c]], NEW r \in Rows
          PROVE  row'[r].fills = t[r].fills
      <4>1. CASE r = c
        <5>1. row'[c] = [t[c] EXCEPT !.ordno = got[c]] /\ t[c] \in RowType
          BY <1>0, <3>1, <3>3
        <5> QED
          BY <4>1, <5>1 DEF RowType
      <4>2. CASE r # c
        BY <3>1, <3>3, <4>2
      <4> QED
        BY <4>1, <4>2
    <3>4. \A r \in Rows : row'[r].fills = row[r].fills
      BY <3>1, <3>2, <3>3
    <3> QED
      BY <3>4
  <2> QED
    BY <1>1, <2>1, <2>2, <2>3 DEF PlaceStep
<1>2. CallStep => \A r \in Rows : row'[r].fills = row[r].fills
  <2>1. ASSUME NEW m \in calls, RecordAmend(m), NEW r \in Rows
        PROVE  row'[r].fills = row[r].fills
    <3>1. row' = row \/ row' = [row EXCEPT ![m.row] = [row[m.row] EXCEPT !.ordno = m.new,
                                                                      !.qty = m.qty]]
      BY <1>0, <2>1 DEF RecordAmend
    <3>2. m.row \in Rows /\ row[m.row] \in RowType
      BY <1>0 DEF CallType
    <3>3. [row[m.row] EXCEPT !.ordno = m.new, !.qty = m.qty].fills = row[m.row].fills
      BY <3>2 DEF RowType
    <3> QED
      BY <1>0, <3>1, <3>2, <3>3
  <2>2. ASSUME NEW m \in calls, RecordCancel(m), NEW r \in Rows
        PROVE  row'[r].fills = row[r].fills
    <3>1. PICK q \in Rows : row' = row \/ row' = SetStatus(q, "canceled")
      BY <1>0, <2>2 DEF RecordCancel, CallType
    <3>2. SetStatus(q, "canceled")[r].fills = row[r].fills
      BY <1>0 DEF SetStatus, RowType
    <3> QED
      BY <3>1, <3>2
  <2>3. \A r \in Rows : Cancel(r) \/ (\E q \in AmendQty : Amend(r, q)) => row' = row
    BY DEF Amend, Cancel, Call
  <2> QED
    BY <2>1, <2>2, <2>3 DEF CallStep
<1>3. ASSUME NEW p \in Procs, NEW s \in Rows, NEW n \in OrdNos, rec[p].view[n] # -1,
             brk[n].owner = OwnerOf(s), Exists(s),
             row' = [row EXCEPT ![s] = ApplyFill(@, n, rec[p].view[n], rec[p].left[n])]
      PROVE  \A r \in Rows : FillMove(r)
  <2> DEFINE o == ApplyFill(row[s], n, rec[p].view[n], rec[p].left[n])
  <2>1. \/ o = row[s]
        \/ (\A e \in row[s].fills : e[1] # n)
           /\ o.fills = row[s].fills \cup {<<n, rec[p].view[n]>>}
    BY <1>0 DEF ApplyFill, RowType
  <2>2. row' = [row EXCEPT ![s] = o]
    BY <1>0, <1>3
  <2> HIDE DEF o
  <2>3. row'[s] = o /\ \A r \in Rows \ {s} : row'[r] = row[r]
    BY <1>0, <2>2
  <2>4. \A r \in Rows \ {s} : FillMove(r)
    BY <2>3 DEF FillMove
  <2>5. FillMove(s)
    <3>1. CASE o = row[s]
      BY <2>3, <3>1 DEF FillMove
    <3>2. CASE /\ \A e \in row[s].fills : e[1] # n
               /\ o.fills = row[s].fills \cup {<<n, rec[p].view[n]>>}
      <4>1. row'[s].fills = row[s].fills \cup {<<n, rec[p].view[n]>>}
        BY <2>3, <3>2
      <4> QED
        BY <1>3, <3>2, <4>1 DEF FillMove
    <3> QED
      BY <2>1, <3>1, <3>2
  <2> QED
    BY <2>4, <2>5
<1>4. ASSUME NEW p \in Procs, NEW s \in Rows, RecApply(p, s)
      PROVE  \A r \in Rows : FillMove(r)
  <2> DEFINE n == rec[p].seen[s]
  <2>1. n \in OrdNos /\ rec[p].view[n] # -1 /\ n # 0
    BY <1>4 DEF RecApply, DoubledInv, LiveRowInv, TypeInv, OnPage
  <2>2. brk[n].owner = OwnerOf(s) /\ Exists(s)
    BY <1>4, <2>1 DEF BookedInv, SeenOwn, RecApply, DoubledInv, LiveRowInv, WritesExisting
  <2>3. row' = [row EXCEPT ![s] = ApplyFill(@, n, rec[p].view[n], rec[p].left[n])]
    BY <1>4 DEF RecApply
  <2> HIDE DEF n
  <2> QED
    BY <1>3, <2>1, <2>2, <2>3
<1>5. ASSUME NEW p \in Procs, RecOrphanFill(p)
      PROVE  \A r \in Rows : FillMove(r)
  <2> DEFINE n == rec[p].orphan
  <2>1. n \in OrdNos /\ n \in Rows /\ rec[p].view[n] # -1 /\ Exists(n)
    BY <1>0, <1>5 DEF RecOrphanFill, RecType, DoubledInv, LiveRowInv, TypeInv, OnPage,
       WritesExisting
  <2>2. brk[n].owner = OwnerOf(n)
    BY <2>1, Owners
  <2>3. row' = [row EXCEPT ![n] = ApplyFill(@, n, rec[p].view[n], rec[p].left[n])]
    BY <1>5 DEF RecOrphanFill
  <2> HIDE DEF n
  <2> QED
    BY <1>3, <2>1, <2>2, <2>3
<1>6. ASSUME NEW p \in Procs, NEW n \in OrdNos, RecOrphan(p, n)
      PROVE  \A r \in Rows : row'[r].fills \in {{}, row[r].fills}
  BY <1>0, <1>6 DEF RecOrphan, NoRow, RowType
<1>7. ASSUME NEW p \in Procs,
             \/ RecStart(p) \/ RecList(p) \/ RecFetch(p) \/ RecFetchFails(p)
             \/ RecPositions(p) \/ RecPositionsFail(p) \/ RecRaises(p) \/ RecOver(p)
             \/ \E n \in OrdNos : RecFollows(p, n) \/ RecClashes(p, n)
      PROVE  row' = row
  BY <1>7 DEF RecStart, RecList, RecFetch, RecFetchFails,
     RecPositions, RecPositionsFail, RecRaises, RecOver, RecFollows, RecClashes
<1>8. (\E c \in Clients : PlaceAnswer(c)) \/ CallAnswer \/ BootStep \/ Crash \/ UNCHANGED vars
        \/ (\E n \in OrdNos : BrokerExecutes(n) \/ ForeignOrder(n)) => row' = row
  BY DEF PlaceAnswer, BrokerTakes, BrokerRefuses, CallAnswer, BrokerAmends, BrokerCancels,
     BrokerDeclines, BootStep, BootFinish, BootFails, Crash, vars, BrokerExecutes, ForeignOrder
<1>9. ASSUME \A r \in Rows : row'[r].fills \in {{}, row[r].fills}
      PROVE  \A r \in Rows : FillMove(r)
  BY <1>9 DEF FillMove
<1>10. row' = row => \A r \in Rows : FillMove(r)
  BY DEF FillMove
<1>11. ASSUME NEW p \in Procs, RecStep(p)
       PROVE  \A r \in Rows : FillMove(r)
  BY <1>4, <1>5, <1>6, <1>7, <1>9, <1>10, <1>11 DEF RecStep
<1> QED
  BY <1>1, <1>2, <1>8, <1>9, <1>10, <1>11 DEF Next

LEMMA BookedStep ==
  ASSUME DoubledInv, BookedInv, [Next]_vars
  PROVE  BookedInv'
<1>1. TypeInv /\ BookMove /\ TypeInv'
  BY StepBookMove, StepType DEF DoubledInv, LiveRowInv
<1>2. brk' \in [OrdNos -> BrkType]
  BY <1>1 DEF TypeInv, TypeOK
<1> QED
  BY <1>1, <1>2, StepRunMove, StepFillMove, BookedKept

\* What a row has booked is at most what the broker has executed of its order,
\* for all its numbers together.
ExecutedOf(r) ==
  MapThenSumSet(LAMBDA n : IF brk[n].owner = OwnerOf(r) THEN brk[n].execs ELSE 0, OrdNos)

LEMMA ExecutedIsSum ==
  ASSUME NEW r, IsFiniteSet(OrdNos), NEW w \in [OrdNos -> Nat],
         \A n \in OrdNos : w[n] = IF brk[n].owner = OwnerOf(r) THEN brk[n].execs ELSE 0
  PROVE  \E g : SumFun(w, OrdNos, g) /\ ExecutedOf(r) = g[OrdNos]
<1> DEFINE Of(n) == IF brk[n].owner = OwnerOf(r) THEN brk[n].execs ELSE 0
           Fun(g) == g = [s \in SUBSET OrdNos |-> IF s = {} THEN 0
               ELSE Of(CHOOSE x \in s : TRUE) + g[s \ {CHOOSE x \in s : TRUE}]]
           k == CHOOSE g : Fun(g)
<1>1. \A g : SumFun(w, OrdNos, g) <=> Fun(g)
  <2> TAKE g
  <2>1. \A n \in OrdNos : w[n] = Of(n)
    OBVIOUS
  <2>2. \A s \in SUBSET OrdNos : s # {} => Any(s) \in OrdNos
    BY DEF Any
  <2> HIDE DEF Of
  <2>3. \A s \in SUBSET OrdNos :
          (IF s = {} THEN 0 ELSE w[Any(s)] + g[s \ {Any(s)}])
            = (IF s = {} THEN 0
               ELSE Of(CHOOSE x \in s : TRUE) + g[s \ {CHOOSE x \in s : TRUE}])
    BY <2>1, <2>2 DEF Any
  <2>4. [s \in SUBSET OrdNos |-> IF s = {} THEN 0 ELSE w[Any(s)] + g[s \ {Any(s)}]]
          = [s \in SUBSET OrdNos |-> IF s = {} THEN 0
               ELSE Of(CHOOSE x \in s : TRUE) + g[s \ {CHOOSE x \in s : TRUE}]]
    BY <2>3
  <2> QED
    BY <2>4 DEF SumFun
<1>2. ExecutedOf(r) = k[OrdNos]
  BY DEF ExecutedOf, MapThenSumSet, MapThenFoldSet
<1> HIDE DEF Fun
<1>3. Fun(k)
  BY <1>1, SumFunExists
<1> QED
  BY <1>1, <1>2, <1>3

LEMMA BookedIsExecuted ==
  ASSUME TypeInv, BookedInv
  PROVE  LiveFillsAreExecuted
<1> USE ConstantTypes
<1>0. row \in [Rows -> RowType] /\ brk \in [OrdNos -> BrkType] /\ IsFiniteSet(OrdNos)
  <2>1. IsFiniteSet(1..MaxOrdNo)
    BY FS_Interval
  <2> QED
    BY <2>1 DEF TypeInv, TypeOK, OrdNos
<1> SUFFICES ASSUME NEW r \in Rows
             PROVE  Booked(row[r].fills) <= MapThenSumSet(
                      LAMBDA n : IF brk[n].owner = OwnerOf(r) THEN brk[n].execs ELSE 0, OrdNos)
  BY DEF LiveFillsAreExecuted
<1> DEFINE F == row[r].fills
           w == [e \in F |-> e[2]]
           v == [n \in OrdNos |-> IF brk[n].owner = OwnerOf(r) THEN brk[n].execs ELSE 0]
           to == [e \in F |-> e[1]]
<1>1. /\ F \subseteq Events
      /\ \A e \in F : /\ e[1] \in OrdNos /\ e[2] \in Nat
                      /\ brk[e[1]].owner = OwnerOf(r) /\ e[2] <= brk[e[1]].execs
                      /\ \A f \in F : e[1] = f[1] => e = f
  BY <1>0 DEF RowType, Events, BookedInv, FillInv
<1>2. \A n \in OrdNos : brk[n].execs \in Nat
  BY <1>0 DEF BrkType
<1>3. IsFiniteSet(F)
  <2>1. \A a, b \in F : to[a] = to[b] => a = b
    BY <1>1
  <2>2. to \in Injection(F, OrdNos)
    BY <1>1, <2>1 DEF Injection, IsInjective
  <2> QED
    BY <1>0, <2>2, FS_Injection
<1>4. /\ w \in [F -> Nat] /\ v \in [OrdNos -> Nat] /\ to \in [F -> OrdNos]
      /\ \A e \in F : w[e] = e[2] /\ w[e] <= v[to[e]]
      /\ \A a, b \in F : to[a] = to[b] => a = b
      /\ \A n \in OrdNos : v[n] = IF brk[n].owner = OwnerOf(r) THEN brk[n].execs ELSE 0
  BY <1>1, <1>2
<1> HIDE DEF F, w, v, to
<1>5. PICK g : SumFun(w, F, g) /\ Booked(F) = g[F]
  BY <1>3, <1>4, BookedIsSum
<1>6. PICK h : SumFun(v, OrdNos, h) /\ ExecutedOf(r) = h[OrdNos]
  BY <1>0, <1>4, ExecutedIsSum
<1>7. g[F] <= h[OrdNos]
  BY <1>0, <1>3, <1>4, <1>5, <1>6, SumsCompare
<1> QED
  BY <1>5, <1>6, <1>7 DEF ExecutedOf, F

\* The executions booked in a row never exceed what the broker executed of its
\* order, though every query shows a total, pages are incomplete and late, and
\* an amend or a second row brings more numbers (repositories/orders_repo.py,
\* apply_fill; services/order_service.py:553-696).
THEOREM LiveFillsBounded == Spec => []LiveFillsAreExecuted
<1>1. DoubledInv /\ BookedInv => LiveFillsAreExecuted
  BY BookedIsExecuted DEF DoubledInv, LiveRowInv
<1>2. DoubledInv /\ BookedInv /\ [Next]_vars => DoubledInv' /\ BookedInv'
  BY DoubledStep, BookedStep
<1> QED
  BY <1>1, <1>2, InitDoubledInv, InitBookedInv, PTL DEF Spec

------------------------------------------------------------------------------
(* Closed rows. *)

Shut == {"filled", "canceled", "rejected"}

\* The broker's numbers for one order come from amends.
OneNumber ==
  \A n, k \in OrdNos : brk[n].owner = brk[k].owner => n = k \/ AmendedOf(brk[n].owner)

\* What the table takes for the remaining quantity is never less than what is
\* open at the broker, unless the order was amended.
Left(o) == IF o.rem = -1 THEN o.qty ELSE o.rem

LeftInv ==
  \A r \in Rows, n \in OrdNos :
    Exists(r) /\ brk[n].st = "working" /\ brk[n].owner = OwnerOf(r)
      => AmendedOf(OwnerOf(r)) \/ Open(n) <= Left(row[r])

\* A row without executions has its quantity, and a requested one has the whole.
BlankInv ==
  /\ \A r \in Rows : row[r].rem = -1 => row[r].fills = {}
  /\ \A c \in Clients : Exists(c) /\ row[c].ordno = 0 => row[c].rem = -1 /\ row[c].qty = Qty

\* So a cancel is for all that is open, and a confirmed one has closed it.
CancelInv ==
  \A m \in calls : m.op = "cancel" =>
    \/ AmendedOf(OwnerOf(m.row))
    \/ Open(m.ordno) <= m.qty /\ (m.st = "acked" => brk[m.ordno].st # "working")

ClosedInv ==
  OneNumber /\ LeftInv /\ BlankInv /\ CancelInv /\ LiveClosedIsClosed

LEMMA InitClosedInv == Init => ClosedInv
<1> SUFFICES ASSUME Init PROVE ClosedInv
  OBVIOUS
<1>1. /\ \A r \in Rows : row[r].status = "none" /\ row[r].fills = {}
      /\ \A n \in OrdNos : brk[n].owner = n
      /\ calls = {} /\ Clients \subseteq Rows
  BY DEF Init, NoRow, Unused, Rows
<1>2. OneNumber /\ LeftInv /\ BlankInv /\ CancelInv
  BY <1>1 DEF OneNumber, LeftInv, BlankInv, CancelInv, Exists
<1>3. LiveClosedIsClosed
  BY <1>1 DEF LiveClosedIsClosed
<1> QED
  BY <1>2, <1>3 DEF ClosedInv

\* What a step may do to the quantities of a row, and when it closes the row.
Closing(r) ==
  \/ r \in Clients /\ pc[r] = "refused"
  \/ \E m \in calls : m.op = "cancel" /\ m.st = "acked" /\ m.row = r

StatusMove(r) ==
  /\ row'[r].rem = row[r].rem /\ row'[r].qty = row[r].qty /\ row'[r].fills = row[r].fills
  /\ row'[r].status # "none" => row[r].status # "none"
  /\ row'[r].ordno = 0 => row[r].ordno = 0
  /\ row'[r].status \in Shut => row[r].status \in Shut \/ Closing(r)

CreateMove(r) ==
  /\ row'[r].rem = -1 /\ row'[r].fills = {} /\ row'[r].status \notin Shut
  /\ \/ r \in Clients /\ ~Exists(r) /\ row'[r].qty = Qty
     \/ r \in OrdNos /\ brk[r].st # "none" /\ row'[r].qty = brk[r].qty

BookingMove(r) ==
  /\ Exists(r) /\ row'[r].ordno # 0
  /\ \E p \in Procs, n \in OrdNos :
       /\ rec[p].view[n] # -1 /\ brk[n].owner = OwnerOf(r)
       /\ row'[r].rem = rec[p].left[n]
       /\ row'[r].status \in Shut => row[r].status \in Shut \/ rec[p].left[n] = 0

AmendMove(r) ==
  /\ Exists(r) /\ AmendedOf(OwnerOf(r)) /\ row'[r].ordno # 0
  /\ row'[r].status = row[r].status /\ row'[r].rem = row[r].rem /\ row'[r].fills = row[r].fills

RowMove(r) == StatusMove(r) \/ CreateMove(r) \/ BookingMove(r) \/ AmendMove(r)

LEMMA BookMoveStays ==
  ASSUME DoubledInv, BookMove
  PROVE  /\ BookStays
         /\ \A o : AmendedOf(o) => AmendedOf(o)'
<1>1. BookStays
  BY DEF BookMove, OldOrder, BookStays
<1> QED
  BY <1>1, AmendedStays DEF DoubledInv

\* A new number of an order that has a row: by amend, or for its place request.
LEMMA NewOwned ==
  ASSUME DoubledInv, OneNumber, BookMove, NEW n \in OrdNos, brk[n].st = "none",
         brk'[n] # brk[n], NEW r \in Rows, Exists(r), brk'[n].owner = OwnerOf(r)',
         ~AmendedOf(OwnerOf(r))'
  PROVE  r \in Clients /\ pc[r] = "sending" /\ Open(n)' <= Qty
<1>0. /\ BookInv /\ NumberInv /\ PlaceInv /\ OwnerOf(r)' = OwnerOf(r)
      /\ NewOrder(n) /\ brk[n].owner = n
      /\ r \in OrdNos => brk[r].st # "none"
  BY OwnerStays DEF DoubledInv, BookMove, BookInv, NumberInv
<1>1. ~AmendedOf(OwnerOf(r))
  BY <1>0, BookMoveStays
<1>2. CASE brk'[n].owner = n
  <2>1. OwnerOf(r) = n
    BY <1>0, <1>2
  <2>2. r \in OrdNos /\ brk[r].owner = n /\ r # n
    BY <1>0, <2>1, Owners
  <2> QED
    BY <1>0, <1>1, <2>1, <2>2 DEF OneNumber
<1>3. CASE brk'[n].org # 0
  BY <1>3 DEF AmendedOf
<1>4. ASSUME NEW c \in Clients, pc[c] = "sending", brk'[n].owner = c, Open(n)' <= Qty
      PROVE  r \in Clients /\ pc[r] = "sending" /\ Open(n)' <= Qty
  <2>1. OwnerOf(r) = c /\ NoNumber(c)
    BY <1>0, <1>4 DEF PlaceInv
  <2>2. r = c
    BY <2>1, Owners DEF NoNumber
  <2> QED
    BY <1>4, <2>2
<1> QED
  BY <1>0, <1>2, <1>3, <1>4 DEF NewOrder

LEMMA OneNumberKept ==
  ASSUME DoubledInv, OneNumber, BookMove
  PROVE  OneNumber'
<1>0. BookInv /\ PlaceInv
  BY DEF DoubledInv
<1>1. \A n \in OrdNos : brk[n].st # "none" => brk'[n].owner = brk[n].owner
  BY DEF BookMove, OldOrder
<1>2. ASSUME NEW n \in OrdNos, NEW k \in OrdNos, n # k, brk'[n].owner = brk'[k].owner,
             brk[n].st = "none", brk'[n] # brk[n]
      PROVE  AmendedOf(brk[n].owner)'
  <2>1. NewOrder(n) /\ brk'[k].owner = brk[k].owner /\ brk[n].owner = n
    BY <1>0, <1>1, <1>2 DEF BookMove, BookInv
  <2>2. CASE brk'[n].owner = n
    <3>1. AmendedOf(n)
      BY <1>2, <2>1, <2>2 DEF OneNumber
    <3> QED
      BY <2>2, <3>1, BookMoveStays
  <2>3. CASE brk'[n].org # 0
    BY <2>3 DEF AmendedOf
  <2>4. ASSUME NEW c \in Clients, pc[c] = "sending", brk'[n].owner = c
        PROVE  FALSE
    BY <1>0, <1>2, <2>1, <2>4 DEF PlaceInv, NoNumber
  <2> QED
    BY <2>1, <2>2, <2>3, <2>4 DEF NewOrder
<1> SUFFICES ASSUME NEW n \in OrdNos, NEW k \in OrdNos, n # k,
                    brk'[n].owner = brk'[k].owner
             PROVE  AmendedOf(brk[n].owner)'
  BY DEF OneNumber
<1>3. CASE (brk[n].st = "none" /\ brk'[n] # brk[n]) \/ (brk[k].st = "none" /\ brk'[k] # brk[k])
  BY <1>2, <1>3
<1>4. CASE brk'[n].owner = brk[n].owner /\ brk'[k].owner = brk[k].owner
  <2>1. AmendedOf(brk[n].owner)
    BY <1>4 DEF OneNumber
  <2> QED
    BY <1>4, <2>1, BookMoveStays
<1> QED
  BY <1>1, <1>3, <1>4

LEMMA LeftKept ==
  ASSUME DoubledInv, BookedInv, ClosedInv, BookMove, \A r \in Rows : RowMove(r),
         row' = row \/ brk' = brk, TypeInv'
  PROVE  LeftInv'
<1> USE ConstantTypes
<1>0. /\ row \in [Rows -> RowType] /\ rec \in [Procs -> RecType] /\ PlaceInv
      /\ brk \in [OrdNos -> BrkType] /\ brk' \in [OrdNos -> BrkType]
      /\ OneNumber /\ BlankInv /\ LeftInv
      /\ Clients \subseteq Rows /\ OrdNos \subseteq Rows
  BY DEF DoubledInv, ClosedInv, LiveRowInv, TypeInv, TypeOK, Rows
<1> SUFFICES ASSUME NEW r \in Rows, NEW n \in OrdNos, Exists(r)', brk'[n].st = "working",
                    brk'[n].owner = OwnerOf(r)', ~AmendedOf(OwnerOf(r))'
             PROVE  Open(n)' <= Left(row'[r])
  BY DEF LeftInv
<1>1. ASSUME NEW k \in OrdNos
      PROVE  Open(k) \in Int /\ Open(k)' \in Int
  <2>1. /\ brk[k].execs \in Int /\ brk'[k].execs \in Int
        /\ brk[k].qty \in Int /\ brk'[k].qty \in Int
    BY <1>0, BookInts
  <2> QED
    BY <2>1 DEF Open
<1>2. \A s \in Rows : Left(row[s]) \in Int
  BY <1>0 DEF Left, RowType
<1>3. CASE brk' = brk
  <2>1. /\ brk[n].st = "working" /\ OwnerOf(r)' = OwnerOf(r) /\ brk[n].owner = OwnerOf(r)
        /\ Open(n)' = Open(n) /\ ~AmendedOf(OwnerOf(r))
    BY <1>3 DEF OwnerOf, Open, AmendedOf
  <2>2. \A k \in OrdNos : brk[k].owner = OwnerOf(r) => k = n
    BY <1>0, <2>1 DEF OneNumber
  <2>3. CASE StatusMove(r)
    <3>1. Exists(r) /\ Left(row'[r]) = Left(row[r])
      BY <2>3 DEF StatusMove, Exists, Left
    <3> QED
      BY <1>0, <2>1, <3>1 DEF LeftInv
  <2>4. CASE CreateMove(r)
    <3>1. CASE r \in Clients /\ ~Exists(r)
      BY <1>0, <2>1, <3>1, Owners DEF PlaceInv, NoNumber, Exists
    <3>2. CASE r \in OrdNos /\ row'[r].qty = brk[r].qty
      <4>1. r = n /\ Left(row'[r]) = brk[n].qty
        BY <2>2, <2>4, <3>2, Owners DEF CreateMove, Left
      <4>2. Open(n) = brk[n].qty - brk[n].execs /\ brk[n].qty \in Int /\ brk[n].execs \in 0..Qty
        BY <1>0, <2>1 DEF Open, BrkType
      <4> QED
        BY <2>1, <4>1, <4>2
    <3> QED
      BY <2>4, <3>1, <3>2 DEF CreateMove
  <2>5. CASE BookingMove(r)
    <3>1. PICK p \in Procs, k \in OrdNos :
            rec[p].view[k] # -1 /\ brk[k].owner = OwnerOf(r) /\ row'[r].rem = rec[p].left[k]
      BY <2>5 DEF BookingMove
    <3>2. k = n
      BY <2>2, <3>1
    <3>3. rec[p].left[n] \in 0..Qty
      BY <1>0 DEF RecType
    <3>4. Left(row'[r]) = rec[p].left[n]
      BY <3>1, <3>2, <3>3 DEF Left
    <3> QED
      BY <2>1, <3>1, <3>2, <3>4 DEF BookedInv, ViewInv
  <2>6. CASE AmendMove(r)
    BY <2>1, <2>6 DEF AmendMove
  <2> QED
    BY <2>3, <2>4, <2>5, <2>6 DEF RowMove
<1>4. CASE row' = row
  <2>1. Exists(r) /\ row'[r] = row[r]
    BY <1>4 DEF Exists
  <2>2. CASE brk[n].st = "none"
    <3>1. brk'[n] # brk[n]
      BY <2>2
    <3>2. r \in Clients /\ pc[r] = "sending" /\ Open(n)' <= Qty
      BY <1>0, <2>1, <2>2, <3>1, NewOwned
    <3>3. row[r].rem = -1 /\ row[r].qty = Qty
      BY <1>0, <2>1, <3>2 DEF BlankInv, PlaceInv
    <3> QED
      BY <2>1, <3>2, <3>3 DEF Left
  <2>3. CASE brk[n].st # "none"
    <3>1. OldOrder(n) /\ OwnerOf(r)' = OwnerOf(r) /\ ~AmendedOf(OwnerOf(r))
      <4>1. OwnerOf(r)' = OwnerOf(r)
        BY <2>1, OwnerStays
      <4> QED
        BY <2>3, <4>1, BookMoveStays DEF BookMove
    <3>2. brk[n].st = "working" /\ brk[n].owner = OwnerOf(r) /\ Open(n)' <= Open(n)
      BY <3>1 DEF OldOrder
    <3>3. Open(n) <= Left(row[r])
      BY <1>0, <2>1, <3>1, <3>2 DEF LeftInv
    <3> QED
      BY <1>1, <1>2, <2>1, <3>2, <3>3
  <2> QED
    BY <2>2, <2>3
<1> QED
  BY <1>3, <1>4

LEMMA BlankKept ==
  ASSUME DoubledInv, ClosedInv, \A r \in Rows : RowMove(r)
  PROVE  BlankInv'
<1> USE ConstantTypes
<1>0. rec \in [Procs -> RecType] /\ BlankInv /\ Clients \subseteq Rows
  BY DEF DoubledInv, ClosedInv, LiveRowInv, TypeInv, TypeOK, Rows
<1>1. ASSUME NEW r \in Rows, BookingMove(r)
      PROVE  row'[r].rem # -1
  <2>1. \A p \in Procs, n \in OrdNos : rec[p].left[n] \in 0..Qty
    BY <1>0 DEF RecType
  <2> QED
    BY <1>1, <2>1 DEF BookingMove
<1>2. \A r \in Rows : row'[r].rem = -1 => row'[r].fills = {}
  BY <1>0, <1>1 DEF RowMove, StatusMove, CreateMove, AmendMove, BlankInv
<1>3. ASSUME NEW c \in Clients, Exists(c)', row'[c].ordno = 0
      PROVE  row'[c].rem = -1 /\ row'[c].qty = Qty
  <2>1. c \in Rows /\ c \notin OrdNos
    BY <1>0
  <2>2. StatusMove(c) \/ CreateMove(c)
    BY <1>3, <2>1 DEF RowMove, BookingMove, AmendMove
  <2> QED
    BY <1>0, <1>3, <2>1, <2>2 DEF StatusMove, CreateMove, BlankInv, Exists
<1> QED
  BY <1>2, <1>3 DEF BlankInv

LEMMA ClosedKept ==
  ASSUME DoubledInv, RefusedInv, BookedInv, ClosedInv, BookMove, misled \subseteq misled',
         \A r \in Rows : RowMove(r), row' = row \/ brk' = brk
  PROVE  LiveClosedIsClosed'
<1> USE ConstantTypes
<1>0. /\ row \in [Rows -> RowType] /\ rec \in [Procs -> RecType] /\ PlaceInv /\ CallInv
      /\ brk \in [OrdNos -> BrkType] /\ calls \subseteq CallType /\ WorkingHasMore
      /\ OneNumber /\ LiveClosedIsClosed /\ CancelInv
  BY DEF DoubledInv, ClosedInv, LiveRowInv, TypeInv, TypeOK
<1>1. \A s \in Rows : Amended(s) = AmendedOf(OwnerOf(s))
  BY DEF Amended, AmendedOf
<1> SUFFICES ASSUME NEW r \in Rows, NEW n \in OrdNos, row'[r].status \in Shut,
                    brk'[n].st = "working", brk'[n].owner = OwnerOf(r)',
                    ~AmendedOf(OwnerOf(r))', r \notin misled
             PROVE  FALSE
  BY DEF LiveClosedIsClosed, Amended, AmendedOf, Shut
<1>2. row[r].status \in Shut /\ brk[n].st = "working" /\ brk[n].owner = OwnerOf(r)
        => AmendedOf(OwnerOf(r))
  BY <1>0, <1>1 DEF LiveClosedIsClosed, Shut
<1>3. CASE row' = row
  <2>1. row[r].status \in Shut /\ Exists(r)
    BY <1>3 DEF Exists, Shut
  <2>2. OwnerOf(r)' = OwnerOf(r) /\ ~AmendedOf(OwnerOf(r))
    <3>1. OwnerOf(r)' = OwnerOf(r)
      BY <2>1, OwnerStays
    <3> QED
      BY <3>1, BookMoveStays
  <2>3. brk[n].st # "none"
    <3> SUFFICES ASSUME brk[n].st = "none" PROVE FALSE
      OBVIOUS
    <3>1. brk'[n] # brk[n]
      OBVIOUS
    <3>2. r \in Clients /\ pc[r] = "sending"
      BY <1>0, <2>1, <3>1, NewOwned
    <3> QED
      BY <1>0, <2>1, <3>2 DEF PlaceInv, Shut
  <2> QED
    BY <1>2, <2>1, <2>2, <2>3 DEF BookMove, OldOrder
<1>4. CASE brk' = brk
  <2>1. /\ brk[n].st = "working" /\ brk[n].owner = OwnerOf(r) /\ ~AmendedOf(OwnerOf(r))
    BY <1>4 DEF OwnerOf, AmendedOf
  <2>2. row[r].status \notin Shut
    BY <1>2, <2>1
  <2>3. \A k \in OrdNos : brk[k].owner = OwnerOf(r) => k = n
    BY <1>0, <2>1 DEF OneNumber
  <2>4. brk[n].execs < brk[n].qty /\ brk[n].execs \in Int /\ brk[n].qty \in Int
    BY <1>0, <2>1, BookInts DEF WorkingHasMore
  <2>5. CASE StatusMove(r)
    <3>1. CASE r \in Clients /\ pc[r] = "refused"
      BY <2>1, <3>1, Owners DEF RefusedInv, NoNumber
    <3>2. ASSUME NEW m \in calls, m.op = "cancel", m.st = "acked", m.row = r
          PROVE  FALSE
      <4>1. m.ordno \in OrdNos /\ brk[m.ordno].owner = OwnerOf(r)
        BY <1>0, <3>2 DEF CallInv, CallType
      <4>2. m.ordno = n
        BY <2>3, <4>1
      <4> QED
        BY <1>0, <2>1, <3>2, <4>2 DEF CancelInv
    <3> QED
      BY <2>2, <2>5, <3>1, <3>2 DEF StatusMove, Closing
  <2>6. CASE BookingMove(r)
    <3>1. PICK p \in Procs, k \in OrdNos :
            rec[p].view[k] # -1 /\ brk[k].owner = OwnerOf(r) /\ rec[p].left[k] = 0
      BY <2>2, <2>6 DEF BookingMove
    <3>2. Open(n) <= 0
      BY <2>3, <3>1 DEF BookedInv, ViewInv
    <3> QED
      BY <2>1, <2>4, <3>2 DEF Open
  <2>7. CASE CreateMove(r) \/ AmendMove(r)
    BY <2>1, <2>2, <2>7 DEF CreateMove, AmendMove
  <2> QED
    BY <2>5, <2>6, <2>7 DEF RowMove
<1> QED
  BY <1>3, <1>4

LEMMA SetStatusMove ==
  ASSUME DoubledInv, NEW q \in Rows, NEW s \in RowState, Exists(q), row' = SetStatus(q, s),
         s \in Shut => Closing(q)
  PROVE  \A r \in Rows : RowMove(r)
<1>0. row \in [Rows -> RowType] /\ row[q] \in RowType
  BY DEF DoubledInv, LiveRowInv, TypeInv, TypeOK
<1> DEFINE to == IF CanTransition(row[q].status, s) THEN s ELSE row[q].status
           o == [row[q] EXCEPT !.status = to]
<1>1. row' = [row EXCEPT ![q] = o]
  BY <1>0 DEF SetStatus
<1>2. to = row[q].status \/ to = s
  OBVIOUS
<1> HIDE DEF to
<1>3. /\ o.status = to /\ o.rem = row[q].rem /\ o.qty = row[q].qty /\ o.fills = row[q].fills
      /\ o.ordno = row[q].ordno
  BY <1>0 DEF RowType
<1> HIDE DEF o
<1>4. row'[q] = o /\ \A r \in Rows \ {q} : row'[r] = row[r]
  BY <1>0, <1>1
<1>5. StatusMove(q)
  BY <1>2, <1>3, <1>4 DEF StatusMove, Exists
<1>6. \A r \in Rows \ {q} : StatusMove(r)
  BY <1>4 DEF StatusMove
<1> QED
  BY <1>5, <1>6 DEF RowMove

LEMMA ApplyFillMove ==
  ASSUME DoubledInv, NEW p \in Procs, NEW s \in Rows, NEW n \in OrdNos, rec[p].view[n] # -1,
         brk[n].owner = OwnerOf(s), Exists(s), row[s].ordno # 0,
         row' = [row EXCEPT ![s] = ApplyFill(@, n, rec[p].view[n], rec[p].left[n])]
  PROVE  \A r \in Rows : RowMove(r)
<1>0. row \in [Rows -> RowType] /\ row[s] \in RowType
  BY DEF DoubledInv, LiveRowInv, TypeInv, TypeOK
<1> DEFINE left == rec[p].left[n]
           fs == row[s].fills \cup {<<n, rec[p].view[n]>>}
           to == IF left = 0 THEN "filled" ELSE "partially_filled"
           st == IF CanTransition(row[s].status, to) THEN to ELSE row[s].status
           b == [row[s] EXCEPT !.fills = fs, !.rem = left, !.status = st]
           o == ApplyFill(row[s], n, rec[p].view[n], left)
<1>1. o = row[s] \/ o = b
  BY DEF ApplyFill
<1>2. row'[s] = o /\ \A r \in Rows \ {s} : row'[r] = row[r]
  BY <1>0
<1>3. st \in Shut => row[s].status \in Shut \/ left = 0
  BY DEF Shut
<1> HIDE DEF fs, st, left
<1>4. b.ordno = row[s].ordno /\ b.rem = left /\ b.status = st
  BY <1>0 DEF RowType
<1> HIDE DEF b, o
<1>5. RowMove(s)
  <2>1. CASE o = row[s]
    BY <1>2, <2>1 DEF RowMove, StatusMove
  <2>2. CASE o = b
    <3>1. /\ row'[s].ordno # 0 /\ row'[s].rem = left
          /\ row'[s].status \in Shut => row[s].status \in Shut \/ left = 0
      BY <1>2, <1>3, <1>4, <2>2
    <3> QED
      BY <3>1 DEF left, RowMove, BookingMove
  <2> QED
    BY <1>1, <2>1, <2>2
<1>6. \A r \in Rows \ {s} : RowMove(r)
  BY <1>2 DEF RowMove, StatusMove
<1> QED
  BY <1>5, <1>6

LEMMA CreateRowMove ==
  ASSUME DoubledInv, NEW q \in Rows, NEW o \in RowType, row' = [row EXCEPT ![q] = o],
         o.rem = -1, o.fills = {}, o.status \notin Shut,
         \/ q \in Clients /\ ~Exists(q) /\ o.qty = Qty
         \/ q \in OrdNos /\ brk[q].st # "none" /\ o.qty = brk[q].qty
  PROVE  \A r \in Rows : RowMove(r)
<1>0. row \in [Rows -> RowType]
  BY DEF DoubledInv, LiveRowInv, TypeInv, TypeOK
<1>1. row'[q] = o /\ \A r \in Rows \ {q} : row'[r] = row[r]
  BY <1>0
<1>2. CreateMove(q)
  BY <1>1 DEF CreateMove
<1>3. \A r \in Rows \ {q} : StatusMove(r)
  BY <1>1 DEF StatusMove
<1> QED
  BY <1>2, <1>3 DEF RowMove

LEMMA PlaceRowMove ==
  ASSUME DoubledInv, NEW c \in Clients, PlaceStep(c)
  PROVE  \A r \in Rows : RowMove(r)
<1> USE ConstantTypes
<1>0. /\ row \in [Rows -> RowType] /\ c \in Rows /\ PlaceInv /\ TypeOK
      /\ got \in [Clients -> OrdNos0]
  BY DEF DoubledInv, LiveRowInv, TypeInv, TypeOK, Rows
<1>1. CASE Approve(c)
  <2> DEFINE o == [NoRow EXCEPT !.status = "approved", !.qty = Qty]
  <2>1. /\ o \in RowType /\ o.rem = -1 /\ o.fills = {} /\ o.qty = Qty /\ o.status = "approved"
    <3>1. NoRow \in RowType /\ "approved" \in RowState /\ Qty \in 0..Qty
      BY BlankTypes DEF RowState, OrderState
    <3>2. o \in RowType
      BY <3>1 DEF RowType
    <3> QED
      BY <3>2 DEF NoRow
  <2>2. row' = [row EXCEPT ![c] = o] /\ ~Exists(c)
    BY <1>1 DEF Approve
  <2> HIDE DEF o
  <2> QED
    BY <1>0, <2>1, <2>2, CreateRowMove DEF Shut
<1>2. CASE Submit(c) \/ RecordRefusal(c) \/ RecordDoubt(c)
  <2>1. PICK s \in RowState : row' = SetStatus(c, s) /\ (s \in Shut => pc[c] = "refused")
    BY <1>2 DEF Submit, RecordRefusal, RecordDoubt, RowState, OrderState, Shut
  <2>2. Exists(c)
    BY <1>0, <1>2 DEF Submit, RecordRefusal, RecordDoubt, PlaceInv, Exists
  <2> QED
    BY <1>0, <2>1, <2>2, SetStatusMove DEF Closing
<1>3. CASE RecordAck(c)
  <2> DEFINE t == SetStatus(c, "accepted")
  <2>1. Exists(c) /\ row[c].status = "submitted" /\ got[c] \in OrdNos
    BY <1>0, <1>3 DEF RecordAck, PlaceInv, Exists
  <2>2. /\ t \in [Rows -> RowType] /\ \A r \in Rows \ {c} : t[r] = row[r]
        /\ t[c].rem = row[c].rem /\ t[c].qty = row[c].qty /\ t[c].fills = row[c].fills
        /\ t[c].status \in {row[c].status, "accepted"}
    <3>1. t \in [Rows -> RowType]
      BY <1>0, SetStatusType DEF RowState, OrderState
    <3> QED
      BY <1>0, <3>1 DEF SetStatus, RowType
  <2>3. row' = row \/ row' = [t EXCEPT ![c].ordno = got[c]]
    BY <1>3 DEF RecordAck
  <2> HIDE DEF t
  <2>4. CASE row' = row
    BY <2>4 DEF RowMove, StatusMove
  <2>5. CASE row' = [t EXCEPT ![c].ordno = got[c]]
    <3> DEFINE o == [t[c] EXCEPT !.ordno = got[c]]
    <3>1. row' = [t EXCEPT ![c] = o] /\ t[c] \in RowType
      BY <1>0, <2>2, <2>5
    <3>2. /\ o.rem = row[c].rem /\ o.qty = row[c].qty /\ o.fills = row[c].fills
          /\ o.status \in {row[c].status, "accepted"} /\ o.ordno # 0
      BY <2>1, <2>2, <3>1 DEF RowType
    <3> HIDE DEF o
    <3>3. row'[c] = o /\ \A r \in Rows \ {c} : row'[r] = row[r]
      BY <1>0, <2>2, <3>1
    <3>4. StatusMove(c)
      BY <2>1, <3>2, <3>3 DEF StatusMove, Shut
    <3> QED
      BY <3>3, <3>4 DEF RowMove, StatusMove
  <2> QED
    BY <2>3, <2>4, <2>5
<1> QED
  BY <1>1, <1>2, <1>3 DEF PlaceStep

LEMMA CallRowMove ==
  ASSUME DoubledInv, CallStep
  PROVE  \A r \in Rows : RowMove(r)
<1>0. row \in [Rows -> RowType] /\ CallInv /\ calls \subseteq CallType
  BY DEF DoubledInv, LiveRowInv, TypeInv, TypeOK
<1>1. row' = row => \A r \in Rows : RowMove(r)
  BY DEF RowMove, StatusMove
<1>2. ASSUME NEW m \in calls, RecordAmend(m)
      PROVE  \A r \in Rows : RowMove(r)
  <2> DEFINE q == m.row
             o == [row[q] EXCEPT !.ordno = m.new, !.qty = m.qty]
  <2>1. q \in Rows /\ row[q] \in RowType /\ Exists(q)
    <3>1. q \in Rows /\ row[q].ordno # 0
      BY <1>0 DEF CallType, CallInv
    <3> QED
      BY <1>0, <3>1, HasNumber
  <2>2. AmendedOf(OwnerOf(q)) /\ m.new # 0
    BY <1>0, <1>2, ConstantTypes DEF RecordAmend, CallInv, AmendedOf
  <2>3. row' = row \/ row' = [row EXCEPT ![q] = o]
    BY <1>0, <1>2, <2>1 DEF RecordAmend
  <2>4. /\ o.ordno = m.new /\ o.status = row[q].status /\ o.rem = row[q].rem
        /\ o.fills = row[q].fills
    <3> HIDE DEF q
    <3> QED
      BY <2>1 DEF RowType
  <2> HIDE DEF o, q
  <2>5. CASE row' = [row EXCEPT ![q] = o]
    <3>1. row'[q] = o /\ \A r \in Rows \ {q} : row'[r] = row[r]
      BY <1>0, <2>1, <2>5
    <3>2. AmendMove(q)
      BY <2>1, <2>2, <2>4, <3>1 DEF AmendMove
    <3> QED
      BY <3>1, <3>2 DEF RowMove, StatusMove
  <2> QED
    BY <1>1, <2>3, <2>5
<1>3. ASSUME NEW m \in calls, RecordCancel(m)
      PROVE  \A r \in Rows : RowMove(r)
  <2>1. m.row \in Rows /\ Exists(m.row) /\ "canceled" \in RowState
    <3>1. m.row \in Rows /\ row[m.row].ordno # 0
      BY <1>0 DEF CallType, CallInv
    <3> QED
      BY <3>1, HasNumber DEF RowState, OrderState
  <2>2. Closing(m.row)
    BY <1>3 DEF RecordCancel, Closing
  <2>3. row' = row \/ row' = SetStatus(m.row, "canceled")
    BY <1>3 DEF RecordCancel
  <2> QED
    BY <1>1, <2>1, <2>2, <2>3, SetStatusMove
<1>4. \A r \in Rows : Cancel(r) \/ (\E q \in AmendQty : Amend(r, q)) => row' = row
  BY DEF Cancel, Amend, Call
<1> QED
  BY <1>1, <1>2, <1>3, <1>4 DEF CallStep

LEMMA RecRowMove ==
  ASSUME DoubledInv, BookedInv, NEW p \in Procs, RecStep(p)
  PROVE  \A r \in Rows : RowMove(r)
<1> USE ConstantTypes
<1>0. /\ rec \in [Procs -> RecType] /\ brk \in [OrdNos -> BrkType] /\ OrdNos \subseteq Rows
      /\ SeenInv /\ NumberInv
  BY DEF DoubledInv, LiveRowInv, TypeInv, TypeOK, Rows
<1>1. row' = row => \A r \in Rows : RowMove(r)
  BY DEF RowMove, StatusMove
<1>2. ASSUME NEW s \in Rows, RecApply(p, s)
      PROVE  \A r \in Rows : RowMove(r)
  <2> DEFINE n == rec[p].seen[s]
  <2>1. n \in OrdNos /\ rec[p].view[n] # -1 /\ n # 0
    BY <1>2 DEF RecApply, DoubledInv, LiveRowInv, TypeInv, OnPage
  <2>2. brk[n].owner = OwnerOf(s) /\ Exists(s) /\ row[s].ordno # 0
    BY <1>0, <1>2, <2>1 DEF BookedInv, SeenOwn, SeenInv, RecApply, DoubledInv, LiveRowInv,
       WritesExisting
  <2>3. row' = [row EXCEPT ![s] = ApplyFill(@, n, rec[p].view[n], rec[p].left[n])]
    BY <1>2 DEF RecApply
  <2> HIDE DEF n
  <2> QED
    BY <2>1, <2>2, <2>3, ApplyFillMove
<1>3. CASE RecOrphanFill(p)
  <2> DEFINE n == rec[p].orphan
  <2>1. n \in OrdNos /\ n \in Rows /\ rec[p].view[n] # -1 /\ Exists(n)
    BY <1>0, <1>3 DEF RecOrphanFill, RecType, DoubledInv, LiveRowInv, TypeInv, OnPage,
       WritesExisting
  <2>2. brk[n].owner = OwnerOf(n) /\ row[n].ordno # 0
    BY <1>0, <2>1, Owners DEF NumberInv
  <2>3. row' = [row EXCEPT ![n] = ApplyFill(@, n, rec[p].view[n], rec[p].left[n])]
    BY <1>3 DEF RecOrphanFill
  <2> HIDE DEF n
  <2> QED
    BY <2>1, <2>2, <2>3, ApplyFillMove
<1>4. ASSUME NEW n \in OrdNos, RecOrphan(p, n)
      PROVE  \A r \in Rows : RowMove(r)
  <2> DEFINE o == [NoRow EXCEPT !.status = "accepted", !.ordno = n, !.qty = brk[n].qty]
  <2>1. brk[n].st # "none" /\ brk[n].qty \in 0..Qty
    BY <1>0, <1>4 DEF RecOrphan, IsOrphan, Strange, SeenInv, BrkType
  <2>2. row' = [row EXCEPT ![n] = o]
    BY <1>4 DEF RecOrphan
  <2>3. /\ o \in RowType /\ o.rem = -1 /\ o.fills = {} /\ o.qty = brk[n].qty
        /\ o.status = "accepted"
    <3>1. NoRow \in RowType /\ "accepted" \in RowState /\ n \in OrdNos0
      BY BlankTypes DEF RowState, OrderState
    <3>2. o \in RowType
      BY <2>1, <3>1 DEF RowType
    <3> QED
      BY <3>2 DEF NoRow
  <2> HIDE DEF o
  <2> QED
    BY <1>0, <2>1, <2>2, <2>3, CreateRowMove DEF Shut
<1>5. CASE \/ RecStart(p) \/ RecList(p) \/ RecFetch(p) \/ RecFetchFails(p)
           \/ RecPositions(p) \/ RecPositionsFail(p) \/ RecRaises(p) \/ RecOver(p)
           \/ \E n \in OrdNos : RecFollows(p, n) \/ RecClashes(p, n)
  BY <1>1, <1>5 DEF RecStart, RecList, RecFetch, RecFetchFails,
     RecPositions, RecPositionsFail, RecRaises, RecOver, RecFollows, RecClashes
<1> QED
  BY <1>2, <1>3, <1>4, <1>5 DEF RecStep

LEMMA StepRowMove ==
  ASSUME DoubledInv, BookedInv, [Next]_vars
  PROVE  \A r \in Rows : RowMove(r)
<1>1. row' = row => \A r \in Rows : RowMove(r)
  BY DEF RowMove, StatusMove
<1>2. (\E c \in Clients : PlaceAnswer(c)) \/ CallAnswer \/ BootStep \/ Crash \/ UNCHANGED vars
        \/ (\E n \in OrdNos : BrokerExecutes(n) \/ ForeignOrder(n)) => row' = row
  BY DEF PlaceAnswer, BrokerTakes, BrokerRefuses, CallAnswer, BrokerAmends, BrokerCancels,
     BrokerDeclines, BootStep, BootFinish, BootFails, Crash, vars, BrokerExecutes, ForeignOrder
<1> QED
  BY <1>1, <1>2, PlaceRowMove, CallRowMove, RecRowMove DEF Next

LEMMA StepOneTable ==
  ASSUME [Next]_vars
  PROVE  row' = row \/ brk' = brk
<1>1. ASSUME NEW c \in Clients, PlaceStep(c)
      PROVE  brk' = brk
  BY <1>1 DEF PlaceStep, Approve, Submit, RecordAck, RecordRefusal, RecordDoubt
<1>2. CallStep => brk' = brk
  BY DEF CallStep, Amend, Cancel, Call, RecordAmend, RecordCancel
<1>3. ASSUME NEW p \in Procs, RecStep(p)
      PROVE  brk' = brk
  BY <1>3 DEF RecStep, RecStart, RecList, RecFetch, RecFetchFails, RecOrphanFill,
     RecPositions, RecPositionsFail, RecRaises, RecOver, RecApply, RecFollows,
     RecOrphan, RecClashes
<1>4. (\E c \in Clients : PlaceAnswer(c)) \/ CallAnswer \/ BootStep \/ Crash \/ UNCHANGED vars
        \/ (\E n \in OrdNos : BrokerExecutes(n) \/ ForeignOrder(n)) => row' = row
  BY DEF PlaceAnswer, BrokerTakes, BrokerRefuses, CallAnswer, BrokerAmends, BrokerCancels,
     BrokerDeclines, BootStep, BootFinish, BootFails, Crash, vars, BrokerExecutes, ForeignOrder
<1> QED
  BY <1>1, <1>2, <1>3, <1>4 DEF Next

\* A cancel is for what the table takes to be left, at least what is open.
LEMMA CancelIsEnough ==
  ASSUME DoubledInv, LeftInv, BlankInv, NEW r \in Rows, row[r].ordno # 0,
         CancelQty(r) \in 1..Qty, ~AmendedOf(OwnerOf(r))
  PROVE  Open(row[r].ordno) <= CancelQty(r)
<1> USE ConstantTypes
<1>0. /\ row[r] \in RowType /\ row[r].ordno \in OrdNos /\ Exists(r)
      /\ brk[row[r].ordno].owner = OwnerOf(r)
  <2>1. row[r] \in RowType
    BY DEF DoubledInv, LiveRowInv, TypeInv, TypeOK
  <2> QED
    BY <2>1, HasNumber DEF RowType, DoubledInv, NumberInv
<1>1. CASE brk[row[r].ordno].st = "working"
  <2>1. Open(row[r].ordno) <= Left(row[r])
    BY <1>0, <1>1 DEF LeftInv
  <2>2. CASE row[r].rem = -1
    <3>1. row[r].fills = {} /\ Left(row[r]) = row[r].qty /\ row[r].qty \in Int
      BY <1>0, <2>2 DEF BlankInv, Left, RowType
    <3>2. Booked(row[r].fills) = 0
      <4> DEFINE w == [e \in {} |-> e[2]]
      <4>1. IsFiniteSet({}) /\ w \in [{} -> Nat]
        BY FS_EmptySet
      <4>2. \A e \in {} : w[e] = e[2]
        OBVIOUS
      <4> HIDE DEF w
      <4>3. PICK g : SumFun(w, {}, g) /\ Booked({}) = g[{}]
        BY <4>1, <4>2, BookedIsSum
      <4> QED
        BY <3>1, <4>3, SumsEq
    <3> QED
      BY <2>1, <2>2, <3>1, <3>2 DEF CancelQty
  <2>3. CASE row[r].rem # -1
    BY <2>1, <2>3 DEF CancelQty, Left
  <2> QED
    BY <2>2, <2>3
<1>2. CASE brk[row[r].ordno].st # "working"
  BY <1>2 DEF Open
<1> QED
  BY <1>1, <1>2

\* What a request knows of its order.
Ample(m) ==
  \/ AmendedOf(OwnerOf(m.row))
  \/ Open(m.ordno) <= m.qty /\ (m.st = "acked" => brk[m.ordno].st # "working")

LEMMA AmpleStays ==
  ASSUME DoubledInv, BookMove, TypeInv', NEW m \in calls, Ample(m)
  PROVE  Ample(m)'
<1> USE ConstantTypes
<1>0. /\ m.row \in Rows /\ m.ordno \in OrdNos /\ brk[m.ordno].st # "none" /\ m.qty \in Int
      /\ Exists(m.row) /\ brk[m.ordno] \in BrkType /\ brk'[m.ordno] \in BrkType
  <2>1. m \in CallType /\ row[m.row].ordno # 0 /\ brk[m.ordno].st # "none"
    BY DEF DoubledInv, LiveRowInv, TypeInv, TypeOK, CallInv
  <2>2. m.row \in Rows /\ m.ordno \in OrdNos /\ m.qty \in Int
    BY <2>1 DEF CallType
  <2>3. brk[m.ordno] \in BrkType /\ brk'[m.ordno] \in BrkType
    BY <2>2 DEF DoubledInv, LiveRowInv, TypeInv, TypeOK
  <2> QED
    BY <2>1, <2>2, <2>3, HasNumber
<1>1. OwnerOf(m.row)' = OwnerOf(m.row)
  BY <1>0, OwnerStays
<1>2. CASE AmendedOf(OwnerOf(m.row))
  BY <1>1, <1>2, BookMoveStays DEF Ample
<1>3. CASE Open(m.ordno) <= m.qty /\ (m.st = "acked" => brk[m.ordno].st # "working")
  <2>1. /\ Open(m.ordno)' <= Open(m.ordno)
        /\ brk'[m.ordno].st = "working" => brk[m.ordno].st = "working"
    BY <1>0 DEF BookMove, OldOrder
  <2>2. Open(m.ordno) \in Int /\ Open(m.ordno)' \in Int
    <3>1. /\ brk[m.ordno].qty \in Int /\ brk'[m.ordno].qty \in Int
          /\ brk[m.ordno].execs \in Int /\ brk'[m.ordno].execs \in Int
      BY <1>0, BookInts
    <3> QED
      BY <3>1 DEF Open
  <2> QED
    BY <1>0, <1>3, <2>1, <2>2 DEF Ample
<1> QED
  BY <1>2, <1>3 DEF Ample

LEMMA StepCancelInv ==
  ASSUME DoubledInv, LeftInv, BlankInv, CancelInv, BookMove, TypeInv', [Next]_vars
  PROVE  CancelInv'
<1> USE ConstantTypes
<1>0. /\ TypeInv /\ calls \subseteq CallType /\ brk \in [OrdNos -> BrkType] /\ CallInv
      /\ WorkingHasMore
  BY DEF DoubledInv, LiveRowInv, TypeInv, TypeOK
<1>1. ASSUME NEW m \in calls, m.op = "cancel"
      PROVE  Ample(m)'
  <2>1. Ample(m)
    BY <1>1 DEF CancelInv, Ample
  <2> QED
    BY <2>1, AmpleStays
<1>2. CASE \A k \in calls' : k \in calls \/ k.op # "cancel"
  BY <1>1, <1>2 DEF CancelInv, Ample
<1>3. ASSUME NEW r \in Rows, Cancel(r)
      PROVE  CancelInv'
  <2>1. PICK m : m = [op |-> "cancel", row |-> r, ordno |-> row[r].ordno,
                      qty |-> CancelQty(r), st |-> "sent", new |-> 0]
    OBVIOUS
  <2>2. /\ row[r].ordno # 0 /\ CancelQty(r) \in 1..Qty /\ calls' = calls \cup {m}
        /\ brk' = brk
        /\ m.row = r /\ m.ordno = row[r].ordno /\ m.qty = CancelQty(r) /\ m.st = "sent"
    BY <1>3, <2>1 DEF Cancel, Call
  <2>3. AmendedOf(OwnerOf(r)) \/ Open(row[r].ordno) <= CancelQty(r)
    BY <2>2, CancelIsEnough
  <2>4. Ample(m)
    BY <2>2, <2>3 DEF Ample
  <2>5. Ample(m)'
    BY <2>2, <2>4 DEF Ample, AmendedOf, OwnerOf, Open
  <2>6. \A k \in calls' : k.op = "cancel" => Ample(k)'
    BY <1>1, <2>2, <2>5
  <2> QED
    BY <2>6 DEF CancelInv, Ample
<1>4. ASSUME NEW m \in calls, BrokerCancels(m)
      PROVE  CancelInv'
  <2> DEFINE a == [m EXCEPT !.st = "acked", !.new = 0]
  <2>1. /\ m \in CallType /\ m.ordno \in OrdNos /\ m.row \in Rows /\ m.op = "cancel"
        /\ m.qty \in Int /\ m.qty >= 1
        /\ calls' \subseteq calls \cup {a}
    <3>1. /\ m \in CallType /\ m.ordno \in OrdNos /\ m.row \in Rows /\ m.op = "cancel"
          /\ m.qty \in Int /\ m.qty >= 1
      BY <1>0, <1>4 DEF BrokerCancels, CallType
    <3>2. Answer(m, 0)
      BY <1>4 DEF BrokerCancels
    <3> QED
      BY <3>1, <3>2 DEF Answer
  <2>2. a.row = m.row /\ a.ordno = m.ordno /\ a.qty = m.qty
    BY <2>1 DEF CallType
  <2> HIDE DEF a
  <2>3. Ample(a)'
    <3>1. CASE AmendedOf(OwnerOf(m.row))
      <4>1. OwnerOf(m.row)' = OwnerOf(m.row)
        BY <1>0, <2>1, HasNumber, OwnerStays DEF CallInv
      <4> QED
        BY <2>2, <3>1, <4>1, BookMoveStays DEF Ample
    <3>2. CASE Open(m.ordno) <= m.qty
      <4>1. ~(m.qty < Open(m.ordno))
        <5>1. brk[m.ordno].qty \in Int /\ brk[m.ordno].execs \in Int
          BY <1>0, <2>1, BookInts
        <5>2. Open(m.ordno) \in Int
          BY <5>1 DEF Open
        <5> QED
          BY <2>1, <3>2, <5>2
      <4>2. brk' = [brk EXCEPT ![m.ordno] = [brk[m.ordno] EXCEPT !.st = "closed"]]
        BY <1>4, <1>0, <2>1, <4>1 DEF BrokerCancels
      <4>3. brk'[m.ordno].st = "closed"
        BY <1>0, <2>1, <4>2 DEF BrkType
      <4>4. Open(m.ordno)' = 0
        BY <4>3 DEF Open
      <4>5. Open(a.ordno)' <= a.qty /\ brk'[a.ordno].st # "working"
        BY <2>1, <2>2, <4>3, <4>4
      <4> QED
        BY <4>5 DEF Ample
    <3> QED
      BY <2>1, <3>1, <3>2 DEF CancelInv
  <2> QED
    BY <1>1, <2>1, <2>3 DEF CancelInv, Ample
<1>5. ASSUME NEW m \in calls, NEW n \in OrdNos, BrokerAmends(m, n)
      PROVE  \A k \in calls' : k \in calls \/ k.op # "cancel"
  <2> DEFINE a == [m EXCEPT !.st = "acked", !.new = n]
  <2>1. m \in CallType /\ m.op = "amend" /\ calls' \subseteq calls \cup {a}
    BY <1>0, <1>5 DEF BrokerAmends, Answer
  <2>2. a.op = "amend"
    BY <2>1 DEF CallType
  <2> HIDE DEF a
  <2> QED
    BY <2>1, <2>2
<1>6. ASSUME NEW r \in Rows, NEW q \in AmendQty, Amend(r, q)
      PROVE  \A k \in calls' : k \in calls \/ k.op # "cancel"
  <2> DEFINE m == [op |-> "amend", row |-> r, ordno |-> row[r].ordno, qty |-> q,
                   st |-> "sent", new |-> 0]
  <2>1. calls' = calls \cup {m} /\ m.op = "amend"
    BY <1>6 DEF Amend, Call
  <2> HIDE DEF m
  <2> QED
    BY <2>1
<1>7. ASSUME NEW m \in calls, RecordAmend(m) \/ RecordCancel(m) \/ BrokerDeclines(m)
      PROVE  calls' \subseteq calls
  BY <1>7 DEF RecordAmend, RecordCancel, BrokerDeclines
<1>8. ASSUME NEW c \in Clients, PlaceStep(c) \/ PlaceAnswer(c)
      PROVE  calls' = calls
  BY <1>8 DEF PlaceStep, PlaceAnswer, Approve, Submit, RecordAck, RecordRefusal, RecordDoubt,
     BrokerTakes, BrokerRefuses
<1>9. ASSUME NEW p \in Procs, RecStep(p)
      PROVE  calls' = calls
  BY <1>9 DEF RecStep, RecStart, RecList, RecFetch, RecFetchFails, RecOrphanFill,
     RecPositions, RecPositionsFail, RecRaises, RecOver, RecApply, RecFollows,
     RecOrphan, RecClashes
<1>10. BootStep \/ Crash \/ UNCHANGED vars
         \/ (\E n \in OrdNos : BrokerExecutes(n) \/ ForeignOrder(n)) => calls' \subseteq calls
  BY DEF BootStep, BootFinish, BootFails, Crash, vars, BrokerExecutes, ForeignOrder
<1>11. CASE CallStep
  BY <1>2, <1>3, <1>6, <1>7, <1>11 DEF CallStep
<1>12. CASE CallAnswer
  BY <1>2, <1>4, <1>5, <1>7, <1>12 DEF CallAnswer
<1> QED
  BY <1>2, <1>8, <1>9, <1>10, <1>11, <1>12 DEF Next

LEMMA ClosedStep ==
  ASSUME DoubledInv, RefusedInv, BookedInv, ClosedInv, [Next]_vars
  PROVE  ClosedInv'
<1>1. TypeInv /\ TypeInv' /\ BookMove
  BY StepBookMove, StepType DEF DoubledInv, LiveRowInv
<1>2. (\A r \in Rows : RowMove(r)) /\ (row' = row \/ brk' = brk)
  BY StepRowMove, StepOneTable
<1>3. OneNumber' /\ LeftInv' /\ BlankInv'
  BY <1>1, <1>2, OneNumberKept, LeftKept, BlankKept DEF ClosedInv
<1>4. CancelInv'
  BY <1>1, StepCancelInv DEF ClosedInv
<1>5. misled \subseteq misled'
  BY DEF Next, vars, PlaceStep, Approve, Submit, RecordAck, RecordRefusal, RecordDoubt,
     PlaceAnswer, BrokerRefuses, BrokerTakes, RecStep, RecStart, RecList, RecFetch,
     RecFetchFails, RecPositions, RecPositionsFail, RecRaises, RecOver, RecApply,
     RecFollows, RecOrphan, RecOrphanFill, RecClashes, CallStep, Amend, Cancel, Call,
     RecordAmend, RecordCancel, CallAnswer, BrokerCancels, BrokerDeclines, BrokerAmends,
     BootStep, BootFinish, BootFails, Crash, BrokerExecutes, ForeignOrder
<1>6. LiveClosedIsClosed'
  BY <1>1, <1>2, <1>5, ClosedKept
<1> QED
  BY <1>3, <1>4, <1>6 DEF ClosedInv

\* A closed row is closed at the broker, unless its order was amended or the
\* adapter took the answer to the accepted request for a failure: the fail-safe of _reconcile_live holds for any pages, lost or late answers,
\* crashes and concurrent runs (services/order_service.py:553-696), as a cancel
\* is always for all that is open, and a row is filled only by a page that shows
\* nothing left.
THEOREM LiveClosedRowsAreClosed == Spec => []LiveClosedIsClosed
<1>1. ClosedInv => LiveClosedIsClosed
  BY DEF ClosedInv
<1>2. DoubledInv /\ RefusedInv /\ BookedInv /\ ClosedInv /\ [Next]_vars
        => DoubledInv' /\ RefusedInv' /\ BookedInv' /\ ClosedInv'
  BY DoubledStep, RefusedStep, BookedStep, ClosedStep
<1> QED
  BY <1>1, <1>2, InitDoubledInv, InitRefused, InitBookedInv, InitClosedInv, PTL DEF Spec
===============================================================================
