------------------------- MODULE OrderPipelineProofs -------------------------
(***************************************************************************)
(* Proofs about OrderPipeline, for every value of its constants.           *)
(***************************************************************************)
EXTENDS OrderPipeline, TLAPS

------------------------------------------------------------------------------
(* Type correctness. *)

(* An order that still works at the broker has lots left, and a run of     *)
(* reconcile that holds a lock knows the order number it applies: without  *)
(* these the counters of the book and the events would leave their types.  *)
WorkingHasRest ==
  \A n \in OrdNos : brk[n].st = "working" => brk[n].execs < brk[n].qty

LockHasNumber == \A p \in Procs : rec[p].row # 0 => rec[p].ord # 0

TypeInv == TypeOK /\ WorkingHasRest /\ LockHasNumber

(* apply_fill turns an order row into an order row. *)
LEMMA ApplyFillType ==
  ASSUME NEW o \in RowType, NEW e \in Events, NEW rem \in Int
  PROVE  ApplyFill(o, e, rem) \in RowType
<1> DEFINE fs == o.fills \cup {e}
           to == Target(o, fs, rem)
<1>1. to \in {"filled", "partially_filled"}
  BY DEF Target
<1>2. fs \subseteq Events
  BY DEF RowType
<1>3. (IF CanTransition(o.status, to) THEN to ELSE o.status) \in RowState
  BY <1>1 DEF RowType, RowState, OrderState
<1> QED
  BY <1>2, <1>3 DEF ApplyFill, RowType

(* A row whose status is moved by repo.transition stays an order row. *)
LEMMA TransitionType ==
  ASSUME TypeOK, NEW r \in Rows, NEW to \in OrderState, Transition(r, to)
  PROVE  row' \in [Rows -> RowType]
  BY DEF TypeOK, Transition, RowType, RowState

LEMMA InitTypeInv == Init => TypeInv
<1> SUFFICES ASSUME Init PROVE TypeInv
  OBVIOUS
<1> USE PipelineAssumption
<1>1. TypeOK
  BY DEF Init, TypeOK, NoRow, Unused, IdleRec, RowType, BrkType, CallType,
         RecType, RowState, OrderState, OrdNos0, OrdNos, Rows
<1>2. WorkingHasRest /\ LockHasNumber
  BY DEF Init, WorkingHasRest, LockHasNumber, Unused, IdleRec
<1> QED
  BY <1>1, <1>2 DEF TypeInv

(* The steps of place keep the types. *)
LEMMA PlaceTypeInv ==
  ASSUME TypeInv, NEW c \in Clients, PlaceStep(c)
  PROVE  TypeInv'
<1> USE PipelineAssumption DEF TypeInv
<1>1. c \in Rows
  BY DEF Rows
<1>2. brk' = brk /\ rec' = rec /\ WorkingHasRest' /\ LockHasNumber'
  BY DEF PlaceStep, PlaceInsert, PlaceAgain, PlaceSubmit, PlaceAck,
         PlaceAckFails, PlaceReject, PlaceInDoubt, broker,
         WorkingHasRest, LockHasNumber
<1>3. row' \in [Rows -> RowType]
  <2>1. CASE PlaceInsert(c)
    BY <1>1, <2>1 DEF PlaceInsert, TypeOK, RowType, RowState, OrderState, OrdNos0
  <2>2. CASE PlaceSubmit(c)
    BY <1>1, <2>2, TransitionType DEF PlaceSubmit, OrderState
  <2>3. CASE PlaceAck(c)
    <3> DEFINE o == [row[c] EXCEPT !.status = "accepted", !.ordno = got[c]]
    <3>1. row' = [row EXCEPT ![c] = o]
      BY <1>1, <2>3 DEF PlaceAck, TypeOK
    <3>2. o \in RowType
      BY <1>1 DEF TypeOK, RowType, RowState, OrderState
    <3> QED
      BY <1>1, <3>1, <3>2 DEF TypeOK
  <2>4. CASE PlaceReject(c)
    BY <1>1, <2>4, TransitionType DEF PlaceReject, OrderState
  <2>5. CASE PlaceInDoubt(c)
    BY <1>1, <2>5, TransitionType DEF PlaceInDoubt, OrderState
  <2>6. CASE PlaceAgain(c) \/ PlaceAckFails(c)
    BY <2>6 DEF PlaceAgain, PlaceAckFails, TypeOK
  <2> QED
    BY <2>1, <2>2, <2>3, <2>4, <2>5, <2>6 DEF PlaceStep
<1>4. /\ pc' \in [Clients -> {"idle", "approved", "sending", "taken", "refused",
                              "failed", "error"}]
      /\ got' \in [Clients -> OrdNos0]
  BY DEF PlaceStep, PlaceInsert, PlaceAgain, PlaceSubmit, PlaceAck,
         PlaceAckFails, PlaceReject, PlaceInDoubt, TypeOK, OrdNos0
<1>5. UNCHANGED <<calls, rec, engine, crashes, brk, session, past, misled>>
  BY DEF PlaceStep, PlaceInsert, PlaceAgain, PlaceSubmit, PlaceAck,
         PlaceAckFails, PlaceReject, PlaceInDoubt, broker
<1> QED
  BY <1>2, <1>3, <1>4, <1>5 DEF TypeOK

(* The steps of cancel and amend keep the types. *)
LEMMA CallTypeInv ==
  ASSUME TypeInv, CallStep
  PROVE  TypeInv'
<1> USE PipelineAssumption DEF TypeInv
<1>1. UNCHANGED <<pc, got, rec, engine, crashes, brk, session, past, misled>>
  BY DEF CallStep, CancelRead, AmendRead, CancelApply, AmendApply, broker
<1>2. WorkingHasRest' /\ LockHasNumber'
  BY <1>1 DEF WorkingHasRest, LockHasNumber
<1>3. row' \in [Rows -> RowType] /\ calls' \subseteq CallType
  <2>1. ASSUME NEW r \in Rows, CancelRead(r) \/ AmendRead(r)
        PROVE  row' = row /\ calls' \subseteq CallType
    <3>1. row[r].ordno \in OrdNos
      BY <2>1 DEF CancelRead, AmendRead, TypeOK, RowType, OrdNos, OrdNos0
    <3> QED
      BY <2>1, <3>1 DEF CancelRead, AmendRead, TypeOK, CallType, OrdNos0
  <2>2. ASSUME NEW m \in calls, CancelApply(m)
        PROVE  row' \in [Rows -> RowType] /\ calls' \subseteq CallType
    <3>1. m.row \in Rows
      BY DEF TypeOK, CallType
    <3> QED
      BY <2>2, <3>1, TransitionType DEF CancelApply, TypeOK, OrderState
  <2>3. ASSUME NEW m \in calls, AmendApply(m)
        PROVE  row' \in [Rows -> RowType] /\ calls' \subseteq CallType
    <3>1. m.row \in Rows /\ m.new \in OrdNos0
      BY DEF TypeOK, CallType
    <3> QED
      BY <2>3, <3>1 DEF AmendApply, TypeOK, RowType
  <2> QED
    BY <2>1, <2>2, <2>3 DEF CallStep, TypeOK
<1> QED
  BY <1>1, <1>2, <1>3 DEF TypeOK

(* What a step of a reconcile run has to show: the run's new record, and    *)
(* the rows it wrote.                                                      *)
LEMMA RecUpdate ==
  ASSUME TypeInv, NEW p \in Procs, NEW x \in RecType,
         rec' = [rec EXCEPT ![p] = x],
         x.row # 0 => x.ord # 0,
         row' \in [Rows -> RowType], misled' \subseteq Rows,
         UNCHANGED <<pc, got, calls, engine, crashes, broker>>
  PROVE  TypeInv'
BY DEF TypeInv, TypeOK, LockHasNumber, WorkingHasRest, broker

LEMMA IdleRecType == IdleRec \in RecType /\ IdleRec.row = 0
BY PipelineAssumption DEF IdleRec, RecType, OrdNos0, OrdNos, Rows

(* The updates of a run's record stay within its type. *)
LEMMA NextType ==
  ASSUME NEW R \in RecType, NEW k \in 0..Qty, NEW a \in BOOLEAN
  PROVE  [R EXCEPT !.next = k, !.applied = a] \in RecType
BY DEF RecType

LEMMA UnlockType ==
  ASSUME NEW R \in RecType, NEW t \in SUBSET Rows,
         NEW w \in Rows \cup {0}, NEW n \in OrdNos0
  PROVE  [R EXCEPT !.todo = t, !.row = w, !.ord = n] \in RecType
BY DEF RecType

LEMMA LockType ==
  ASSUME NEW R \in RecType, NEW r \in Rows, NEW n \in OrdNos0, NEW k \in 0..Qty
  PROVE  [R EXCEPT !.row = r, !.ord = n, !.next = k, !.applied = FALSE] \in RecType
BY DEF RecType

LEMMA OrphanType ==
  ASSUME NEW R \in RecType, NEW r \in Rows, NEW n \in OrdNos0, NEW k \in 0..Qty,
         NEW v \in [OrdNos -> (-1)..Qty]
  PROVE  [R EXCEPT !.view = v, !.row = r, !.ord = n, !.next = k,
                   !.applied = FALSE] \in RecType
BY DEF RecType

(* The steps of a reconcile run keep the types. *)
LEMMA RecTypeInv ==
  ASSUME TypeInv, NEW p \in Procs, RecStep(p)
  PROVE  TypeInv'
<1> USE PipelineAssumption
<1>type. TypeOK /\ LockHasNumber
  BY DEF TypeInv
<1>rec. rec[p] \in RecType /\ rec \in [Procs -> RecType]
  BY <1>type DEF TypeOK
<1>num. rec[p].row # 0 => rec[p].ord # 0
  BY <1>type DEF LockHasNumber
<1>row. row \in [Rows -> RowType]
  BY <1>type DEF TypeOK
<1>mis. misled' \subseteq Rows
  <2>1. \A r \in Rows : misled \cup {r} \subseteq Rows
    BY <1>type DEF TypeOK
  <2>2. rec[p].row # 0 => rec[p].row \in Rows
    BY <1>rec DEF RecType
  <2>3. ASSUME NEW r \in Rows, RecVanished(p, r)
        PROVE  misled' \subseteq Rows
    BY <1>type, <2>1, <2>3 DEF RecVanished, TypeOK
  <2>4. ASSUME RecUnlock(p)
        PROVE  misled' \subseteq Rows
    BY <1>type, <2>1, <2>2, <2>4 DEF RecUnlock, TypeOK
  <2>5. ASSUME ~RecUnlock(p), \A r \in Rows : ~RecVanished(p, r)
        PROVE  misled' = misled
    BY <2>5 DEF RecStep, RecGoesOn, RecList, RecFetch, RecFetchFails, RecApply,
       RecFinish, RecSkip, RecLock, RecKnown, RecOrphan, RecOrphanFails
  <2> QED
    BY <1>type, <2>3, <2>4, <2>5 DEF TypeOK
<1>1. CASE RecList(p)
  <2> DEFINE open == {r \in Rows : Open(r)}
             seen == [r \in Rows |-> IF Open(r) THEN row[r].ordno ELSE 0]
             x(mc) == [IdleRec EXCEPT
                         !.pc = IF open # {} THEN "listed" ELSE "orders",
                         !.todo = open, !.seen = seen,
                         !.closed = mc /\ open # {}]
  <2>1. PICK mc \in BOOLEAN : rec' = [rec EXCEPT ![p] = x(mc)]
    BY <1>1 DEF RecList
  <2>2. seen \in [Rows -> OrdNos0] /\ open \in SUBSET Rows
    BY <1>row DEF RowType, OrdNos0
  <2>3. x(mc) \in RecType /\ x(mc).row = 0
    <3> HIDE DEF open, seen
    <3> QED
      BY <2>2, IdleRecType DEF RecType
  <2> QED
    BY <1>1, <1>row, <2>1, <2>3, RecUpdate, <1>mis DEF RecList
<1>2. CASE RecFetch(p)
  <2> DEFINE view == [n \in OrdNos |-> IF brk[n].st # "none" /\ n \notin past
                                       THEN brk[n].execs ELSE -1]
             x == [rec[p] EXCEPT !.pc = "orders", !.page = "day", !.view = view]
  <2>1. view \in [OrdNos -> (-1)..Qty]
    BY <1>type DEF TypeOK, BrkType
  <2>2. x \in RecType /\ x.row = rec[p].row /\ x.ord = rec[p].ord
    <3> HIDE DEF view
    <3> QED
      BY <1>rec, <2>1 DEF RecType
  <2>3. rec' = [rec EXCEPT ![p] = x]
    BY <1>2, <1>rec DEF RecFetch
  <2> QED
    BY <1>2, <1>row, <1>num, <2>2, <2>3, RecUpdate, <1>mis DEF RecFetch
<1>3. CASE RecFetchFails(p)
  <2> DEFINE x == [IdleRec EXCEPT !.pc = "aborted"]
             y == [rec[p] EXCEPT !.pc = "orders", !.page = "error"]
  <2>1. x \in RecType /\ x.row = 0
    BY IdleRecType DEF RecType
  <2>2. y \in RecType /\ y.row = rec[p].row /\ y.ord = rec[p].ord
    BY <1>rec DEF RecType
  <2>3. rec' = [rec EXCEPT ![p] = x] \/ rec' = [rec EXCEPT ![p] = y]
    BY <1>3, <1>rec DEF RecFetchFails
  <2>4. CASE rec' = [rec EXCEPT ![p] = x]
    <3> HIDE DEF x
    <3> QED
      BY <1>3, <1>row, <2>1, <2>4, RecUpdate, <1>mis DEF RecFetchFails
  <2>5. CASE rec' = [rec EXCEPT ![p] = y]
    <3> HIDE DEF y
    <3> QED
      BY <1>3, <1>row, <1>num, <2>2, <2>5, RecUpdate, <1>mis DEF RecFetchFails
  <2> QED
    BY <2>3, <2>4, <2>5
<1>4. CASE RecApply(p)
  <2> DEFINE r == rec[p].row
             n == rec[p].ord
             k == rec[p].next
             o == ApplyFill(row[r], <<"recon", n, k>>, brk[n].qty - k)
             a == rec[p].applied \/ o # row[r]
             x == [rec[p] EXCEPT !.next = k - 1, !.applied = a]
  <2>1. r \in Rows /\ n \in OrdNos /\ k \in 1..Qty
    <3>1. r # 0 /\ n # 0 /\ k > 0
      BY <1>4, <1>num DEF RecApply
    <3> QED
      BY <1>rec, <3>1 DEF RecType, OrdNos, OrdNos0
  <2>2. <<"recon", n, k>> \in Events
    BY <2>1 DEF Events
  <2>3. brk[n].qty - k \in Int /\ row[r] \in RowType
    BY <1>type, <2>1 DEF TypeOK, BrkType
  <2>4. o \in RowType
    BY <2>2, <2>3, ApplyFillType
  <2>5. row' = [row EXCEPT ![r] = o]
    BY <1>4 DEF RecApply
  <2>6. row' \in [Rows -> RowType]
    BY <1>row, <2>1, <2>4, <2>5
  <2>7. rec' = [rec EXCEPT ![p] = x]
    BY <1>4, <1>rec DEF RecApply
  <2>8. x \in RecType /\ x.ord # 0
    <3>1. a \in BOOLEAN /\ k - 1 \in 0..Qty
      BY <1>rec, <2>1 DEF RecType
    <3>2. x \in RecType
      <4> HIDE DEF a, k
      <4> QED
        BY <1>rec, <3>1, NextType
    <3>3. x.ord = n
      BY <1>rec DEF RecType
    <3> QED
      BY <2>1, <3>2, <3>3 DEF OrdNos
  <2> HIDE DEF x
  <2> QED
    BY <1>4, <2>6, <2>7, <2>8, RecUpdate, <1>mis DEF RecApply
<1>5. CASE RecUnlock(p)
  <2> DEFINE x == [rec[p] EXCEPT !.todo = @ \ {rec[p].row}, !.row = 0, !.ord = 0]
  <2>1. rec[p].row \in Rows
    BY <1>5, <1>rec DEF RecUnlock, RecType
  <2>2. row' \in [Rows -> RowType]
    BY <1>5, <1>row, <1>type, <2>1, TransitionType DEF RecUnlock, OrderState
  <2>3. x \in RecType /\ x.row = 0
    <3> DEFINE t == rec[p].todo \ {rec[p].row}
    <3>1. t \in SUBSET Rows /\ 0 \in OrdNos0 /\ 0 \in Rows \cup {0}
      BY <1>rec DEF RecType, OrdNos0
    <3>2. [rec[p] EXCEPT !.todo = t, !.row = 0, !.ord = 0] \in RecType
      <4> HIDE DEF t
      <4> QED
        BY <1>rec, <3>1, UnlockType
    <3> QED
      BY <1>rec, <3>2 DEF RecType
  <2>4. rec' = [rec EXCEPT ![p] = x]
    BY <1>5, <1>rec DEF RecUnlock
  <2> HIDE DEF x
  <2> QED
    BY <1>5, <2>2, <2>3, <2>4, RecUpdate, <1>mis DEF RecUnlock
<1>6. CASE RecFinish(p)
  <2>0. PICK end \in {"done", "idle", "aborted"} :
          rec' = [rec EXCEPT ![p] = [IdleRec EXCEPT !.pc = end,
                                !.page = IF end = "done" THEN rec[p].page ELSE "none"]]
    BY <1>6 DEF RecFinish
  <2> DEFINE x == [IdleRec EXCEPT !.pc = end,
                     !.page = IF end = "done" THEN rec[p].page ELSE "none"]
  <2>1. x \in RecType /\ x.row = 0
    BY <1>rec, IdleRecType DEF RecType
  <2>2. rec' = [rec EXCEPT ![p] = x]
    BY <2>0
  <2> HIDE DEF x
  <2> QED
    BY <1>6, <1>row, <2>1, <2>2, RecUpdate, <1>mis DEF RecFinish
<1>7. ASSUME NEW r \in Rows, RecSkip(p, r) \/ RecVanished(p, r)
      PROVE  TypeInv'
  <2> DEFINE x == [rec[p] EXCEPT !.todo = @ \ {r}]
  <2>1. x \in RecType /\ x.row = rec[p].row /\ x.ord = rec[p].ord
    BY <1>rec DEF RecType
  <2>2. rec' = [rec EXCEPT ![p] = x]
    BY <1>7, <1>rec DEF RecSkip, RecVanished
  <2>3. row' \in [Rows -> RowType]
    BY <1>7, <1>row, <1>type, TransitionType DEF RecSkip, RecVanished, OrderState
  <2> HIDE DEF x
  <2> QED
    BY <1>7, <1>num, <2>1, <2>2, <2>3, RecUpdate, <1>mis DEF RecSkip, RecVanished
<1>8. ASSUME NEW r \in Rows, RecLock(p, r)
      PROVE  TypeInv'
  <2> DEFINE n == rec[p].seen[r]
             k == rec[p].view[n]
             x == [rec[p] EXCEPT !.row = r, !.ord = n, !.next = k, !.applied = FALSE]
  <2>1. n \in OrdNos /\ n # 0
    BY <1>8, <1>rec DEF RecLock, RecType, OrdNos, OrdNos0
  <2>2. k \in 0..Qty
    BY <1>8, <1>rec, <2>1 DEF RecLock, RecType
  <2>3. x \in RecType /\ x.ord = n
    <3>1. n \in OrdNos0
      BY <2>1 DEF OrdNos, OrdNos0
    <3>2. x \in RecType
      <4> HIDE DEF n, k
      <4> QED
        BY <1>rec, <2>2, <3>1, LockType
    <3> QED
      BY <1>rec, <3>2 DEF RecType
  <2>4. rec' = [rec EXCEPT ![p] = x]
    BY <1>8, <1>rec DEF RecLock
  <2> HIDE DEF x
  <2> QED
    BY <1>8, <1>row, <2>1, <2>3, <2>4, RecUpdate, <1>mis DEF RecLock
<1>9. ASSUME NEW n \in OrdNos, RecKnown(p, n)
      PROVE  TypeInv'
  <2> DEFINE x == [rec[p] EXCEPT !.view[n] = -1]
  <2>1. x \in RecType /\ x.row = rec[p].row /\ x.ord = rec[p].ord
    <3> DEFINE v == [rec[p].view EXCEPT ![n] = -1]
    <3>1. v \in [OrdNos -> (-1)..Qty]
      BY <1>rec DEF RecType
    <3>2. x = [rec[p] EXCEPT !.view = v]
      OBVIOUS
    <3> HIDE DEF x, v
    <3> QED
      BY <1>rec, <3>1, <3>2 DEF RecType
  <2>2. rec' = [rec EXCEPT ![p] = x]
    BY <1>9, <1>rec DEF RecKnown
  <2> HIDE DEF x
  <2> QED
    BY <1>9, <1>row, <1>num, <2>1, <2>2, RecUpdate, <1>mis DEF RecKnown
<1>10. ASSUME NEW n \in OrdNos, RecOrphan(p, n)
       PROVE  TypeInv'
  <2> DEFINE x == [rec[p] EXCEPT !.view[n] = -1, !.row = n, !.ord = n,
                                 !.next = rec[p].view[n], !.applied = FALSE]
             o == [status |-> "accepted", ordno |-> n, qty |-> brk[n].qty, fills |-> {}]
  <2>1. n \in Rows /\ n \in OrdNos0 /\ n # 0
    BY DEF Rows, OrdNos, OrdNos0
  <2>2. rec[p].view[n] \in 0..Qty
    BY <1>10, <1>rec DEF RecOrphan, AtOrdNo, RecType
  <2>3. o \in RowType
    BY <1>type, <2>1 DEF RowType, RowState, OrderState, TypeOK, BrkType
  <2>4. row' \in [Rows -> RowType]
    BY <1>10, <1>row, <2>1, <2>3 DEF RecOrphan
  <2>5. x \in RecType /\ x.ord = n
    <3> DEFINE v == [rec[p].view EXCEPT ![n] = -1]
    <3>1. v \in [OrdNos -> (-1)..Qty]
      BY <1>rec DEF RecType
    <3>2. [rec[p] EXCEPT !.view = v, !.row = n, !.ord = n,
                         !.next = rec[p].view[n], !.applied = FALSE] \in RecType
      <4> HIDE DEF v
      <4> QED
        BY <1>rec, <2>1, <2>2, <3>1, OrphanType
    <3> QED
      BY <1>rec, <3>2 DEF RecType
  <2>6. rec' = [rec EXCEPT ![p] = x]
    BY <1>10, <1>rec DEF RecOrphan
  <2> HIDE DEF x
  <2> QED
    BY <1>10, <2>1, <2>4, <2>5, <2>6, RecUpdate, <1>mis DEF RecOrphan
<1>11. ASSUME NEW n \in OrdNos, RecOrphanFails(p, n)
       PROVE  TypeInv'
  <2> DEFINE x == [IdleRec EXCEPT !.pc = "aborted"]
  <2>1. x \in RecType /\ x.row = 0
    BY IdleRecType DEF RecType
  <2>2. rec' = [rec EXCEPT ![p] = x]
    BY <1>11 DEF RecOrphanFails
  <2> HIDE DEF x
  <2> QED
    BY <1>11, <1>row, <2>1, <2>2, RecUpdate, <1>mis DEF RecOrphanFails
<1> QED
  BY <1>1, <1>2, <1>3, <1>4, <1>5, <1>6, <1>7, <1>8, <1>9, <1>10, <1>11 DEF RecStep,
     RecGoesOn

(* A TC3 fill keeps the types. *)
LEMMA TcTypeInv ==
  ASSUME TypeInv, TcStep
  PROVE  TypeInv'
<1> USE PipelineAssumption DEF TypeInv
<1>1. PICK r \in Rows, k \in 1..Qty : TcFill(r, k)
  BY DEF TcStep
<1>2. row[r].ordno \in OrdNos /\ row[r] \in RowType
  BY <1>1 DEF TcFill, TypeOK, RowType, OrdNos, OrdNos0
<1>3. <<"tc", row[r].ordno, k>> \in Events
  BY <1>2 DEF Events
<1>4. ApplyFill(row[r], <<"tc", row[r].ordno, k>>, -1) \in RowType
  BY <1>2, <1>3, ApplyFillType
<1>5. row' = [row EXCEPT ![r] = ApplyFill(row[r], <<"tc", row[r].ordno, k>>, -1)]
  BY <1>1 DEF TcFill
<1>6. row' \in [Rows -> RowType]
  BY <1>4, <1>5 DEF TypeOK
<1>7. UNCHANGED <<pc, got, calls, rec, engine, crashes, brk, session, past, misled>>
  BY <1>1 DEF TcFill, broker
<1> QED
  BY <1>6, <1>7 DEF TypeOK, WorkingHasRest, LockHasNumber

(* A crash and the boot after it keep the types. *)
LEMMA BootTypeInv ==
  ASSUME TypeInv, Crash \/ BootStep
  PROVE  TypeInv'
<1> USE PipelineAssumption DEF TypeInv
<1>boot. Boot \in Procs
  BY DEF Procs
<1>idle. IdleRec \in RecType
  BY DEF IdleRec, RecType, OrdNos0, OrdNos, Rows
<1>1. CASE Crash
  BY <1>1, <1>idle
  DEF Crash, TypeOK, OrdNos0, WorkingHasRest, LockHasNumber, IdleRec, broker
<1>2. CASE \E r \in Rows : BootQuarantine(r)
  BY <1>2, TransitionType
  DEF BootQuarantine, TypeOK, OrderState, WorkingHasRest, LockHasNumber, broker
<1>3. CASE BootFinish \/ BootFails
  <2>1. rec' = [rec EXCEPT ![Boot] = IdleRec] /\ rec' \in [Procs -> RecType]
    BY <1>boot, <1>idle, <1>3 DEF BootFinish, BootFails, TypeOK
  <2>2. LockHasNumber'
    BY <1>boot, <2>1 DEF LockHasNumber, IdleRec, TypeOK
  <2> QED
    BY <1>3, <2>1, <2>2 DEF BootFinish, BootFails, TypeOK, WorkingHasRest, broker
<1> QED
  BY <1>1, <1>2, <1>3 DEF BootStep

(* The steps of the broker keep the types. *)
LEMMA BrokerTypeInv ==
  ASSUME TypeInv, BrokerStep
  PROVE  TypeInv'
<1> USE PipelineAssumption DEF TypeInv
<1>1. UNCHANGED <<row, rec, engine, crashes>> /\ LockHasNumber'
  BY DEF BrokerStep, PlaceAnswer, CallAnswer, BrokerTakes, BrokerRefuses,
         AckMisjudged, BrokerSilent, BrokerCancels, BrokerAmends, BrokerDeclines,
         BrokerExecutes, MarketCloses, DayChanges, server, LockHasNumber
<1>2. ASSUME NEW c \in Clients, NEW n \in OrdNos, BrokerTakes(c, n)
      PROVE  TypeInv'
  <2>1. brk' \in [OrdNos -> BrkType] /\ WorkingHasRest'
    BY <1>2 DEF BrokerTakes, TypeOK, BrkType, WorkingHasRest, OrdNos0
  <2> QED
    BY <1>1, <1>2, <2>1 DEF BrokerTakes, TypeOK, OrdNos, OrdNos0
<1>3. ASSUME NEW c \in Clients, BrokerRefuses(c) \/ AckMisjudged(c) \/ BrokerSilent(c)
      PROVE  TypeInv'
  BY <1>1, <1>3
  DEF BrokerRefuses, AckMisjudged, BrokerSilent, TypeOK, OrdNos0, WorkingHasRest, broker
<1>4. ASSUME NEW m \in calls, NEW new \in OrdNos0, Answer(m, new)
      PROVE  calls' \subseteq CallType
  <2>1. m \in CallType /\ [m EXCEPT !.st = "acked", !.new = new] \in CallType
    BY DEF TypeOK, CallType
  <2> QED
    BY <1>4, <2>1 DEF Answer, TypeOK
<1>5. ASSUME NEW m \in calls, BrokerCancels(m)
      PROVE  TypeInv'
  <2>1. m.ordno \in OrdNos /\ 0 \in OrdNos0
    BY DEF TypeOK, CallType, OrdNos0
  <2>2. brk' \in [OrdNos -> BrkType] /\ WorkingHasRest'
    BY <1>5, <2>1 DEF BrokerCancels, TypeOK, BrkType, WorkingHasRest
  <2>3. calls' \subseteq CallType
    BY <1>4, <1>5, <2>1 DEF BrokerCancels
  <2> QED
    BY <1>1, <1>5, <2>2, <2>3 DEF BrokerCancels, TypeOK
<1>6. ASSUME NEW m \in calls, NEW n \in OrdNos, BrokerAmends(m, n)
      PROVE  TypeInv'
  <2>1. m.ordno \in OrdNos /\ n \in OrdNos0 /\ m.ordno \in OrdNos0
    BY DEF TypeOK, CallType, OrdNos, OrdNos0
  <2>2. /\ brk[m.ordno].st = "working" /\ brk[n].st = "none"
        /\ brk' = [brk EXCEPT ![m.ordno].st = "closed",
               ![n] = [st |-> "working", owner |-> brk[m.ordno].owner,
                       org |-> m.ordno, execs |-> 0, qty |-> m.qty]]
    BY <1>6 DEF BrokerAmends, NextOrdNo
  <2>3. brk[m.ordno] \in BrkType
    BY <2>1 DEF TypeOK
  <2>4. m.qty \in 0..Qty /\ 0 < m.qty
    BY <1>6, <2>3 DEF BrokerAmends, TypeOK, CallType, BrkType
  <2>5. brk' \in [OrdNos -> BrkType]
    BY <2>1, <2>2, <2>3, <2>4 DEF TypeOK, BrkType
  <2>6. WorkingHasRest'
    <3> SUFFICES ASSUME NEW k \in OrdNos, brk'[k].st = "working"
                 PROVE  brk'[k].execs < brk'[k].qty
      BY DEF WorkingHasRest
    <3>1. CASE k = n
      BY <2>1, <2>2, <2>4, <3>1 DEF TypeOK
    <3>2. CASE k # n
      <4>1. k # m.ordno
        BY <2>1, <2>2, <2>3, <3>2 DEF TypeOK, BrkType
      <4>2. brk'[k] = brk[k]
        BY <2>1, <2>2, <3>2, <4>1 DEF TypeOK
      <4> QED
        BY <4>2 DEF WorkingHasRest
    <3> QED
      BY <3>1, <3>2
  <2>7. calls' \subseteq CallType
    BY <1>4, <1>6, <2>1 DEF BrokerAmends
  <2> QED
    BY <1>1, <1>6, <2>5, <2>6, <2>7 DEF BrokerAmends, TypeOK
<1>7. ASSUME NEW m \in calls, BrokerDeclines(m)
      PROVE  TypeInv'
  BY <1>1, <1>7 DEF BrokerDeclines, TypeOK, WorkingHasRest, broker
<1>8. ASSUME NEW n \in OrdNos, BrokerExecutes(n)
      PROVE  TypeInv'
  <2>1. brk[n] \in BrkType /\ brk[n].execs + 1 \in 0..Qty
    BY <1>8 DEF BrokerExecutes, TypeOK, BrkType, WorkingHasRest
  <2>2. brk' \in [OrdNos -> BrkType]
    BY <1>8, <2>1 DEF BrokerExecutes, TypeOK, BrkType
  <2>3. WorkingHasRest'
    <3> SUFFICES ASSUME NEW k \in OrdNos, brk'[k].st = "working"
                 PROVE  brk'[k].execs < brk'[k].qty
      BY DEF WorkingHasRest
    <3>1. CASE k = n
      <4>1. /\ brk'[n].execs = brk[n].execs + 1 /\ brk'[n].qty = brk[n].qty
            /\ brk[n].execs + 1 # brk[n].qty
        BY <1>8, <2>1, <3>1 DEF BrokerExecutes, TypeOK, BrkType
      <4>2. brk[n].execs < brk[n].qty
        BY <1>8 DEF BrokerExecutes, WorkingHasRest
      <4> QED
        BY <2>1, <3>1, <4>1, <4>2 DEF BrkType
    <3>2. CASE k # n
      BY <1>8, <3>2 DEF BrokerExecutes, TypeOK, WorkingHasRest
    <3> QED
      BY <3>1, <3>2
  <2> QED
    BY <1>1, <1>8, <2>2, <2>3 DEF BrokerExecutes, TypeOK, server
<1>9. CASE MarketCloses
  <2>1. brk' \in [OrdNos -> BrkType] /\ WorkingHasRest'
    BY <1>9 DEF MarketCloses, TypeOK, BrkType, WorkingHasRest
  <2> QED
    BY <1>1, <1>9, <2>1 DEF MarketCloses, TypeOK, server
<1>10. CASE DayChanges
  BY <1>1, <1>10 DEF DayChanges, TypeOK, server, WorkingHasRest
<1> QED
  BY <1>2, <1>3, <1>5, <1>6, <1>7, <1>8, <1>9, <1>10
  DEF BrokerStep, PlaceAnswer, CallAnswer

LEMMA StepTypeInv ==
  ASSUME TypeInv, [Next]_vars
  PROVE  TypeInv'
<1>1. CASE UNCHANGED vars
  BY <1>1 DEF TypeInv, TypeOK, WorkingHasRest, LockHasNumber, vars
<1>2. CASE Next
  BY <1>2, PlaceTypeInv, CallTypeInv, RecTypeInv, TcTypeInv, BootTypeInv,
     BrokerTypeInv DEF Next
<1> QED
  BY <1>1, <1>2

(* Every reachable state is well typed: in particular every event booked   *)
(* names a lot of the order, and no counter of the book leaves 0..Qty.     *)
THEOREM TypeCorrect == Spec => []TypeOK
<1>1. Init => TypeInv
  BY InitTypeInv
<1>2. TypeInv /\ [Next]_vars => TypeInv'
  BY StepTypeInv
<1>3. TypeInv => TypeOK
  BY DEF TypeInv
<1> QED
  BY <1>1, <1>2, <1>3, PTL DEF Spec

------------------------------------------------------------------------------
(* The life cycle of a row. *)

(* A row that does not exist has no fills, and a place request that has    *)
(* inserted its row finds it later.                                        *)
NoneIsEmpty == \A r \in Rows : row[r].status = "none" => row[r].fills = {}

PlacePcs == {"approved", "sending", "taken", "refused", "failed"}

Requested == \A c \in Clients : pc[c] \in PlacePcs => row[c].status # "none"

RowInv == TypeInv /\ NoneIsEmpty /\ Requested

(* What one step may do to one row. *)
Created(a, b) ==
  a.status = "none" /\ b.status \in {"approved", "accepted"} /\ b.fills = {}

Moved(a, b) ==
  a.status # "none" /\ CanTransition(a.status, b.status) /\ b.fills = a.fills

Renumbered(a, b) == b.status = a.status /\ b.fills = a.fills

Booked(a, b) ==
  /\ a.status \in NonTerminal
  /\ \E e \in Events \ a.fills : b.fills = a.fills \cup {e}
  /\ \/ b.status = a.status
     \/ b.status \in {"partially_filled", "filled"} /\ CanTransition(a.status, b.status)

RowStep(a, b) == Created(a, b) \/ Moved(a, b) \/ Renumbered(a, b) \/ Booked(a, b)

OneRow ==
  \E r \in Rows : /\ RowStep(row[r], row'[r])
                  /\ \A q \in Rows \ {r} : row'[q] = row[q]

(* apply_fill records a new execution in an open row, or does nothing. *)
LEMMA ApplyFillStep ==
  ASSUME NEW o \in RowType, NEW e \in Events, NEW rem \in Int
  PROVE  RowStep(o, ApplyFill(o, e, rem))
<1> DEFINE fs == o.fills \cup {e}
           to == Target(o, fs, rem)
           b == [o EXCEPT !.fills = fs,
                          !.status = IF CanTransition(o.status, to) THEN to ELSE o.status]
<1>1. CASE o.status \notin NonTerminal \/ e \in o.fills
  BY <1>1 DEF ApplyFill, RowStep, Renumbered
<1>2. CASE o.status \in NonTerminal /\ e \notin o.fills
  <2>1. ApplyFill(o, e, rem) = b
    BY <1>2 DEF ApplyFill
  <2>2. to \in {"partially_filled", "filled"}
    BY DEF Target
  <2>3. b.fills = o.fills \cup {e}
    BY DEF RowType
  <2>4. b.status = o.status \/ (b.status = to /\ CanTransition(o.status, to))
    <3> HIDE DEF to, fs
    <3> QED
      BY DEF RowType
  <2> HIDE DEF b, to
  <2> QED
    BY <1>2, <2>1, <2>2, <2>3, <2>4 DEF RowStep, Booked
<1> QED
  BY <1>1, <1>2

LEMMA SameRows ==
  ASSUME UNCHANGED row
  PROVE  OneRow
<1>1. 1 \in Rows
  BY PipelineAssumption DEF Rows, OrdNos
<1> QED
  BY <1>1 DEF OneRow, RowStep, Renumbered

LEMMA TransitionRow ==
  ASSUME TypeOK, NEW r \in Rows, NEW to, Transition(r, to), row[r].status # "none"
  PROVE  OneRow
<1>1. row' = [row EXCEPT ![r].status = to] /\ row \in [Rows -> RowType]
  BY DEF Transition, TypeOK
<1>2. /\ row'[r].status = to
      /\ row'[r].fills = row[r].fills
      /\ \A q \in Rows \ {r} : row'[q] = row[q]
  BY <1>1 DEF RowType
<1> QED
  BY <1>2 DEF OneRow, RowStep, Moved, Transition

(* Every step leaves all rows alone but one, and does to that one what its  *)
(* life cycle allows.                                                       *)
LEMMA StepOneRow ==
  ASSUME RowInv, [Next]_vars
  PROVE  OneRow
<1> USE PipelineAssumption
<1>type. TypeInv /\ TypeOK /\ row \in [Rows -> RowType]
  BY DEF RowInv, TypeInv, TypeOK
<1>1. ASSUME NEW c \in Clients, PlaceStep(c)
      PROVE  OneRow
  <2>c. c \in Rows
    BY DEF Rows
  <2>1. CASE PlaceInsert(c)
    <3>1. /\ row[c].status = "none"
          /\ row' = [row EXCEPT ![c] = [status |-> "approved", ordno |-> 0,
                                        qty |-> Qty, fills |-> {}]]
      BY <2>1 DEF PlaceInsert, Exists
    <3> QED
      BY <1>type, <2>c, <3>1 DEF OneRow, RowStep, Created
  <2>2. CASE PlaceSubmit(c) \/ PlaceReject(c) \/ PlaceInDoubt(c)
    <3>1. row[c].status # "none"
      BY <2>2 DEF PlaceSubmit, PlaceReject, PlaceInDoubt, RowInv, Requested, PlacePcs
    <3> QED
      BY <1>type, <2>2, <2>c, <3>1, TransitionRow
      DEF PlaceSubmit, PlaceReject, PlaceInDoubt
  <2>3. CASE PlaceAck(c)
    <3>1. row[c].status # "none" /\ CanTransition(row[c].status, "accepted")
      BY <2>3 DEF PlaceAck, RowInv, Requested, PlacePcs
    <3>2. row' = [row EXCEPT ![c].status = "accepted", ![c].ordno = got[c]]
      BY <2>3 DEF PlaceAck
    <3>3. /\ row'[c].status = "accepted" /\ row'[c].fills = row[c].fills
          /\ \A q \in Rows \ {c} : row'[q] = row[q]
      BY <1>type, <2>c, <3>2 DEF RowType
    <3> QED
      BY <2>c, <3>1, <3>3 DEF OneRow, RowStep, Moved
  <2>4. CASE PlaceAgain(c) \/ PlaceAckFails(c)
    BY <2>4, SameRows DEF PlaceAgain, PlaceAckFails
  <2> QED
    BY <1>1, <2>1, <2>2, <2>3, <2>4 DEF PlaceStep
<1>2. ASSUME NEW p \in Procs, RecStep(p)
      PROVE  OneRow
  <2>p. rec[p] \in RecType /\ (rec[p].row # 0 => rec[p].ord # 0)
    BY <1>type DEF TypeInv, TypeOK, LockHasNumber
  <2>1. CASE RecApply(p)
    <3> DEFINE r == rec[p].row
               e == <<"recon", rec[p].ord, rec[p].next>>
               o == ApplyFill(row[r], e, brk[rec[p].ord].qty - rec[p].next)
    <3>1. r # 0 /\ rec[p].ord # 0 /\ rec[p].next > 0
      BY <2>1, <2>p DEF RecApply
    <3>2. r \in Rows /\ rec[p].ord \in OrdNos /\ rec[p].next \in 1..Qty
      BY <2>p, <3>1 DEF RecType, OrdNos, OrdNos0
    <3>3. e \in Events /\ brk[rec[p].ord].qty - rec[p].next \in Int /\ row[r] \in RowType
      BY <1>type, <3>2 DEF Events, TypeOK, BrkType
    <3>4. RowStep(row[r], o)
      BY <3>3, ApplyFillStep
    <3>5. row' = [row EXCEPT ![r] = o]
      BY <2>1 DEF RecApply
    <3> QED
      BY <1>type, <3>2, <3>4, <3>5 DEF OneRow
  <2>2. CASE RecUnlock(p)
    <3>1. rec[p].row \in Rows
      BY <2>2, <2>p DEF RecUnlock, RecType
    <3> QED
      BY <1>type, <2>2, <3>1, SameRows, TransitionRow DEF RecUnlock
  <2>3. ASSUME NEW r \in Rows, RecVanished(p, r)
        PROVE  OneRow
    BY <1>type, <2>3, SameRows, TransitionRow
    DEF RecVanished, Open, NonTerminal, OrderState
  <2>4. ASSUME NEW n \in OrdNos, RecOrphan(p, n)
        PROVE  OneRow
    <3>1. n \in Rows
      BY DEF Rows
    <3>2. /\ row[n].status = "none"
          /\ row' = [row EXCEPT ![n] = [status |-> "accepted", ordno |-> n,
                                        qty |-> brk[n].qty, fills |-> {}]]
      BY <2>4 DEF RecOrphan, Exists
    <3> QED
      BY <1>type, <3>1, <3>2 DEF OneRow, RowStep, Created
  <2>5. CASE \/ RecList(p) \/ RecFetch(p) \/ RecFetchFails(p) \/ RecFinish(p)
             \/ \E r \in Rows : RecSkip(p, r) \/ RecLock(p, r)
             \/ \E n \in OrdNos : RecKnown(p, n) \/ RecOrphanFails(p, n)
    BY <2>5, SameRows
    DEF RecList, RecFetch, RecFetchFails, RecFinish, RecSkip, RecLock, RecKnown,
        RecOrphanFails
  <2> QED
    BY <1>2, <2>1, <2>2, <2>3, <2>4, <2>5 DEF RecStep, RecGoesOn
<1>3. CASE CallStep
  <2>1. ASSUME NEW m \in calls, CancelApply(m)
        PROVE  OneRow
    <3>1. m.row \in Rows
      BY <1>type DEF TypeOK, CallType
    <3> QED
      BY <1>type, <2>1, <3>1, SameRows, TransitionRow
      DEF CancelApply, NON_TERMINAL_FOR_CANCEL
  <2>2. ASSUME NEW m \in calls, AmendApply(m)
        PROVE  OneRow
    <3>1. m.row \in Rows
      BY <1>type DEF TypeOK, CallType
    <3>2. CASE row' = row
      BY <3>2, SameRows
    <3>3. CASE row' = [row EXCEPT ![m.row].ordno = m.new, ![m.row].qty = m.qty]
      <4>1. /\ row'[m.row].status = row[m.row].status
            /\ row'[m.row].fills = row[m.row].fills
            /\ \A q \in Rows \ {m.row} : row'[q] = row[q]
        BY <1>type, <3>1, <3>3 DEF RowType
      <4> QED
        BY <3>1, <4>1 DEF OneRow, RowStep, Renumbered
    <3> QED
      BY <2>2, <3>2, <3>3 DEF AmendApply
  <2>3. CASE \E r \in Rows : CancelRead(r) \/ AmendRead(r)
    BY <2>3, SameRows DEF CancelRead, AmendRead
  <2> QED
    BY <1>3, <2>1, <2>2, <2>3 DEF CallStep
<1>4. CASE TcStep
  <2>1. PICK r \in Rows, k \in 1..Qty : TcFill(r, k)
    BY <1>4 DEF TcStep
  <2> DEFINE e == <<"tc", row[r].ordno, k>>
  <2>2. row[r] \in RowType /\ row[r].ordno # 0
    BY <1>type, <2>1 DEF TcFill
  <2>3. e \in Events
    BY <2>2 DEF Events, RowType, OrdNos, OrdNos0
  <2>4. RowStep(row[r], ApplyFill(row[r], e, -1))
    BY <2>2, <2>3, ApplyFillStep
  <2>5. row' = [row EXCEPT ![r] = ApplyFill(row[r], e, -1)]
    BY <2>1 DEF TcFill
  <2> QED
    BY <1>type, <2>4, <2>5 DEF OneRow
<1>5. CASE BootStep
  <2>1. ASSUME NEW r \in Rows, BootQuarantine(r)
        PROVE  OneRow
    BY <1>type, <2>1, TransitionRow DEF BootQuarantine, Unresolved, IN_FLIGHT
  <2>2. CASE BootFinish \/ BootFails
    BY <2>2, SameRows DEF BootFinish, BootFails
  <2> QED
    BY <1>5, <2>1, <2>2 DEF BootStep
<1>6. CASE Crash \/ BrokerStep \/ UNCHANGED vars
  BY <1>6, SameRows
  DEF Crash, vars, BrokerStep, PlaceAnswer, CallAnswer, BrokerTakes, BrokerRefuses,
      AckMisjudged, BrokerSilent, BrokerCancels, BrokerAmends, BrokerDeclines,
      BrokerExecutes,
      MarketCloses, DayChanges, server
<1> QED
  BY <1>1, <1>2, <1>3, <1>4, <1>5, <1>6 DEF Next

(* No transition leads back to "none" or "approved".                       *)
LEMMA StatusForward ==
  ASSUME NEW a \in RowType, NEW b, RowStep(a, b)
  PROVE  /\ a.status # "none" => b.status # "none"
         /\ a.status \notin {"none", "approved"} => b.status \notin {"none", "approved"}
<1>1. a.status \in OrderState \cup {"none"}
  BY DEF RowType, RowState
<1>2. \A s \in OrderState : "none" \notin Legal[s] /\ "approved" \notin Legal[s]
  BY DEF Legal, OrderState
<1>3. CASE Created(a, b) \/ Renumbered(a, b)
  BY <1>3 DEF Created, Renumbered
<1>4. CASE Moved(a, b)
  BY <1>1, <1>2, <1>4 DEF Moved, CanTransition
<1>5. CASE Booked(a, b)
  BY <1>5 DEF Booked
<1> QED
  BY <1>3, <1>4, <1>5 DEF RowStep

LEMMA RowsForward ==
  ASSUME RowInv, [Next]_vars, NEW r \in Rows
  PROVE  /\ row[r].status # "none" => row'[r].status # "none"
         /\ row[r].status \notin {"none", "approved"}
              => row'[r].status \notin {"none", "approved"}
<1>1. row[r] \in RowType
  BY DEF RowInv, TypeInv, TypeOK
<1>2. PICK q \in Rows : /\ RowStep(row[q], row'[q])
                        /\ \A s \in Rows \ {q} : row'[s] = row[s]
  BY StepOneRow DEF OneRow
<1>3. CASE q = r
  BY <1>1, <1>2, <1>3, StatusForward
<1>4. CASE q # r
  BY <1>2, <1>4
<1> QED
  BY <1>3, <1>4

(* Where the position of a place request comes from. *)
LEMMA PlaceSource ==
  ASSUME RowInv, [Next]_vars, NEW c \in Clients
  PROVE  /\ pc'[c] \in PlacePcs => pc[c] \in PlacePcs \/ row'[c].status = "approved"
         /\ pc'[c] = "sending"
              => \/ pc[c] = "sending"
                 \/ row[c].status = "approved" /\ row'[c].status = "submitted"
<1> USE PipelineAssumption
<1>type. pc \in [Clients -> {"idle", "approved", "sending", "taken", "refused",
                             "failed", "error"}] /\ row \in [Rows -> RowType]
  BY DEF RowInv, TypeInv, TypeOK
<1>1. ASSUME NEW d \in Clients, PlaceStep(d), d # c
      PROVE  pc'[c] = pc[c]
  BY <1>1, <1>type DEF PlaceStep, PlaceInsert, PlaceAgain, PlaceSubmit, PlaceAck,
     PlaceAckFails, PlaceReject, PlaceInDoubt
<1>2. CASE PlaceStep(c)
  <2>1. CASE PlaceInsert(c)
    BY <1>type, <2>1 DEF PlaceInsert, Rows
  <2>2. CASE PlaceSubmit(c)
    <3>1. row[c].status # "none" /\ row[c].status \in RowState
      BY <1>type, <2>2 DEF PlaceSubmit, RowInv, Requested, PlacePcs, RowType, Rows
    <3>2. row[c].status = "approved" /\ row' = [row EXCEPT ![c].status = "submitted"]
      BY <2>2, <3>1
      DEF PlaceSubmit, Transition, CanTransition, Legal, RowState, OrderState
    <3>3. row'[c].status = "submitted"
      BY <1>type, <3>2 DEF Rows, RowType
    <3> QED
      BY <1>type, <2>2, <3>2, <3>3 DEF PlaceSubmit, PlacePcs
  <2>3. CASE PlaceAgain(c) \/ PlaceAck(c) \/ PlaceAckFails(c) \/ PlaceReject(c)
             \/ PlaceInDoubt(c)
    BY <1>type, <2>3
    DEF PlaceAgain, PlaceAck, PlaceAckFails, PlaceReject, PlaceInDoubt, PlacePcs
  <2> QED
    BY <1>2, <2>1, <2>2, <2>3 DEF PlaceStep
<1>3. ASSUME NEW d \in Clients, PlaceAnswer(d)
      PROVE  pc'[c] = pc[c] \/ (d = c /\ pc[c] \in PlacePcs /\ pc'[c] # "sending")
  BY <1>3, <1>type DEF PlaceAnswer, BrokerTakes, BrokerRefuses, AckMisjudged,
     BrokerSilent, PlacePcs
<1>4. CASE Crash
  BY <1>4 DEF Crash, PlacePcs
<1>5. ASSUME NEW p \in Procs, RecStep(p)
      PROVE  pc' = pc
  BY <1>5 DEF RecStep, RecGoesOn, RecList, RecFetch, RecFetchFails, RecApply, RecUnlock,
     RecFinish, RecSkip, RecVanished, RecLock, RecKnown, RecOrphan, RecOrphanFails
<1>7. CASE CallStep \/ TcStep \/ BootStep
  BY <1>7 DEF CallStep, CancelRead, AmendRead, CancelApply, AmendApply, TcStep,
     TcFill, BootStep, BootQuarantine, BootFinish, BootFails
<1>8. CASE UNCHANGED vars
  BY <1>8 DEF vars
<1>6. CASE \/ \E m \in calls : CallAnswer(m)
           \/ \E n \in OrdNos : BrokerExecutes(n)
           \/ MarketCloses \/ DayChanges
  BY <1>6 DEF CallAnswer, BrokerCancels, BrokerDeclines, BrokerAmends,
     BrokerExecutes, MarketCloses, DayChanges, server
<1> QED
  BY <1>1, <1>2, <1>3, <1>4, <1>5, <1>6, <1>7, <1>8 DEF Next, BrokerStep

LEMMA InitRowInv == Init => RowInv
BY InitTypeInv DEF Init, RowInv, NoneIsEmpty, Requested, NoRow, PlacePcs

LEMMA StepRowInv ==
  ASSUME RowInv, [Next]_vars
  PROVE  RowInv'
<1>1. TypeInv'
  BY StepTypeInv DEF RowInv
<1>2. NoneIsEmpty'
  <2> SUFFICES ASSUME NEW r \in Rows, row'[r].status = "none"
               PROVE  row'[r].fills = {}
    BY DEF NoneIsEmpty
  <2>1. row[r].status = "none" /\ row[r].fills = {}
    BY RowsForward DEF RowInv, NoneIsEmpty
  <2>2. PICK q \in Rows : /\ RowStep(row[q], row'[q])
                          /\ \A t \in Rows \ {q} : row'[t] = row[t]
    BY StepOneRow DEF OneRow
  <2>3. CASE q = r
    BY <2>1, <2>2, <2>3
    DEF RowStep, Created, Moved, Renumbered, Booked, NonTerminal, OrderState
  <2>4. CASE q # r
    BY <2>1, <2>2, <2>4
  <2> QED
    BY <2>3, <2>4
<1>3. Requested'
  <2> SUFFICES ASSUME NEW c \in Clients, pc'[c] \in PlacePcs
               PROVE  row'[c].status # "none"
    BY DEF Requested, PlacePcs
  <2>1. c \in Rows
    BY DEF Rows
  <2> QED
    BY <2>1, PlaceSource, RowsForward DEF RowInv, Requested
<1> QED
  BY <1>1, <1>2, <1>3 DEF RowInv

(* The tables of the two specifications are the same. *)
LEMMA SameStates ==
  /\ LifeCycle!OrderState = OrderState
  /\ LifeCycle!NonTerminal = NonTerminal
  /\ \A a, b : LifeCycle!CanTransition(a, b) = CanTransition(a, b)
BY DEF LifeCycle!OrderState, OrderState, LifeCycle!NonTerminal, NonTerminal,
       LifeCycle!TERMINAL_STATES, TERMINAL_STATES, LifeCycle!CanTransition,
       CanTransition, LifeCycle!Legal, Legal

(* The pipeline implements the life cycle: whichever handler, reconcile    *)
(* run, TC3 message or boot step writes a row, in whatever order, the row  *)
(* is created once, moves along the legal table, only gains executions,    *)
(* and does not change after it is terminal.                               *)
LEMMA StepLifeCycle ==
  ASSUME RowInv, RowInv', [Next]_vars
  PROVE  [LifeCycle!LNext]_(LifeCycle!lvars)
<1> DEFINE st(r) == row[r].status
           fl(r) == row[r].fills
<1>type. row \in [Rows -> RowType] /\ row' \in [Rows -> RowType]
  BY DEF RowInv, TypeInv, TypeOK
<1>1. PICK r \in Rows : /\ RowStep(row[r], row'[r])
                        /\ \A q \in Rows \ {r} : row'[q] = row[q]
  BY StepOneRow DEF OneRow
<1>2. /\ [q \in Rows |-> row'[q].status]
           = [[q \in Rows |-> row[q].status] EXCEPT ![r] = row'[r].status]
      /\ [q \in Rows |-> row'[q].fills]
           = [[q \in Rows |-> row[q].fills] EXCEPT ![r] = row'[r].fills]
  BY <1>1
<1>3. row[r] \in RowType /\ row'[r] \in RowType
  BY <1>type
<1>4. CASE Created(row[r], row'[r])
  <2>1. row[r].fills = {}
    BY <1>4 DEF Created, RowInv, NoneIsEmpty
  <2>2. LifeCycle!Create(r)
    BY <1>2, <1>4, <2>1 DEF Created, LifeCycle!Create
  <2> QED
    BY <2>2 DEF LifeCycle!LNext
<1>5. CASE Moved(row[r], row'[r])
  <2>1. row'[r].status \in OrderState
    BY <1>3, <1>5, StatusForward DEF RowStep, RowType, RowState, Moved
  <2>2. LifeCycle!Move(r)
    BY <1>2, <1>5, <2>1, SameStates DEF Moved, LifeCycle!Move
  <2> QED
    BY <2>2 DEF LifeCycle!LNext
<1>6. CASE Renumbered(row[r], row'[r])
  BY <1>2, <1>6 DEF Renumbered, LifeCycle!lvars
<1>7. CASE Booked(row[r], row'[r])
  <2>2. LifeCycle!Book(r)
    BY <1>2, <1>7, SameStates DEF Booked, LifeCycle!Book
  <2> QED
    BY <2>2 DEF LifeCycle!LNext
<1> QED
  BY <1>1, <1>4, <1>5, <1>6, <1>7 DEF RowStep

LEMMA InitLifeCycle == Init => LifeCycle!LInit
BY DEF Init, LifeCycle!LInit, NoRow

(* The pipeline implements OrderLifecycle for any number of clients, order *)
(* numbers, lots, reconcile runs, crashes and calls.                       *)
THEOREM PipelineImplementsLifeCycle == Spec => ImplementsLifeCycle
<1>1. Init => RowInv
  BY InitRowInv
<1>2. RowInv /\ [Next]_vars => RowInv'
  BY StepRowInv
<1>3. RowInv /\ RowInv' /\ [Next]_vars => [LifeCycle!LNext]_(LifeCycle!lvars)
  BY StepLifeCycle
<1>4. Init => LifeCycle!LInit
  BY InitLifeCycle
<1> QED
  BY <1>1, <1>2, <1>3, <1>4, PTL DEF Spec, ImplementsLifeCycle, LifeCycle!LSpec

------------------------------------------------------------------------------
(* No order is sent twice. *)

(* A client's order is at the broker only after its request has left        *)
(* "sending" for good, and its row has left "approved" before it is sent.   *)
Sent(c) == \E n \in OrdNos : brk[n].owner = c /\ brk[n].org = 0

SentOnce ==
  \A c \in Clients :
    /\ pc[c] = "sending" => row[c].status \notin {"none", "approved"}
    /\ Sent(c) => pc[c] # "sending" /\ row[c].status \notin {"none", "approved"}

SentInv == RowInv /\ SentOnce /\ AtMostOneOrder

(* The only step that adds an order of a client is the broker taking the    *)
(* one the client is sending; an amended order goes on under its first one. *)
LEMMA OrderSource ==
  ASSUME TypeInv, [Next]_vars
  PROVE  \/ \A n \in OrdNos :
              brk'[n].owner # 0 /\ brk'[n].org = 0
                => brk[n].owner = brk'[n].owner /\ brk[n].org = 0
         \/ \E c \in Clients, n \in OrdNos :
              /\ pc[c] = "sending" /\ pc' = [pc EXCEPT ![c] = "taken"]
              /\ brk'[n].owner = c
              /\ \A m \in OrdNos \ {n} : brk'[m] = brk[m]
              /\ UNCHANGED row
<1> DEFINE Kept == \A n \in OrdNos :
                     brk'[n].owner # 0 /\ brk'[n].org = 0
                       => brk[n].owner = brk'[n].owner /\ brk[n].org = 0
<1>type. brk \in [OrdNos -> BrkType] /\ calls \subseteq CallType
  BY DEF TypeInv, TypeOK
<1>1. ASSUME NEW c \in Clients, NEW n \in OrdNos, BrokerTakes(c, n)
      PROVE  /\ pc[c] = "sending" /\ pc' = [pc EXCEPT ![c] = "taken"]
             /\ brk'[n].owner = c
             /\ \A m \in OrdNos \ {n} : brk'[m] = brk[m]
             /\ UNCHANGED row
  BY <1>type, <1>1 DEF BrokerTakes
<1>2. ASSUME NEW m \in calls, BrokerCancels(m)
      PROVE  Kept
  BY <1>type, <1>2 DEF BrokerCancels, BrkType, CallType
<1>3. ASSUME NEW m \in calls, NEW n \in OrdNos, BrokerAmends(m, n)
      PROVE  Kept
  <2>1. m.ordno \in OrdNos /\ m.ordno # 0
    BY <1>type, PipelineAssumption DEF CallType, OrdNos
  <2>2. brk'[n].org = m.ordno
    BY <1>type, <1>3, <2>1 DEF BrokerAmends, BrkType
  <2>3. \A k \in OrdNos \ {n} : brk'[k].owner = brk[k].owner /\ brk'[k].org = brk[k].org
    BY <1>type, <1>3, <2>1 DEF BrokerAmends, BrkType
  <2> QED
    BY <2>1, <2>2, <2>3
<1>4. ASSUME NEW n \in OrdNos, BrokerExecutes(n)
      PROVE  Kept
  BY <1>type, <1>4 DEF BrokerExecutes, BrkType
<1>5. ASSUME MarketCloses
      PROVE  Kept
  BY <1>type, <1>5 DEF MarketCloses, BrkType
<1>6. ASSUME brk' = brk
      PROVE  Kept
  BY <1>6
<1>7. ASSUME DayChanges \/ UNCHANGED vars
      PROVE  Kept
  BY <1>6, <1>7 DEF DayChanges, vars
<1>8. ASSUME NEW c \in Clients, BrokerRefuses(c) \/ AckMisjudged(c) \/ BrokerSilent(c)
      PROVE  Kept
  BY <1>6, <1>8 DEF BrokerRefuses, AckMisjudged, BrokerSilent, broker
<1>9. ASSUME NEW m \in calls, BrokerDeclines(m)
      PROVE  Kept
  BY <1>6, <1>9 DEF BrokerDeclines, broker
<1>10. ASSUME NEW c \in Clients, PlaceStep(c)
       PROVE  Kept
  BY <1>6, <1>10 DEF PlaceStep, PlaceInsert, PlaceAgain, PlaceSubmit, PlaceAck,
     PlaceAckFails, PlaceReject, PlaceInDoubt, broker
<1>11. ASSUME NEW p \in Procs, RecStep(p)
       PROVE  Kept
  BY <1>6, <1>11 DEF RecStep, RecGoesOn, RecList, RecFetch, RecFetchFails, RecApply,
     RecUnlock,
     RecFinish, RecSkip, RecVanished, RecLock, RecKnown, RecOrphan, RecOrphanFails,
     broker
<1>12. ASSUME CallStep \/ TcStep \/ Crash \/ BootStep
       PROVE  Kept
  BY <1>6, <1>12 DEF CallStep, CancelRead, AmendRead, CancelApply, AmendApply, TcStep,
     TcFill, Crash, BootStep, BootQuarantine, BootFinish, BootFails, broker
<1> HIDE DEF Kept
<1>13. ASSUME BrokerStep
       PROVE  \/ Kept
              \/ \E c \in Clients, n \in OrdNos :
                   /\ pc[c] = "sending" /\ pc' = [pc EXCEPT ![c] = "taken"]
                   /\ brk'[n].owner = c
                   /\ \A m \in OrdNos \ {n} : brk'[m] = brk[m]
                   /\ UNCHANGED row
  BY <1>1, <1>2, <1>3, <1>4, <1>5, <1>7, <1>8, <1>9, <1>13
  DEF BrokerStep, PlaceAnswer, CallAnswer
<1> QED
  BY <1>7, <1>10, <1>11, <1>12, <1>13 DEF Next, Kept

LEMMA InitSentInv == Init => SentInv
<1> SUFFICES ASSUME Init PROVE SentInv
  OBVIOUS
<1>1. \A n \in OrdNos : brk[n].owner = 0
  BY DEF Init, Unused
<1>2. 0 \notin Clients
  BY PipelineAssumption
<1> QED
  BY <1>1, <1>2, InitRowInv DEF Init, SentInv, SentOnce, Sent, AtMostOneOrder

LEMMA StepSentInv ==
  ASSUME SentInv, [Next]_vars
  PROVE  SentInv'
<1> USE PipelineAssumption
<1>inv. RowInv /\ TypeInv /\ SentOnce /\ AtMostOneOrder
  BY DEF SentInv, RowInv
<1>type. pc \in [Clients -> {"idle", "approved", "sending", "taken", "refused",
                             "failed", "error"}]
  BY <1>inv DEF TypeInv, TypeOK
<1>rows. Clients \subseteq Rows /\ 0 \notin Clients
  BY DEF Rows
<1>1. RowInv'
  BY <1>inv, StepRowInv
<1>2. CASE \A n \in OrdNos :
             brk'[n].owner # 0 /\ brk'[n].org = 0
               => brk[n].owner = brk'[n].owner /\ brk[n].org = 0
  <2>1. AtMostOneOrder'
    BY <1>inv, <1>2 DEF AtMostOneOrder
  <2>2. ASSUME NEW c \in Clients
        PROVE  /\ pc'[c] = "sending" => row'[c].status \notin {"none", "approved"}
               /\ Sent(c)' => /\ pc'[c] # "sending"
                              /\ row'[c].status \notin {"none", "approved"}
    <3>1. Sent(c)' => Sent(c)
      BY <1>2, <1>rows DEF Sent
    <3> QED
      BY <1>inv, <1>rows, <3>1, PlaceSource, RowsForward DEF SentOnce
  <2> QED
    BY <1>1, <2>1, <2>2 DEF SentInv, SentOnce, Sent
<1>3. ASSUME NEW c \in Clients, NEW n \in OrdNos,
             pc[c] = "sending", pc' = [pc EXCEPT ![c] = "taken"],
             brk'[n].owner = c,
             \A m \in OrdNos \ {n} : brk'[m] = brk[m],
             UNCHANGED row
      PROVE  SentInv'
  <2>1. \A m \in OrdNos : brk[m].org = 0 => brk[m].owner # c
    BY <1>inv, <1>3 DEF SentOnce, Sent
  <2>2. AtMostOneOrder'
    BY <1>inv, <1>3, <2>1 DEF AtMostOneOrder
  <2>3. SentOnce'
    <3> SUFFICES ASSUME NEW d \in Clients
                 PROVE  /\ pc'[d] = "sending" => row'[d].status \notin {"none", "approved"}
                        /\ Sent(d)' => /\ pc'[d] # "sending"
                                       /\ row'[d].status \notin {"none", "approved"}
      BY DEF SentOnce
    <3>1. CASE d = c
      BY <1>inv, <1>type, <1>3, <3>1 DEF SentOnce
    <3>2. CASE d # c
      <4>1. Sent(d)' => Sent(d)
        BY <1>3, <3>2 DEF Sent
      <4> QED
        BY <1>inv, <1>type, <1>3, <3>2, <4>1 DEF SentOnce
    <3> QED
      BY <3>1, <3>2
  <2> QED
    BY <1>1, <2>2, <2>3 DEF SentInv
<1> QED
  BY <1>inv, <1>2, <1>3, OrderSource

(* Whatever is retried, answered late or interrupted by a crash, the broker *)
(* takes at most one order per idempotency key.                             *)
THEOREM AtMostOneOrderPerKey == Spec => []AtMostOneOrder
<1>1. SentInv => AtMostOneOrder
  BY DEF SentInv
<1> QED
  BY <1>1, InitSentInv, StepSentInv, PTL DEF Spec

------------------------------------------------------------------------------
(* Without amendments an execution is booked once.                          *)
(*                                                                          *)
(* The argument: a row gets its order number once and keeps it, the unique  *)
(* index gives it to no other row, and every event booked in a row carries  *)
(* the number of that row.  For the last, a reconcile run that has listed   *)
(* or locked a row must still know it by the number the row has.            *)

NoAmendCalls == \A m \in calls : m.op = "cancel"

PendingHasNoNumber == \A c \in Clients : pc[c] \in PlacePcs => row[c].ordno = 0

NoneHasNoNumber == \A r \in Rows : row[r].status = "none" => row[r].ordno = 0

NumberIsUnique ==
  \A q, r \in Rows : q # r /\ row[q].ordno = row[r].ordno => row[q].ordno = 0

FillsOfNumber == \A r \in Rows : \A e \in row[r].fills : e[2] = row[r].ordno

SeenIsNumber ==
  \A p \in Procs, r \in Rows : rec[p].seen[r] # 0 => row[r].ordno = rec[p].seen[r]

LockedIsNumber ==
  \A p \in Procs : rec[p].row # 0 => row[rec[p].row].ordno = rec[p].ord

NumberInv ==
  /\ RowInv
  /\ NoAmendCalls /\ PendingHasNoNumber /\ NoneHasNoNumber /\ NumberIsUnique
  /\ FillsOfNumber /\ SeenIsNumber /\ LockedIsNumber

(* What one step may do to the number, the fills and the request of a row.  *)
Keeps(r) == row'[r].ordno = row[r].ordno

Numbered(r) ==
  /\ row[r].ordno = 0 /\ row'[r].fills = row[r].fills
  /\ row'[r].status # "none"
  /\ r \in Clients => pc'[r] \notin PlacePcs
  /\ \A q \in Rows \ {r} : row'[q] = row[q] /\ row[q].ordno # row'[r].ordno

RowNumber(r) ==
  /\ Keeps(r) \/ Numbered(r)
  /\ \A e \in row'[r].fills : e \in row[r].fills \/ (e[2] = row[r].ordno /\ Keeps(r))
  /\ r \in Clients /\ pc'[r] \in PlacePcs /\ pc[r] \notin PlacePcs => row'[r].ordno = 0

(* What one step may do to a reconcile run.                                 *)
RunNumber(p) ==
  /\ \/ rec'[p].row = 0
     \/ rec'[p].row = rec[p].row /\ rec'[p].ord = rec[p].ord
     \/ rec'[p].row \in Rows /\ row'[rec'[p].row].ordno = rec'[p].ord
  /\ \A r \in Rows :
       \/ rec'[p].seen[r] = 0
       \/ rec'[p].seen[r] = rec[p].seen[r]
       \/ rec'[p].seen[r] = row'[r].ordno

StepNumber ==
  /\ \A r \in Rows : RowNumber(r)
  /\ \A p \in Procs : RunNumber(p)
  /\ \A m \in calls' : m.op = "cancel"

LEMMA SameRowsNumber ==
  ASSUME UNCHANGED row, \A c \in Clients : pc'[c] \in PlacePcs => pc[c] \in PlacePcs
  PROVE  \A r \in Rows : RowNumber(r)
BY DEF RowNumber, Keeps

LEMMA SameRunsNumber ==
  ASSUME UNCHANGED rec
  PROVE  \A p \in Procs : RunNumber(p)
<1> SUFFICES ASSUME NEW p \in Procs PROVE RunNumber(p)
  OBVIOUS
<1> QED
  BY DEF RunNumber

(* A change of one row that leaves its number alone. *)
LEMMA OneRowNumber ==
  ASSUME NEW r \in Rows,
         \A q \in Rows \ {r} : row'[q] = row[q],
         Keeps(r),
         \A e \in row'[r].fills : e \in row[r].fills \/ e[2] = row[r].ordno,
         \A c \in Clients : pc'[c] \in PlacePcs /\ pc[c] \notin PlacePcs
                              => c = r /\ row'[r].ordno = 0
  PROVE  \A q \in Rows : RowNumber(q)
BY DEF RowNumber, Keeps

LEMMA TransitionNumber ==
  ASSUME TypeOK, NEW r \in Rows, NEW to, Transition(r, to),
         \A c \in Clients : pc'[c] \in PlacePcs => pc[c] \in PlacePcs
  PROVE  \A q \in Rows : RowNumber(q)
<1>1. row' = [row EXCEPT ![r].status = to] /\ row \in [Rows -> RowType]
  BY DEF Transition, TypeOK
<1>2. /\ row'[r].ordno = row[r].ordno
      /\ row'[r].fills = row[r].fills
      /\ \A q \in Rows \ {r} : row'[q] = row[q]
  BY <1>1 DEF RowType
<1> QED
  BY <1>2, OneRowNumber DEF Keeps

LEMMA ApplyFillNumber ==
  ASSUME NEW o \in RowType, NEW e, NEW rem
  PROVE  /\ ApplyFill(o, e, rem).ordno = o.ordno
         /\ ApplyFill(o, e, rem).fills \subseteq o.fills \cup {e}
<1> DEFINE to == Target(o, o.fills \cup {e}, rem)
           s == IF CanTransition(o.status, to) THEN to ELSE o.status
           b == [o EXCEPT !.fills = o.fills \cup {e}, !.status = s]
<1>1. b.ordno = o.ordno /\ b.fills = o.fills \cup {e}
  <2> HIDE DEF s
  <2> QED
    BY DEF RowType
<1>2. ApplyFill(o, e, rem) = o \/ ApplyFill(o, e, rem) = b
  BY DEF ApplyFill
<1> HIDE DEF b
<1> QED
  BY <1>1, <1>2

LEMMA PlaceNumber ==
  ASSUME NumberInv, NEW c \in Clients, PlaceStep(c)
  PROVE  StepNumber
<1> USE PipelineAssumption
<1>type. TypeOK /\ row \in [Rows -> RowType] /\ c \in Rows
         /\ pc \in [Clients -> {"idle", "approved", "sending", "taken", "refused",
                                "failed", "error"}]
  BY DEF NumberInv, RowInv, TypeInv, TypeOK, Rows
<1>1. rec' = rec /\ calls' = calls
  BY DEF PlaceStep, PlaceInsert, PlaceAgain, PlaceSubmit, PlaceAck,
     PlaceAckFails, PlaceReject, PlaceInDoubt
<1>2. ~PlaceInsert(c) => \A d \in Clients : pc'[d] \in PlacePcs => pc[d] \in PlacePcs
  BY <1>type DEF PlaceStep, PlaceAgain, PlaceSubmit, PlaceAck, PlaceAckFails,
     PlaceReject, PlaceInDoubt, PlacePcs
<1>3. \A r \in Rows : RowNumber(r)
  <2>1. CASE PlaceInsert(c)
    <3>1. row[c].status = "none" /\ row[c].ordno = 0
      BY <1>type, <2>1 DEF PlaceInsert, Exists, NumberInv, NoneHasNoNumber
    <3>2. /\ row'[c].ordno = 0 /\ row'[c].fills = {}
          /\ \A q \in Rows \ {c} : row'[q] = row[q]
      BY <1>type, <2>1 DEF PlaceInsert
    <3>3. \A d \in Clients \ {c} : pc'[d] = pc[d]
      BY <1>type, <2>1 DEF PlaceInsert
    <3> QED
      BY <1>type, <3>1, <3>2, <3>3, OneRowNumber DEF Keeps
  <2>2. CASE PlaceAck(c)
    <3> DEFINE n == got[c]
    <3>1. row[c].ordno = 0 /\ \A q \in Rows \ {c} : row[q].ordno # n
      BY <2>2 DEF PlaceAck, NumberInv, PendingHasNoNumber, PlacePcs, Taken
    <3>2. /\ row'[c].ordno = n /\ row'[c].fills = row[c].fills
          /\ row'[c].status = "accepted"
          /\ \A q \in Rows \ {c} : row'[q] = row[q]
      BY <1>type, <2>2 DEF PlaceAck, RowType
    <3>3. pc'[c] = "idle" /\ \A d \in Clients \ {c} : pc'[d] = pc[d]
      BY <1>type, <2>2 DEF PlaceAck
    <3>4. Numbered(c)
      BY <3>1, <3>2, <3>3 DEF Numbered, PlacePcs
    <3>5. RowNumber(c)
      BY <3>2, <3>3, <3>4 DEF RowNumber, PlacePcs
    <3>6. ASSUME NEW r \in Rows, r # c
          PROVE  RowNumber(r)
      BY <3>2, <3>3, <3>6 DEF RowNumber, Keeps
    <3> QED
      BY <3>5, <3>6
  <2>3. CASE PlaceSubmit(c) \/ PlaceReject(c) \/ PlaceInDoubt(c)
    <3>1. ~PlaceInsert(c)
      BY <1>type, <2>3 DEF PlaceSubmit, PlaceReject, PlaceInDoubt, PlaceInsert
    <3> QED
      BY <1>type, <1>2, <2>3, <3>1, TransitionNumber
      DEF PlaceSubmit, PlaceReject, PlaceInDoubt
  <2>4. CASE ~PlaceInsert(c) /\ (PlaceAgain(c) \/ PlaceAckFails(c))
    BY <1>2, <2>4, SameRowsNumber DEF PlaceAgain, PlaceAckFails
  <2> QED
    BY <2>1, <2>2, <2>3, <2>4 DEF PlaceStep
<1> QED
  BY <1>1, <1>3, SameRunsNumber DEF StepNumber, NumberInv, NoAmendCalls

LEMMA RecNumber ==
  ASSUME NumberInv, NEW p \in Procs, RecStep(p)
  PROVE  StepNumber
<1> USE PipelineAssumption
<1>type. TypeOK /\ row \in [Rows -> RowType] /\ rec \in [Procs -> RecType]
  BY DEF NumberInv, RowInv, TypeInv, TypeOK
<1>p. rec[p] \in RecType /\ (rec[p].row # 0 => rec[p].ord # 0)
  BY <1>type DEF NumberInv, RowInv, TypeInv, LockHasNumber
<1>0. pc' = pc /\ calls' = calls
  BY DEF RecStep, RecGoesOn, RecList, RecFetch, RecFetchFails, RecApply, RecUnlock,
     RecFinish, RecSkip, RecVanished, RecLock, RecKnown, RecOrphan, RecOrphanFails
<1>1. \A r \in Rows : RowNumber(r)
  <2>1. CASE RecApply(p)
    <3> DEFINE r == rec[p].row
               e == <<"recon", rec[p].ord, rec[p].next>>
               o == ApplyFill(row[r], e, brk[rec[p].ord].qty - rec[p].next)
    <3>1. r \in Rows /\ row[r] \in RowType
      BY <1>type, <1>p, <2>1 DEF RecApply, RecType
    <3>2. row[r].ordno = rec[p].ord
      BY <2>1 DEF RecApply, NumberInv, LockedIsNumber
    <3>3. o.ordno = row[r].ordno /\ o.fills \subseteq row[r].fills \cup {e}
      BY <3>1, ApplyFillNumber
    <3>4. row' = [row EXCEPT ![r] = o]
      BY <2>1 DEF RecApply
    <3>5. /\ row'[r].ordno = row[r].ordno
          /\ row'[r].fills \subseteq row[r].fills \cup {e}
          /\ \A q \in Rows \ {r} : row'[q] = row[q]
      <4> HIDE DEF o, r
      <4> QED
        BY <1>type, <3>1, <3>3, <3>4
    <3>6. e[2] = row[r].ordno
      BY <3>2
    <3>7. \A x \in row'[r].fills : x \in row[r].fills \/ x[2] = row[r].ordno
      <4> HIDE DEF e, r
      <4> QED
        BY <3>5, <3>6
    <3> HIDE DEF r
    <3> QED
      BY <1>0, <3>1, <3>5, <3>7, OneRowNumber DEF Keeps
  <2>2. CASE RecUnlock(p)
    <3>1. rec[p].row \in Rows
      BY <1>p, <2>2 DEF RecUnlock, RecType
    <3> QED
      BY <1>type, <1>0, <2>2, <3>1, SameRowsNumber, TransitionNumber DEF RecUnlock
  <2>3. ASSUME NEW r \in Rows, RecVanished(p, r)
        PROVE  \A q \in Rows : RowNumber(q)
    BY <1>type, <1>0, <2>3, SameRowsNumber, TransitionNumber DEF RecVanished
  <2>4. ASSUME NEW n \in OrdNos, RecOrphan(p, n)
        PROVE  \A q \in Rows : RowNumber(q)
    <3>1. n \in Rows /\ n \notin Clients
      BY DEF Rows, OrdNos
    <3>2. row[n].status = "none" /\ row[n].fills = {} /\ row[n].ordno = 0
      BY <2>4, <3>1
      DEF RecOrphan, Exists, NumberInv, RowInv, NoneIsEmpty, NoneHasNoNumber
    <3>3. \A q \in Rows \ {n} : row[q].ordno # n
      BY <2>4 DEF RecOrphan, Taken
    <3>4. /\ row'[n].ordno = n /\ row'[n].fills = {} /\ row'[n].status = "accepted"
          /\ \A q \in Rows \ {n} : row'[q] = row[q]
      BY <1>type, <2>4, <3>1 DEF RecOrphan
    <3>5. RowNumber(n)
      BY <3>1, <3>2, <3>3, <3>4 DEF RowNumber, Numbered
    <3>6. ASSUME NEW r \in Rows, r # n
          PROVE  RowNumber(r)
      BY <1>0, <3>4, <3>6 DEF RowNumber, Keeps
    <3> QED
      BY <3>5, <3>6
  <2>5. CASE \/ RecList(p) \/ RecFetch(p) \/ RecFetchFails(p) \/ RecFinish(p)
             \/ \E r \in Rows : RecSkip(p, r) \/ RecLock(p, r)
             \/ \E n \in OrdNos : RecKnown(p, n) \/ RecOrphanFails(p, n)
    BY <1>0, <2>5, SameRowsNumber
    DEF RecList, RecFetch, RecFetchFails, RecFinish, RecSkip, RecLock, RecKnown,
        RecOrphanFails
  <2> QED
    BY <2>1, <2>2, <2>3, <2>4, <2>5 DEF RecStep, RecGoesOn
<1>2. \A q \in Procs : RunNumber(q)
  <2>1. RunNumber(p)
    <3>1. CASE RecList(p)
      <4>1. /\ rec'[p].row = 0
            /\ \A r \in Rows : rec'[p].seen[r] \in {0, row[r].ordno}
            /\ row' = row
        BY <1>type, <3>1 DEF RecList, IdleRec
      <4> QED
        BY <4>1 DEF RunNumber
    <3>2. CASE RecFetch(p) \/ RecApply(p)
      <4>1. /\ rec'[p].row = rec[p].row /\ rec'[p].ord = rec[p].ord
            /\ rec'[p].seen = rec[p].seen
        BY <1>type, <1>p, <3>2 DEF RecFetch, RecApply, RecType
      <4> QED
        BY <4>1 DEF RunNumber
    <3>3. CASE RecFetchFails(p) \/ RecFinish(p)
      <4>1. \/ /\ rec'[p].row = rec[p].row /\ rec'[p].ord = rec[p].ord
               /\ rec'[p].seen = rec[p].seen
            \/ rec'[p].row = 0 /\ rec'[p].seen = [r \in Rows |-> 0]
        <5>1. CASE RecFetchFails(p)
          BY <1>type, <1>p, <5>1 DEF RecFetchFails, RecType, IdleRec
        <5>2. CASE RecFinish(p)
          BY <1>type, <1>p, <5>2 DEF RecFinish, RecType, IdleRec
        <5> QED
          BY <3>3, <5>1, <5>2
      <4> QED
        BY <4>1 DEF RunNumber
    <3>4. CASE RecUnlock(p)
      <4>1. rec'[p].row = 0 /\ rec'[p].seen = rec[p].seen
        BY <1>type, <1>p, <3>4 DEF RecUnlock, RecType
      <4> QED
        BY <4>1 DEF RunNumber
    <3>5. ASSUME NEW r \in Rows, RecSkip(p, r) \/ RecVanished(p, r)
          PROVE  RunNumber(p)
      <4>1. /\ rec'[p].row = rec[p].row /\ rec'[p].ord = rec[p].ord
            /\ rec'[p].seen = rec[p].seen
        BY <1>type, <1>p, <3>5 DEF RecSkip, RecVanished, RecType
      <4> QED
        BY <4>1 DEF RunNumber
    <3>6. ASSUME NEW r \in Rows, RecLock(p, r)
          PROVE  RunNumber(p)
      <4>1. /\ rec'[p].row = r /\ rec'[p].ord = rec[p].seen[r]
            /\ rec'[p].seen = rec[p].seen /\ row' = row
        BY <1>type, <1>p, <3>6 DEF RecLock, RecType
      <4>2. row[r].ordno = rec[p].seen[r]
        BY <3>6 DEF RecLock, NumberInv, SeenIsNumber
      <4> QED
        BY <4>1, <4>2 DEF RunNumber
    <3>7. ASSUME NEW n \in OrdNos, RecKnown(p, n)
          PROVE  RunNumber(p)
      <4>1. /\ rec'[p].row = rec[p].row /\ rec'[p].ord = rec[p].ord
            /\ rec'[p].seen = rec[p].seen
        BY <1>type, <1>p, <3>7 DEF RecKnown, RecType
      <4> QED
        BY <4>1 DEF RunNumber
    <3>8. ASSUME NEW n \in OrdNos, RecOrphan(p, n)
          PROVE  RunNumber(p)
      <4>1. rec'[p].row = n /\ rec'[p].ord = n /\ rec'[p].seen = rec[p].seen
        BY <1>type, <1>p, <3>8 DEF RecOrphan, RecType
      <4>2. n \in Rows
        BY DEF Rows
      <4>3. row'[n].ordno = n
        BY <1>type, <3>8, <4>2 DEF RecOrphan
      <4> QED
        BY <4>1, <4>2, <4>3 DEF RunNumber
    <3>9. ASSUME NEW n \in OrdNos, RecOrphanFails(p, n)
          PROVE  RunNumber(p)
      <4>1. rec'[p].row = 0 /\ rec'[p].seen = [r \in Rows |-> 0]
        BY <1>type, <3>9 DEF RecOrphanFails, IdleRec
      <4> QED
        BY <4>1 DEF RunNumber
    <3> QED
      BY <3>1, <3>2, <3>3, <3>4, <3>5, <3>6, <3>7, <3>8, <3>9 DEF RecStep, RecGoesOn
  <2>2. ASSUME NEW q \in Procs, q # p
        PROVE  RunNumber(q)
    <3>1. rec'[q] = rec[q]
      BY <1>type, <2>2
      DEF RecStep, RecGoesOn, RecList, RecFetch, RecFetchFails, RecApply, RecUnlock,
          RecFinish, RecSkip, RecVanished, RecLock, RecKnown, RecOrphan, RecOrphanFails
    <3> QED
      BY <3>1 DEF RunNumber
  <2> QED
    BY <2>1, <2>2
<1> QED
  BY <1>0, <1>1, <1>2 DEF StepNumber, NumberInv, NoAmendCalls

LEMMA OtherNumber ==
  ASSUME NumberInv, ~Amends,
         CallStep \/ TcStep \/ Crash \/ BootStep \/ BrokerStep \/ UNCHANGED vars
  PROVE  StepNumber
<1> USE PipelineAssumption
<1>type. TypeOK /\ row \in [Rows -> RowType] /\ rec \in [Procs -> RecType]
         /\ calls \subseteq CallType
         /\ pc \in [Clients -> {"idle", "approved", "sending", "taken", "refused",
                                "failed", "error"}]
  BY DEF NumberInv, RowInv, TypeInv, TypeOK
<1>calls. \A m \in calls : m.op = "cancel"
  BY DEF NumberInv, NoAmendCalls
<1>1. CASE CallStep
  <2>1. ASSUME NEW m \in calls, CancelApply(m)
        PROVE  StepNumber
    <3>1. m.row \in Rows
      BY <1>type DEF TypeOK, CallType
    <3>2. \A q \in Rows : RowNumber(q)
      BY <1>type, <2>1, <3>1, SameRowsNumber, TransitionNumber DEF CancelApply
    <3> QED
      BY <1>calls, <2>1, <3>2, SameRunsNumber DEF CancelApply, StepNumber
  <2>2. ASSUME NEW r \in Rows, CancelRead(r)
        PROVE  StepNumber
    BY <1>calls, <2>2, SameRowsNumber, SameRunsNumber DEF CancelRead, StepNumber
  <2> QED
    BY <1>1, <1>calls, <2>1, <2>2 DEF CallStep, AmendRead, AmendApply
<1>2. CASE TcStep
  <2>1. PICK r \in Rows, k \in 1..Qty : TcFill(r, k)
    BY <1>2 DEF TcStep
  <2> DEFINE e == <<"tc", row[r].ordno, k>>
             o == ApplyFill(row[r], e, -1)
  <2>2. o.ordno = row[r].ordno /\ o.fills \subseteq row[r].fills \cup {e}
    BY <1>type, ApplyFillNumber
  <2>3. row' = [row EXCEPT ![r] = o]
    BY <2>1 DEF TcFill
  <2>4. /\ row'[r].ordno = row[r].ordno
        /\ row'[r].fills \subseteq row[r].fills \cup {e}
        /\ \A q \in Rows \ {r} : row'[q] = row[q]
    <3> HIDE DEF o
    <3> QED
      BY <1>type, <2>2, <2>3
  <2>5. e[2] = row[r].ordno
    OBVIOUS
  <2>6. \A x \in row'[r].fills : x \in row[r].fills \/ x[2] = row[r].ordno
    <3> HIDE DEF e
    <3> QED
      BY <2>4, <2>5
  <2>7. UNCHANGED <<pc, rec, calls>>
    BY <2>1 DEF TcFill
  <2>8. \A q \in Rows : RowNumber(q)
    BY <2>4, <2>6, <2>7, OneRowNumber DEF Keeps
  <2> QED
    BY <1>calls, <2>7, <2>8, SameRunsNumber DEF StepNumber
<1>3. CASE Crash
  <2>1. \A q \in Rows : RowNumber(q)
    BY <1>3, SameRowsNumber DEF Crash, PlacePcs
  <2>2. \A p \in Procs : RunNumber(p)
    <3> SUFFICES ASSUME NEW p \in Procs PROVE RunNumber(p)
      OBVIOUS
    <3>1. rec'[p].row = 0 /\ rec'[p].seen = [r \in Rows |-> 0]
      BY <1>3 DEF Crash, IdleRec
    <3> QED
      BY <3>1 DEF RunNumber
  <2> QED
    BY <1>3, <2>1, <2>2 DEF Crash, StepNumber
<1>4. CASE BootStep
  <2>1. ASSUME NEW r \in Rows, BootQuarantine(r)
        PROVE  StepNumber
    <3>1. \A q \in Rows : RowNumber(q)
      BY <1>type, <2>1, TransitionNumber DEF BootQuarantine
    <3> QED
      BY <1>calls, <2>1, <3>1, SameRunsNumber DEF BootQuarantine, StepNumber
  <2>2. CASE BootFinish \/ BootFails
    <3>1. UNCHANGED <<row, pc, calls>> /\ rec' = [rec EXCEPT ![Boot] = IdleRec]
      BY <2>2 DEF BootFinish, BootFails
    <3>2. ASSUME NEW p \in Procs
          PROVE  RunNumber(p)
      <4>1. \/ rec'[p] = rec[p]
            \/ rec'[p].row = 0 /\ rec'[p].seen = [r \in Rows |-> 0]
        BY <1>type, <3>1 DEF IdleRec
      <4> QED
        BY <4>1 DEF RunNumber
    <3> QED
      BY <1>calls, <3>1, <3>2, SameRowsNumber DEF StepNumber
  <2> QED
    BY <1>4, <2>1, <2>2 DEF BootStep
<1>5. CASE BrokerStep
  <2>1. row' = row /\ rec' = rec
    BY <1>5 DEF BrokerStep, PlaceAnswer, CallAnswer, BrokerTakes, BrokerRefuses,
       AckMisjudged, BrokerSilent, BrokerCancels, BrokerDeclines, BrokerAmends,
       BrokerExecutes,
       MarketCloses, DayChanges, server
  <2>2. ASSUME NEW c \in Clients, PlaceAnswer(c)
        PROVE  calls' = calls /\ \A d \in Clients : pc'[d] \in PlacePcs => pc[d] \in PlacePcs
    BY <1>type, <2>2
    DEF PlaceAnswer, BrokerTakes, BrokerRefuses, AckMisjudged, BrokerSilent, PlacePcs
  <2>3. ASSUME NEW m \in calls, CallAnswer(m)
        PROVE  pc' = pc /\ \A x \in calls' : x.op = "cancel"
    <3>1. \A new : [m EXCEPT !.st = "acked", !.new = new].op = "cancel"
      BY <1>type, <1>calls DEF CallType
    <3>2. m.op = "cancel"
      BY <1>calls
    <3> QED
      BY <1>calls, <2>3, <3>1, <3>2
      DEF CallAnswer, BrokerCancels, BrokerDeclines, BrokerAmends, Answer
  <2>4. /\ \A d \in Clients : pc'[d] \in PlacePcs => pc[d] \in PlacePcs
        /\ \A x \in calls' : x.op = "cancel"
    <3>1. CASE (\E n \in OrdNos : BrokerExecutes(n)) \/ MarketCloses \/ DayChanges
      BY <1>calls, <3>1 DEF BrokerExecutes, MarketCloses, DayChanges, server
    <3> QED
      BY <1>5, <1>calls, <2>2, <2>3, <3>1 DEF BrokerStep
  <2> QED
    BY <2>1, <2>4, SameRowsNumber, SameRunsNumber DEF StepNumber
<1>6. CASE UNCHANGED vars
  <2>1. UNCHANGED <<row, pc, rec, calls>>
    BY <1>6 DEF vars
  <2> QED
    BY <1>calls, <2>1, SameRowsNumber, SameRunsNumber DEF StepNumber
<1> QED
  BY <1>1, <1>2, <1>3, <1>4, <1>5, <1>6

LEMMA StepNumberInv ==
  ASSUME NumberInv, ~Amends, [Next]_vars
  PROVE  NumberInv'
<1> USE PipelineAssumption
<1>0. RowInv /\ RowInv' /\ row \in [Rows -> RowType] /\ row' \in [Rows -> RowType]
  BY StepRowInv DEF NumberInv, RowInv, TypeInv, TypeOK
<1>1. StepNumber
  BY PlaceNumber, RecNumber, OtherNumber DEF Next
<1>old. /\ PendingHasNoNumber /\ NoneHasNoNumber /\ NumberIsUnique
        /\ FillsOfNumber /\ SeenIsNumber /\ LockedIsNumber
  BY DEF NumberInv
<1>2. NoAmendCalls'
  BY <1>1 DEF StepNumber, NoAmendCalls
<1>3. PendingHasNoNumber'
  <2> SUFFICES ASSUME NEW c \in Clients, pc'[c] \in PlacePcs
               PROVE  row'[c].ordno = 0
    BY DEF PendingHasNoNumber, PlacePcs
  <2>1. RowNumber(c)
    BY <1>1 DEF StepNumber, Rows
  <2> QED
    BY <1>old, <2>1 DEF RowNumber, Keeps, Numbered, PendingHasNoNumber
<1>4. NoneHasNoNumber'
  <2> SUFFICES ASSUME NEW r \in Rows, row'[r].status = "none"
               PROVE  row'[r].ordno = 0
    BY DEF NoneHasNoNumber
  <2>1. row[r].status = "none" /\ RowNumber(r)
    BY <1>0, <1>1, RowsForward DEF StepNumber
  <2> QED
    BY <1>old, <2>1 DEF RowNumber, Keeps, Numbered, NoneHasNoNumber
<1>5. NumberIsUnique'
  <2> SUFFICES ASSUME NEW q \in Rows, NEW r \in Rows, q # r,
                      row'[q].ordno = row'[r].ordno
               PROVE  row'[q].ordno = 0
    BY DEF NumberIsUnique
  <2>1. RowNumber(q) /\ RowNumber(r)
    BY <1>1 DEF StepNumber
  <2>2. CASE Keeps(q) /\ Keeps(r)
    BY <1>old, <2>2 DEF Keeps, NumberIsUnique
  <2>3. CASE Numbered(q) \/ Numbered(r)
    BY <2>3 DEF Numbered
  <2> QED
    BY <2>1, <2>2, <2>3 DEF RowNumber
<1>6. FillsOfNumber'
  <2> SUFFICES ASSUME NEW r \in Rows, NEW e \in row'[r].fills
               PROVE  e[2] = row'[r].ordno
    BY DEF FillsOfNumber
  <2>1. RowNumber(r)
    BY <1>1 DEF StepNumber
  <2>2. e \in row[r].fills => e[2] \in OrdNos /\ e[2] = row[r].ordno
    BY <1>0, <1>old DEF FillsOfNumber, RowType, Events
  <2> QED
    BY <2>1, <2>2 DEF RowNumber, Keeps, Numbered, OrdNos
<1>7. SeenIsNumber'
  <2> SUFFICES ASSUME NEW p \in Procs, NEW r \in Rows, rec'[p].seen[r] # 0
               PROVE  row'[r].ordno = rec'[p].seen[r]
    BY DEF SeenIsNumber
  <2>1. RowNumber(r) /\ RunNumber(p)
    BY <1>1 DEF StepNumber
  <2> QED
    BY <1>old, <2>1 DEF RowNumber, RunNumber, Keeps, Numbered, SeenIsNumber
<1>8. LockedIsNumber'
  <2> SUFFICES ASSUME NEW p \in Procs, rec'[p].row # 0
               PROVE  row'[rec'[p].row].ordno = rec'[p].ord
    BY DEF LockedIsNumber
  <2>1. RunNumber(p)
    BY <1>1 DEF StepNumber
  <2>2. CASE rec'[p].row = rec[p].row /\ rec'[p].ord = rec[p].ord
    <3>1. rec[p].row \in Rows /\ rec[p].ord # 0
      BY <1>0, <2>2 DEF RowInv, TypeInv, TypeOK, RecType, LockHasNumber
    <3>2. RowNumber(rec[p].row)
      BY <1>1, <3>1 DEF StepNumber
    <3>3. row[rec[p].row].ordno = rec[p].ord
      BY <1>old, <2>2 DEF LockedIsNumber
    <3> QED
      BY <2>2, <3>1, <3>2, <3>3 DEF RowNumber, Keeps, Numbered
  <2> QED
    BY <2>1, <2>2 DEF RunNumber
<1> QED
  BY <1>0, <1>2, <1>3, <1>4, <1>5, <1>6, <1>7, <1>8 DEF NumberInv

LEMMA InitNumberInv == Init => NumberInv
<1> SUFFICES ASSUME Init PROVE NumberInv
  OBVIOUS
<1>1. /\ row = [r \in Rows |-> NoRow] /\ calls = {}
      /\ pc = [c \in Clients |-> "idle"] /\ rec = [p \in Procs |-> IdleRec]
  BY DEF Init
<1> QED
  BY <1>1, InitRowInv
  DEF NumberInv, NoAmendCalls, PendingHasNoNumber, NoneHasNoNumber, NumberIsUnique,
      FillsOfNumber, SeenIsNumber, LockedIsNumber, NoRow, IdleRec, PlacePcs

LEMMA NumberInvBookedOnce == NumberInv => BookedOnce
<1> SUFFICES ASSUME NumberInv, NEW q \in Rows, NEW r \in Rows, q # r
             PROVE  ExecutionOf(q) \cap ExecutionOf(r) = {}
  BY DEF BookedOnce
<1>1. ASSUME NEW x \in ExecutionOf(q), x \in ExecutionOf(r)
      PROVE  FALSE
  <2>1. PICK e \in row[q].fills : x = <<e[2], e[3]>>
    BY DEF ExecutionOf
  <2>2. PICK f \in row[r].fills : x = <<f[2], f[3]>>
    BY <1>1 DEF ExecutionOf
  <2>3. e[2] = row[q].ordno /\ f[2] = row[r].ordno /\ e[2] = f[2]
    BY <2>1, <2>2 DEF NumberInv, FillsOfNumber
  <2>4. e[2] # 0
    BY PipelineAssumption DEF NumberInv, RowInv, TypeInv, TypeOK, RowType, Events, OrdNos
  <2> QED
    BY <2>3, <2>4 DEF NumberInv, NumberIsUnique
<1> QED
  BY <1>1

(* However place, reconcile, TC3 and crashes interleave, an execution is in *)
(* the fills of one row only, as long as no order is amended.               *)
THEOREM ExecutionsBookedOnce ==
  ASSUME ~Amends
  PROVE  Spec => []BookedOnce
<1>1. Init => NumberInv
  BY InitNumberInv
<1>2. NumberInv /\ [Next]_vars => NumberInv'
  BY StepNumberInv
<1>3. NumberInv => BookedOnce
  BY NumberInvBookedOnce
<1> QED
  BY <1>1, <1>2, <1>3, PTL DEF Spec
==============================================================================
