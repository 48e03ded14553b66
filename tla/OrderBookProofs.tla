--------------------------- MODULE OrderBookProofs ---------------------------
(***************************************************************************)
(* Proofs about OrderPipeline that relate the rows to the order book of    *)
(* the broker: whose execution a fill is, when an order is over, what a    *)
(* run of reconcile leaves behind and what the boot sequence resolves.     *)
(***************************************************************************)
EXTENDS OrderPipelineProofs

------------------------------------------------------------------------------
(* What a step of a reconcile run does to the record of the run.           *)

Others(p) == \A q \in Procs \ {p} : rec'[q] = rec[q]

(* The fields of a run that most steps leave alone. *)
SameList(p) ==
  /\ rec'[p].pc = rec[p].pc /\ rec'[p].seen = rec[p].seen
  /\ rec'[p].closed = rec[p].closed /\ rec'[p].page = rec[p].page

SameLock(p) ==
  rec'[p].row = rec[p].row /\ rec'[p].ord = rec[p].ord /\ rec'[p].next = rec[p].next

(* A run that is not under way: it has listed and locked nothing. *)
Fresh(R) ==
  /\ R.row = 0 /\ R.todo = {} /\ ~R.closed /\ R.seen = [r \in Rows |-> 0]
  /\ R.view = [n \in OrdNos |-> -1] /\ R.pc \in {"idle", "done", "aborted"}

LEMMA ListFields ==
  ASSUME TypeInv, NEW p \in Procs, RecList(p)
  PROVE  /\ Others(p)
         /\ rec'[p].row = 0
         /\ rec'[p].pc = IF rec'[p].todo # {} THEN "listed" ELSE "orders"
         /\ rec'[p].todo = {r \in Rows : Open(r)}
         /\ \A r \in Rows : rec'[p].seen[r] = IF Open(r) THEN row[r].ordno ELSE 0
         /\ \A n \in OrdNos : rec'[p].view[n] = -1
         /\ rec'[p].page = "none"
BY DEF RecList, Others, TypeInv, TypeOK, RecType, IdleRec

LEMMA FetchFields ==
  ASSUME TypeInv, NEW p \in Procs, RecFetch(p)
  PROVE  /\ Others(p) /\ SameLock(p)
         /\ rec'[p].pc = "orders" /\ rec'[p].todo = rec[p].todo
         /\ rec'[p].seen = rec[p].seen /\ rec'[p].page = "day"
         /\ \A n \in OrdNos :
              rec'[p].view[n] = IF brk[n].st # "none" /\ n \notin past
                                THEN brk[n].execs ELSE -1
<1> DEFINE v == [n \in OrdNos |-> IF brk[n].st # "none" /\ n \notin past
                                  THEN brk[n].execs ELSE -1]
<1>1. rec' = [rec EXCEPT ![p].pc = "orders", ![p].page = "day", ![p].view = v]
  BY DEF RecFetch
<1>2. rec[p] \in RecType /\ rec \in [Procs -> RecType]
  BY DEF TypeInv, TypeOK
<1> HIDE DEF v
<1>3. /\ Others(p) /\ SameLock(p)
      /\ rec'[p].pc = "orders" /\ rec'[p].todo = rec[p].todo
      /\ rec'[p].seen = rec[p].seen /\ rec'[p].page = "day"
      /\ rec'[p].view = v
  BY <1>1, <1>2 DEF Others, SameLock, RecType
<1> QED
  BY <1>3 DEF v

LEMMA FailFields ==
  ASSUME TypeInv, NEW p \in Procs, RecFetchFails(p)
  PROVE  /\ Others(p)
         /\ \/ Fresh(rec'[p]) /\ rec'[p].pc = "aborted"
            \/ /\ SameLock(p)
               /\ rec'[p].todo = rec[p].todo /\ rec'[p].seen = rec[p].seen
               /\ rec'[p].view = rec[p].view /\ rec'[p].page = "error"
               /\ rec'[p].pc = "orders"
<1>1. rec[p] \in RecType /\ rec \in [Procs -> RecType]
  BY DEF TypeInv, TypeOK
<1>2. CASE rec' = [rec EXCEPT ![p] = [IdleRec EXCEPT !.pc = "aborted"]]
  BY <1>1, <1>2 DEF Others, Fresh, IdleRec
<1>3. CASE rec' = [rec EXCEPT ![p].pc = "orders", ![p].page = "error"]
  BY <1>1, <1>3 DEF Others, SameLock, RecType
<1> QED
  BY <1>2, <1>3 DEF RecFetchFails

LEMMA ApplyFields ==
  ASSUME TypeInv, NEW p \in Procs, RecApply(p)
  PROVE  /\ Others(p) /\ SameList(p)
         /\ rec'[p].todo = rec[p].todo /\ rec'[p].view = rec[p].view
         /\ rec'[p].row = rec[p].row /\ rec'[p].ord = rec[p].ord
         /\ rec'[p].next = rec[p].next - 1
<1> DEFINE a == \/ rec[p].applied
                \/ ApplyFill(row[rec[p].row], <<"recon", rec[p].ord, rec[p].next>>,
                             brk[rec[p].ord].qty - rec[p].next) # row[rec[p].row]
<1>1. rec' = [rec EXCEPT ![p].next = rec[p].next - 1, ![p].applied = a]
  BY DEF RecApply, TypeInv, TypeOK
<1> HIDE DEF a
<1> QED
  BY <1>1 DEF Others, SameList, TypeInv, TypeOK, RecType

LEMMA UnlockFields ==
  ASSUME TypeInv, NEW p \in Procs, RecUnlock(p)
  PROVE  /\ Others(p) /\ SameList(p)
         /\ rec'[p].todo = rec[p].todo \ {rec[p].row}
         /\ rec'[p].view = rec[p].view /\ rec'[p].row = 0
BY DEF RecUnlock, Others, SameList, TypeInv, TypeOK, RecType

LEMMA FinishFields ==
  ASSUME TypeInv, NEW p \in Procs, RecFinish(p)
  PROVE  /\ Others(p) /\ Fresh(rec'[p])
         /\ rec'[p].pc = "done" => p = Boot /\ rec'[p].page = rec[p].page
         /\ rec'[p].pc = "idle" => p # Boot
BY DEF RecFinish, Others, Fresh, TypeInv, TypeOK, RecType, IdleRec

LEMMA SkipFields ==
  ASSUME TypeInv, NEW p \in Procs, NEW r \in Rows, RecSkip(p, r) \/ RecVanished(p, r)
  PROVE  /\ Others(p) /\ SameList(p) /\ SameLock(p)
         /\ rec'[p].todo = rec[p].todo \ {r} /\ rec'[p].view = rec[p].view
BY DEF RecSkip, RecVanished, Others, SameList, SameLock, TypeInv, TypeOK, RecType

LEMMA LockFields ==
  ASSUME TypeInv, NEW p \in Procs, NEW r \in Rows, RecLock(p, r)
  PROVE  /\ Others(p) /\ SameList(p)
         /\ rec'[p].todo = rec[p].todo /\ rec'[p].view = rec[p].view
         /\ rec'[p].row = r /\ rec'[p].ord = rec[p].seen[r]
         /\ rec'[p].next = rec[p].view[rec[p].seen[r]]
         /\ rec[p].seen[r] \in OrdNos
<1> DEFINE n == rec[p].seen[r]
           k == rec[p].view[n]
<1>1. rec' = [rec EXCEPT ![p].row = r, ![p].ord = n, ![p].next = k, ![p].applied = FALSE]
  BY DEF RecLock
<1>2. rec[p] \in RecType /\ rec \in [Procs -> RecType] /\ n # 0
  BY DEF RecLock, TypeInv, TypeOK
<1>3. n \in OrdNos
  BY <1>2, PipelineAssumption DEF RecType, OrdNos, OrdNos0
<1> HIDE DEF n, k
<1>4. /\ Others(p) /\ SameList(p)
      /\ rec'[p].todo = rec[p].todo /\ rec'[p].view = rec[p].view
      /\ rec'[p].row = r /\ rec'[p].ord = n /\ rec'[p].next = k
  BY <1>1, <1>2 DEF Others, SameList, RecType
<1> QED
  BY <1>3, <1>4 DEF n, k

LEMMA KnownFields ==
  ASSUME TypeInv, NEW p \in Procs, NEW n \in OrdNos, RecKnown(p, n)
  PROVE  /\ Others(p) /\ SameList(p) /\ SameLock(p)
         /\ rec'[p].todo = rec[p].todo
         /\ rec'[p].view[n] = -1
         /\ \A k \in OrdNos \ {n} : rec'[p].view[k] = rec[p].view[k]
<1> DEFINE v == [rec[p].view EXCEPT ![n] = -1]
<1>1. rec' = [rec EXCEPT ![p].view = v]
  BY DEF RecKnown, TypeInv, TypeOK
<1>3. v[n] = -1 /\ \A k \in OrdNos \ {n} : v[k] = rec[p].view[k]
  BY DEF TypeInv, TypeOK, RecType
<1> HIDE DEF v
<1>2. /\ Others(p) /\ SameList(p) /\ SameLock(p)
      /\ rec'[p].todo = rec[p].todo /\ rec'[p].view = v
  BY <1>1 DEF Others, SameList, SameLock, TypeInv, TypeOK, RecType
<1> QED
  BY <1>2, <1>3

LEMMA OrphanFields ==
  ASSUME TypeInv, NEW p \in Procs, NEW n \in OrdNos, RecOrphan(p, n)
  PROVE  /\ Others(p) /\ SameList(p)
         /\ rec'[p].todo = rec[p].todo
         /\ rec'[p].view[n] = -1
         /\ \A k \in OrdNos \ {n} : rec'[p].view[k] = rec[p].view[k]
         /\ rec'[p].row = n /\ rec'[p].ord = n /\ rec'[p].next = rec[p].view[n]
         /\ n \in Rows /\ n \notin Clients
         /\ row[n].status = "none"
         /\ row'[n].status = "accepted" /\ row'[n].ordno = n /\ row'[n].fills = {}
         /\ \A q \in Rows \ {n} : row'[q] = row[q]
<1> DEFINE v == [rec[p].view EXCEPT ![n] = -1]
           k == rec[p].view[n]
<1>1. rec' = [rec EXCEPT ![p].view = v, ![p].row = n, ![p].ord = n, ![p].next = k,
                         ![p].applied = FALSE]
  BY DEF RecOrphan, TypeInv, TypeOK
<1>2. n \in Rows /\ n \notin Clients
  BY PipelineAssumption DEF Rows, OrdNos
<1>3. /\ row[n].status = "none"
      /\ row'[n].status = "accepted" /\ row'[n].ordno = n /\ row'[n].fills = {}
      /\ \A q \in Rows \ {n} : row'[q] = row[q]
  BY <1>2 DEF RecOrphan, Exists, TypeInv, TypeOK
<1>5. v[n] = -1 /\ \A m \in OrdNos \ {n} : v[m] = rec[p].view[m]
  BY DEF TypeInv, TypeOK, RecType
<1> HIDE DEF v
<1>4. /\ Others(p) /\ SameList(p)
      /\ rec'[p].todo = rec[p].todo /\ rec'[p].view = v
      /\ rec'[p].row = n /\ rec'[p].ord = n /\ rec'[p].next = k
  BY <1>1 DEF Others, SameList, TypeInv, TypeOK, RecType
<1> QED
  BY <1>2, <1>3, <1>4, <1>5

LEMMA OrphanFailFields ==
  ASSUME TypeInv, NEW p \in Procs, NEW n \in OrdNos, RecOrphanFails(p, n)
  PROVE  Others(p) /\ Fresh(rec'[p]) /\ rec'[p].pc = "aborted"
BY DEF RecOrphanFails, Others, Fresh, TypeInv, TypeOK, RecType, IdleRec

(* repo.transition changes the status of one row and nothing else. *)
LEMMA TransitionFields ==
  ASSUME TypeInv, NEW r \in Rows, NEW to, Transition(r, to)
  PROVE  /\ row'[r].status = to /\ CanTransition(row[r].status, to)
         /\ \A q \in Rows : row'[q].ordno = row[q].ordno /\ row'[q].fills = row[q].fills
         /\ \A q \in Rows \ {r} : row'[q] = row[q]
BY DEF Transition, TypeInv, TypeOK, RowType

------------------------------------------------------------------------------
(* A fill is an execution of the row's own order.                           *)
(*                                                                          *)
(* The argument: the broker keeps the owner of an order when it goes on     *)
(* under a new number, and every number the server holds for a row -- in    *)
(* the row, in an answer, in a request, in what a run has listed or locked  *)
(* -- is a number of the row's owner.  What a run has read of an order is   *)
(* never more than what is executed, since executions are not taken back.   *)

Owns(r, n) == brk[n].owner # 0 /\ brk[n].owner = OwnerOf(r)

UnusedIsEmpty ==
  \A n \in OrdNos : /\ brk[n].owner = 0 <=> brk[n].st = "none"
                    /\ brk[n].st = "none" => brk[n].execs = 0

RowIsOwned == \A r \in Rows : row[r].ordno # 0 => Owns(r, row[r].ordno)

AnswerIsOwned == \A c \in Clients : got[c] # 0 => Owns(c, got[c])

CallIsOwned ==
  \A m \in calls : Owns(m.row, m.ordno) /\ (m.new # 0 => Owns(m.row, m.new))

SeenIsOwned ==
  \A p \in Procs, r \in Rows : rec[p].seen[r] # 0 => Owns(r, rec[p].seen[r])

LockIsOwned ==
  \A p \in Procs : rec[p].row # 0 =>
    Owns(rec[p].row, rec[p].ord) /\ rec[p].next <= brk[rec[p].ord].execs

ViewIsExecuted ==
  \A p \in Procs, n \in OrdNos : rec[p].view[n] # -1 =>
    brk[n].st # "none" /\ rec[p].view[n] <= brk[n].execs

FillIsOwned ==
  \A r \in Rows : \A e \in row[r].fills : Owns(r, e[2]) /\ e[3] <= brk[e[2]].execs

OwnInv ==
  /\ RowInv
  /\ UnusedIsEmpty /\ RowIsOwned /\ AnswerIsOwned /\ CallIsOwned /\ SeenIsOwned
  /\ LockIsOwned /\ ViewIsExecuted /\ FillIsOwned

(* The broker takes no execution back, keeps the owner of an order and      *)
(* gives a number to one order only.                                        *)
BookForward ==
  \A n \in OrdNos :
    /\ brk[n].owner # 0 => brk'[n].owner = brk[n].owner
    /\ brk[n].st # "none" => brk'[n].st # "none"
    /\ brk[n].execs <= brk'[n].execs

LEMMA StepBookForward ==
  ASSUME TypeInv, UnusedIsEmpty, [Next]_vars
  PROVE  BookForward /\ UnusedIsEmpty'
<1> USE PipelineAssumption
<1>type. brk \in [OrdNos -> BrkType] /\ calls \subseteq CallType /\ 0 \notin Clients
  BY DEF TypeInv, TypeOK
<1>0. ASSUME brk' = brk
      PROVE  BookForward /\ UnusedIsEmpty'
  BY <1>0, <1>type DEF BookForward, UnusedIsEmpty, BrkType
<1>1. ASSUME NEW c \in Clients, NEW n \in OrdNos, BrokerTakes(c, n)
      PROVE  BookForward /\ UnusedIsEmpty'
  <2>1. /\ brk[n].st = "none" /\ brk[n].owner = 0 /\ brk[n].execs = 0
        /\ brk'[n].st = "working" /\ brk'[n].owner = c /\ brk'[n].execs = 0
        /\ \A m \in OrdNos \ {n} : brk'[m] = brk[m]
    BY <1>1, <1>type DEF BrokerTakes, NextOrdNo, UnusedIsEmpty
  <2> QED
    BY <2>1, <1>type DEF BookForward, UnusedIsEmpty, BrkType
<1>2. ASSUME NEW m \in calls, BrokerCancels(m)
      PROVE  BookForward /\ UnusedIsEmpty'
  <2>1. m.ordno \in OrdNos
    BY <1>type DEF CallType
  <2>2. /\ brk[m.ordno].st = "working" /\ brk'[m.ordno].st = "closed"
        /\ \A n \in OrdNos : brk'[n].owner = brk[n].owner /\ brk'[n].execs = brk[n].execs
        /\ \A n \in OrdNos \ {m.ordno} : brk'[n] = brk[n]
    BY <1>2, <1>type, <2>1 DEF BrokerCancels, BrkType
  <2> QED
    BY <2>1, <2>2, <1>type DEF BookForward, UnusedIsEmpty, BrkType
<1>3. ASSUME NEW m \in calls, NEW n \in OrdNos, BrokerAmends(m, n)
      PROVE  BookForward /\ UnusedIsEmpty'
  <2>1. m.ordno \in OrdNos /\ m.ordno # n
    BY <1>3, <1>type DEF CallType, BrokerAmends, NextOrdNo
  <2>2. /\ brk[n].st = "none" /\ brk[n].owner = 0 /\ brk[n].execs = 0
        /\ brk'[n].st = "working" /\ brk'[n].owner = brk[m.ordno].owner
        /\ brk'[n].execs = 0
        /\ brk[m.ordno].st = "working" /\ brk'[m.ordno].st = "closed"
        /\ brk'[m.ordno].owner = brk[m.ordno].owner
        /\ brk'[m.ordno].execs = brk[m.ordno].execs
        /\ \A k \in OrdNos \ {n, m.ordno} : brk'[k] = brk[k]
    BY <1>3, <1>type, <2>1 DEF BrokerAmends, NextOrdNo, BrkType, UnusedIsEmpty
  <2> QED
    BY <2>1, <2>2, <1>type DEF BookForward, UnusedIsEmpty, BrkType
<1>4. ASSUME NEW n \in OrdNos, BrokerExecutes(n)
      PROVE  BookForward /\ UnusedIsEmpty'
  <2>1. /\ brk[n].st = "working" /\ brk'[n].st \in {"working", "closed"}
        /\ brk'[n].owner = brk[n].owner /\ brk'[n].execs = brk[n].execs + 1
        /\ \A k \in OrdNos \ {n} : brk'[k] = brk[k]
    BY <1>4, <1>type DEF BrokerExecutes, BrkType
  <2> QED
    BY <2>1, <1>type DEF BookForward, UnusedIsEmpty, BrkType
<1>5. ASSUME MarketCloses
      PROVE  BookForward /\ UnusedIsEmpty'
  <2>1. \A n \in OrdNos :
          /\ brk'[n].owner = brk[n].owner /\ brk'[n].execs = brk[n].execs
          /\ brk'[n].st = "none" <=> brk[n].st = "none"
    BY <1>5, <1>type DEF MarketCloses, BrkType
  <2> QED
    BY <2>1, <1>type DEF BookForward, UnusedIsEmpty, BrkType
<1>6. ASSUME DayChanges \/ UNCHANGED vars
      PROVE  brk' = brk
  BY <1>6 DEF DayChanges, vars
<1>7. ASSUME NEW c \in Clients, BrokerRefuses(c) \/ AckMisjudged(c)
                                \/ BrokerSilent(c) \/ PlaceStep(c)
      PROVE  brk' = brk
  BY <1>7 DEF BrokerRefuses, AckMisjudged, BrokerSilent, PlaceStep, PlaceInsert,
     PlaceAgain,
     PlaceSubmit, PlaceAck, PlaceAckFails, PlaceReject, PlaceInDoubt, broker
<1>8. ASSUME NEW m \in calls, BrokerDeclines(m)
      PROVE  brk' = brk
  BY <1>8 DEF BrokerDeclines, broker
<1>9. ASSUME NEW p \in Procs, RecStep(p)
      PROVE  brk' = brk
  BY <1>9 DEF RecStep, RecGoesOn, RecList, RecFetch, RecFetchFails, RecApply, RecUnlock,
     RecFinish, RecSkip, RecVanished, RecLock, RecKnown, RecOrphan, RecOrphanFails,
     broker
<1>10. ASSUME CallStep \/ TcStep \/ Crash \/ BootStep
       PROVE  brk' = brk
  BY <1>10 DEF CallStep, CancelRead, AmendRead, CancelApply, AmendApply, TcStep,
     TcFill, Crash, BootStep, BootQuarantine, BootFinish, BootFails, broker
<1>11. ASSUME BrokerStep
       PROVE  BookForward /\ UnusedIsEmpty'
  BY <1>0, <1>1, <1>2, <1>3, <1>4, <1>5, <1>6, <1>7, <1>8, <1>11
  DEF BrokerStep, PlaceAnswer, CallAnswer
<1> QED
  BY <1>0, <1>6, <1>7, <1>9, <1>10, <1>11 DEF Next

LEMMA OwnsForward ==
  ASSUME BookForward, NEW r \in Rows, NEW n \in OrdNos, Owns(r, n)
  PROVE  Owns(r, n)'
BY DEF BookForward, Owns, OwnerOf, Rows

(* What one step may do to a row, a run, a request and an answer.           *)
OwnedFill(r, e) == Owns(r, e[2]) /\ e[3] <= brk[e[2]].execs

RowOwned(r) ==
  /\ row'[r].ordno \in {0, row[r].ordno} \/ Owns(r, row'[r].ordno)
  /\ \A e \in row'[r].fills : e \in row[r].fills \/ OwnedFill(r, e)

RunOwned(p) ==
  /\ \A r \in Rows : \/ rec'[p].seen[r] \in {0, rec[p].seen[r]}
                     \/ Owns(r, rec'[p].seen[r])
  /\ \/ rec'[p].row = 0
     \/ /\ rec'[p].row = rec[p].row /\ rec'[p].ord = rec[p].ord
        /\ rec'[p].next <= rec[p].next
     \/ /\ rec'[p].ord \in OrdNos /\ rec'[p].row \in Rows
        /\ Owns(rec'[p].row, rec'[p].ord)
        /\ rec'[p].next <= brk[rec'[p].ord].execs
  /\ \A n \in OrdNos :
       \/ rec'[p].view[n] \in {-1, rec[p].view[n]}
       \/ brk[n].st # "none" /\ rec'[p].view[n] <= brk[n].execs

CallOwned(m) == m \in calls \/ (Owns(m.row, m.ordno) /\ m.new = 0)

ServerOwned ==
  /\ \A r \in Rows : RowOwned(r)
  /\ \A p \in Procs : RunOwned(p)
  /\ \A m \in calls' : CallOwned(m)
  /\ \A c \in Clients : got'[c] \in {0, got[c]}

LEMMA SameRowOwned ==
  ASSUME NEW r \in Rows, row'[r].ordno = row[r].ordno, row'[r].fills = row[r].fills
  PROVE  RowOwned(r)
BY DEF RowOwned

LEMMA SameRunOwned ==
  ASSUME TypeInv, NEW p \in Procs, rec'[p] = rec[p]
  PROVE  RunOwned(p)
<1>1. rec[p] \in RecType
  BY DEF TypeInv, TypeOK
<1> QED
  BY <1>1 DEF RunOwned, RecType

LEMMA TransitionOwned ==
  ASSUME TypeInv, NEW r \in Rows, NEW to, Transition(r, to)
  PROVE  \A q \in Rows : RowOwned(q)
BY TransitionFields, SameRowOwned

LEMMA ApplyFillOwned ==
  ASSUME TypeInv, NEW r \in Rows, NEW e, NEW rem, OwnedFill(r, e),
         row' = [row EXCEPT ![r] = ApplyFill(row[r], e, rem)]
  PROVE  \A q \in Rows : RowOwned(q)
<1> DEFINE o == ApplyFill(row[r], e, rem)
<1>1. row[r] \in RowType /\ row \in [Rows -> RowType]
  BY DEF TypeInv, TypeOK
<1>2. o.ordno = row[r].ordno /\ o.fills \subseteq row[r].fills \cup {e}
  BY <1>1, ApplyFillNumber
<1>3. row'[r] = o /\ \A q \in Rows \ {r} : row'[q] = row[q]
  BY <1>1
<1> HIDE DEF o
<1>4. RowOwned(r)
  BY <1>2, <1>3 DEF RowOwned
<1> QED
  BY <1>3, <1>4, SameRowOwned

LEMMA PlaceOwned ==
  ASSUME OwnInv, NEW c \in Clients, PlaceStep(c)
  PROVE  ServerOwned
<1> USE PipelineAssumption
<1>type. /\ TypeInv /\ row \in [Rows -> RowType] /\ c \in Rows
         /\ got \in [Clients -> OrdNos0]
  BY DEF OwnInv, RowInv, TypeInv, TypeOK, Rows
<1>1. /\ rec' = rec /\ calls' = calls
      /\ \A d \in Clients : got'[d] \in {0, got[d]}
  BY <1>type DEF PlaceStep, PlaceInsert, PlaceAgain, PlaceSubmit, PlaceAck,
     PlaceAckFails, PlaceReject, PlaceInDoubt
<1>2. \A r \in Rows : RowOwned(r)
  <2>1. CASE PlaceInsert(c)
    <3>1. /\ row'[c].ordno = 0 /\ row'[c].fills = {}
          /\ \A q \in Rows \ {c} : row'[q] = row[q]
      BY <1>type, <2>1 DEF PlaceInsert
    <3> QED
      BY <3>1 DEF RowOwned
  <2>2. CASE PlaceAck(c)
    <3>1. /\ row'[c].ordno = got[c] /\ row'[c].fills = row[c].fills
          /\ \A q \in Rows \ {c} : row'[q] = row[q]
      BY <1>type, <2>2 DEF PlaceAck, RowType
    <3>2. got[c] # 0 => Owns(c, got[c])
      BY DEF OwnInv, AnswerIsOwned
    <3> QED
      BY <3>1, <3>2 DEF RowOwned
  <2>3. CASE PlaceSubmit(c) \/ PlaceReject(c) \/ PlaceInDoubt(c)
    BY <1>type, <2>3, TransitionOwned DEF PlaceSubmit, PlaceReject, PlaceInDoubt
  <2>4. CASE PlaceAgain(c) \/ PlaceAckFails(c)
    BY <2>4, SameRowOwned DEF PlaceAgain, PlaceAckFails
  <2> QED
    BY <2>1, <2>2, <2>3, <2>4 DEF PlaceStep
<1> QED
  BY <1>type, <1>1, <1>2, SameRunOwned DEF ServerOwned, CallOwned

LEMMA RecRowOwned ==
  ASSUME OwnInv, NEW p \in Procs, RecStep(p)
  PROVE  \A r \in Rows : RowOwned(r)
<1> USE PipelineAssumption
<1>type. TypeInv /\ row \in [Rows -> RowType] /\ rec[p] \in RecType
  BY DEF OwnInv, RowInv, TypeInv, TypeOK
<1>1. CASE RecApply(p)
  <2> DEFINE r == rec[p].row
             e == <<"recon", rec[p].ord, rec[p].next>>
  <2>1. r \in Rows /\ OwnedFill(r, e)
    BY <1>type, <1>1 DEF RecApply, RecType, OwnInv, LockIsOwned, OwnedFill
  <2> QED
    BY <1>type, <1>1, <2>1, ApplyFillOwned DEF RecApply
<1>2. CASE RecUnlock(p)
  <2>1. rec[p].row \in Rows
    BY <1>type, <1>2 DEF RecUnlock, RecType
  <2> QED
    BY <1>type, <1>2, <2>1, SameRowOwned, TransitionOwned DEF RecUnlock
<1>3. ASSUME NEW r \in Rows, RecVanished(p, r)
      PROVE  \A q \in Rows : RowOwned(q)
  BY <1>type, <1>3, SameRowOwned, TransitionOwned DEF RecVanished
<1>4. ASSUME NEW n \in OrdNos, RecOrphan(p, n)
      PROVE  \A q \in Rows : RowOwned(q)
  <2>1. /\ n \in Rows /\ n \notin Clients
        /\ row'[n].ordno = n /\ row'[n].fills = {}
        /\ \A q \in Rows \ {n} : row'[q] = row[q]
    BY <1>type, <1>4, OrphanFields
  <2>2. rec[p].view[n] # -1
    BY <1>4 DEF RecOrphan, AtOrdNo
  <2>3. Owns(n, n)
    BY <2>1, <2>2 DEF OwnInv, ViewIsExecuted, UnusedIsEmpty, Owns, OwnerOf
  <2> QED
    BY <2>1, <2>3 DEF RowOwned
<1>5. CASE \/ RecList(p) \/ RecFetch(p) \/ RecFetchFails(p) \/ RecFinish(p)
           \/ \E r \in Rows : RecSkip(p, r) \/ RecLock(p, r)
           \/ \E n \in OrdNos : RecKnown(p, n) \/ RecOrphanFails(p, n)
  BY <1>5, SameRowOwned
  DEF RecList, RecFetch, RecFetchFails, RecFinish, RecSkip, RecLock, RecKnown,
      RecOrphanFails
<1> QED
  BY <1>1, <1>2, <1>3, <1>4, <1>5 DEF RecStep, RecGoesOn

LEMMA RecRunOwned ==
  ASSUME OwnInv, NEW p \in Procs, RecStep(p)
  PROVE  \A q \in Procs : RunOwned(q)
<1> USE PipelineAssumption
<1>type. TypeInv /\ rec[p] \in RecType /\ brk \in [OrdNos -> BrkType]
  BY DEF OwnInv, RowInv, TypeInv, TypeOK
<1>fresh. Fresh(rec'[p]) => RunOwned(p)
  BY DEF Fresh, RunOwned
<1>1. ASSUME Others(p), RunOwned(p)
      PROVE  \A q \in Procs : RunOwned(q)
  BY <1>type, <1>1, SameRunOwned DEF Others
<1>2. CASE RecList(p)
  <2>1. \A r \in Rows : row[r].ordno # 0 => Owns(r, row[r].ordno)
    BY DEF OwnInv, RowIsOwned
  <2>2. \A r \in Rows : rec'[p].seen[r] \in {0, row[r].ordno}
    BY <1>type, <1>2, ListFields
  <2>3. rec'[p].row = 0 /\ \A n \in OrdNos : rec'[p].view[n] = -1
    BY <1>type, <1>2, ListFields
  <2>4. RunOwned(p)
    BY <2>1, <2>2, <2>3 DEF RunOwned
  <2> QED
    BY <1>type, <1>1, <1>2, <2>4, ListFields
<1>3. CASE RecFetch(p)
  <2>1. /\ rec'[p].seen = rec[p].seen /\ rec'[p].row = rec[p].row
        /\ rec'[p].ord = rec[p].ord /\ rec'[p].next = rec[p].next
    BY <1>type, <1>3, FetchFields DEF SameLock
  <2>2. \A n \in OrdNos : \/ rec'[p].view[n] = -1
                          \/ brk[n].st # "none" /\ rec'[p].view[n] = brk[n].execs
    BY <1>type, <1>3, FetchFields
  <2>3. rec[p].next \in Int /\ \A n \in OrdNos : brk[n].execs \in Int
    BY <1>type DEF RecType, BrkType
  <2>4. RunOwned(p)
    BY <2>1, <2>2, <2>3 DEF RunOwned
  <2> QED
    BY <1>type, <1>1, <1>3, <2>4, FetchFields
<1>4. CASE RecFetchFails(p)
  <2>1. RunOwned(p)
    BY <1>type, <1>4, <1>fresh, FailFields DEF RunOwned, SameLock, RecType
  <2> QED
    BY <1>type, <1>1, <1>4, <2>1, FailFields
<1>5. CASE RecApply(p)
  <2>1. RunOwned(p)
    BY <1>type, <1>5, ApplyFields DEF RunOwned, SameList, RecType
  <2> QED
    BY <1>type, <1>1, <1>5, <2>1, ApplyFields
<1>6. CASE RecUnlock(p)
  <2>1. RunOwned(p)
    BY <1>type, <1>6, UnlockFields DEF RunOwned, SameList
  <2> QED
    BY <1>type, <1>1, <1>6, <2>1, UnlockFields
<1>7. CASE RecFinish(p)
  BY <1>type, <1>1, <1>7, <1>fresh, FinishFields
<1>8. ASSUME NEW r \in Rows, RecSkip(p, r) \/ RecVanished(p, r)
      PROVE  \A q \in Procs : RunOwned(q)
  <2>1. RunOwned(p)
    BY <1>type, <1>8, SkipFields DEF RunOwned, SameList, SameLock, RecType
  <2> QED
    BY <1>type, <1>1, <1>8, <2>1, SkipFields
<1>9. ASSUME NEW r \in Rows, RecLock(p, r)
      PROVE  \A q \in Procs : RunOwned(q)
  <2> DEFINE n == rec[p].seen[r]
  <2>1. n \in OrdNos /\ n # 0 /\ rec[p].view[n] # -1
    BY <1>type, <1>9, LockFields DEF RecLock, OrdNos
  <2>2. Owns(r, n) /\ rec[p].view[n] <= brk[n].execs
    BY <2>1 DEF OwnInv, SeenIsOwned, ViewIsExecuted
  <2>3. RunOwned(p)
    BY <1>type, <1>9, <2>1, <2>2, LockFields DEF RunOwned, SameList
  <2> QED
    BY <1>type, <1>1, <1>9, <2>3, LockFields
<1>10. ASSUME NEW n \in OrdNos, RecKnown(p, n)
       PROVE  \A q \in Procs : RunOwned(q)
  <2>1. /\ rec'[p].seen = rec[p].seen /\ rec'[p].row = rec[p].row
        /\ rec'[p].ord = rec[p].ord /\ rec'[p].next = rec[p].next
    BY <1>type, <1>10, KnownFields DEF SameList, SameLock
  <2>2. \A k \in OrdNos : rec'[p].view[k] \in {-1, rec[p].view[k]}
    BY <1>type, <1>10, KnownFields DEF RecType
  <2>3. rec[p].next \in Int
    BY <1>type DEF RecType
  <2>4. RunOwned(p)
    BY <2>1, <2>2, <2>3 DEF RunOwned
  <2> QED
    BY <1>type, <1>1, <1>10, <2>4, KnownFields
<1>11. ASSUME NEW n \in OrdNos, RecOrphan(p, n)
       PROVE  \A q \in Procs : RunOwned(q)
  <2>1. n \in Rows /\ n \notin Clients /\ rec[p].view[n] # -1
    BY <1>type, <1>11, OrphanFields DEF RecOrphan, AtOrdNo
  <2>2. Owns(n, n) /\ rec[p].view[n] <= brk[n].execs
    BY <2>1 DEF OwnInv, ViewIsExecuted, UnusedIsEmpty, Owns, OwnerOf
  <2>3. /\ rec'[p].seen = rec[p].seen /\ rec'[p].row = n
        /\ rec'[p].ord = n /\ rec'[p].next = rec[p].view[n]
    BY <1>type, <1>11, OrphanFields DEF SameList
  <2>4. \A k \in OrdNos : rec'[p].view[k] \in {-1, rec[p].view[k]}
    BY <1>type, <1>11, OrphanFields DEF RecType
  <2>5. RunOwned(p)
    BY <2>1, <2>2, <2>3, <2>4 DEF RunOwned
  <2> QED
    BY <1>type, <1>1, <1>11, <2>5, OrphanFields
<1>12. ASSUME NEW n \in OrdNos, RecOrphanFails(p, n)
       PROVE  \A q \in Procs : RunOwned(q)
  BY <1>type, <1>1, <1>12, <1>fresh, OrphanFailFields
<1> QED
  BY <1>2, <1>3, <1>4, <1>5, <1>6, <1>7, <1>8, <1>9, <1>10, <1>11, <1>12 DEF RecStep,
     RecGoesOn

LEMMA RecOwned ==
  ASSUME OwnInv, NEW p \in Procs, RecStep(p)
  PROVE  ServerOwned
<1>1. calls' = calls /\ got' = got
  BY DEF RecStep, RecGoesOn, RecList, RecFetch, RecFetchFails, RecApply, RecUnlock,
     RecFinish, RecSkip, RecVanished, RecLock, RecKnown, RecOrphan, RecOrphanFails
<1> QED
  BY <1>1, RecRowOwned, RecRunOwned DEF ServerOwned, CallOwned

LEMMA OtherOwned ==
  ASSUME OwnInv, CallStep \/ TcStep \/ Crash \/ BootStep
  PROVE  ServerOwned
<1> USE PipelineAssumption
<1>type. /\ TypeInv /\ row \in [Rows -> RowType] /\ rec \in [Procs -> RecType]
         /\ calls \subseteq CallType
  BY DEF OwnInv, RowInv, TypeInv, TypeOK
<1>1. CASE CallStep
  <2>1. ASSUME NEW r \in Rows, CancelRead(r) \/ AmendRead(r)
        PROVE  ServerOwned
    <3>1. Owns(r, row[r].ordno)
      BY <2>1 DEF CancelRead, AmendRead, OwnInv, RowIsOwned
    <3>2. \A m \in calls' : CallOwned(m)
      BY <2>1, <3>1 DEF CancelRead, AmendRead, CallOwned
    <3>3. UNCHANGED <<row, rec, got>>
      BY <2>1 DEF CancelRead, AmendRead
    <3> QED
      BY <1>type, <3>2, <3>3, SameRowOwned, SameRunOwned DEF ServerOwned
  <2>2. ASSUME NEW m \in calls, CancelApply(m)
        PROVE  ServerOwned
    <3>1. m.row \in Rows
      BY <1>type DEF CallType
    <3>2. \A r \in Rows : RowOwned(r)
      BY <1>type, <2>2, <3>1, SameRowOwned, TransitionOwned DEF CancelApply
    <3>3. UNCHANGED <<rec, got>> /\ calls' \subseteq calls
      BY <2>2 DEF CancelApply
    <3> QED
      BY <1>type, <3>2, <3>3, SameRunOwned DEF ServerOwned, CallOwned
  <2>3. ASSUME NEW m \in calls, AmendApply(m)
        PROVE  ServerOwned
    <3>1. m.row \in Rows /\ (m.new # 0 => Owns(m.row, m.new))
      BY <1>type DEF CallType, OwnInv, CallIsOwned
    <3>2. CASE row' = row
      BY <1>type, <2>3, <3>2, SameRowOwned, SameRunOwned
      DEF AmendApply, ServerOwned, CallOwned
    <3>3. CASE row' = [row EXCEPT ![m.row].ordno = m.new, ![m.row].qty = m.qty]
      <4>1. /\ row'[m.row].ordno = m.new /\ row'[m.row].fills = row[m.row].fills
            /\ \A q \in Rows \ {m.row} : row'[q] = row[q]
        BY <1>type, <3>1, <3>3 DEF RowType
      <4>2. \A r \in Rows : RowOwned(r)
        BY <3>1, <4>1 DEF RowOwned
      <4>3. UNCHANGED <<rec, got>> /\ calls' \subseteq calls
        BY <2>3 DEF AmendApply
      <4> QED
        BY <1>type, <4>2, <4>3, SameRunOwned DEF ServerOwned, CallOwned
    <3> QED
      BY <2>3, <3>2, <3>3 DEF AmendApply
  <2> QED
    BY <1>1, <2>1, <2>2, <2>3 DEF CallStep
<1>2. CASE TcStep
  <2>1. PICK r \in Rows, k \in 1..Qty : TcFill(r, k)
    BY <1>2 DEF TcStep
  <2> DEFINE e == <<"tc", row[r].ordno, k>>
  <2>2. OwnedFill(r, e)
    BY <2>1 DEF TcFill, OwnedFill, OwnInv, RowIsOwned
  <2>3. row' = [row EXCEPT ![r] = ApplyFill(row[r], e, -1)]
    BY <2>1 DEF TcFill
  <2>4. \A q \in Rows : RowOwned(q)
    <3> HIDE DEF e
    <3> QED
      BY <1>type, <2>2, <2>3, ApplyFillOwned
  <2>5. UNCHANGED <<rec, got, calls>>
    BY <2>1 DEF TcFill
  <2> QED
    BY <1>type, <2>4, <2>5, SameRunOwned DEF ServerOwned, CallOwned
<1>3. CASE Crash
  <2>1. \A p \in Procs : RunOwned(p)
    BY <1>3 DEF Crash, RunOwned, IdleRec
  <2> QED
    BY <1>type, <1>3, <2>1, SameRowOwned DEF Crash, ServerOwned
<1>4. CASE BootStep
  <2>1. ASSUME NEW r \in Rows, BootQuarantine(r)
        PROVE  ServerOwned
    BY <1>type, <2>1, TransitionOwned, SameRunOwned
    DEF BootQuarantine, ServerOwned, CallOwned
  <2>2. CASE BootFinish \/ BootFails
    <3>1. UNCHANGED <<row, got, calls>> /\ rec' = [rec EXCEPT ![Boot] = IdleRec]
      BY <2>2 DEF BootFinish, BootFails
    <3>2. ASSUME NEW p \in Procs
          PROVE  RunOwned(p)
      <4>1. CASE p = Boot
        BY <1>type, <3>1, <4>1 DEF RunOwned, IdleRec
      <4>2. CASE p # Boot
        BY <1>type, <3>1, <4>2, SameRunOwned
      <4> QED
        BY <4>1, <4>2
    <3> QED
      BY <1>type, <3>1, <3>2, SameRowOwned DEF ServerOwned, CallOwned
  <2> QED
    BY <1>4, <2>1, <2>2 DEF BootStep
<1> QED
  BY <1>1, <1>2, <1>3, <1>4

(* A step of the broker changes no row and no run, and hands out numbers   *)
(* of the owner that asked.                                                *)
LEMMA BrokerOwned ==
  ASSUME OwnInv, BookForward, BrokerStep
  PROVE  /\ row' = row /\ rec' = rec
         /\ AnswerIsOwned' /\ CallIsOwned'
<1> USE PipelineAssumption
<1>type. /\ TypeInv /\ brk \in [OrdNos -> BrkType] /\ calls \subseteq CallType
         /\ got \in [Clients -> OrdNos0]
  BY DEF OwnInv, RowInv, TypeInv, TypeOK
<1>old. AnswerIsOwned /\ CallIsOwned
  BY DEF OwnInv
<1>0. row' = row /\ rec' = rec
  BY DEF BrokerStep, PlaceAnswer, CallAnswer, BrokerTakes, BrokerRefuses, AckMisjudged,
     BrokerSilent,
     BrokerCancels, BrokerDeclines, BrokerAmends, BrokerExecutes, MarketCloses,
     DayChanges, server
<1>1. \A r \in Rows, n \in OrdNos : Owns(r, n) => Owns(r, n)'
  BY OwnsForward
<1>2. ASSUME \A c \in Clients : got'[c] \in {0, got[c]}
      PROVE  AnswerIsOwned'
  <2>1. ASSUME NEW c \in Clients, got'[c] # 0
        PROVE  Owns(c, got[c])'
    <3>1. got'[c] = got[c] /\ c \in Rows
      BY <1>2, <2>1 DEF Rows
    <3>2. got[c] \in OrdNos /\ Owns(c, got[c])
      BY <1>type, <1>old, <2>1, <3>1 DEF OrdNos, OrdNos0, AnswerIsOwned
    <3>3. PICK n \in OrdNos : n = got[c]
      BY <3>2
    <3>4. Owns(c, n)'
      BY <1>1, <3>1, <3>2, <3>3
    <3> QED
      BY <3>1, <3>3, <3>4 DEF Owns, OwnerOf
  <2> QED
    BY <2>1 DEF AnswerIsOwned
<1>3. ASSUME NEW m \in calls
      PROVE  Owns(m.row, m.ordno)' /\ (m.new # 0 => Owns(m.row, m.new)')
  <2>1. m.row \in Rows /\ m.ordno \in OrdNos /\ m.new \in OrdNos0
    BY <1>type DEF CallType
  <2>2. m.new # 0 => m.new \in OrdNos
    BY <2>1 DEF OrdNos, OrdNos0
  <2> QED
    BY <1>1, <1>old, <2>1, <2>2 DEF CallIsOwned
<1>4. ASSUME \A m \in calls' : m \in calls
      PROVE  CallIsOwned'
  BY <1>3, <1>4 DEF CallIsOwned, Owns, OwnerOf
<1>5. ASSUME NEW c \in Clients, PlaceAnswer(c)
      PROVE  AnswerIsOwned' /\ CallIsOwned'
  <2>1. CASE BrokerRefuses(c) \/ AckMisjudged(c) \/ BrokerSilent(c)
    BY <1>type, <1>2, <1>4, <2>1 DEF BrokerRefuses, AckMisjudged, BrokerSilent
  <2>2. ASSUME NEW n \in OrdNos, BrokerTakes(c, n)
        PROVE  AnswerIsOwned' /\ CallIsOwned'
    <3>1. /\ brk'[n].owner = c /\ c # 0 /\ got'[c] = n
          /\ \A d \in Clients \ {c} : got'[d] = got[d]
          /\ calls' = calls
      BY <1>type, <2>2 DEF BrokerTakes
    <3>2. ASSUME NEW d \in Clients, d # c, got'[d] # 0
          PROVE  Owns(d, got[d])'
      <4>1. got'[d] = got[d] /\ d \in Rows
        BY <3>1, <3>2 DEF Rows
      <4>2. got[d] \in OrdNos /\ Owns(d, got[d])
        BY <1>type, <1>old, <3>2, <4>1 DEF OrdNos, OrdNos0, AnswerIsOwned
      <4>3. PICK k \in OrdNos : k = got[d]
        BY <4>2
      <4>4. Owns(d, k)'
        BY <1>1, <4>1, <4>2, <4>3
      <4> QED
        BY <4>1, <4>3, <4>4 DEF Owns, OwnerOf
    <3>3. Owns(c, got[c])'
      BY <3>1 DEF Owns, OwnerOf
    <3>4. AnswerIsOwned'
      BY <3>2, <3>3 DEF AnswerIsOwned
    <3> QED
      BY <1>4, <3>1, <3>4
  <2> QED
    BY <1>5, <2>1, <2>2 DEF PlaceAnswer
<1>6. ASSUME NEW m \in calls, CallAnswer(m)
      PROVE  AnswerIsOwned' /\ CallIsOwned'
  <2>0. got' = got
    BY <1>6 DEF CallAnswer, BrokerCancels, BrokerDeclines, BrokerAmends
  <2>1. ASSUME NEW new \in OrdNos0, Answer(m, new), new # 0 => Owns(m.row, new)'
        PROVE  CallIsOwned'
    <3>1. PICK a : a = [m EXCEPT !.st = "acked", !.new = new]
      OBVIOUS
    <3>2. a.row = m.row /\ a.ordno = m.ordno /\ a.new = new
      BY <1>type, <3>1 DEF CallType
    <3>3. \A x \in calls' : x \in calls \/ x = a
      BY <2>1, <3>1 DEF Answer
    <3>4. Owns(a.row, a.ordno)' /\ (a.new # 0 => Owns(a.row, a.new)')
      BY <1>3, <2>1, <3>2
    <3>5. ASSUME NEW x \in calls'
          PROVE  Owns(x.row, x.ordno)' /\ (x.new # 0 => Owns(x.row, x.new)')
      BY <1>3, <3>3, <3>4
    <3> QED
      BY <3>5 DEF CallIsOwned
  <2>2. ASSUME BrokerCancels(m)
        PROVE  CallIsOwned'
    <3>1. Answer(m, 0) /\ 0 \in OrdNos0
      BY <2>2 DEF BrokerCancels, OrdNos0
    <3> QED
      BY <2>1, <3>1
  <2>3. ASSUME BrokerDeclines(m)
        PROVE  CallIsOwned'
    BY <1>4, <2>3 DEF BrokerDeclines
  <2>4. ASSUME NEW n \in OrdNos, BrokerAmends(m, n)
        PROVE  CallIsOwned'
    <3>1. m.ordno \in OrdNos /\ m.row \in Rows /\ n \in OrdNos0
      BY <1>type DEF CallType, OrdNos, OrdNos0
    <3>2. m.ordno # n
      BY <2>4 DEF BrokerAmends, NextOrdNo
    <3>3. brk'[n].owner = brk[m.ordno].owner /\ brk'[m.ordno].owner = brk[m.ordno].owner
      BY <1>type, <2>4, <3>1, <3>2 DEF BrokerAmends, BrkType
    <3>4. Owns(m.row, m.ordno)'
      BY <1>3
    <3>5. Owns(m.row, n)'
      BY <3>3, <3>4 DEF Owns, OwnerOf
    <3> QED
      BY <2>1, <2>4, <3>1, <3>5 DEF BrokerAmends
  <2> QED
    BY <1>2, <1>6, <2>0, <2>2, <2>3, <2>4 DEF CallAnswer
<1>7. ASSUME (\E n \in OrdNos : BrokerExecutes(n)) \/ MarketCloses \/ DayChanges
      PROVE  AnswerIsOwned' /\ CallIsOwned'
  BY <1>2, <1>4, <1>7 DEF BrokerExecutes, MarketCloses, DayChanges, server
<1> QED
  BY <1>0, <1>5, <1>6, <1>7 DEF BrokerStep

(* A server step leaves the broker and its calendar alone. *)
LEMMA ServerKeepsBook ==
  ASSUME Next
  PROVE  \/ BrokerStep
         \/ /\ brk' = brk /\ session' = session /\ past' = past
            /\ \/ \E c \in Clients : PlaceStep(c)
               \/ \E p \in Procs : RecStep(p)
               \/ CallStep \/ TcStep \/ Crash \/ BootStep
<1>1. ASSUME NEW c \in Clients, PlaceStep(c)
      PROVE  brk' = brk /\ session' = session /\ past' = past
  BY <1>1 DEF PlaceStep, PlaceInsert, PlaceAgain, PlaceSubmit, PlaceAck, PlaceAckFails,
     PlaceReject, PlaceInDoubt, broker
<1>2. ASSUME NEW p \in Procs, RecStep(p)
      PROVE  brk' = brk /\ session' = session /\ past' = past
  BY <1>2 DEF RecStep, RecGoesOn, RecList, RecFetch, RecFetchFails, RecApply, RecUnlock,
     RecFinish, RecSkip, RecVanished, RecLock, RecKnown, RecOrphan, RecOrphanFails,
     broker
<1>3. ASSUME CallStep \/ TcStep \/ Crash \/ BootStep
      PROVE  brk' = brk /\ session' = session /\ past' = past
  BY <1>3 DEF CallStep, CancelRead, AmendRead, CancelApply, AmendApply, TcStep,
     TcFill, Crash, BootStep, BootQuarantine, BootFinish, BootFails, broker
<1> QED
  BY <1>1, <1>2, <1>3 DEF Next

LEMMA StepServerOwned ==
  ASSUME OwnInv, Next, ~BrokerStep
  PROVE  ServerOwned /\ brk' = brk
BY ServerKeepsBook, PlaceOwned, RecOwned, OtherOwned

LEMMA InitOwnInv == Init => OwnInv
<1> SUFFICES ASSUME Init PROVE OwnInv
  OBVIOUS
<1>1. /\ row = [r \in Rows |-> NoRow] /\ calls = {}
      /\ got = [c \in Clients |-> 0] /\ rec = [p \in Procs |-> IdleRec]
      /\ brk = [n \in OrdNos |-> Unused]
  BY DEF Init
<1> QED
  BY <1>1, InitRowInv
  DEF OwnInv, UnusedIsEmpty, RowIsOwned, AnswerIsOwned, CallIsOwned, SeenIsOwned,
      LockIsOwned, ViewIsExecuted, FillIsOwned, NoRow, IdleRec, Unused

LEMMA StepOwnInv ==
  ASSUME OwnInv, [Next]_vars
  PROVE  OwnInv'
<1> USE PipelineAssumption
<1>type. /\ TypeInv /\ row \in [Rows -> RowType] /\ rec \in [Procs -> RecType]
         /\ brk \in [OrdNos -> BrkType] /\ got \in [Clients -> OrdNos0]
         /\ calls \subseteq CallType
  BY DEF OwnInv, RowInv, TypeInv, TypeOK
<1>new. RowInv' /\ TypeInv' /\ row' \in [Rows -> RowType] /\ rec' \in [Procs -> RecType]
        /\ brk' \in [OrdNos -> BrkType] /\ calls' \subseteq CallType
  BY StepRowInv DEF OwnInv, RowInv, TypeInv, TypeOK
<1>1. BookForward /\ UnusedIsEmpty'
  BY <1>type, StepBookForward DEF OwnInv
<1>2. \A r \in Rows, n \in OrdNos : Owns(r, n) => Owns(r, n)'
  BY <1>1, OwnsForward
<1>3. (row' = row /\ rec' = rec) \/ ServerOwned
  BY BrokerOwned, StepServerOwned, <1>1 DEF vars
<1>row. ASSUME NEW r \in Rows
        PROVE  RowOwned(r)
  BY <1>3, <1>row, SameRowOwned DEF ServerOwned
<1>run. ASSUME NEW p \in Procs
        PROVE  RunOwned(p)
  BY <1>3, <1>run, <1>type, SameRunOwned DEF ServerOwned
<1>4. RowIsOwned'
  <2> SUFFICES ASSUME NEW r \in Rows, row'[r].ordno # 0
               PROVE  Owns(r, row[r].ordno)'
    BY DEF RowIsOwned
  <2>1. PICK n \in OrdNos : n = row'[r].ordno
    BY <1>new DEF RowType, OrdNos, OrdNos0
  <2>2. Owns(r, n)
    BY <1>row, <2>1 DEF RowOwned, OwnInv, RowIsOwned
  <2>3. Owns(r, n)'
    BY <1>2, <2>2
  <2> QED
    BY <2>1, <2>3 DEF Owns, OwnerOf
<1>5. SeenIsOwned'
  <2> SUFFICES ASSUME NEW p \in Procs, NEW r \in Rows, rec'[p].seen[r] # 0
               PROVE  Owns(r, rec[p].seen[r])'
    BY DEF SeenIsOwned
  <2>1. PICK n \in OrdNos : n = rec'[p].seen[r]
    BY <1>new DEF RecType, OrdNos, OrdNos0
  <2>2. Owns(r, n)
    BY <1>run, <2>1 DEF RunOwned, OwnInv, SeenIsOwned
  <2>3. Owns(r, n)'
    BY <1>2, <2>2
  <2> QED
    BY <2>1, <2>3 DEF Owns, OwnerOf
<1>6. LockIsOwned'
  <2> SUFFICES ASSUME NEW p \in Procs, rec'[p].row # 0
               PROVE  /\ Owns(rec[p].row, rec[p].ord)'
                      /\ rec'[p].next <= brk'[rec'[p].ord].execs
    BY DEF LockIsOwned
  <2>1. PICK n \in OrdNos : n = rec'[p].ord
    BY <1>new DEF RecType, OrdNos, OrdNos0, TypeInv, LockHasNumber
  <2>2. PICK r \in Rows : r = rec'[p].row
    BY <1>new DEF RecType
  <2>3. Owns(r, n) /\ rec'[p].next <= brk[n].execs
    <3>1. RunOwned(p)
      BY <1>run
    <3>2. rec[p].row = r /\ rec[p].ord = n
            => Owns(r, n) /\ rec[p].next <= brk[n].execs
      BY <2>2, PipelineAssumption DEF OwnInv, LockIsOwned
    <3>3. rec[p].next \in Int /\ rec'[p].next \in Int /\ brk[n].execs \in Int
      BY <1>type, <1>new DEF RecType, BrkType
    <3> QED
      BY <2>1, <2>2, <3>1, <3>2, <3>3 DEF RunOwned
  <2>4. Owns(r, n)'
    BY <1>2, <2>3
  <2>5. brk[n].execs <= brk'[n].execs
    BY <1>1 DEF BookForward
  <2>6. rec'[p].next \in Int /\ brk[n].execs \in Int /\ brk'[n].execs \in Int
    BY <1>type, <1>new DEF RecType, BrkType
  <2> QED
    BY <2>1, <2>2, <2>3, <2>4, <2>5, <2>6 DEF Owns, OwnerOf
<1>7. ViewIsExecuted'
  <2> SUFFICES ASSUME NEW p \in Procs, NEW n \in OrdNos, rec'[p].view[n] # -1
               PROVE  brk'[n].st # "none" /\ rec'[p].view[n] <= brk'[n].execs
    BY DEF ViewIsExecuted
  <2>1. brk[n].st # "none" /\ rec'[p].view[n] <= brk[n].execs
    BY <1>run DEF RunOwned, OwnInv, ViewIsExecuted
  <2>2. /\ rec'[p].view[n] \in Int /\ brk[n].execs \in Int /\ brk'[n].execs \in Int
        /\ brk'[n].st # "none" /\ brk[n].execs <= brk'[n].execs
    BY <1>1, <1>type, <1>new, <2>1 DEF RecType, BrkType, BookForward
  <2> QED
    BY <2>1, <2>2
<1>8. FillIsOwned'
  <2> SUFFICES ASSUME NEW r \in Rows, NEW e \in row'[r].fills
               PROVE  Owns(r, e[2])' /\ e[3] <= brk'[e[2]].execs
    BY DEF FillIsOwned
  <2>1. OwnedFill(r, e)
    BY <1>row DEF RowOwned, OwnedFill, OwnInv, FillIsOwned
  <2>2. e[2] \in OrdNos /\ e[3] \in Int
    BY <1>new DEF RowType, Events
  <2>3. brk[e[2]].execs \in Int /\ brk'[e[2]].execs \in Int
        /\ brk[e[2]].execs <= brk'[e[2]].execs
    BY <1>1, <1>type, <1>new, <2>2 DEF BrkType, BookForward
  <2>4. Owns(r, e[2])'
    BY <1>2, <2>1, <2>2 DEF OwnedFill
  <2> QED
    BY <2>1, <2>2, <2>3, <2>4 DEF OwnedFill
<1>9. AnswerIsOwned' /\ CallIsOwned'
  <2>1. CASE BrokerStep
    BY <1>1, <2>1, BrokerOwned
  <2>2. CASE (Next /\ ~BrokerStep) \/ UNCHANGED vars
    <3>1. \A m \in calls' : CallOwned(m)
      BY <2>2, StepServerOwned DEF ServerOwned, CallOwned, vars
    <3>2. brk' = brk /\ \A c \in Clients : got'[c] \in {0, got[c]}
      BY <2>2, StepServerOwned DEF ServerOwned, vars
    <3>3. CallIsOwned'
      BY <3>1, <3>2 DEF CallOwned, CallIsOwned, OwnInv, Owns, OwnerOf
    <3>4. AnswerIsOwned'
      BY <3>2 DEF AnswerIsOwned, OwnInv, Owns, OwnerOf
    <3> QED
      BY <3>3, <3>4
  <2> QED
    BY <2>1, <2>2
<1> QED
  BY <1>new, <1>1, <1>4, <1>5, <1>6, <1>7, <1>8, <1>9 DEF OwnInv

(* However amendments, cancels, crashes and runs of reconcile with an old   *)
(* snapshot interleave, a row holds only executions the broker made for the *)
(* client's order that the row stands for: a client's row those of its own  *)
(* order, an orphan row those of the order that has the orphan's number.    *)
THEOREM FillsOfOwnOrder == Spec => []FillsAreExecutions
<1>1. Init => OwnInv
  BY InitOwnInv
<1>2. OwnInv /\ [Next]_vars => OwnInv'
  BY StepOwnInv
<1>3. OwnInv => FillsAreExecutions
  BY DEF OwnInv, FillIsOwned, FillsAreExecutions, Owns, OwnerOf
<1> QED
  BY <1>1, <1>2, <1>3, PTL DEF Spec

------------------------------------------------------------------------------
(* A run of reconcile catches up with every order it lets go of.            *)
(*                                                                          *)
(* The argument: what the run has applied so far stays in the row, because  *)
(* fills are only added; a row that went terminal meanwhile stays terminal. *)

LockInOrders == \A p \in Procs : rec[p].row # 0 => rec[p].pc = "orders"

ListedExist ==
  \A p \in Procs : /\ \A r \in rec[p].todo : row[r].status # "none"
                   /\ rec[p].row # 0 => row[rec[p].row].status # "none"

(* The executions of order n after the k-th that run p has seen are booked. *)
BookedAfter(p, r, n, k) ==
  \/ row[r].status \in TERMINAL_STATES
  \/ rec[p].view[n] = -1
  \/ \A i \in 1..Qty : k < i /\ i <= rec[p].view[n] => <<"recon", n, i>> \in row[r].fills

AppliedSoFar ==
  \A p \in Procs : rec[p].row # 0 =>
    BookedAfter(p, rec[p].row, rec[p].ord, rec[p].next)

CatchInv == RowInv /\ LockInOrders /\ ListedExist /\ AppliedSoFar

(* Fills are only added, and a terminal row does not change its status.     *)
LEMMA FillsForward ==
  ASSUME RowInv, [Next]_vars, NEW r \in Rows
  PROVE  /\ row[r].status # "none" => row[r].fills \subseteq row'[r].fills
         /\ row[r].status \in TERMINAL_STATES => row'[r].status = row[r].status
<1>1. PICK q \in Rows : /\ RowStep(row[q], row'[q])
                        /\ \A s \in Rows \ {q} : row'[s] = row[s]
  BY StepOneRow DEF OneRow
<1>2. CASE q = r
  BY <1>1, <1>2
  DEF RowStep, Created, Moved, Renumbered, Booked, CanTransition, NonTerminal,
      TERMINAL_STATES
<1>3. CASE q # r
  BY <1>1, <1>3
<1> QED
  BY <1>2, <1>3

(* What one step may do to a run, as far as the orders it has listed and    *)
(* the one it has locked go.                                                *)
RunCatch(p) ==
  \/ rec'[p] = rec[p]
  \/ /\ rec'[p].row = 0
     /\ rec[p].row # 0 => rec[p].next = 0 \/ crashes' # crashes
     /\ \A r \in rec'[p].todo : row'[r].status # "none"
  \/ /\ rec'[p].pc = "orders" /\ rec[p].row = 0 /\ rec'[p].row \in Rows
     /\ rec'[p].todo \subseteq rec[p].todo
     /\ row'[rec'[p].row].status # "none"
     /\ rec'[p].view[rec'[p].ord] \in {-1, rec'[p].next}
  \/ /\ rec'[p].pc = rec[p].pc /\ rec'[p].todo = rec[p].todo
     /\ rec'[p].view = rec[p].view
     /\ rec[p].row # 0 /\ rec'[p].row = rec[p].row /\ rec'[p].ord = rec[p].ord
     /\ rec[p].next > 0 /\ rec'[p].next = rec[p].next - 1
     /\ \/ row'[rec[p].row].status \in TERMINAL_STATES
        \/ <<"recon", rec[p].ord, rec[p].next>> \in row'[rec[p].row].fills

LEMMA ApplyFillBooks ==
  ASSUME NEW o \in RowType, o.status # "none", NEW e, NEW rem
  PROVE  \/ ApplyFill(o, e, rem).status \in TERMINAL_STATES
         \/ e \in ApplyFill(o, e, rem).fills
<1> DEFINE to == Target(o, o.fills \cup {e}, rem)
           s == IF CanTransition(o.status, to) THEN to ELSE o.status
           b == [o EXCEPT !.fills = o.fills \cup {e}, !.status = s]
<1>1. o.status \in NonTerminal \/ o.status \in TERMINAL_STATES
  BY DEF RowType, RowState, NonTerminal
<1>2. e \in b.fills
  <2> HIDE DEF s
  <2> QED
    BY DEF RowType
<1>3. CASE o.status \notin NonTerminal \/ e \in o.fills
  BY <1>1, <1>3 DEF ApplyFill
<1>4. CASE ~(o.status \notin NonTerminal \/ e \in o.fills)
  <2>1. ApplyFill(o, e, rem) = b
    BY <1>4 DEF ApplyFill
  <2> HIDE DEF b
  <2> QED
    BY <1>2, <2>1
<1> QED
  BY <1>3, <1>4

LEMMA RecCatch ==
  ASSUME CatchInv, NEW p \in Procs, RecStep(p)
  PROVE  \A q \in Procs : RunCatch(q)
<1> USE PipelineAssumption
<1>type. /\ TypeInv /\ RowInv /\ rec[p] \in RecType /\ row \in [Rows -> RowType]
         /\ brk \in [OrdNos -> BrkType]
  BY DEF CatchInv, RowInv, TypeInv, TypeOK
<1>1. ASSUME Others(p), RunCatch(p)
      PROVE  \A q \in Procs : RunCatch(q)
  BY <1>1 DEF Others, RunCatch
<1>old. /\ rec[p].row # 0 => rec[p].pc = "orders"
        /\ \A r \in rec[p].todo : row[r].status # "none"
        /\ rec[p].row # 0 => row[rec[p].row].status # "none"
  BY DEF CatchInv, LockInOrders, ListedExist
<1>todo. /\ rec[p].todo \subseteq Rows
         /\ \A r \in rec[p].todo : row'[r].status # "none"
  <2>1. [Next]_vars
    BY DEF Next
  <2> QED
    BY <1>type, <1>old, <2>1, RowsForward DEF RecType
<1>fresh. ASSUME Fresh(rec'[p]), rec[p].row = 0
          PROVE  RunCatch(p)
  BY <1>fresh DEF Fresh, RunCatch
<1>2. CASE RecList(p)
  <2>1. rec[p].row = 0 /\ row' = row
    BY <1>2, <1>old DEF RecList
  <2>2. rec'[p].row = 0 /\ rec'[p].todo = {r \in Rows : Open(r)}
    BY <1>type, <1>2, ListFields
  <2>3. \A r \in rec'[p].todo : row'[r].status # "none"
    BY <2>1, <2>2 DEF Open, NonTerminal, OrderState
  <2>4. RunCatch(p)
    BY <2>1, <2>2, <2>3 DEF RunCatch
  <2> QED
    BY <1>type, <1>1, <1>2, <2>4, ListFields
<1>3. CASE RecFetch(p)
  <2>1. rec[p].row = 0 /\ row' = row
    BY <1>3, <1>old DEF RecFetch
  <2>2. rec'[p].row = 0 /\ rec'[p].todo = rec[p].todo
    BY <1>type, <1>3, <2>1, FetchFields DEF SameLock
  <2>3. RunCatch(p)
    BY <1>old, <2>1, <2>2 DEF RunCatch
  <2> QED
    BY <1>type, <1>1, <1>3, <2>3, FetchFields
<1>4. CASE RecFetchFails(p)
  <2>1. rec[p].row = 0 /\ row' = row
    BY <1>4, <1>old DEF RecFetchFails
  <2>2. rec'[p].row = 0 /\ rec'[p].todo \in {{}, rec[p].todo}
    BY <1>type, <1>4, <2>1, FailFields DEF SameLock, Fresh
  <2>3. RunCatch(p)
    BY <1>old, <2>1, <2>2 DEF RunCatch
  <2> QED
    BY <1>type, <1>1, <1>4, <2>3, FailFields
<1>5. CASE RecApply(p)
  <2> DEFINE r == rec[p].row
             e == <<"recon", rec[p].ord, rec[p].next>>
             o == ApplyFill(row[r], e, brk[rec[p].ord].qty - rec[p].next)
  <2>1. r \in Rows /\ r # 0 /\ rec[p].next > 0 /\ row[r] \in RowType
        /\ row[r].status # "none"
    BY <1>type, <1>5, <1>old DEF RecApply, RecType
  <2>2. o.status \in TERMINAL_STATES \/ e \in o.fills
    BY <2>1, ApplyFillBooks
  <2>3. row'[r] = o
    BY <1>type, <1>5, <2>1 DEF RecApply
  <2>4. row'[r].status \in TERMINAL_STATES \/ e \in row'[r].fills
    <3> HIDE DEF o, e, r
    <3> QED
      BY <2>2, <2>3
  <2>5. RunCatch(p)
    BY <1>type, <1>5, <2>1, <2>4, ApplyFields DEF RunCatch, SameList
  <2> QED
    BY <1>type, <1>1, <1>5, <2>5, ApplyFields
<1>6. CASE RecUnlock(p)
  <2>1. rec[p].next = 0
    BY <1>6 DEF RecUnlock
  <2>2. rec'[p].row = 0 /\ rec'[p].todo \subseteq rec[p].todo
    BY <1>type, <1>6, UnlockFields
  <2>3. RunCatch(p)
    BY <1>todo, <2>1, <2>2 DEF RunCatch
  <2> QED
    BY <1>type, <1>1, <1>6, <2>3, UnlockFields
<1>7. CASE RecFinish(p)
  <2>1. rec[p].row = 0
    BY <1>7 DEF RecFinish
  <2> QED
    BY <1>type, <1>1, <1>7, <1>fresh, <2>1, FinishFields
<1>8. ASSUME NEW r \in Rows, RecSkip(p, r) \/ RecVanished(p, r)
      PROVE  \A q \in Procs : RunCatch(q)
  <2>1. rec[p].row = 0
    BY <1>8 DEF RecSkip, RecVanished, AtOrder
  <2>2. rec'[p].row = 0 /\ rec'[p].todo \subseteq rec[p].todo
    BY <1>type, <1>8, <2>1, SkipFields DEF SameLock
  <2>3. RunCatch(p)
    BY <1>todo, <2>1, <2>2 DEF RunCatch
  <2> QED
    BY <1>type, <1>1, <1>8, <2>3, SkipFields
<1>9. ASSUME NEW r \in Rows, RecLock(p, r)
      PROVE  \A q \in Procs : RunCatch(q)
  <2>1. rec[p].row = 0 /\ rec[p].pc = "orders" /\ r \in rec[p].todo
    BY <1>9 DEF RecLock, AtOrder
  <2>2. /\ rec'[p].pc = "orders" /\ rec'[p].todo = rec[p].todo /\ rec'[p].row = r
        /\ rec'[p].view[rec'[p].ord] = rec'[p].next
    BY <1>type, <1>9, <2>1, LockFields DEF SameList
  <2>3. RunCatch(p)
    BY <1>todo, <2>1, <2>2 DEF RunCatch
  <2> QED
    BY <1>type, <1>1, <1>9, <2>3, LockFields
<1>10. ASSUME NEW n \in OrdNos, RecKnown(p, n)
       PROVE  \A q \in Procs : RunCatch(q)
  <2>1. rec[p].row = 0
    BY <1>10 DEF RecKnown, AtOrdNo
  <2>2. rec'[p].row = 0 /\ rec'[p].todo = rec[p].todo
    BY <1>type, <1>10, <2>1, KnownFields DEF SameLock
  <2>3. RunCatch(p)
    BY <1>todo, <2>1, <2>2 DEF RunCatch
  <2> QED
    BY <1>type, <1>1, <1>10, <2>3, KnownFields
<1>11. ASSUME NEW n \in OrdNos, RecOrphan(p, n)
       PROVE  \A q \in Procs : RunCatch(q)
  <2>1. rec[p].row = 0 /\ rec[p].pc = "orders"
    BY <1>11 DEF RecOrphan, AtOrdNo
  <2>2. /\ rec'[p].pc = "orders" /\ rec'[p].todo = rec[p].todo
        /\ rec'[p].row = n /\ rec'[p].ord = n /\ rec'[p].view[n] = -1
        /\ row'[n].status = "accepted" /\ n \in Rows
    BY <1>type, <1>11, <2>1, OrphanFields DEF SameList
  <2>3. RunCatch(p)
    BY <2>1, <2>2 DEF RunCatch
  <2> QED
    BY <1>type, <1>1, <1>11, <2>3, OrphanFields
<1>12. ASSUME NEW n \in OrdNos, RecOrphanFails(p, n)
       PROVE  \A q \in Procs : RunCatch(q)
  <2>1. rec[p].row = 0
    BY <1>12 DEF RecOrphanFails, AtOrdNo
  <2> QED
    BY <1>type, <1>1, <1>12, <1>fresh, <2>1, OrphanFailFields
<1> QED
  BY <1>2, <1>3, <1>4, <1>5, <1>6, <1>7, <1>8, <1>9, <1>10, <1>11, <1>12 DEF RecStep,
     RecGoesOn

LEMMA StepCatch ==
  ASSUME CatchInv, [Next]_vars
  PROVE  \A p \in Procs : RunCatch(p)
<1> USE PipelineAssumption
<1>type. rec \in [Procs -> RecType] /\ crashes \in Nat
  BY DEF CatchInv, RowInv, TypeInv, TypeOK
<1>1. ASSUME rec' = rec
      PROVE  \A p \in Procs : RunCatch(p)
  BY <1>1 DEF RunCatch
<1>2. CASE Crash
  <2>1. \A p \in Procs : rec'[p].row = 0 /\ rec'[p].todo = {}
    BY <1>2 DEF Crash, IdleRec
  <2>2. crashes' # crashes
    BY <1>2, <1>type DEF Crash
  <2> QED
    BY <2>1, <2>2 DEF RunCatch
<1>3. CASE BootFinish \/ BootFails
  <2>1. rec' = [rec EXCEPT ![Boot] = IdleRec] /\ rec[Boot].pc # "orders" /\ Boot \in Procs
    BY <1>3 DEF BootFinish, BootFails, Procs
  <2>2. rec[Boot].row = 0 /\ rec'[Boot].row = 0 /\ rec'[Boot].todo = {}
    BY <1>type, <2>1 DEF CatchInv, LockInOrders, IdleRec
  <2> QED
    BY <1>type, <2>1, <2>2 DEF RunCatch
<1>4. ASSUME NEW c \in Clients, PlaceStep(c)
      PROVE  rec' = rec
  BY <1>4 DEF PlaceStep, PlaceInsert, PlaceAgain, PlaceSubmit, PlaceAck, PlaceAckFails,
     PlaceReject, PlaceInDoubt
<1>5. ASSUME CallStep \/ TcStep \/ (\E r \in Rows : BootQuarantine(r))
      PROVE  rec' = rec
  BY <1>5 DEF CallStep, CancelRead, AmendRead, CancelApply, AmendApply, TcStep,
     TcFill, BootQuarantine
<1>6. ASSUME BrokerStep \/ UNCHANGED vars
      PROVE  rec' = rec
  BY <1>6 DEF vars, BrokerStep, PlaceAnswer, CallAnswer, BrokerTakes, BrokerRefuses,
     AckMisjudged, BrokerSilent, BrokerCancels, BrokerDeclines, BrokerAmends,
     BrokerExecutes,
     MarketCloses, DayChanges, server
<1> QED
  BY <1>1, <1>2, <1>3, <1>4, <1>5, <1>6, RecCatch DEF Next, BootStep

LEMMA InitCatchInv == Init => CatchInv
<1> SUFFICES ASSUME Init PROVE CatchInv
  OBVIOUS
<1>1. rec = [p \in Procs |-> IdleRec]
  BY DEF Init
<1> QED
  BY <1>1, InitRowInv DEF CatchInv, LockInOrders, ListedExist, AppliedSoFar, IdleRec

(* What is booked after k stays booked. *)
LEMMA BookedForward ==
  ASSUME RowInv, [Next]_vars, NEW p \in Procs, NEW r \in Rows, NEW n, NEW k,
         row[r].status # "none", BookedAfter(p, r, n, k),
         rec'[p].view = rec[p].view
  PROVE  BookedAfter(p, r, n, k)'
BY FillsForward DEF BookedAfter

LEMMA StepCatchInv ==
  ASSUME CatchInv, [Next]_vars
  PROVE  CatchInv'
<1> USE PipelineAssumption
<1>old. RowInv /\ LockInOrders /\ ListedExist /\ AppliedSoFar
        /\ rec \in [Procs -> RecType]
  BY DEF CatchInv, RowInv, TypeInv, TypeOK
<1>new. RowInv' /\ rec' \in [Procs -> RecType]
  BY StepRowInv DEF CatchInv, RowInv, TypeInv, TypeOK
<1>1. \A p \in Procs : RunCatch(p)
  BY StepCatch
<1>2. LockInOrders'
  BY <1>old, <1>1 DEF RunCatch, LockInOrders
<1>3. ASSUME NEW p \in Procs, NEW r \in Rows,
             r \in rec[p].todo \/ (rec[p].row # 0 /\ r = rec[p].row)
      PROVE  row'[r].status # "none"
  BY <1>old, <1>3, RowsForward DEF ListedExist
<1>4. ListedExist'
  <2> SUFFICES ASSUME NEW p \in Procs
               PROVE  /\ \A r \in rec'[p].todo : row'[r].status # "none"
                      /\ rec'[p].row # 0 => row'[rec'[p].row].status # "none"
    BY DEF ListedExist
  <2>1. RunCatch(p) /\ rec[p].todo \subseteq Rows /\ rec[p].row \in Rows \cup {0}
    BY <1>old, <1>1 DEF RecType
  <2> QED
    BY <1>3, <2>1 DEF RunCatch
<1>5. AppliedSoFar'
  <2> SUFFICES ASSUME NEW p \in Procs, rec'[p].row # 0
               PROVE  BookedAfter(p, rec[p].row, rec[p].ord, rec[p].next)'
    BY DEF AppliedSoFar
  <2>1. RunCatch(p)
    BY <1>1
  <2>2. CASE rec'[p] = rec[p]
    <3>1. PICK r \in Rows, n \in OrdNos0, k \in Int :
            r = rec[p].row /\ n = rec[p].ord /\ k = rec[p].next
      BY <1>old, <2>2 DEF RecType
    <3>2. row[r].status # "none" /\ BookedAfter(p, r, n, k)
      BY <1>old, <2>2, <3>1 DEF ListedExist, AppliedSoFar
    <3>3. BookedAfter(p, r, n, k)'
      BY <1>old, <2>2, <3>2, BookedForward
    <3> QED
      BY <2>2, <3>1, <3>3
  <2>3. CASE rec'[p].view[rec'[p].ord] \in {-1, rec'[p].next}
    <3>1. rec'[p].next \in Int
      BY <1>new DEF RecType
    <3> QED
      BY <2>3, <3>1 DEF BookedAfter
  <2>4. CASE /\ rec'[p].view = rec[p].view
             /\ rec[p].row # 0 /\ rec'[p].row = rec[p].row /\ rec'[p].ord = rec[p].ord
             /\ rec'[p].next = rec[p].next - 1
             /\ \/ row'[rec[p].row].status \in TERMINAL_STATES
                \/ <<"recon", rec[p].ord, rec[p].next>> \in row'[rec[p].row].fills
    <3>1. PICK r \in Rows, n \in OrdNos0, k \in Int :
            r = rec[p].row /\ n = rec[p].ord /\ k = rec[p].next
      BY <1>old, <2>4 DEF RecType
    <3>2. row[r].status # "none" /\ BookedAfter(p, r, n, k)
      BY <1>old, <2>4, <3>1 DEF ListedExist, AppliedSoFar
    <3>3. BookedAfter(p, r, n, k)'
      BY <1>old, <2>4, <3>2, BookedForward
    <3>4. BookedAfter(p, r, n, k - 1)'
      <4>1. \A i \in 1..Qty : k - 1 < i => i = k \/ k < i
        OBVIOUS
      <4> QED
        BY <2>4, <3>1, <3>3, <4>1 DEF BookedAfter
    <3> QED
      BY <2>4, <3>1, <3>4
  <2> QED
    BY <2>1, <2>2, <2>3, <2>4 DEF RunCatch
<1> QED
  BY <1>new, <1>2, <1>4, <1>5 DEF CatchInv

LEMMA StepCatchesUp ==
  ASSUME CatchInv, [Next]_vars
  PROVE  [\A p \in Procs :
            rec[p].row # 0 /\ rec'[p].row # rec[p].row /\ crashes' = crashes
              => LET r == rec[p].row
                     n == rec[p].ord
                 IN  \/ row'[r].status \notin NonTerminal
                     \/ rec[p].view[n] = -1
                     \/ \A k \in 1..rec[p].view[n] :
                          <<"recon", n, k>> \in row'[r].fills]_vars
<1> SUFFICES ASSUME NEW p \in Procs,
                    rec[p].row # 0, rec'[p].row # rec[p].row, crashes' = crashes
             PROVE  \/ row'[rec[p].row].status \notin NonTerminal
                    \/ rec[p].view[rec[p].ord] = -1
                    \/ \A k \in 1..rec[p].view[rec[p].ord] :
                         <<"recon", rec[p].ord, k>> \in row'[rec[p].row].fills
  OBVIOUS
<1> DEFINE r == rec[p].row
           n == rec[p].ord
<1>0. /\ RowInv /\ rec[p] \in RecType /\ LockHasNumber
  BY DEF CatchInv, RowInv, TypeInv, TypeOK
<1>1. /\ RowInv /\ r \in Rows /\ rec[p] \in RecType
      /\ n \in OrdNos /\ rec[p].view[n] \in (-1)..Qty
  BY <1>0, PipelineAssumption DEF LockHasNumber, RecType, OrdNos, OrdNos0
<1>2. rec[p].next = 0
  BY StepCatch DEF RunCatch
<1>3. row[r].status # "none" /\ BookedAfter(p, r, n, 0)
  BY <1>2 DEF CatchInv, ListedExist, AppliedSoFar
<1>4. \/ row'[r].status \in TERMINAL_STATES
      \/ rec[p].view[n] = -1
      \/ \A k \in 1..Qty : 0 < k /\ k <= rec[p].view[n]
           => <<"recon", n, k>> \in row'[r].fills
  BY <1>1, <1>3, FillsForward DEF BookedAfter
<1>5. 1..rec[p].view[n] \subseteq 1..Qty
  BY <1>1, PipelineAssumption
<1> HIDE DEF r, n
<1>6. \/ row'[r].status \notin NonTerminal
      \/ rec[p].view[n] = -1
      \/ \A k \in 1..rec[p].view[n] : <<"recon", n, k>> \in row'[r].fills
  BY <1>1, <1>4, <1>5 DEF NonTerminal
<1> QED
  BY <1>6 DEF r, n

(* When reconcile lets go of an order, whatever was amended, canceled or    *)
(* filled in between, the row is terminal or holds every execution the run  *)
(* had read.                                                                *)
THEOREM ReconcileCatchesUp == Spec => CatchesUp
<1>1. Init => CatchInv
  BY InitCatchInv
<1>2. CatchInv /\ [Next]_vars => CatchInv'
  BY StepCatchInv
<1> QED
  BY <1>1, <1>2, StepCatchesUp, PTL DEF Spec, CatchesUp

------------------------------------------------------------------------------
(* What a step does to the order book of the broker.                        *)

KeepsOrders(S) == \A k \in OrdNos \ S : brk'[k] = brk[k]

KeepsTerms(k) ==
  brk'[k].owner = brk[k].owner /\ brk'[k].execs = brk[k].execs /\ brk'[k].qty = brk[k].qty

Shuts(k) == brk[k].st = "working" /\ brk'[k].st = "closed" /\ KeepsTerms(k)

NewOrder(n, c) ==
  /\ brk[n].st = "none" /\ brk'[n].st = "working" /\ brk'[n].owner = c
  /\ brk'[n].execs = 0 /\ brk'[n].qty \in 1..Qty

TakesOrder(c, n) ==
  pc[c] = "sending" /\ session = "open" /\ NewOrder(n, c) /\ KeepsOrders({n})

AmendsOrder(k, n) ==
  k # n /\ Shuts(k) /\ NewOrder(n, brk[k].owner) /\ KeepsOrders({k, n})

ExecutesOrder(n) ==
  /\ brk[n].st = "working" /\ brk'[n].owner = brk[n].owner /\ brk'[n].qty = brk[n].qty
  /\ brk'[n].execs = brk[n].execs + 1
  /\ brk'[n].st = IF brk'[n].execs = brk[n].qty THEN "closed" ELSE "working"
  /\ KeepsOrders({n})

ShutsAll ==
  \A n \in OrdNos : /\ KeepsTerms(n)
                    /\ brk'[n].st = IF brk[n].st = "working" THEN "closed" ELSE brk[n].st

BookStep ==
  \/ brk' = brk
  \/ \E c \in Clients, n \in OrdNos : TakesOrder(c, n)
  \/ \E k \in OrdNos : Shuts(k) /\ KeepsOrders({k})
  \/ \E k, n \in OrdNos : AmendsOrder(k, n)
  \/ \E n \in OrdNos : ExecutesOrder(n)
  \/ ShutsAll

LEMMA TakesIsBookStep ==
  ASSUME TypeInv, NEW c \in Clients, NEW n \in OrdNos, BrokerTakes(c, n)
  PROVE  TakesOrder(c, n)
BY PipelineAssumption
DEF TypeInv, TypeOK, BrokerTakes, NextOrdNo, TakesOrder, NewOrder, KeepsOrders

LEMMA CancelsIsBookStep ==
  ASSUME TypeInv, NEW m \in calls, BrokerCancels(m)
  PROVE  m.ordno \in OrdNos /\ Shuts(m.ordno) /\ KeepsOrders({m.ordno})
<1>1. m.ordno \in OrdNos /\ brk \in [OrdNos -> BrkType]
  BY DEF TypeInv, TypeOK, CallType
<1> QED
  BY <1>1 DEF BrokerCancels, Shuts, KeepsTerms, KeepsOrders, BrkType

LEMMA AmendsIsBookStep ==
  ASSUME TypeInv, NEW m \in calls, NEW n \in OrdNos, BrokerAmends(m, n)
  PROVE  m.ordno \in OrdNos /\ AmendsOrder(m.ordno, n)
<1>1. /\ m.ordno \in OrdNos /\ brk \in [OrdNos -> BrkType]
      /\ brk[m.ordno].execs \in 0..Qty /\ brk[m.ordno].qty \in 0..Qty
  BY DEF TypeInv, TypeOK, CallType, BrkType
<1>2. m.ordno # n
  BY DEF BrokerAmends, NextOrdNo
<1>3. m.qty \in 1..Qty
  BY <1>1, PipelineAssumption DEF BrokerAmends
<1> QED
  BY <1>1, <1>2, <1>3
  DEF BrokerAmends, NextOrdNo, AmendsOrder, Shuts, NewOrder, KeepsTerms, KeepsOrders,
      BrkType

LEMMA ExecutesIsBookStep ==
  ASSUME TypeInv, NEW n \in OrdNos, BrokerExecutes(n)
  PROVE  ExecutesOrder(n)
BY DEF TypeInv, TypeOK, BrkType, BrokerExecutes, ExecutesOrder, KeepsOrders

LEMMA ClosesIsBookStep ==
  ASSUME TypeInv, MarketCloses
  PROVE  ShutsAll
BY DEF TypeInv, TypeOK, BrkType, MarketCloses, ShutsAll, KeepsTerms

LEMMA StepBookStep ==
  ASSUME TypeInv, [Next]_vars
  PROVE  BookStep
<1>1. ASSUME BrokerStep, brk' # brk
      PROVE  BookStep
  BY <1>1, TakesIsBookStep, CancelsIsBookStep, AmendsIsBookStep, ExecutesIsBookStep,
     ClosesIsBookStep
  DEF BrokerStep, PlaceAnswer, CallAnswer, BookStep, BrokerRefuses, AckMisjudged,
      BrokerSilent,
      BrokerDeclines, DayChanges, broker
<1> QED
  BY <1>1, ServerKeepsBook DEF BookStep, vars

------------------------------------------------------------------------------
(* What is over in the book is over at the broker, as long as TC3 fills are *)
(* off and reconcile was not misled about the row.                          *)
(*                                                                          *)
(* The argument: of one owner's orders at most one works, the last of the   *)
(* chain of amendments.  When it is canceled, executed to the end or shut   *)
(* by the close, all orders of the owner are over, and no other can follow: *)
(* an amendment needs a working order and the owner's key is used up.  A    *)
(* row becomes filled, canceled or expired only on such a fact, whichever   *)
(* number of the chain it has -- or reconcile closes it on what it has read *)
(* of the day and was told of the market, and then that may be wrong only   *)
(* in the ways misled records: an empty answer, a number of an earlier day, *)
(* the market open after all.                                               *)

Closed3 == {"filled", "canceled", "expired"}

Ends(c) ==
  /\ \E n \in OrdNos : brk[n].owner = c
  /\ \A n \in OrdNos : brk[n].owner = c => brk[n].st = "closed"

OneWorking ==
  \A m, n \in OrdNos : brk[m].st = "working" /\ brk[n].st = "working"
                         /\ brk[m].owner = brk[n].owner => m = n

ExecsInQty == \A n \in OrdNos : brk[n].execs <= brk[n].qty

NotSent ==
  \A c \in Clients :
    pc[c] = "sending" \/ row[c].status \in {"none", "approved"}
      => \A n \in OrdNos : brk[n].owner # c

FullIsOver ==
  \A n \in OrdNos : brk[n].st # "none" /\ brk[n].execs = brk[n].qty => Ends(brk[n].owner)

CancelIsOver ==
  \A m \in calls : m.op = "cancel" /\ m.st = "acked" => Ends(brk[m.ordno].owner)

AfterClose == session # "open" => \A n \in OrdNos : brk[n].st # "working"

PastIsNumbered == \A n \in past : brk[n].st # "none"

(* Run p has read rows without the order that r, which it has listed, names. *)
Missing(p, r) ==
  /\ rec[p].pc = "orders" /\ r \in rec[p].todo
  /\ rec[p].seen[r] # 0 /\ rec[p].view[rec[p].seen[r]] = -1

MissingIsUnseen == \A p \in Procs, r \in Rows : Missing(p, r) => Unseen(p, r)

RowIsOver == \A r \in Rows \ misled : row[r].status \in Closed3 => Ends(OwnerOf(r))

EndInv ==
  /\ OwnInv /\ SentInv
  /\ OneWorking /\ ExecsInQty /\ NotSent /\ FullIsOver /\ CancelIsOver /\ AfterClose
  /\ PastIsNumbered /\ MissingIsUnseen /\ RowIsOver

(* An order of an owner who has none comes from the owner's place request.  *)
LEMMA OwnerSource ==
  ASSUME UnusedIsEmpty, BookStep, NEW n \in OrdNos, brk'[n].owner # 0
  PROVE  \/ \E k \in OrdNos : brk[k].owner = brk'[n].owner
         \/ \E c \in Clients : TakesOrder(c, n) /\ brk'[n].owner = c
BY DEF BookStep, TakesOrder, AmendsOrder, NewOrder, Shuts, KeepsTerms, KeepsOrders,
       ExecutesOrder, ShutsAll

(* The orders of an owner that are over stay over, and no other follows.    *)
LEMMA EndsForward ==
  ASSUME TypeInv, UnusedIsEmpty, NotSent, BookStep, NEW c, Ends(c)
  PROVE  Ends(c)'
<1> USE PipelineAssumption
<1>1. CASE brk' = brk
  BY <1>1 DEF Ends
<1>2. ASSUME NEW d \in Clients, NEW n \in OrdNos, TakesOrder(d, n)
      PROVE  Ends(c)'
  <2>1. d # c
    BY <1>2 DEF TakesOrder, NotSent, Ends
  <2>2. brk[n].owner # c
    BY <1>2 DEF TakesOrder, NewOrder, Ends
  <2> QED
    BY <1>2, <2>1, <2>2 DEF TakesOrder, NewOrder, KeepsOrders, Ends
<1>3. ASSUME NEW k \in OrdNos, Shuts(k), KeepsOrders({k})
      PROVE  Ends(c)'
  BY <1>3 DEF Shuts, KeepsTerms, KeepsOrders, Ends
<1>4. ASSUME NEW k \in OrdNos, NEW n \in OrdNos, AmendsOrder(k, n)
      PROVE  Ends(c)'
  <2>1. brk[k].owner # c /\ brk[n].owner # c
    BY <1>4 DEF AmendsOrder, Shuts, NewOrder, Ends
  <2> QED
    BY <1>4, <2>1 DEF AmendsOrder, Shuts, NewOrder, KeepsTerms, KeepsOrders, Ends
<1>5. ASSUME NEW n \in OrdNos, ExecutesOrder(n)
      PROVE  Ends(c)'
  BY <1>5 DEF ExecutesOrder, KeepsOrders, Ends
<1>6. CASE ShutsAll
  BY <1>6 DEF ShutsAll, KeepsTerms, Ends
<1> QED
  BY <1>1, <1>2, <1>3, <1>4, <1>5, <1>6 DEF BookStep

(* When the working order of an owner shuts, all orders of the owner are    *)
(* over.                                                                    *)
LEMMA LastOneEnds ==
  ASSUME TypeInv, UnusedIsEmpty, OneWorking, NEW k \in OrdNos,
         brk[k].st = "working", brk'[k].st = "closed",
         brk'[k].owner = brk[k].owner, KeepsOrders({k})
  PROVE  Ends(brk[k].owner)'
<1>1. brk \in [OrdNos -> BrkType]
  BY DEF TypeInv, TypeOK
<1>2. PICK c : c = brk[k].owner
  OBVIOUS
<1>3. c # 0 /\ brk'[k].owner = c
  BY <1>2 DEF UnusedIsEmpty
<1>4. ASSUME NEW n \in OrdNos, brk'[n].owner = c
      PROVE  brk'[n].st = "closed"
  <2>1. CASE n = k
    BY <2>1
  <2>2. CASE n # k
    <3>1. brk'[n] = brk[n]
      BY <2>2 DEF KeepsOrders
    <3>2. brk[n].st # "none" /\ brk[n].st # "working"
      BY <1>2, <1>3, <1>4, <2>2, <3>1 DEF UnusedIsEmpty, OneWorking
    <3> QED
      BY <1>1, <3>1, <3>2 DEF BrkType
  <2> QED
    BY <2>1, <2>2
<1>5. Ends(c)'
  BY <1>3, <1>4 DEF Ends
<1> QED
  BY <1>2, <1>3, <1>5 DEF Ends

(* The facts about the order book alone are kept by every step of it.       *)
LEMMA StepBook ==
  ASSUME TypeInv, UnusedIsEmpty, OneWorking, ExecsInQty, NotSent, FullIsOver, BookStep
  PROVE  OneWorking' /\ ExecsInQty' /\ FullIsOver'
<1> USE PipelineAssumption
<1>type. brk \in [OrdNos -> BrkType] /\ 0 \notin Clients
         /\ \A n \in OrdNos : brk[n].execs \in Nat /\ brk[n].qty \in Nat
  BY DEF TypeInv, TypeOK, BrkType
<1>ends. \A c : Ends(c) => Ends(c)'
  BY EndsForward
<1>1. CASE brk' = brk
  BY <1>1 DEF OneWorking, ExecsInQty, FullIsOver, Ends
<1>2. ASSUME NEW c \in Clients, NEW k \in OrdNos, TakesOrder(c, k)
      PROVE  OneWorking' /\ ExecsInQty' /\ FullIsOver'
  <2>1. /\ \A n \in OrdNos : brk[n].owner # c
        /\ \A n \in OrdNos \ {k} : brk'[n] = brk[n]
        /\ brk'[k].st = "working" /\ brk'[k].owner = c
        /\ brk'[k].execs = 0 /\ brk'[k].qty \in 1..Qty
    BY <1>2 DEF TakesOrder, NewOrder, KeepsOrders, NotSent
  <2>2. OneWorking'
    BY <2>1 DEF OneWorking
  <2>3. ExecsInQty'
    BY <2>1 DEF ExecsInQty
  <2>4. ASSUME NEW n \in OrdNos, brk'[n].st # "none", brk'[n].execs = brk'[n].qty
        PROVE  Ends(brk[n].owner)'
    <3>1. brk'[n] = brk[n]
      BY <2>1, <2>4
    <3>2. PICK d : d = brk[n].owner
      OBVIOUS
    <3>3. Ends(d)'
      BY <1>ends, <2>4, <3>1, <3>2 DEF FullIsOver
    <3> QED
      BY <3>1, <3>2, <3>3 DEF Ends
  <2> QED
    BY <2>2, <2>3, <2>4 DEF FullIsOver
<1>3. ASSUME NEW k \in OrdNos, Shuts(k), KeepsOrders({k})
      PROVE  OneWorking' /\ ExecsInQty' /\ FullIsOver'
  <2>1. /\ brk[k].st = "working" /\ brk'[k].st = "closed" /\ brk'[k].owner = brk[k].owner
        /\ \A n \in OrdNos : /\ brk'[n].owner = brk[n].owner
                             /\ brk'[n].execs = brk[n].execs /\ brk'[n].qty = brk[n].qty
                             /\ brk'[n].st = IF n = k THEN "closed" ELSE brk[n].st
    BY <1>3 DEF Shuts, KeepsTerms, KeepsOrders
  <2>2. OneWorking'
    BY <2>1 DEF OneWorking
  <2>3. ExecsInQty'
    BY <2>1 DEF ExecsInQty
  <2>4. ASSUME NEW n \in OrdNos, brk'[n].st # "none", brk'[n].execs = brk'[n].qty
        PROVE  Ends(brk[n].owner)'
    <3>1. PICK d : d = brk[n].owner
      OBVIOUS
    <3>2. Ends(d)'
      BY <1>ends, <2>1, <2>4, <3>1 DEF FullIsOver
    <3> QED
      BY <2>1, <3>1, <3>2 DEF Ends
  <2> QED
    BY <2>2, <2>3, <2>4 DEF FullIsOver
<1>4. ASSUME NEW k \in OrdNos, NEW j \in OrdNos, AmendsOrder(k, j)
      PROVE  OneWorking' /\ ExecsInQty' /\ FullIsOver'
  <2>1. /\ k # j /\ brk[k].st = "working" /\ brk'[k].st = "closed"
        /\ brk'[k].owner = brk[k].owner
        /\ brk'[k].execs = brk[k].execs /\ brk'[k].qty = brk[k].qty
        /\ brk'[j].st = "working" /\ brk'[j].owner = brk[k].owner
        /\ brk'[j].execs = 0 /\ brk'[j].qty \in 1..Qty
        /\ \A n \in OrdNos \ {k, j} : brk'[n] = brk[n]
    BY <1>4 DEF AmendsOrder, Shuts, NewOrder, KeepsTerms, KeepsOrders
  <2>2. OneWorking'
    BY <2>1 DEF OneWorking
  <2>3. ExecsInQty'
    BY <2>1 DEF ExecsInQty
  <2>4. ASSUME NEW n \in OrdNos, brk'[n].st # "none", brk'[n].execs = brk'[n].qty
        PROVE  Ends(brk[n].owner)'
    <3>1. /\ n # j /\ brk[n].st # "none" /\ brk[n].execs = brk[n].qty
          /\ brk'[n].owner = brk[n].owner
      BY <2>1, <2>4
    <3>2. PICK d : d = brk[n].owner
      OBVIOUS
    <3>3. Ends(d)'
      BY <1>ends, <3>1, <3>2 DEF FullIsOver
    <3> QED
      BY <3>1, <3>2, <3>3 DEF Ends
  <2> QED
    BY <2>2, <2>3, <2>4 DEF FullIsOver
<1>5. ASSUME NEW k \in OrdNos, ExecutesOrder(k)
      PROVE  OneWorking' /\ ExecsInQty' /\ FullIsOver'
  <2>1. /\ brk[k].st = "working" /\ brk'[k].owner = brk[k].owner /\ brk'[k].qty = brk[k].qty
        /\ brk'[k].execs = brk[k].execs + 1
        /\ brk'[k].st = IF brk'[k].execs = brk[k].qty THEN "closed" ELSE "working"
        /\ \A n \in OrdNos \ {k} : brk'[n] = brk[n]
    BY <1>5 DEF ExecutesOrder, KeepsOrders
  <2>2. OneWorking'
    BY <2>1 DEF OneWorking
  <2>3. brk[k].execs < brk[k].qty
    BY <2>1 DEF TypeInv, WorkingHasRest
  <2>4. ExecsInQty'
    BY <1>type, <2>1, <2>3 DEF ExecsInQty
  <2>5. ASSUME NEW n \in OrdNos, n # k, brk'[n].st # "none", brk'[n].execs = brk'[n].qty
        PROVE  Ends(brk[n].owner)'
    <3>1. brk'[n] = brk[n]
      BY <2>1, <2>5
    <3>2. PICK d : d = brk[n].owner
      OBVIOUS
    <3>3. Ends(d)'
      BY <1>ends, <2>5, <3>1, <3>2 DEF FullIsOver
    <3> QED
      BY <3>1, <3>2, <3>3 DEF Ends
  <2>6. ASSUME brk'[k].execs = brk'[k].qty
        PROVE  Ends(brk[k].owner)'
    BY <1>5, <2>1, <2>6, LastOneEnds DEF ExecutesOrder
  <2> QED
    BY <2>2, <2>4, <2>5, <2>6 DEF FullIsOver
<1>6. CASE ShutsAll
  <2>1. \A n \in OrdNos : /\ brk'[n].owner = brk[n].owner
                          /\ brk'[n].execs = brk[n].execs /\ brk'[n].qty = brk[n].qty
                          /\ brk'[n].st = IF brk[n].st = "working" THEN "closed"
                                          ELSE brk[n].st
    BY <1>6 DEF ShutsAll, KeepsTerms
  <2>2. OneWorking' /\ ExecsInQty'
    BY <2>1 DEF OneWorking, ExecsInQty
  <2>3. ASSUME NEW n \in OrdNos, brk'[n].st # "none", brk'[n].execs = brk'[n].qty
        PROVE  Ends(brk[n].owner)'
    <3>1. PICK d : d = brk[n].owner
      OBVIOUS
    <3>2. Ends(d)'
      BY <1>ends, <2>1, <2>3, <3>1 DEF FullIsOver
    <3> QED
      BY <2>1, <3>1, <3>2 DEF Ends
  <2> QED
    BY <2>2, <2>3 DEF FullIsOver
<1> QED
  BY <1>1, <1>2, <1>3, <1>4, <1>5, <1>6 DEF BookStep

(* The market closes once, and with it every order.                         *)
LEMMA SessionForward ==
  ASSUME TypeInv, [Next]_vars
  PROVE  /\ session # "open" => session' # "open"
         /\ session' # session => BrokerStep /\ ShutsAll
<1>0. session \in {"open", "closed"}
  BY DEF TypeInv, TypeOK
<1>1. CASE BrokerStep
  BY <1>0, <1>1, ClosesIsBookStep
  DEF BrokerStep, PlaceAnswer, CallAnswer, BrokerTakes, BrokerRefuses,
      AckMisjudged, BrokerSilent, BrokerCancels, BrokerDeclines, BrokerAmends,
      BrokerExecutes,
      MarketCloses, DayChanges, broker
<1> QED
  BY <1>1, ServerKeepsBook DEF vars

LEMMA StepAfterClose ==
  ASSUME TypeInv, AfterClose, [Next]_vars
  PROVE  AfterClose'
<1>1. BookStep
  BY StepBookStep
<1>2. CASE session # "open"
  BY <1>1, <1>2
  DEF BookStep, AfterClose, TakesOrder, AmendsOrder, NewOrder, Shuts, KeepsOrders,
      ExecutesOrder, ShutsAll
<1>3. CASE session' = session /\ session = "open"
  BY <1>3 DEF AfterClose
<1>4. CASE session' # session
  BY <1>4, SessionForward DEF AfterClose, ShutsAll
<1> QED
  BY <1>2, <1>3, <1>4

(* What belongs to an earlier day stays there, and a row that reconcile     *)
(* closed when it was misled stays marked.                                  *)
LEMMA PastForward ==
  ASSUME PastIsNumbered, TypeInv, [Next]_vars
  PROVE  past \subseteq past' /\ \A n \in past' \ past : brk[n].st # "none"
<1>1. past \subseteq OrdNos
  BY DEF TypeInv, TypeOK
<1>2. CASE DayChanges
  BY <1>1, <1>2 DEF DayChanges, PastIsNumbered
<1>3. ASSUME BrokerStep, ~DayChanges
      PROVE  past' = past
  BY <1>3 DEF BrokerStep, PlaceAnswer, CallAnswer, BrokerTakes, BrokerRefuses,
     AckMisjudged, BrokerSilent, BrokerCancels, BrokerDeclines, BrokerAmends,
     BrokerExecutes, MarketCloses, broker
<1> QED
  BY <1>2, <1>3, ServerKeepsBook DEF vars

LEMMA MisledForward ==
  ASSUME [Next]_vars
  PROVE  misled \subseteq misled'
<1>1. ASSUME NEW c \in Clients, PlaceStep(c)
      PROVE  misled' = misled
  BY <1>1 DEF PlaceStep, PlaceInsert, PlaceAgain, PlaceSubmit, PlaceAck, PlaceAckFails,
     PlaceReject, PlaceInDoubt
<1>2. ASSUME NEW p \in Procs, RecStep(p)
      PROVE  misled \subseteq misled'
  BY <1>2 DEF RecStep, RecGoesOn, RecList, RecFetch, RecFetchFails, RecApply, RecUnlock,
     RecFinish, RecSkip, RecVanished, RecLock, RecKnown, RecOrphan, RecOrphanFails
<1>3. ASSUME CallStep \/ TcStep \/ Crash \/ BootStep \/ UNCHANGED vars
      PROVE  misled' = misled
  BY <1>3 DEF CallStep, CancelRead, AmendRead, CancelApply, AmendApply, TcStep,
     TcFill, Crash, BootStep, BootQuarantine, BootFinish, BootFails, vars
<1>4. ASSUME BrokerStep
      PROVE  misled' = misled
  BY <1>4 DEF BrokerStep, PlaceAnswer, CallAnswer, BrokerTakes, BrokerRefuses,
     AckMisjudged, BrokerSilent, BrokerCancels, BrokerDeclines, BrokerAmends,
     BrokerExecutes, MarketCloses, DayChanges
<1> QED
  BY <1>1, <1>2, <1>3, <1>4 DEF Next

LEMMA StepNotSent ==
  ASSUME OwnInv, SentInv, NotSent, [Next]_vars
  PROVE  NotSent'
<1> USE PipelineAssumption
<1>type. TypeInv /\ RowInv /\ UnusedIsEmpty /\ 0 \notin Clients /\ Clients \subseteq Rows
         /\ pc \in [Clients -> {"idle", "approved", "sending", "taken", "refused",
                                "failed", "error"}]
  BY DEF OwnInv, RowInv, TypeInv, TypeOK, Rows
<1> SUFFICES ASSUME NEW c \in Clients,
                    \/ pc'[c] = "sending"
                    \/ row'[c].status \in {"none", "approved"},
                    NEW n \in OrdNos, brk'[n].owner = c
             PROVE  FALSE
  BY DEF NotSent
<1>1. pc[c] = "sending" \/ row[c].status \in {"none", "approved"}
  BY <1>type, PlaceSource, RowsForward
<1>2. \A k \in OrdNos : brk[k].owner # c
  BY <1>1 DEF NotSent
<1>3. BookStep
  BY <1>type, StepBookStep
<1>4. TakesOrder(c, n)
  BY <1>type, <1>2, <1>3, OwnerSource DEF TakesOrder
<1>5. pc[c] = "sending" /\ row[c].status \notin {"none", "approved"}
  BY <1>4 DEF TakesOrder, SentInv, SentOnce
<1>6. row'[c].status \notin {"none", "approved"}
  BY <1>5, <1>type, RowsForward
<1>7. pc'[c] = "sending"
  BY <1>6
<1>8. brk' # brk
  BY <1>2
<1>9. BrokerStep
  BY <1>8, ServerKeepsBook DEF vars
<1>10. ASSUME NEW d \in Clients, PlaceAnswer(d)
       PROVE  FALSE
  <2>1. PICK k \in OrdNos : BrokerTakes(d, k)
    BY <1>8, <1>10 DEF PlaceAnswer, BrokerRefuses, AckMisjudged, BrokerSilent, broker
  <2>2. TakesOrder(d, k)
    BY <1>type, <2>1, TakesIsBookStep
  <2>3. n = k /\ d = c
    BY <1>2, <2>2 DEF TakesOrder, NewOrder, KeepsOrders
  <2>4. pc'[c] = "taken"
    BY <1>type, <2>1, <2>3 DEF BrokerTakes
  <2> QED
    BY <1>7, <2>4
<1>11. ASSUME \/ \E m \in calls : CallAnswer(m)
              \/ \E k \in OrdNos : BrokerExecutes(k)
              \/ MarketCloses \/ DayChanges
       PROVE  FALSE
  <2>1. ASSUME NEW k \in OrdNos, Shuts(k), KeepsOrders({k})
        PROVE  FALSE
    BY <1>2, <2>1 DEF Shuts, KeepsTerms, KeepsOrders
  <2>2. ASSUME NEW k \in OrdNos, NEW j \in OrdNos, AmendsOrder(k, j)
        PROVE  FALSE
    BY <1>2, <2>2 DEF AmendsOrder, Shuts, NewOrder, KeepsTerms, KeepsOrders
  <2>3. ASSUME NEW k \in OrdNos, ExecutesOrder(k)
        PROVE  FALSE
    BY <1>2, <2>3 DEF ExecutesOrder, KeepsOrders
  <2>4. ~ShutsAll
    BY <1>2 DEF ShutsAll, KeepsTerms
  <2> QED
    BY <1>type, <1>8, <1>11, <2>1, <2>2, <2>3, <2>4, CancelsIsBookStep,
       AmendsIsBookStep, ExecutesIsBookStep, ClosesIsBookStep
    DEF CallAnswer, BrokerDeclines, DayChanges, broker
<1> QED
  BY <1>9, <1>10, <1>11 DEF BrokerStep

(* What one step may do to a row, a run and the confirmed cancels.          *)
RowOver(r) ==
  row'[r].status \in Closed3 =>
    row[r].status \in Closed3 \/ Ends(OwnerOf(r)) \/ r \in misled'

RunOver(p) ==
  \A r \in Rows : Missing(p, r)' => rec'[p].page = "error" \/ rec'[p].seen[r] \in past

ServerOver == (\A r \in Rows : RowOver(r)) /\ (\A p \in Procs : RunOver(p))

CallOver ==
  \A m \in calls' : m.op = "cancel" /\ m.st = "acked" =>
    \/ m \in calls
    \/ m.ordno \in OrdNos /\ Shuts(m.ordno) /\ KeepsOrders({m.ordno})

LEMMA TransitionOver ==
  ASSUME TypeInv, NEW r \in Rows, NEW to, Transition(r, to),
         to \in Closed3 => Ends(OwnerOf(r)) \/ r \in misled'
  PROVE  \A q \in Rows : RowOver(q)
BY TransitionFields DEF RowOver

(* A row becomes filled by an execution only when its order has no lot left *)
(* to execute.                                                              *)
LEMMA ApplyOver ==
  ASSUME EndInv, NEW p \in Procs, RecApply(p)
  PROVE  \A q \in Rows : RowOver(q)
<1> USE PipelineAssumption
<1> DEFINE r == rec[p].row
           n == rec[p].ord
           k == rec[p].next
           e == <<"recon", n, k>>
           rem == brk[n].qty - k
           to == Target(row[r], row[r].fills \cup {e}, rem)
<1>type. /\ TypeInv /\ row \in [Rows -> RowType] /\ rec[p] \in RecType
         /\ brk \in [OrdNos -> BrkType]
  BY DEF EndInv, OwnInv, RowInv, TypeInv, TypeOK
<1>1. /\ r \in Rows /\ n \in OrdNos /\ k \in Nat /\ r # 0
      /\ brk[n].execs \in Nat /\ brk[n].qty \in Nat
  BY <1>type DEF RecApply, RecType, TypeInv, LockHasNumber, OrdNos, OrdNos0, BrkType
<1>2. Owns(r, n) /\ k <= brk[n].execs /\ brk[n].execs <= brk[n].qty
  BY <1>1 DEF EndInv, OwnInv, LockIsOwned, ExecsInQty
<1>3. to = "filled" => Ends(OwnerOf(r))
  <2>1. SUFFICES ASSUME to = "filled" PROVE Ends(OwnerOf(r))
    OBVIOUS
  <2>2. rem # -1 /\ rem <= 0
    BY <1>1, <1>2, <2>1 DEF Target, Remaining
  <2>3. brk[n].execs = brk[n].qty
    BY <1>1, <1>2, <2>2
  <2>4. brk[n].st # "none"
    BY <1>1, <1>2 DEF Owns, EndInv, OwnInv, UnusedIsEmpty
  <2>5. Ends(brk[n].owner)
    BY <1>1, <2>3, <2>4 DEF EndInv, FullIsOver
  <2> QED
    BY <1>2, <2>5 DEF Owns
<1>4. to \in {"filled", "partially_filled"}
  BY DEF Target
<1>5. row[r] \in RowType
  BY <1>type, <1>1
<1>6. ApplyFill(row[r], e, rem).status \in {row[r].status, to}
  <2> HIDE DEF to, e, rem, r
  <2>1. ApplyFill(row[r], e, rem) \in
          {row[r], [row[r] EXCEPT !.fills = row[r].fills \cup {e},
                      !.status = IF CanTransition(row[r].status, to) THEN to
                                 ELSE row[r].status]}
    BY DEF ApplyFill, to
  <2> QED
    BY <1>5, <2>1 DEF RowType
<1>7. /\ row'[r].status \in {row[r].status, to}
      /\ \A q \in Rows \ {r} : row'[q] = row[q]
  BY <1>type, <1>1, <1>6 DEF RecApply
<1> HIDE DEF r, to
<1> QED
  BY <1>3, <1>4, <1>7 DEF RowOver, Closed3

LEMMA RecRowOver ==
  ASSUME EndInv, NEW p \in Procs, RecStep(p)
  PROVE  \A q \in Rows : RowOver(q)
<1> USE PipelineAssumption
<1>type. /\ TypeInv /\ row \in [Rows -> RowType] /\ rec[p] \in RecType
         /\ brk \in [OrdNos -> BrkType]
  BY DEF EndInv, OwnInv, RowInv, TypeInv, TypeOK
<1>0. ASSUME row' = row
      PROVE  \A q \in Rows : RowOver(q)
  BY <1>0 DEF RowOver
<1>1. ASSUME NEW r \in Rows, NEW n \in OrdNos, Owns(r, n), session # "open"
      PROVE  Ends(OwnerOf(r))
  <2>1. AfterClose /\ UnusedIsEmpty
    BY DEF EndInv, OwnInv
  <2> QED
    BY <1>type, <1>1, <2>1 DEF Owns, Ends, AfterClose, UnusedIsEmpty, BrkType
<1>2. CASE RecUnlock(p)
  <2> DEFINE r == rec[p].row
  <2>1. r \in Rows /\ r # 0 /\ rec[p].ord \in OrdNos
    BY <1>type, <1>2 DEF RecUnlock, RecType, TypeInv, LockHasNumber, OrdNos, OrdNos0
  <2>2. Owns(r, rec[p].ord)
    BY <2>1 DEF EndInv, OwnInv, LockIsOwned
  <2>3. ASSUME session # "open"
        PROVE  Ends(OwnerOf(r))
    BY <1>1, <2>1, <2>2, <2>3
  <2>4. \/ row' = row
        \/ Transition(r, "expired") /\ (session = "open" => r \in misled')
    BY <1>2 DEF RecUnlock
  <2> QED
    BY <1>0, <1>type, <2>1, <2>3, <2>4, TransitionOver
<1>3. ASSUME NEW r \in Rows, RecVanished(p, r)
      PROVE  \A q \in Rows : RowOver(q)
  <2>1. Unseen(p, r)
    BY <1>3 DEF RecVanished, AtOrder, EndInv, MissingIsUnseen, Missing
  <2>2. \/ row' = row
        \/ r \in misled' /\ \E to \in {"expired", "canceled"} : Transition(r, to)
    BY <1>3, <2>1 DEF RecVanished
  <2> QED
    BY <1>0, <1>type, <2>2, TransitionOver
<1>4. ASSUME NEW n \in OrdNos, RecOrphan(p, n)
      PROVE  \A q \in Rows : RowOver(q)
  BY <1>type, <1>4, OrphanFields DEF RowOver, Closed3
<1>5. ASSUME \/ RecList(p) \/ RecFetch(p) \/ RecFetchFails(p) \/ RecFinish(p)
             \/ \E r \in Rows : RecSkip(p, r) \/ RecLock(p, r)
             \/ \E n \in OrdNos : RecKnown(p, n) \/ RecOrphanFails(p, n)
      PROVE  row' = row
  BY <1>5 DEF RecList, RecFetch, RecFetchFails, RecFinish, RecSkip, RecLock, RecKnown,
     RecOrphanFails
<1> QED
  BY <1>0, <1>2, <1>3, <1>4, <1>5, ApplyOver DEF RecStep, RecGoesOn

LEMMA RecRunOver ==
  ASSUME EndInv, NEW p \in Procs, RecStep(p)
  PROVE  \A q \in Procs : RunOver(q)
<1> USE PipelineAssumption
<1>type. /\ TypeInv /\ rec[p] \in RecType /\ brk \in [OrdNos -> BrkType]
         /\ UnusedIsEmpty /\ SeenIsOwned
  BY DEF EndInv, OwnInv, RowInv, TypeInv, TypeOK
<1>old. \A q \in Procs, r \in Rows :
          Missing(q, r) => rec[q].page = "error" \/ rec[q].seen[r] \in past
  BY DEF EndInv, MissingIsUnseen, Unseen
<1>same. ASSUME NEW q \in Procs, rec'[q] = rec[q]
         PROVE  RunOver(q)
  BY <1>old, <1>same DEF RunOver, Missing
<1>1. ASSUME Others(p), RunOver(p)
      PROVE  \A q \in Procs : RunOver(q)
  BY <1>1, <1>same DEF Others
<1>fresh. Fresh(rec'[p]) => RunOver(p)
  BY DEF Fresh, RunOver, Missing
<1>empty. ASSUME rec'[p].todo = {}
          PROVE  RunOver(p)
  BY <1>empty DEF RunOver, Missing
<1>less. ASSUME SameList(p), rec'[p].view = rec[p].view, rec'[p].todo \subseteq rec[p].todo
         PROVE  RunOver(p)
  BY <1>old, <1>less DEF SameList, RunOver, Missing
<1>2. CASE RecList(p)
  <2>1. rec'[p].pc = "orders" => rec'[p].todo = {}
    BY <1>type, <1>2, ListFields
  <2> QED
    BY <1>type, <1>1, <1>2, <2>1, ListFields DEF RunOver, Missing
<1>3. CASE RecFetch(p)
  <2>1. ASSUME NEW r \in Rows, Missing(p, r)'
        PROVE  rec'[p].seen[r] \in past
    <3>1. PICK n : n = rec[p].seen[r]
      OBVIOUS
    <3>2. n # 0 /\ n \in OrdNos /\ rec'[p].view[n] = -1
      BY <1>type, <1>3, <2>1, <3>1, FetchFields DEF Missing, RecType, OrdNos, OrdNos0
    <3>3. brk[n].st # "none" /\ brk[n].execs # -1
      BY <1>type, <3>1, <3>2 DEF SeenIsOwned, Owns, UnusedIsEmpty, BrkType
    <3>4. n \in past /\ rec'[p].seen[r] = n
      BY <1>type, <1>3, <3>1, <3>2, <3>3, FetchFields
    <3> QED
      BY <3>4
  <2> QED
    BY <1>type, <1>1, <1>3, <2>1, FetchFields DEF RunOver
<1>4. CASE RecFetchFails(p)
  BY <1>type, <1>1, <1>fresh, <1>4, FailFields DEF RunOver
<1>5. CASE RecApply(p)
  BY <1>type, <1>1, <1>less, <1>5, ApplyFields
<1>6. CASE RecUnlock(p)
  BY <1>type, <1>1, <1>less, <1>6, UnlockFields
<1>7. CASE RecFinish(p)
  BY <1>type, <1>1, <1>fresh, <1>7, FinishFields
<1>8. ASSUME NEW r \in Rows, RecSkip(p, r) \/ RecVanished(p, r)
      PROVE  \A q \in Procs : RunOver(q)
  BY <1>type, <1>1, <1>less, <1>8, SkipFields
<1>9. ASSUME NEW r \in Rows, RecLock(p, r)
      PROVE  \A q \in Procs : RunOver(q)
  BY <1>type, <1>1, <1>less, <1>9, LockFields
<1>10. ASSUME NEW n \in OrdNos, RecKnown(p, n)
       PROVE  \A q \in Procs : RunOver(q)
  <2>1. rec[p].todo = {}
    BY <1>10 DEF RecKnown, AtOrdNo
  <2> QED
    BY <1>type, <1>1, <1>empty, <1>10, <2>1, KnownFields DEF SameList
<1>11. ASSUME NEW n \in OrdNos, RecOrphan(p, n)
       PROVE  \A q \in Procs : RunOver(q)
  <2>1. rec[p].todo = {}
    BY <1>11 DEF RecOrphan, AtOrdNo
  <2> QED
    BY <1>type, <1>1, <1>empty, <1>11, <2>1, OrphanFields DEF SameList
<1>12. ASSUME NEW n \in OrdNos, RecOrphanFails(p, n)
       PROVE  \A q \in Procs : RunOver(q)
  BY <1>type, <1>1, <1>fresh, <1>12, OrphanFailFields
<1> QED
  BY <1>2, <1>3, <1>4, <1>5, <1>6, <1>7, <1>8, <1>9, <1>10, <1>11, <1>12 DEF RecStep,
     RecGoesOn

LEMMA SameRunsOver ==
  ASSUME EndInv, \A p \in Procs : rec'[p] \in {rec[p], IdleRec}
  PROVE  \A p \in Procs : RunOver(p)
BY DEF EndInv, MissingIsUnseen, Unseen, RunOver, Missing, IdleRec

LEMMA StepServerOver ==
  ASSUME ~Realtime, EndInv, Next, ~BrokerStep
  PROVE  ServerOver /\ CallOver
<1> USE PipelineAssumption
<1>type. /\ TypeInv /\ row \in [Rows -> RowType] /\ rec \in [Procs -> RecType]
         /\ calls \subseteq CallType
  BY DEF EndInv, OwnInv, RowInv, TypeInv, TypeOK
<1>same. ASSUME row' = row
         PROVE  \A q \in Rows : RowOver(q)
  BY <1>same DEF RowOver
<1>1. ASSUME NEW c \in Clients, PlaceStep(c)
      PROVE  ServerOver /\ CallOver
  <2>1. rec' = rec /\ calls' = calls /\ c \in Rows
    BY <1>1 DEF PlaceStep, PlaceInsert, PlaceAgain, PlaceSubmit, PlaceAck, PlaceAckFails,
       PlaceReject, PlaceInDoubt, Rows
  <2>2. CASE PlaceInsert(c) \/ PlaceAck(c)
    <3>1. /\ row'[c].status \in {"approved", "accepted"}
          /\ \A q \in Rows \ {c} : row'[q] = row[q]
      BY <1>type, <2>1, <2>2 DEF PlaceInsert, PlaceAck, RowType
    <3>2. \A q \in Rows : RowOver(q)
      BY <3>1 DEF RowOver, Closed3
    <3> QED
      BY <2>1, <3>2, SameRunsOver DEF ServerOver, CallOver
  <2>3. CASE PlaceSubmit(c) \/ PlaceReject(c) \/ PlaceInDoubt(c)
    <3>1. \E to \in {"submitted", "rejected", "in_doubt"} : Transition(c, to)
      BY <2>3 DEF PlaceSubmit, PlaceReject, PlaceInDoubt
    <3>2. \A q \in Rows : RowOver(q)
      BY <1>type, <2>1, <3>1, TransitionOver DEF Closed3
    <3> QED
      BY <2>1, <3>2, SameRunsOver DEF ServerOver, CallOver
  <2>4. CASE PlaceAgain(c) \/ PlaceAckFails(c)
    <3>1. row' = row
      BY <2>4 DEF PlaceAgain, PlaceAckFails
    <3> QED
      BY <1>same, <2>1, <3>1, SameRunsOver DEF ServerOver, CallOver
  <2> QED
    BY <1>1, <2>2, <2>3, <2>4 DEF PlaceStep
<1>2. ASSUME NEW p \in Procs, RecStep(p)
      PROVE  ServerOver /\ CallOver
  <2>1. calls' = calls
    BY <1>2 DEF RecStep, RecGoesOn, RecList, RecFetch, RecFetchFails, RecApply, RecUnlock,
       RecFinish, RecSkip, RecVanished, RecLock, RecKnown, RecOrphan, RecOrphanFails
  <2> QED
    BY <1>2, <2>1, RecRowOver, RecRunOver DEF ServerOver, CallOver
<1>3. ASSUME NEW r \in Rows, CancelRead(r) \/ AmendRead(r)
      PROVE  ServerOver /\ CallOver
  <2>1. row' = row /\ rec' = rec /\ CallOver
    BY <1>3 DEF CancelRead, AmendRead, CallOver
  <2> QED
    BY <1>same, <2>1, SameRunsOver DEF ServerOver
<1>4. ASSUME NEW m \in calls, CancelApply(m)
      PROVE  ServerOver /\ CallOver
  <2>1. rec' = rec /\ calls' \subseteq calls /\ m.row \in Rows /\ m.ordno \in OrdNos
    BY <1>type, <1>4 DEF CancelApply, CallType
  <2>2. Ends(brk[m.ordno].owner) /\ Owns(m.row, m.ordno)
    BY <1>4 DEF CancelApply, EndInv, CancelIsOver, OwnInv, CallIsOwned
  <2>3. Ends(OwnerOf(m.row))
    BY <2>2 DEF Owns
  <2>4. row' = row \/ Transition(m.row, "canceled")
    BY <1>4 DEF CancelApply
  <2>5. \A q \in Rows : RowOver(q)
    BY <1>same, <1>type, <2>1, <2>3, <2>4, TransitionOver
  <2> QED
    BY <2>1, <2>5, SameRunsOver DEF ServerOver, CallOver
<1>5. ASSUME NEW m \in calls, AmendApply(m)
      PROVE  ServerOver /\ CallOver
  <2>1. rec' = rec /\ calls' \subseteq calls
    BY <1>5 DEF AmendApply
  <2>2. \A q \in Rows : row'[q].status = row[q].status
    BY <1>type, <1>5 DEF AmendApply, RowType
  <2>3. \A q \in Rows : RowOver(q)
    BY <2>2 DEF RowOver
  <2> QED
    BY <2>1, <2>3, SameRunsOver DEF ServerOver, CallOver
<1>6. ~TcStep
  BY DEF TcStep, TcFill
<1>7. CASE Crash
  <2>1. row' = row /\ calls' = {} /\ \A p \in Procs : rec'[p] = IdleRec
    BY <1>7 DEF Crash
  <2> QED
    BY <1>same, <2>1, SameRunsOver DEF ServerOver, CallOver
<1>8. CASE BootStep
  <2>1. calls' = calls /\ \A p \in Procs : rec'[p] \in {rec[p], IdleRec}
    BY <1>type, <1>8 DEF BootStep, BootQuarantine, BootFinish, BootFails
  <2>2. row' = row \/ \E r \in Rows : Transition(r, "quarantined")
    BY <1>8 DEF BootStep, BootQuarantine, BootFinish, BootFails
  <2>3. \A q \in Rows : RowOver(q)
    BY <1>same, <1>type, <2>2, TransitionOver DEF Closed3
  <2> QED
    BY <2>1, <2>3, SameRunsOver DEF ServerOver, CallOver
<1> QED
  BY <1>1, <1>2, <1>3, <1>4, <1>5, <1>6, <1>7, <1>8, ServerKeepsBook DEF CallStep

(* A step of the broker confirms a cancel only by shutting its order.       *)
LEMMA BrokerOver ==
  ASSUME EndInv, BrokerStep
  PROVE  row' = row /\ rec' = rec /\ CallOver
<1> USE PipelineAssumption
<1>type. TypeInv /\ calls \subseteq CallType
  BY DEF EndInv, OwnInv, RowInv, TypeInv, TypeOK
<1>0. row' = row /\ rec' = rec
  BY DEF BrokerStep, PlaceAnswer, CallAnswer, BrokerTakes, BrokerRefuses, AckMisjudged,
     BrokerSilent,
     BrokerCancels, BrokerDeclines, BrokerAmends, BrokerExecutes, MarketCloses,
     DayChanges, server
<1>1. ASSUME calls' \subseteq calls
      PROVE  CallOver
  BY <1>1 DEF CallOver
<1>2. ASSUME NEW m \in calls, BrokerCancels(m)
      PROVE  CallOver
  <2>1. m.ordno \in OrdNos /\ Shuts(m.ordno) /\ KeepsOrders({m.ordno})
    BY <1>type, <1>2, CancelsIsBookStep
  <2>2. \A k \in calls' : k \in calls \/ k.ordno = m.ordno
    BY <1>type, <1>2 DEF BrokerCancels, Answer, CallType
  <2> QED
    BY <2>1, <2>2 DEF CallOver
<1>3. ASSUME NEW m \in calls, NEW n \in OrdNos, BrokerAmends(m, n)
      PROVE  CallOver
  <2>1. \A k \in calls' : k \in calls \/ k.op = "amend"
    BY <1>type, <1>3 DEF BrokerAmends, Answer, CallType
  <2> QED
    BY <2>1 DEF CallOver
<1>4. ASSUME NEW m \in calls, BrokerDeclines(m)
      PROVE  calls' \subseteq calls
  BY <1>4 DEF BrokerDeclines
<1>5. ASSUME \/ \E c \in Clients : PlaceAnswer(c)
             \/ \E n \in OrdNos : BrokerExecutes(n)
             \/ MarketCloses \/ DayChanges
      PROVE  calls' = calls
  BY <1>5 DEF PlaceAnswer, BrokerTakes, BrokerRefuses, AckMisjudged, BrokerSilent,
     BrokerExecutes,
     MarketCloses, DayChanges, server
<1> QED
  BY <1>0, <1>1, <1>2, <1>3, <1>4, <1>5 DEF BrokerStep, CallAnswer

LEMMA InitEndInv == Init => EndInv
<1> SUFFICES ASSUME Init PROVE EndInv
  OBVIOUS
<1>1. /\ row = [r \in Rows |-> NoRow] /\ calls = {} /\ session = "open"
      /\ rec = [p \in Procs |-> IdleRec] /\ brk = [n \in OrdNos |-> Unused]
      /\ past = {}
  BY DEF Init
<1>2. 0 \notin Clients
  BY PipelineAssumption
<1> QED
  BY <1>1, <1>2, InitOwnInv, InitSentInv
  DEF EndInv, OneWorking, ExecsInQty, NotSent, FullIsOver, CancelIsOver, AfterClose,
      PastIsNumbered, MissingIsUnseen, Missing, RowIsOver, Closed3, NoRow, IdleRec, Unused

LEMMA StepEndInv ==
  ASSUME ~Realtime, EndInv, [Next]_vars
  PROVE  EndInv'
<1> USE PipelineAssumption
<1>type. /\ OwnInv /\ SentInv /\ TypeInv /\ UnusedIsEmpty /\ NotSent
         /\ calls \subseteq CallType
  BY DEF EndInv, OwnInv, RowInv, TypeInv, TypeOK
<1>new. OwnInv' /\ SentInv' /\ UnusedIsEmpty' /\ calls' \subseteq CallType
  BY <1>type, StepOwnInv, StepSentInv DEF OwnInv, RowInv, TypeInv, TypeOK
<1>1. BookForward /\ BookStep
  BY <1>type, StepBookForward, StepBookStep
<1>2. OneWorking' /\ ExecsInQty' /\ FullIsOver' /\ AfterClose' /\ NotSent'
  BY <1>type, <1>1, StepBook, StepAfterClose, StepNotSent DEF EndInv
<1>past. past \subseteq past' /\ PastIsNumbered'
  <2>1. past \subseteq past' /\ \A n \in past' : brk[n].st # "none"
    BY <1>type, PastForward DEF EndInv, PastIsNumbered
  <2>2. past' \subseteq OrdNos
    BY <1>new DEF OwnInv, RowInv, TypeInv, TypeOK
  <2> QED
    BY <1>1, <2>1, <2>2 DEF BookForward, PastIsNumbered
<1>ends. ASSUME NEW r \in Rows, Ends(OwnerOf(r))
         PROVE  Ends(OwnerOf(r))'
  <2>1. PICK c : c = OwnerOf(r)
    OBVIOUS
  <2>2. Ends(c) /\ Ends(c)'
    BY <1>type, <1>1, <1>ends, <2>1, EndsForward
  <2>3. c # 0
    BY <1>type, <2>2 DEF Ends, UnusedIsEmpty
  <2>4. OwnerOf(r)' = c
    BY <1>1, <2>1, <2>3 DEF OwnerOf, BookForward, Rows
  <2> QED
    BY <2>2, <2>4 DEF Ends
<1>3. ASSUME CallOver
      PROVE  CancelIsOver'
  <2> SUFFICES ASSUME NEW m \in calls', m.op = "cancel", m.st = "acked"
               PROVE  Ends(brk[m.ordno].owner)'
    BY DEF CancelIsOver
  <2>1. CASE m \in calls
    <3>1. PICK r \in Rows, n \in OrdNos : r = m.row /\ n = m.ordno
      BY <1>type, <2>1 DEF CallType
    <3>2. Ends(brk[n].owner) /\ Owns(r, n)
      BY <1>type, <2>1, <3>1 DEF EndInv, CancelIsOver, OwnInv, CallIsOwned
    <3>3. Ends(OwnerOf(r)) /\ Owns(r, n)'
      BY <1>1, <3>2, OwnsForward DEF Owns
    <3>4. Ends(brk[n].owner)'
      BY <1>ends, <3>3 DEF Owns
    <3> QED
      BY <3>1, <3>4
  <2>2. CASE m.ordno \in OrdNos /\ Shuts(m.ordno) /\ KeepsOrders({m.ordno})
    <3>1. Ends(brk[m.ordno].owner)'
      <4>1. Ends(brk[m.ordno].owner)' /\ brk'[m.ordno].owner = brk[m.ordno].owner
        BY <1>type, <2>2, LastOneEnds DEF EndInv, Shuts, KeepsTerms
      <4> QED
        BY <4>1
    <3> QED
      BY <3>1
  <2> QED
    BY <1>3, <2>1, <2>2 DEF CallOver
<1>4. ASSUME \A r \in Rows : RowOver(r)
      PROVE  RowIsOver'
  BY <1>4, <1>ends, MisledForward DEF RowOver, RowIsOver, EndInv
<1>5. ASSUME BrokerStep \/ UNCHANGED vars
      PROVE  EndInv'
  <2>1. row' = row /\ rec' = rec /\ CallOver
    BY <1>5, BrokerOver DEF vars, CallOver
  <2>2. \A r \in Rows : RowOver(r)
    BY <2>1 DEF RowOver
  <2>3. MissingIsUnseen'
    BY <1>past, <2>1 DEF EndInv, MissingIsUnseen, Missing, Unseen
  <2> QED
    BY <1>new, <1>past, <1>2, <1>3, <1>4, <2>1, <2>2, <2>3 DEF EndInv
<1>6. ASSUME Next, ~BrokerStep
      PROVE  EndInv'
  <2>1. ServerOver /\ CallOver
    BY <1>6, StepServerOver
  <2>2. MissingIsUnseen'
    BY <1>past, <2>1 DEF ServerOver, RunOver, Missing, Unseen, MissingIsUnseen
  <2> QED
    BY <1>new, <1>past, <1>2, <1>3, <1>4, <2>1, <2>2 DEF EndInv, ServerOver
<1> QED
  BY <1>5, <1>6

(* A row that is filled, canceled or expired does not name an order that    *)
(* still works, whatever order the answers, the fills and the reconcile     *)
(* runs come in, unless a run closed the row on an empty answer, without    *)
(* the orders of an earlier day, or on a false market_closed (TC3 fills     *)
(* off: with them it is false).                                             *)
THEOREM ClosedRowsAreClosed ==
  ASSUME ~Realtime
  PROVE  Spec => []ClosedIsClosed
<1>1. Init => EndInv
  BY InitEndInv
<1>2. EndInv /\ [Next]_vars => EndInv'
  BY StepEndInv
<1>3. EndInv => ClosedIsClosed
  <2> SUFFICES ASSUME EndInv, NEW r \in Rows \ misled,
                      row[r].status \in Closed3, row[r].ordno # 0
               PROVE  brk[row[r].ordno].st # "working"
    BY DEF ClosedIsClosed, Closed3
  <2>1. row[r] \in RowType
    BY DEF EndInv, OwnInv, RowInv, TypeInv, TypeOK
  <2>2. row[r].ordno \in OrdNos
    BY <2>1, PipelineAssumption DEF RowType, OrdNos, OrdNos0
  <2>3. Owns(r, row[r].ordno) /\ Ends(OwnerOf(r))
    BY DEF EndInv, OwnInv, RowIsOwned, RowIsOver
  <2> QED
    BY <2>2, <2>3 DEF Owns, Ends
<1> QED
  BY <1>1, <1>2, <1>3, PTL DEF Spec

------------------------------------------------------------------------------
(* What the boot sequence leaves behind when it lets the engine go ACTIVE.  *)
(*                                                                          *)
(* The argument: while the server boots no request runs, so the broker      *)
(* takes no order and no row changes its number but by the boot's own run   *)
(* of reconcile.  Every order that works has an open row of its owner, or   *)
(* one the server has given up, so a run that lists no open row misses no   *)
(* other order; otherwise the run has a row of the broker for each order of *)
(* the day, unless its query fails, and it lets go of it only for a row     *)
(* with its number: the one it has listed, an orphan row registered before, *)
(* or a new one.  A row that is still waiting for an answer has no number,  *)
(* and is quarantined.                                                      *)

Numberless == {"none", "approved", "submitted", "in_doubt", "rejected", "quarantined"}

NoNumber == \A r \in Rows : row[r].status \in Numberless => row[r].ordno = 0

PendingIsSubmitted ==
  \A c \in Clients :
    pc[c] \in {"sending", "taken", "refused", "failed"} => row[c].status = "submitted"

NumberedCalls ==
  \A m \in calls : row[m.row].ordno # 0 /\ (m.op = "amend" /\ m.st = "acked" => m.new # 0)

NumberedRuns ==
  \A p \in Procs : /\ \A r \in Rows : rec[p].seen[r] # 0 => row[r].ordno # 0
                   /\ rec[p].row # 0 => row[rec[p].row].ordno # 0

(* Nothing but the boot sequence runs while the server boots. *)
Quiet ==
  engine = "booting" =>
    /\ calls = {}
    /\ \A c \in Clients : pc[c] = "idle"
    /\ \A p \in Recs : rec[p].pc = "idle"

BootRuns == rec[Boot].pc # "idle" => engine = "booting"

OpenOrder ==
  \A n \in OrdNos : brk[n].st = "working" =>
    \E r \in Rows : OwnerOf(r) = brk[n].owner /\ (Open(r) \/ GivenUp(r))

(* An orphan row leaves its first number only when that order is over. *)
OrphanMoves ==
  \A n \in OrdNos :
    /\ Exists(n) => row[n].ordno = n \/ brk[n].st = "closed"
    /\ \A m \in calls : m.row = n /\ m.new # 0 => brk[n].st = "closed"

SeenNow ==
  engine = "booting" =>
    \A r \in Rows : rec[Boot].seen[r] # 0 => row[r].ordno = rec[Boot].seen[r]

HasRow(n) == \E r \in Rows : row[r].ordno = n

(* The run of boot has not read of order n, and the cause.                  *)
Overlooked(n) ==
  \/ rec[Boot].page = "error"
  \/ /\ rec[Boot].page = "none"
     /\ \E r \in Rows : GivenUp(r) /\ OwnerOf(r) = brk[n].owner

BootCovers ==
  rec[Boot].pc \in {"orders", "done"} =>
    \A n \in OrdNos \ past :
      brk[n].st = "working" => rec[Boot].view[n] # -1 \/ HasRow(n) \/ Overlooked(n)

BootDone == rec[Boot].pc = "done" => \A n \in OrdNos : rec[Boot].view[n] = -1

BootInv ==
  /\ EndInv /\ CatchInv
  /\ NoNumber /\ PendingIsSubmitted /\ NumberedCalls /\ NumberedRuns
  /\ Quiet /\ BootRuns /\ OpenOrder /\ OrphanMoves /\ SeenNow /\ BootCovers /\ BootDone

(* What one step may do to the status and the number of a row.              *)
SameState(r) == row'[r].status = row[r].status /\ row'[r].ordno = row[r].ordno

Moves(r) ==
  /\ row[r].ordno # 0 /\ row'[r].ordno = row[r].ordno
  /\ row[r].status # "none"
  /\ row'[r].status \in {row[r].status, "partially_filled", "filled", "canceled", "expired"}

Quarantines(r) ==
  /\ rec[Boot].pc = "done" /\ row[r].ordno = 0 /\ row'[r].ordno = 0
  /\ row[r].status # "none" /\ row'[r].status = "quarantined"

Inserts(r) ==
  /\ r \in Clients /\ pc[r] \in {"idle", "error"} /\ pc'[r] = "approved"
  /\ row[r].status = "none" /\ row'[r].status = "approved" /\ row'[r].ordno = 0

Submits(r) ==
  /\ r \in Clients /\ pc[r] = "approved" /\ pc'[r] = "sending"
  /\ row[r].status = "approved" /\ row'[r].status = "submitted"
  /\ row'[r].ordno = row[r].ordno

Answered(r) ==
  /\ r \in Clients /\ pc'[r] = "idle"
  /\ \/ pc[r] = "taken" /\ row'[r].status = "accepted"
     \/ /\ pc[r] = "refused" /\ row'[r].status = "rejected"
        /\ row'[r].ordno = row[r].ordno
     \/ /\ pc[r] = "failed" /\ row'[r].status = "in_doubt"
        /\ row'[r].ordno = row[r].ordno

Renumbers(r) ==
  /\ row'[r].status = row[r].status
  /\ \E m \in calls : /\ m.row = r /\ m.op = "amend" /\ m.st = "acked"
                      /\ row'[r].ordno = m.new

Registers(r) ==
  /\ r \in OrdNos /\ row[r].status = "none"
  /\ row'[r].status = "accepted" /\ row'[r].ordno = r

RowMove(r) ==
  \/ SameState(r) \/ Moves(r) \/ Quarantines(r)
  \/ Inserts(r) \/ Submits(r) \/ Answered(r)
  \/ Renumbers(r) \/ Registers(r)

LEMMA MovesByTransition ==
  ASSUME TypeInv, NEW r \in Rows, NEW to \in {"canceled", "expired"}, Transition(r, to),
         row[r].ordno # 0, row[r].status # "none"
  PROVE  \A q \in Rows : RowMove(q)
<1>1. Moves(r)
  BY TransitionFields DEF Moves
<1>2. \A q \in Rows \ {r} : SameState(q)
  BY TransitionFields DEF SameState
<1> QED
  BY <1>1, <1>2 DEF RowMove

LEMMA MovesByFill ==
  ASSUME TypeInv, NEW r \in Rows, NEW e, NEW rem,
         row' = [row EXCEPT ![r] = ApplyFill(row[r], e, rem)],
         row[r].ordno # 0, row[r].status # "none"
  PROVE  \A q \in Rows : RowMove(q)
<1> DEFINE to == Target(row[r], row[r].fills \cup {e}, rem)
           o == ApplyFill(row[r], e, rem)
<1>1. row[r] \in RowType /\ row \in [Rows -> RowType]
  BY DEF TypeInv, TypeOK
<1>2. to \in {"partially_filled", "filled"}
  BY DEF Target
<1>3. o.status \in {row[r].status, to} /\ o.ordno = row[r].ordno
  <2> HIDE DEF to
  <2>1. o \in {row[r], [row[r] EXCEPT !.fills = row[r].fills \cup {e},
                          !.status = IF CanTransition(row[r].status, to) THEN to
                                     ELSE row[r].status]}
    BY DEF ApplyFill, to
  <2> HIDE DEF o
  <2> QED
    BY <1>1, <2>1 DEF RowType
<1>4. row'[r] = o /\ \A q \in Rows \ {r} : row'[q] = row[q]
  BY <1>1
<1> HIDE DEF o, to
<1>5. Moves(r)
  BY <1>2, <1>3, <1>4 DEF Moves
<1>6. \A q \in Rows \ {r} : SameState(q)
  BY <1>4 DEF SameState
<1> QED
  BY <1>5, <1>6 DEF RowMove

LEMMA PlaceMove ==
  ASSUME RowInv, NEW c \in Clients, PlaceStep(c)
  PROVE  \A r \in Rows : RowMove(r)
<1> USE PipelineAssumption
<1>type. /\ TypeInv /\ row \in [Rows -> RowType] /\ c \in Rows
         /\ pc \in [Clients -> {"idle", "approved", "sending", "taken", "refused",
                                "failed", "error"}]
  BY DEF RowInv, TypeInv, TypeOK, Rows
<1>one. ASSUME Inserts(c) \/ Submits(c) \/ Answered(c),
               \A r \in Rows \ {c} : row'[r] = row[r]
        PROVE  \A r \in Rows : RowMove(r)
  BY <1>one DEF RowMove, SameState
<1>1. CASE PlaceInsert(c)
  <2>1. row[c].status = "none" /\ row'[c].status = "approved" /\ row'[c].ordno = 0
        /\ \A r \in Rows \ {c} : row'[r] = row[r]
    BY <1>type, <1>1 DEF PlaceInsert, Exists
  <2>2. Inserts(c)
    BY <1>type, <1>1, <2>1 DEF PlaceInsert, Inserts
  <2> QED
    BY <1>one, <2>1, <2>2
<1>2. CASE PlaceSubmit(c)
  <2>1. row[c].status # "none" /\ row[c].status \in RowState
    BY <1>type, <1>2 DEF PlaceSubmit, RowInv, Requested, PlacePcs, RowType
  <2>2. row[c].status = "approved"
    BY <1>2, <2>1 DEF PlaceSubmit, Transition, CanTransition, Legal, RowState, OrderState
  <2>3. Submits(c) /\ \A r \in Rows \ {c} : row'[r] = row[r]
    BY <1>type, <1>2, <2>2, TransitionFields DEF PlaceSubmit, Submits
  <2> QED
    BY <1>one, <2>3
<1>3. CASE PlaceAck(c)
  <2>1. row'[c].status = "accepted" /\ \A r \in Rows \ {c} : row'[r] = row[r]
    BY <1>type, <1>3 DEF PlaceAck, RowType
  <2>2. Answered(c)
    BY <1>type, <1>3, <2>1 DEF PlaceAck, Answered
  <2> QED
    BY <1>one, <2>1, <2>2
<1>4. CASE PlaceReject(c) \/ PlaceInDoubt(c)
  <2>1. Answered(c) /\ \A r \in Rows \ {c} : row'[r] = row[r]
    BY <1>type, <1>4, TransitionFields DEF PlaceReject, PlaceInDoubt, Answered
  <2> QED
    BY <1>one, <2>1
<1>5. CASE PlaceAgain(c) \/ PlaceAckFails(c)
  BY <1>5 DEF PlaceAgain, PlaceAckFails, RowMove, SameState
<1> QED
  BY <1>1, <1>2, <1>3, <1>4, <1>5 DEF PlaceStep

LEMMA StepRowMove ==
  ASSUME BootInv, [Next]_vars
  PROVE  \A r \in Rows : RowMove(r)
<1> USE PipelineAssumption
<1>type. /\ TypeInv /\ RowInv /\ row \in [Rows -> RowType] /\ rec \in [Procs -> RecType]
         /\ calls \subseteq CallType
  BY DEF BootInv, CatchInv, RowInv, TypeInv, TypeOK
<1>0. ASSUME row' = row
      PROVE  \A r \in Rows : RowMove(r)
  BY <1>0 DEF RowMove, SameState
<1>none. \A r \in Rows : row[r].ordno # 0 => row[r].status # "none"
  BY DEF BootInv, NoNumber, Numberless
<1>1. ASSUME NEW p \in Procs, RecStep(p)
      PROVE  \A r \in Rows : RowMove(r)
  <2>type. rec[p] \in RecType
    BY <1>type
  <2>1. CASE RecApply(p)
    <3>1. rec[p].row \in Rows /\ row[rec[p].row].ordno # 0
      BY <2>type, <2>1 DEF RecApply, RecType, BootInv, NumberedRuns
    <3> QED
      BY <1>type, <1>none, <2>1, <3>1, MovesByFill DEF RecApply
  <2>2. CASE RecUnlock(p)
    <3>1. rec[p].row \in Rows /\ row[rec[p].row].ordno # 0
      BY <2>type, <2>2 DEF RecUnlock, RecType, BootInv, NumberedRuns
    <3> QED
      BY <1>0, <1>type, <1>none, <2>2, <3>1, MovesByTransition DEF RecUnlock
  <2>3. ASSUME NEW r \in Rows, RecVanished(p, r)
        PROVE  \A q \in Rows : RowMove(q)
    <3>1. row[r].ordno # 0
      BY <2>3 DEF RecVanished, BootInv, NumberedRuns
    <3>2. row' = row \/ \E to \in {"expired", "canceled"} : Transition(r, to)
      BY <2>3 DEF RecVanished
    <3> QED
      BY <1>0, <1>type, <1>none, <3>1, <3>2, MovesByTransition
  <2>4. ASSUME NEW n \in OrdNos, RecOrphan(p, n)
        PROVE  \A q \in Rows : RowMove(q)
    <3>1. Registers(n) /\ \A q \in Rows \ {n} : row'[q] = row[q]
      BY <1>type, <2>4, OrphanFields DEF Registers
    <3> QED
      BY <3>1 DEF RowMove, SameState
  <2>5. ASSUME \/ RecList(p) \/ RecFetch(p) \/ RecFetchFails(p) \/ RecFinish(p)
               \/ \E r \in Rows : RecSkip(p, r) \/ RecLock(p, r)
               \/ \E n \in OrdNos : RecKnown(p, n) \/ RecOrphanFails(p, n)
        PROVE  row' = row
    BY <2>5 DEF RecList, RecFetch, RecFetchFails, RecFinish, RecSkip, RecLock, RecKnown,
       RecOrphanFails
  <2> QED
    BY <1>0, <1>1, <2>1, <2>2, <2>3, <2>4, <2>5 DEF RecStep, RecGoesOn
<1>2. ASSUME NEW m \in calls, CancelApply(m)
      PROVE  \A r \in Rows : RowMove(r)
  <2>1. m.row \in Rows /\ row[m.row].ordno # 0
    BY <1>type DEF CallType, BootInv, NumberedCalls
  <2> QED
    BY <1>0, <1>type, <1>none, <1>2, <2>1, MovesByTransition DEF CancelApply
<1>3. ASSUME NEW m \in calls, AmendApply(m)
      PROVE  \A r \in Rows : RowMove(r)
  <2>1. m.row \in Rows
    BY <1>type DEF CallType
  <2>2. CASE row' = [row EXCEPT ![m.row].ordno = m.new, ![m.row].qty = m.qty]
    <3>1. /\ row'[m.row].ordno = m.new /\ row'[m.row].status = row[m.row].status
          /\ \A q \in Rows \ {m.row} : row'[q] = row[q]
      BY <1>type, <2>1, <2>2 DEF RowType
    <3>2. Renumbers(m.row)
      BY <1>3, <3>1 DEF AmendApply, Renumbers
    <3> QED
      BY <3>1, <3>2 DEF RowMove, SameState
  <2> QED
    BY <1>0, <1>3, <2>2 DEF AmendApply
<1>4. ASSUME NEW r \in Rows, NEW k \in 1..Qty, TcFill(r, k)
      PROVE  \A q \in Rows : RowMove(q)
  BY <1>type, <1>none, <1>4, MovesByFill DEF TcFill
<1>5. ASSUME NEW r \in Rows, BootQuarantine(r)
      PROVE  \A q \in Rows : RowMove(q)
  <2>1. Quarantines(r)
    BY <1>type, <1>5, TransitionFields
    DEF BootQuarantine, Unresolved, Quarantines, IN_FLIGHT
  <2>2. \A q \in Rows \ {r} : row'[q] = row[q]
    BY <1>type, <1>5, TransitionFields DEF BootQuarantine
  <2> QED
    BY <2>1, <2>2 DEF RowMove, SameState
<1>6. ASSUME \/ BrokerStep \/ UNCHANGED vars \/ Crash \/ BootFinish \/ BootFails
             \/ \E r \in Rows : CancelRead(r) \/ AmendRead(r)
      PROVE  row' = row
  BY <1>6 DEF vars, BrokerStep, PlaceAnswer, CallAnswer, BrokerTakes, BrokerRefuses,
     AckMisjudged, BrokerSilent, BrokerCancels, BrokerDeclines, BrokerAmends,
     BrokerExecutes,
     MarketCloses, DayChanges, server, Crash, BootFinish, BootFails, CancelRead, AmendRead
<1> QED
  BY <1>0, <1>1, <1>2, <1>3, <1>4, <1>5, <1>6, <1>type, PlaceMove
  DEF Next, CallStep, TcStep, BootStep

(* A row that has a number keeps having one.                                *)
LEMMA NumberForward ==
  ASSUME BootInv, NEW r \in Rows, RowMove(r), row[r].ordno # 0
  PROVE  row'[r].ordno # 0
<1>1. row[r].status \notin Numberless
  BY DEF BootInv, NoNumber
<1>2. ~Answered(r) \/ row'[r].ordno = row[r].ordno
  BY <1>1 DEF Answered, Numberless, BootInv, PendingIsSubmitted
<1>3. CASE Renumbers(r)
  BY <1>3 DEF Renumbers, BootInv, NumberedCalls
<1>4. CASE Registers(r)
  BY <1>1, <1>4 DEF Registers, Numberless
<1> QED
  BY <1>1, <1>2, <1>3, <1>4
  DEF RowMove, SameState, Moves, Quarantines, Inserts, Submits, Numberless

LEMMA StepNoNumber ==
  ASSUME BootInv, NEW r \in Rows, RowMove(r), row'[r].status \in Numberless
  PROVE  row'[r].ordno = 0
<1>1. row[r].status \in Numberless => row[r].ordno = 0
  BY DEF BootInv, NoNumber
<1>2. ~Renumbers(r) \/ row[r].ordno # 0
  BY DEF Renumbers, BootInv, NumberedCalls
<1>3. CASE Answered(r)
  <2>1. row[r].ordno = 0
    BY <1>1, <1>3 DEF Answered, Numberless, BootInv, PendingIsSubmitted
  <2> QED
    BY <1>3, <2>1 DEF Answered, Numberless
<1> QED
  BY <1>1, <1>2, <1>3
  DEF RowMove, SameState, Moves, Quarantines, Inserts, Submits, Renumbers, Registers,
      Numberless

(* Where a place request that waits for its answer, or has one, comes from. *)
LEMMA PendingSource ==
  ASSUME RowInv, [Next]_vars, NEW c \in Clients,
         pc'[c] \in {"sending", "taken", "refused", "failed"}
  PROVE  \/ pc[c] \in {"sending", "taken", "refused", "failed"}
         \/ row'[c].status = "submitted"
<1>type. pc \in [Clients -> {"idle", "approved", "sending", "taken", "refused",
                             "failed", "error"}]
  BY DEF RowInv, TypeInv, TypeOK
<1>0. CASE pc'[c] = "sending"
  BY <1>0, PlaceSource
<1>1. ASSUME NEW d \in Clients, PlaceStep(d)
      PROVE  pc'[c] \in {pc[c], "idle", "approved", "error", "sending"}
  BY <1>1, <1>type DEF PlaceStep, PlaceInsert, PlaceAgain, PlaceSubmit, PlaceAck,
     PlaceAckFails, PlaceReject, PlaceInDoubt
<1>2. ASSUME NEW d \in Clients, PlaceAnswer(d)
      PROVE  pc'[c] = pc[c] \/ pc[c] \in {"sending", "taken"}
  BY <1>2, <1>type DEF PlaceAnswer, BrokerTakes, BrokerRefuses, AckMisjudged, BrokerSilent
<1>3. ASSUME NEW p \in Procs, RecStep(p)
      PROVE  pc' = pc
  BY <1>3 DEF RecStep, RecGoesOn, RecList, RecFetch, RecFetchFails, RecApply, RecUnlock,
     RecFinish, RecSkip, RecVanished, RecLock, RecKnown, RecOrphan, RecOrphanFails
<1>4. CASE CallStep \/ TcStep \/ BootStep \/ UNCHANGED vars
  BY <1>4 DEF CallStep, CancelRead, AmendRead, CancelApply, AmendApply, TcStep,
     TcFill, BootStep, BootQuarantine, BootFinish, BootFails, vars
<1>5. CASE Crash
  BY <1>5 DEF Crash
<1>6. CASE \/ \E m \in calls : CallAnswer(m)
           \/ \E n \in OrdNos : BrokerExecutes(n)
           \/ MarketCloses \/ DayChanges
  BY <1>6 DEF CallAnswer, BrokerCancels, BrokerDeclines, BrokerAmends,
     BrokerExecutes, MarketCloses, DayChanges, server
<1> QED
  BY <1>0, <1>1, <1>2, <1>3, <1>4, <1>5, <1>6 DEF Next, BrokerStep

LEMMA StepPending ==
  ASSUME BootInv, [Next]_vars
  PROVE  PendingIsSubmitted'
<1> USE PipelineAssumption
<1> SUFFICES ASSUME NEW c \in Clients,
                    pc'[c] \in {"sending", "taken", "refused", "failed"}
             PROVE  row'[c].status = "submitted"
  BY DEF PendingIsSubmitted
<1>1. c \in Rows /\ RowInv
  BY DEF Rows, BootInv, CatchInv
<1>2. CASE row'[c].status = "submitted"
  BY <1>2
<1>3. CASE pc[c] \in {"sending", "taken", "refused", "failed"}
  <2>1. row[c].status = "submitted" /\ row[c].ordno = 0
    BY <1>1, <1>3 DEF BootInv, PendingIsSubmitted, NoNumber, Numberless
  <2>2. ~Quarantines(c)
    BY <1>3 DEF Quarantines, BootInv, BootRuns, Quiet
  <2>3. RowMove(c)
    BY <1>1, StepRowMove
  <2> QED
    BY <1>3, <2>1, <2>2, <2>3
    DEF RowMove, SameState, Moves, Inserts, Submits, Answered, Renumbers, Registers
<1> QED
  BY <1>1, <1>2, <1>3, PendingSource

(* What one step may do to the requests at the broker and to a run.         *)
CallMove(m) ==
  \/ m \in calls
  \/ /\ m.row \in Rows /\ row[m.row].ordno # 0 /\ m.new = 0
     /\ m.op = "cancel" \/ m.st = "sent"
  \/ /\ m.new # 0
     /\ \E k \in calls, n \in OrdNos : k.row = m.row /\ AmendsOrder(k.ordno, n)

RunMove(p) ==
  /\ \A r \in Rows : rec'[p].seen[r] \in {0, rec[p].seen[r], row[r].ordno}
  /\ \/ rec'[p].row \in {0, rec[p].row}
     \/ rec'[p].row \in Rows /\ row'[rec'[p].row].ordno # 0

LEMMA StepCallMove ==
  ASSUME BootInv, [Next]_vars
  PROVE  \A m \in calls' : CallMove(m)
<1> USE PipelineAssumption
<1>type. TypeInv /\ calls \subseteq CallType
  BY DEF BootInv, CatchInv, RowInv, TypeInv, TypeOK
<1>0. ASSUME calls' \subseteq calls
      PROVE  \A m \in calls' : CallMove(m)
  BY <1>0 DEF CallMove
<1>1. ASSUME NEW r \in Rows, CancelRead(r) \/ AmendRead(r)
      PROVE  \A m \in calls' : CallMove(m)
  BY <1>1 DEF CancelRead, AmendRead, CallMove
<1>2. ASSUME NEW m \in calls, BrokerCancels(m)
      PROVE  \A k \in calls' : CallMove(k)
  <2>1. m.row \in Rows /\ row[m.row].ordno # 0
    BY <1>type DEF CallType, BootInv, NumberedCalls
  <2>2. ASSUME NEW k \in calls', k \notin calls
        PROVE  k.row = m.row /\ k.new = 0 /\ k.op = "cancel"
    BY <1>type, <1>2, <2>2 DEF BrokerCancels, Answer, CallType
  <2> QED
    BY <2>1, <2>2 DEF CallMove
<1>3. ASSUME NEW m \in calls, NEW n \in OrdNos, BrokerAmends(m, n)
      PROVE  \A k \in calls' : CallMove(k)
  <2>1. AmendsOrder(m.ordno, n)
    BY <1>type, <1>3, AmendsIsBookStep
  <2>2. ASSUME NEW k \in calls', k \notin calls
        PROVE  k.row = m.row /\ k.new # 0
    <3>1. k = [m EXCEPT !.st = "acked", !.new = n]
      BY <1>3, <2>2 DEF BrokerAmends, Answer
    <3>2. n # 0
      BY DEF OrdNos
    <3> QED
      BY <1>type, <3>1, <3>2 DEF CallType
  <2> QED
    BY <2>1, <2>2 DEF CallMove
<1>4. ASSUME NEW m \in calls, BrokerDeclines(m) \/ CancelApply(m) \/ AmendApply(m)
      PROVE  calls' \subseteq calls
  BY <1>4 DEF BrokerDeclines, CancelApply, AmendApply
<1>5. ASSUME \/ \E c \in Clients : PlaceAnswer(c) \/ PlaceStep(c)
             \/ \E n \in OrdNos : BrokerExecutes(n)
             \/ MarketCloses \/ DayChanges \/ TcStep \/ Crash \/ BootStep
             \/ UNCHANGED vars
      PROVE  calls' \subseteq calls
  BY <1>5 DEF PlaceAnswer, BrokerTakes, BrokerRefuses, AckMisjudged, BrokerSilent,
     PlaceStep,
     PlaceInsert, PlaceAgain, PlaceSubmit, PlaceAck, PlaceAckFails, PlaceReject,
     PlaceInDoubt, BrokerExecutes, MarketCloses, DayChanges, server, TcStep, TcFill,
     Crash, BootStep, BootQuarantine, BootFinish, BootFails, vars
<1>6. ASSUME NEW p \in Procs, RecStep(p)
      PROVE  calls' \subseteq calls
  BY <1>6 DEF RecStep, RecGoesOn, RecList, RecFetch, RecFetchFails, RecApply, RecUnlock,
     RecFinish, RecSkip, RecVanished, RecLock, RecKnown, RecOrphan, RecOrphanFails
<1> QED
  BY <1>0, <1>1, <1>2, <1>3, <1>4, <1>5, <1>6 DEF Next, BrokerStep, CallStep, CallAnswer

LEMMA StepRunMove ==
  ASSUME BootInv, [Next]_vars
  PROVE  \A p \in Procs : RunMove(p)
<1> USE PipelineAssumption
<1>type. /\ TypeInv /\ rec \in [Procs -> RecType] /\ NumberedRuns
         /\ \A r \in Rows : RowMove(r)
  BY StepRowMove DEF BootInv, CatchInv, RowInv, TypeInv, TypeOK
<1>same. \A p \in Procs : rec'[p] \in {rec[p], IdleRec} => RunMove(p)
  BY DEF RunMove, IdleRec
<1>fresh. \A p \in Procs : Fresh(rec'[p]) => RunMove(p)
  BY DEF RunMove, Fresh
<1>keep. \A p \in Procs : /\ rec'[p].seen = rec[p].seen
                          /\ rec'[p].row \in {0, rec[p].row}
                          => RunMove(p)
  BY DEF RunMove
<1>1. ASSUME NEW p \in Procs, RecStep(p)
      PROVE  \A q \in Procs : RunMove(q)
  <2>1. ASSUME Others(p), RunMove(p)
        PROVE  \A q \in Procs : RunMove(q)
    BY <1>same, <2>1 DEF Others
  <2>2. CASE RecList(p)
    BY <1>type, <2>1, <2>2, ListFields DEF RunMove
  <2>3. CASE RecFetch(p)
    BY <1>type, <1>keep, <2>1, <2>3, FetchFields DEF SameLock
  <2>4. CASE RecFetchFails(p)
    BY <1>type, <1>keep, <1>fresh, <2>1, <2>4, FailFields DEF SameLock
  <2>5. CASE RecApply(p)
    BY <1>type, <1>keep, <2>1, <2>5, ApplyFields DEF SameList
  <2>6. CASE RecUnlock(p)
    BY <1>type, <1>keep, <2>1, <2>6, UnlockFields DEF SameList
  <2>7. CASE RecFinish(p)
    BY <1>type, <1>fresh, <2>1, <2>7, FinishFields
  <2>8. ASSUME NEW r \in Rows, RecSkip(p, r) \/ RecVanished(p, r)
        PROVE  \A q \in Procs : RunMove(q)
    BY <1>type, <1>keep, <2>1, <2>8, SkipFields DEF SameList, SameLock
  <2>9. ASSUME NEW r \in Rows, RecLock(p, r)
        PROVE  \A q \in Procs : RunMove(q)
    <3>1. row[r].ordno # 0
      BY <1>type, <2>9 DEF RecLock, NumberedRuns
    <3>2. row'[r].ordno # 0
      BY <1>type, <3>1, NumberForward
    <3> QED
      BY <1>type, <2>1, <2>9, <3>2, LockFields DEF RunMove, SameList
  <2>10. ASSUME NEW n \in OrdNos, RecKnown(p, n)
         PROVE  \A q \in Procs : RunMove(q)
    BY <1>type, <1>keep, <2>1, <2>10, KnownFields DEF SameList, SameLock
  <2>11. ASSUME NEW n \in OrdNos, RecOrphan(p, n)
         PROVE  \A q \in Procs : RunMove(q)
    <3>1. n # 0
      BY DEF OrdNos
    <3> QED
      BY <1>type, <2>1, <2>11, <3>1, OrphanFields DEF RunMove, SameList
  <2>12. ASSUME NEW n \in OrdNos, RecOrphanFails(p, n)
         PROVE  \A q \in Procs : RunMove(q)
    BY <1>type, <1>fresh, <2>1, <2>12, OrphanFailFields
  <2> QED
    BY <1>1, <2>2, <2>3, <2>4, <2>5, <2>6, <2>7, <2>8, <2>9, <2>10, <2>11, <2>12
    DEF RecStep, RecGoesOn
<1>2. ASSUME \/ BrokerStep \/ UNCHANGED vars \/ CallStep \/ TcStep \/ Crash \/ BootStep
             \/ \E c \in Clients : PlaceStep(c)
      PROVE  \A p \in Procs : rec'[p] \in {rec[p], IdleRec}
  <2>1. CASE Crash
    BY <2>1 DEF Crash
  <2>2. CASE BootStep
    BY <1>type, <2>2 DEF BootStep, BootQuarantine, BootFinish, BootFails
  <2>3. CASE CallStep \/ TcStep
    BY <2>3 DEF CallStep, CancelRead, AmendRead, CancelApply, AmendApply, TcStep, TcFill
  <2>4. CASE \E c \in Clients : PlaceStep(c)
    BY <2>4 DEF PlaceStep, PlaceInsert, PlaceAgain, PlaceSubmit, PlaceAck,
       PlaceAckFails, PlaceReject, PlaceInDoubt
  <2>5. CASE BrokerStep \/ UNCHANGED vars
    BY <2>5, BrokerOver DEF vars, BootInv
  <2> QED
    BY <1>2, <2>1, <2>2, <2>3, <2>4, <2>5
<1> QED
  BY <1>1, <1>2, <1>same DEF Next

(* A row that the server has given up stays given up, and stays its owner's. *)
LEMMA GivenUpForward ==
  ASSUME BootInv, [Next]_vars, NEW r \in Rows, GivenUp(r)
  PROVE  GivenUp(r)'
<1>1. CASE r \in misled
  BY <1>1, MisledForward DEF GivenUp
<1>2. CASE row[r].status \in {"rejected", "quarantined"}
  <2>1. row[r].ordno = 0
    BY <1>2 DEF BootInv, NoNumber, Numberless
  <2>2. RowMove(r)
    BY StepRowMove
  <2>3. row'[r].status \in {"rejected", "quarantined"}
    BY <1>2, <2>1, <2>2
    DEF RowMove, SameState, Moves, Quarantines, Inserts, Submits, Answered, Renumbers,
        Registers, BootInv, PendingIsSubmitted
  <2> QED
    BY <2>3 DEF GivenUp
<1> QED
  BY <1>1, <1>2 DEF GivenUp

LEMMA OwnerForward ==
  ASSUME BootInv, [Next]_vars, NEW r \in Rows, OwnerOf(r) # 0
  PROVE  OwnerOf(r)' = OwnerOf(r)
<1>1. BookForward
  BY StepBookForward DEF BootInv, EndInv, OwnInv, RowInv
<1> QED
  BY <1>1 DEF OwnerOf, BookForward, Rows

LEMMA StepOpenOrder ==
  ASSUME BootInv, EndInv', [Next]_vars
  PROVE  OpenOrder'
<1> USE PipelineAssumption
<1>type. /\ TypeInv /\ RowInv /\ UnusedIsEmpty /\ OpenOrder
         /\ \A r \in Rows : row'[r].status \in RowState
  BY DEF BootInv, EndInv, OwnInv, RowInv, TypeInv, TypeOK, RowType
<1> SUFFICES ASSUME NEW n \in OrdNos, brk'[n].st = "working"
             PROVE  \E r \in Rows : OwnerOf(r)' = brk'[n].owner /\ (Open(r)' \/ GivenUp(r)')
  BY DEF OpenOrder
<1>1. CASE BrokerStep \/ UNCHANGED vars
  <2>1. row' = row
    BY <1>1, BrokerOver DEF BootInv, vars
  <2>2. ASSUME NEW k \in OrdNos, brk[k].st = "working", brk'[n].owner = brk[k].owner
        PROVE  \E r \in Rows : OwnerOf(r)' = brk'[n].owner /\ (Open(r)' \/ GivenUp(r)')
    <3>1. PICK r \in Rows : OwnerOf(r) = brk[k].owner /\ (Open(r) \/ GivenUp(r))
      BY <1>type, <2>2 DEF OpenOrder
    <3>2. OwnerOf(r) # 0
      BY <1>type, <2>2, <3>1 DEF UnusedIsEmpty
    <3>3. OwnerOf(r)' = OwnerOf(r)
      BY <3>2, OwnerForward
    <3>4. Open(r)' \/ GivenUp(r)'
      BY <2>1, <3>1, GivenUpForward DEF Open
    <3> QED
      BY <2>2, <3>1, <3>3, <3>4
  <2>3. ASSUME NEW c \in Clients, TakesOrder(c, n)
        PROVE  \E r \in Rows : OwnerOf(r)' = brk'[n].owner /\ Open(r)'
    <3>1. row[c].status = "submitted" /\ c \in Rows /\ brk'[n].owner = c
      BY <2>3 DEF TakesOrder, NewOrder, BootInv, PendingIsSubmitted, Rows
    <3> QED
      BY <2>1, <3>1 DEF Open, OwnerOf, NonTerminal, OrderState, TERMINAL_STATES
  <2>4. \/ \E k \in OrdNos : brk[k].st = "working" /\ brk'[n].owner = brk[k].owner
        \/ \E c \in Clients : TakesOrder(c, n)
    BY <1>type, StepBookStep
    DEF BookStep, TakesOrder, AmendsOrder, NewOrder, Shuts, KeepsTerms, KeepsOrders,
        ExecutesOrder, ShutsAll
  <2> QED
    BY <2>2, <2>3, <2>4
<1>2. CASE Next /\ ~BrokerStep
  <2>1. brk' = brk
    BY <1>2, ServerKeepsBook
  <2>2. PICK r \in Rows : OwnerOf(r) = brk[n].owner /\ (Open(r) \/ GivenUp(r))
    BY <1>type, <2>1 DEF OpenOrder
  <2>3. OwnerOf(r)' = brk'[n].owner
    BY <2>1, <2>2 DEF OwnerOf
  <2>4. row'[r].status \in Closed3 => r \in misled'
    BY <2>1, <2>3 DEF EndInv, RowIsOver, Ends
  <2>5. RowMove(r)
    BY StepRowMove
  <2>6. Open(r) => row'[r].status # "none"
    BY <2>5
    DEF RowMove, SameState, Moves, Quarantines, Inserts, Submits, Answered, Renumbers,
        Registers, Open, NonTerminal, TERMINAL_STATES, OrderState
  <2>7. Open(r) => Open(r)' \/ GivenUp(r)'
    BY <1>type, <2>4, <2>6
    DEF Open, GivenUp, NonTerminal, TERMINAL_STATES, RowState, Closed3
  <2> QED
    BY <2>2, <2>3, <2>7, GivenUpForward
<1> QED
  BY <1>1, <1>2

LEMMA ClosedForward ==
  ASSUME BookStep, NEW n \in OrdNos, brk[n].st = "closed"
  PROVE  brk'[n].st = "closed"
BY DEF BookStep, TakesOrder, AmendsOrder, NewOrder, Shuts, KeepsTerms, KeepsOrders,
       ExecutesOrder, ShutsAll

LEMMA StepOrphanMoves ==
  ASSUME BootInv, [Next]_vars
  PROVE  OrphanMoves'
<1> USE PipelineAssumption
<1>type. /\ TypeInv /\ UnusedIsEmpty /\ OneWorking /\ CallIsOwned /\ OrphanMoves
         /\ calls \subseteq CallType /\ brk \in [OrdNos -> BrkType]
  BY DEF BootInv, EndInv, OwnInv, RowInv, TypeInv, TypeOK
<1>1. BookStep /\ \A n \in OrdNos : brk[n].st = "closed" => brk'[n].st = "closed"
  BY <1>type, StepBookStep, ClosedForward
<1>2. ASSUME NEW n \in OrdNos, Exists(n)'
      PROVE  row'[n].ordno = n \/ brk'[n].st = "closed"
  <2>1. n \in Rows /\ n \notin Clients
    BY DEF Rows, OrdNos
  <2>2. RowMove(n)
    BY <2>1, StepRowMove
  <2>3. CASE Renumbers(n)
    <3>1. brk[n].st = "closed"
      BY <1>type, <2>3 DEF Renumbers, OrphanMoves, BootInv, NumberedCalls
    <3> QED
      BY <1>1, <3>1
  <2>4. CASE SameState(n) \/ Moves(n) \/ Quarantines(n)
    <3>1. Exists(n) /\ row'[n].ordno = row[n].ordno
      BY <1>2, <2>4 DEF Exists, SameState, Moves, Quarantines
    <3> QED
      BY <1>type, <1>1, <3>1 DEF OrphanMoves
  <2> QED
    BY <2>1, <2>2, <2>3, <2>4 DEF RowMove, Inserts, Submits, Answered, Registers
<1>3. ASSUME NEW n \in OrdNos, NEW m \in calls', m.row = n, m.new # 0
      PROVE  brk'[n].st = "closed"
  <2>1. CallMove(m)
    BY StepCallMove
  <2>2. CASE m \in calls
    BY <1>type, <1>1, <1>3, <2>2 DEF OrphanMoves
  <2>3. ASSUME NEW k \in calls, NEW j \in OrdNos, k.row = n, AmendsOrder(k.ordno, j)
        PROVE  brk'[n].st = "closed"
    <3>1. k.ordno \in OrdNos /\ Owns(n, k.ordno) /\ n \notin Clients
      BY <1>type, <2>3 DEF CallIsOwned, CallType, OrdNos
    <3>2. brk[k.ordno].owner = brk[n].owner /\ brk[n].owner # 0
      BY <3>1 DEF Owns, OwnerOf
    <3>3. brk[k.ordno].st = "working" /\ brk'[k.ordno].st = "closed"
      BY <2>3 DEF AmendsOrder, Shuts
    <3>4. CASE k.ordno = n
      BY <3>3, <3>4
    <3>5. CASE k.ordno # n
      <4>1. brk[n].st # "working" /\ brk[n].st # "none"
        BY <1>type, <3>1, <3>2, <3>3, <3>5 DEF OneWorking, UnusedIsEmpty
      <4>2. brk[n].st = "closed"
        BY <1>type, <4>1 DEF BrkType
      <4> QED
        BY <1>1, <4>2
    <3> QED
      BY <3>4, <3>5
  <2> QED
    BY <1>3, <2>1, <2>2, <2>3 DEF CallMove
<1> QED
  BY <1>2, <1>3 DEF OrphanMoves, Exists

(* The part of the invariant about the boot sequence itself.                *)
BootPart == Quiet /\ BootRuns /\ SeenNow /\ BootCovers /\ BootDone

(* While the server boots, only the boot sequence, a crash and the          *)
(* executions of the broker go on; otherwise the run of boot stands still.  *)
LEMMA BootingSteps ==
  ASSUME BootInv, [Next]_vars, engine = "booting"
  PROVE  \/ RecStep(Boot) \/ Crash \/ BootStep
         \/ /\ UNCHANGED <<row, server>>
            /\ \A n \in OrdNos : brk'[n].st = "working" => brk[n].st = "working"
<1>type. /\ TypeInv /\ calls = {} /\ \A c \in Clients : pc[c] = "idle"
         /\ \A p \in Recs : rec[p].pc = "idle" /\ rec[p].row = 0
  BY DEF BootInv, CatchInv, LockInOrders, RowInv, Quiet, Procs
<1>1. ASSUME NEW c \in Clients
      PROVE  ~PlaceStep(c) /\ ~PlaceAnswer(c)
  BY <1>type DEF PlaceStep, PlaceInsert, PlaceAgain, PlaceSubmit, PlaceAck, PlaceAckFails,
     PlaceReject, PlaceInDoubt, PlaceAnswer, BrokerTakes, BrokerRefuses, AckMisjudged,
     BrokerSilent
<1>2. ASSUME NEW p \in Recs
      PROVE  ~RecStep(p)
  <2>1. p # Boot
    BY PipelineAssumption
  <2> QED
    BY <1>type, <2>1 DEF RecStep, RecGoesOn, RecList, RecFetch, RecFetchFails,
       RecApply, RecUnlock,
       RecFinish, RecSkip, RecVanished, RecLock, RecKnown, RecOrphan, RecOrphanFails,
       AtOrder, AtOrdNo
<1>3. ~CallStep /\ ~TcStep
  BY <1>type DEF CallStep, CancelRead, AmendRead, TcStep, TcFill
<1>4. ASSUME NEW n \in OrdNos, BrokerExecutes(n)
      PROVE  /\ UNCHANGED <<row, server>>
             /\ \A k \in OrdNos : brk'[k].st = "working" => brk[k].st = "working"
  <2>1. ExecutesOrder(n)
    BY <1>type, <1>4, ExecutesIsBookStep
  <2> QED
    BY <1>4, <2>1 DEF BrokerExecutes, ExecutesOrder, KeepsOrders
<1>5. ASSUME MarketCloses \/ DayChanges \/ UNCHANGED vars
      PROVE  /\ UNCHANGED <<row, server>>
             /\ \A k \in OrdNos : brk'[k].st = "working" => brk[k].st = "working"
  <2>1. MarketCloses => ShutsAll
    BY <1>type, ClosesIsBookStep
  <2> QED
    BY <1>5, <2>1 DEF MarketCloses, DayChanges, vars, server, ShutsAll
<1> QED
  BY <1>type, <1>1, <1>2, <1>3, <1>4, <1>5 DEF Next, BrokerStep, Procs

LEMMA ActiveSteps ==
  ASSUME BootInv, [Next]_vars, engine # "booting", ~Crash
  PROVE  engine' = engine /\ rec'[Boot] = rec[Boot] /\ rec[Boot].pc = "idle"
<1> USE PipelineAssumption
<1>type. /\ TypeInv /\ Boot \in Procs /\ rec[Boot].pc = "idle" /\ rec[Boot].row = 0
  BY DEF BootInv, CatchInv, LockInOrders, RowInv, BootRuns, Procs
<1>1. ~RecStep(Boot) /\ ~BootStep
  BY <1>type DEF RecStep, RecGoesOn, RecList, RecFetch, RecFetchFails, RecApply,
     RecUnlock,
       RecFinish, RecSkip, RecVanished, RecLock, RecKnown, RecOrphan, RecOrphanFails,
       AtOrder, AtOrdNo, BootStep, BootQuarantine, BootFinish, BootFails
<1>2. ASSUME NEW p \in Procs, RecStep(p)
      PROVE  engine' = engine /\ rec'[Boot] = rec[Boot]
  <2>1. p # Boot
    BY <1>1, <1>2
  <2>2. Others(p)
    BY <1>type, <1>2, ListFields, FetchFields, FailFields, ApplyFields, UnlockFields,
       FinishFields, SkipFields, LockFields, KnownFields, OrphanFields, OrphanFailFields
    DEF RecStep, RecGoesOn
  <2>3. engine' = engine
    BY <1>2 DEF RecStep, RecGoesOn, RecList, RecFetch, RecFetchFails, RecApply, RecUnlock,
       RecFinish, RecSkip, RecVanished, RecLock, RecKnown, RecOrphan, RecOrphanFails
  <2> QED
    BY <1>type, <2>1, <2>2, <2>3 DEF Others
<1>3. ASSUME NEW c \in Clients, PlaceStep(c)
      PROVE  engine' = engine /\ rec' = rec
  BY <1>3 DEF PlaceStep, PlaceInsert, PlaceAgain, PlaceSubmit, PlaceAck, PlaceAckFails,
     PlaceReject, PlaceInDoubt
<1>4. ASSUME CallStep \/ TcStep
      PROVE  engine' = engine /\ rec' = rec
  BY <1>4 DEF CallStep, CancelRead, AmendRead, CancelApply, AmendApply, TcStep, TcFill
<1>5. ASSUME BrokerStep \/ UNCHANGED vars
      PROVE  engine' = engine /\ rec' = rec
  BY <1>5 DEF vars, BrokerStep, PlaceAnswer, CallAnswer, BrokerTakes, BrokerRefuses,
     AckMisjudged, BrokerSilent, BrokerCancels, BrokerDeclines, BrokerAmends,
     BrokerExecutes,
     MarketCloses, DayChanges, server
<1> QED
  BY <1>type, <1>1, <1>2, <1>3, <1>4, <1>5 DEF Next

(* The run of reconcile inside the boot sequence misses no working order.   *)
LEMMA BootRunPart ==
  ASSUME BootInv, [Next]_vars, engine = "booting", RecStep(Boot)
  PROVE  SeenNow' /\ BootCovers' /\ BootDone'
<1> USE PipelineAssumption
<1>type. /\ TypeInv /\ Boot \in Procs /\ row \in [Rows -> RowType]
         /\ brk \in [OrdNos -> BrkType] /\ rec \in [Procs -> RecType]
         /\ SeenNow /\ BootCovers /\ BootDone /\ NoNumber
  BY DEF BootInv, CatchInv, RowInv, TypeInv, TypeOK, Procs
<1>brk. brk' = brk /\ past' = past
  BY DEF RecStep, RecGoesOn, RecList, RecFetch, RecFetchFails, RecApply,
     RecUnlock, RecFinish, RecSkip, RecVanished, RecLock, RecKnown, RecOrphan,
     RecOrphanFails, broker
<1>done. rec[Boot].pc # "done"
  <2>1. rec[Boot].row # 0 => rec[Boot].pc = "orders"
    BY <1>type DEF BootInv, CatchInv, LockInOrders
  <2> QED
    BY <2>1 DEF RecStep, RecGoesOn, RecList, RecFetch, RecFetchFails, RecApply, RecUnlock,
       RecFinish, RecSkip, RecVanished, RecLock, RecKnown, RecOrphan, RecOrphanFails,
       AtOrder, AtOrdNo
<1>num. \A r \in Rows : row[r].ordno # 0 => row'[r].ordno = row[r].ordno
  <2> SUFFICES ASSUME NEW r \in Rows, row[r].ordno # 0
               PROVE  row'[r].ordno = row[r].ordno
    OBVIOUS
  <2>1. RowMove(r)
    BY StepRowMove
  <2>2. row[r].status # "none" /\ calls = {} /\ (r \in Clients => pc[r] = "idle")
    BY DEF BootInv, NoNumber, Numberless, Quiet
  <2> QED
    BY <2>1, <2>2 DEF RowMove, SameState, Moves, Quarantines, Inserts, Submits, Answered,
       Renumbers, Registers
<1>has. \A n \in OrdNos : HasRow(n) => HasRow(n)'
  BY <1>num DEF HasRow, OrdNos
<1>over. ASSUME rec'[Boot].page = rec[Boot].page, NEW n \in OrdNos, Overlooked(n)
         PROVE  Overlooked(n)'
  BY <1>brk, <1>over, GivenUpForward DEF Overlooked, OwnerOf
<1>1. ASSUME \A r \in Rows : rec'[Boot].seen[r] \in {0, rec[Boot].seen[r]}
      PROVE  SeenNow'
  <2> SUFFICES ASSUME NEW r \in Rows, rec'[Boot].seen[r] # 0
               PROVE  row'[r].ordno = rec'[Boot].seen[r]
    BY DEF SeenNow
  <2>1. rec'[Boot].seen[r] = rec[Boot].seen[r] /\ row[r].ordno = rec[Boot].seen[r]
    BY <1>1, <1>type DEF SeenNow
  <2> QED
    BY <1>num, <2>1
<1>2. ASSUME rec'[Boot].pc \notin {"orders", "done"},
             \A r \in Rows : rec'[Boot].seen[r] \in {0, rec[Boot].seen[r]}
      PROVE  SeenNow' /\ BootCovers' /\ BootDone'
  BY <1>1, <1>2 DEF BootCovers, BootDone
<1>same. ASSUME SameList(Boot),
                \A n \in OrdNos : \/ rec'[Boot].view[n] = rec[Boot].view[n]
                                  \/ brk[n].st = "working" => HasRow(n)'
         PROVE  SeenNow' /\ BootCovers' /\ BootDone'
  <2>1. SeenNow' /\ BootDone'
    BY <1>1, <1>done, <1>same DEF SameList, BootDone
  <2>2. ASSUME NEW n \in OrdNos \ past, brk[n].st = "working",
               rec[Boot].pc \in {"orders", "done"}
        PROVE  rec'[Boot].view[n] # -1 \/ HasRow(n)' \/ Overlooked(n)'
    <3>1. CASE Overlooked(n)
      BY <1>over, <1>same, <3>1 DEF SameList
    <3>2. CASE ~Overlooked(n)
      BY <1>type, <1>has, <1>same, <2>2, <3>2 DEF BootCovers
    <3> QED
      BY <3>1, <3>2
  <2>3. BootCovers'
    BY <1>brk, <1>same, <2>2 DEF SameList, BootCovers
  <2> QED
    BY <2>1, <2>3
<1>3. CASE RecList(Boot)
  <2>1. row' = row
    BY <1>3 DEF RecList
  <2>2. SeenNow'
    BY <1>type, <1>3, <2>1, ListFields DEF SeenNow
  <2>3. rec'[Boot].pc = "orders" => \A r \in Rows : ~Open(r)
    BY <1>type, <1>3, ListFields
  <2>4. ASSUME rec'[Boot].pc = "orders", NEW n \in OrdNos, brk[n].st = "working"
        PROVE  Overlooked(n)'
    <3>1. PICK r \in Rows : OwnerOf(r) = brk[n].owner /\ GivenUp(r)
      BY <2>3, <2>4 DEF BootInv, OpenOrder
    <3>2. GivenUp(r)' /\ OwnerOf(r)' = OwnerOf(r) /\ rec'[Boot].page = "none"
      BY <1>type, <1>brk, <1>3, <3>1, GivenUpForward, ListFields DEF OwnerOf
    <3> QED
      BY <1>brk, <3>1, <3>2 DEF Overlooked
  <2>5. rec'[Boot].pc \in {"listed", "orders"}
    BY <1>type, <1>3, ListFields
  <2> QED
    BY <1>brk, <2>2, <2>4, <2>5 DEF BootCovers, BootDone
<1>4. CASE RecFetch(Boot)
  <2>2. \A n \in OrdNos \ past : brk[n].st = "working" => rec'[Boot].view[n] # -1
    <3> SUFFICES ASSUME NEW n \in OrdNos \ past, brk[n].st = "working"
                 PROVE  rec'[Boot].view[n] # -1
      OBVIOUS
    <3>1. rec'[Boot].view[n] = brk[n].execs
      BY <1>type, <1>4, FetchFields
    <3>2. brk[n].execs \in 0..Qty
      BY <1>type DEF BrkType
    <3> QED
      BY <3>1, <3>2
  <2>3. rec'[Boot].pc = "orders" /\ rec'[Boot].seen = rec[Boot].seen
    BY <1>type, <1>4, FetchFields
  <2> QED
    BY <1>1, <1>brk, <2>2, <2>3 DEF BootCovers, BootDone
<1>5. CASE RecFetchFails(Boot)
  <2>1. \/ Fresh(rec'[Boot]) /\ rec'[Boot].pc = "aborted"
        \/ /\ rec'[Boot].seen = rec[Boot].seen /\ rec'[Boot].page = "error"
           /\ rec'[Boot].pc = "orders"
    BY <1>type, <1>5, FailFields
  <2>2. CASE Fresh(rec'[Boot]) /\ rec'[Boot].pc = "aborted"
    BY <1>2, <2>2 DEF Fresh
  <2>3. CASE /\ rec'[Boot].seen = rec[Boot].seen /\ rec'[Boot].page = "error"
             /\ rec'[Boot].pc = "orders"
    BY <1>1, <2>3 DEF BootCovers, BootDone, Overlooked
  <2> QED
    BY <2>1, <2>2, <2>3
<1>6. CASE RecApply(Boot)
  BY <1>type, <1>same, <1>6, ApplyFields
<1>7. CASE RecUnlock(Boot)
  BY <1>type, <1>same, <1>7, UnlockFields
<1>8. CASE RecFinish(Boot)
  <2>1. rec[Boot].pc = "orders" /\ \A n \in OrdNos : rec[Boot].view[n] = -1
    BY <1>8 DEF RecFinish, AllApplied
  <2>2. /\ Fresh(rec'[Boot])
        /\ rec'[Boot].pc = "done" => rec'[Boot].page = rec[Boot].page
    BY <1>type, <1>8, FinishFields
  <2>3. ASSUME rec'[Boot].pc = "done", NEW n \in OrdNos \ past, brk[n].st = "working"
        PROVE  HasRow(n)' \/ Overlooked(n)'
    BY <1>type, <1>has, <1>over, <2>1, <2>2, <2>3 DEF BootCovers
  <2> QED
    BY <1>1, <1>brk, <2>2, <2>3 DEF Fresh, BootCovers, BootDone
<1>9. ASSUME NEW r \in Rows, RecSkip(Boot, r) \/ RecVanished(Boot, r)
      PROVE  SeenNow' /\ BootCovers' /\ BootDone'
  BY <1>type, <1>same, <1>9, SkipFields
<1>10. ASSUME NEW r \in Rows, RecLock(Boot, r)
       PROVE  SeenNow' /\ BootCovers' /\ BootDone'
  BY <1>type, <1>same, <1>10, LockFields
<1>11. ASSUME NEW n \in OrdNos, RecKnown(Boot, n)
       PROVE  SeenNow' /\ BootCovers' /\ BootDone'
  <2>1. brk[n].st = "working" => HasRow(n)
    <3>1. CASE Known(Boot, n)
      <4>1. PICK r \in Rows : rec[Boot].seen[r] = n
        BY <3>1 DEF Known
      <4>2. row[r].ordno = n
        BY <1>type, <4>1 DEF SeenNow, OrdNos
      <4> QED
        BY <4>2 DEF HasRow
    <3>2. CASE Exists(n)
      BY <3>2 DEF BootInv, OrphanMoves, HasRow, Rows
    <3> QED
      BY <1>11, <3>1, <3>2 DEF RecKnown
  <2>2. \A k \in OrdNos : \/ rec'[Boot].view[k] = rec[Boot].view[k]
                          \/ brk[k].st = "working" => HasRow(k)'
    BY <1>type, <1>has, <1>11, <2>1, KnownFields
  <2> QED
    BY <1>type, <1>same, <1>11, <2>2, KnownFields
<1>12. ASSUME NEW n \in OrdNos, RecOrphan(Boot, n)
       PROVE  SeenNow' /\ BootCovers' /\ BootDone'
  <2>1. HasRow(n)'
    BY <1>type, <1>12, OrphanFields DEF HasRow
  <2>2. \A k \in OrdNos : \/ rec'[Boot].view[k] = rec[Boot].view[k]
                          \/ brk[k].st = "working" => HasRow(k)'
    BY <1>type, <1>12, <2>1, OrphanFields
  <2> QED
    BY <1>type, <1>same, <1>12, <2>2, OrphanFields
<1>13. ASSUME NEW n \in OrdNos, RecOrphanFails(Boot, n)
       PROVE  SeenNow' /\ BootCovers' /\ BootDone'
  BY <1>type, <1>2, <1>13, OrphanFailFields DEF Fresh
<1> QED
  BY <1>3, <1>4, <1>5, <1>6, <1>7, <1>8, <1>9, <1>10, <1>11, <1>12, <1>13 DEF RecStep,
     RecGoesOn

LEMMA StepBootPart ==
  ASSUME BootInv, [Next]_vars
  PROVE  BootPart'
<1> USE PipelineAssumption
<1>type. /\ TypeInv /\ Boot \in Procs /\ Boot \notin Recs /\ Recs \subseteq Procs
         /\ row \in [Rows -> RowType] /\ rec \in [Procs -> RecType]
         /\ Quiet /\ SeenNow /\ BootCovers /\ BootDone
  BY DEF BootInv, CatchInv, RowInv, TypeInv, TypeOK, Procs
<1>0. ASSUME engine' # "booting", rec'[Boot].pc = "idle"
      PROVE  BootPart'
  BY <1>0 DEF BootPart, Quiet, BootRuns, SeenNow, BootCovers, BootDone
<1>1. CASE Crash
  BY <1>1, <1>type DEF Crash, IdleRec, BootPart, Quiet, BootRuns, SeenNow, BootCovers,
     BootDone
<1>2. CASE engine # "booting" /\ ~Crash
  BY <1>0, <1>2, ActiveSteps
<1>3. CASE engine = "booting" /\ (BootFinish \/ BootFails)
  BY <1>0, <1>3, <1>type DEF BootFinish, BootFails, IdleRec
<1>4. ASSUME engine = "booting", NEW r \in Rows, BootQuarantine(r)
      PROVE  BootPart'
  <2>1. UNCHANGED <<pc, calls, rec, engine, brk>> /\ rec[Boot].pc = "done"
    BY <1>4 DEF BootQuarantine, broker
  <2>2. \A q \in Rows : row'[q].ordno = row[q].ordno
    BY <1>type, <1>4, TransitionFields DEF BootQuarantine
  <2>3. BootCovers'
    <3>1. past' = past /\ rec' = rec /\ brk' = brk
      BY <1>4, <2>1 DEF BootQuarantine, broker
    <3>2. \A n \in OrdNos : HasRow(n) => HasRow(n)'
      BY <2>2 DEF HasRow
    <3>3. \A n \in OrdNos : Overlooked(n) => Overlooked(n)'
      BY <3>1, GivenUpForward DEF Overlooked, OwnerOf
    <3> QED
      BY <1>type, <3>1, <3>2, <3>3 DEF BootCovers
  <2> QED
    BY <1>type, <1>4, <2>1, <2>2, <2>3
    DEF BootPart, Quiet, BootRuns, SeenNow, BootDone
<1>5. CASE engine = "booting" /\ RecStep(Boot)
  <2>1. UNCHANGED <<pc, calls, engine>>
    BY <1>5 DEF RecStep, RecGoesOn, RecList, RecFetch, RecFetchFails, RecApply, RecUnlock,
       RecFinish, RecSkip, RecVanished, RecLock, RecKnown, RecOrphan, RecOrphanFails
  <2>2. Others(Boot)
    BY <1>type, <1>5, ListFields, FetchFields, FailFields, ApplyFields, UnlockFields,
       FinishFields, SkipFields, LockFields, KnownFields, OrphanFields, OrphanFailFields
    DEF RecStep, RecGoesOn
  <2>3. Quiet' /\ BootRuns'
    BY <1>type, <1>5, <2>1, <2>2 DEF Others, Quiet, BootRuns
  <2> QED
    BY <1>5, <2>3, BootRunPart DEF BootPart
<1>6. CASE /\ engine = "booting" /\ UNCHANGED <<row, server>>
           /\ \A n \in OrdNos : brk'[n].st = "working" => brk[n].st = "working"
  <2>1. rec' = rec /\ row' = row
    BY <1>6 DEF server
  <2>2. past \subseteq past' /\ BookForward
    BY PastForward, StepBookForward DEF BootInv, EndInv, OwnInv, RowInv
  <2>3. ASSUME NEW n \in OrdNos, brk[n].st = "working", Overlooked(n)
        PROVE  Overlooked(n)'
    <3>1. brk[n].owner # 0 /\ brk'[n].owner = brk[n].owner
      BY <2>2, <2>3 DEF BookForward, BootInv, EndInv, OwnInv, UnusedIsEmpty
    <3> QED
      BY <2>1, <2>3, <3>1, GivenUpForward, OwnerForward DEF Overlooked
  <2>4. BootCovers'
    BY <1>type, <1>6, <2>1, <2>2, <2>3 DEF BootCovers, HasRow
  <2> QED
    BY <1>type, <1>6, <2>1, <2>4 DEF server, BootPart, Quiet, BootRuns, SeenNow, BootDone
<1> QED
  BY <1>1, <1>2, <1>3, <1>4, <1>5, <1>6, BootingSteps DEF BootStep

LEMMA InitBootInv == Init => BootInv
<1> SUFFICES ASSUME Init PROVE BootInv
  OBVIOUS
<1>1. /\ row = [r \in Rows |-> NoRow] /\ calls = {} /\ engine = "booting"
      /\ rec = [p \in Procs |-> IdleRec] /\ brk = [n \in OrdNos |-> Unused]
      /\ pc = [c \in Clients |-> "idle"]
  BY DEF Init
<1>2. Boot \in Procs /\ Recs \subseteq Procs /\ OrdNos \subseteq Rows
  BY DEF Procs, Rows
<1> QED
  BY <1>1, <1>2, InitEndInv, InitCatchInv
  DEF BootInv, NoNumber, PendingIsSubmitted, NumberedCalls, NumberedRuns, Quiet, BootRuns,
      OpenOrder, OrphanMoves, SeenNow, BootCovers, BootDone, Exists, NoRow, IdleRec,
      Unused

LEMMA StepBootInv ==
  ASSUME ~Realtime, BootInv, [Next]_vars
  PROVE  BootInv'
<1> USE PipelineAssumption
<1>type. /\ NumberedRuns /\ NumberedCalls /\ rec \in [Procs -> RecType]
         /\ calls \subseteq CallType
  BY DEF BootInv, CatchInv, RowInv, TypeInv, TypeOK
<1>1. EndInv' /\ CatchInv'
  BY StepEndInv, StepCatchInv DEF BootInv
<1>2. \A r \in Rows : RowMove(r)
  BY StepRowMove
<1>3. NoNumber'
  BY <1>2, StepNoNumber DEF NoNumber
<1>4. \A r \in Rows : row[r].ordno # 0 => row'[r].ordno # 0
  BY <1>2, NumberForward
<1>5. NumberedCalls'
  <2> SUFFICES ASSUME NEW m \in calls'
               PROVE  /\ row'[m.row].ordno # 0
                      /\ m.op = "amend" /\ m.st = "acked" => m.new # 0
    BY DEF NumberedCalls
  <2>1. CallMove(m)
    BY StepCallMove
  <2>2. CASE m \in calls
    BY <1>4, <1>type, <2>2 DEF NumberedCalls, CallType
  <2>3. CASE /\ m.row \in Rows /\ row[m.row].ordno # 0 /\ m.new = 0
             /\ m.op = "cancel" \/ m.st = "sent"
    BY <1>4, <2>3
  <2>4. ASSUME m.new # 0, NEW k \in calls, k.row = m.row
        PROVE  row'[m.row].ordno # 0
    BY <1>4, <1>type, <2>4 DEF NumberedCalls, CallType
  <2> QED
    BY <2>1, <2>2, <2>3, <2>4 DEF CallMove
<1>6. NumberedRuns'
  <2> SUFFICES ASSUME NEW p \in Procs
               PROVE  /\ \A r \in Rows : rec'[p].seen[r] # 0 => row'[r].ordno # 0
                      /\ rec'[p].row # 0 => row'[rec'[p].row].ordno # 0
    BY DEF NumberedRuns
  <2>1. RunMove(p) /\ rec[p].row \in Rows \cup {0}
    BY StepRunMove, <1>type DEF RecType
  <2>2. \A r \in Rows : rec'[p].seen[r] # 0 => row'[r].ordno # 0
    BY <1>4, <1>type, <2>1 DEF RunMove, NumberedRuns
  <2>3. rec'[p].row # 0 => row'[rec'[p].row].ordno # 0
    BY <1>4, <1>type, <2>1 DEF RunMove, NumberedRuns
  <2> QED
    BY <2>2, <2>3
<1>7. PendingIsSubmitted' /\ OpenOrder' /\ OrphanMoves' /\ BootPart'
  BY <1>1, StepPending, StepOpenOrder, StepOrphanMoves, StepBootPart
<1> QED
  BY <1>1, <1>3, <1>5, <1>6, <1>7 DEF BootInv, BootPart

LEMMA StepBootResolves ==
  ASSUME BootInv, [Next]_vars
  PROVE  [engine = "booting" /\ engine' = "active"
            => /\ \A n \in OrdNos \ past :
                    brk[n].st = "working" =>
                      \/ \E r \in Rows : row'[r].ordno = n
                      \/ rec[Boot].page = "error"
                      \/ /\ rec[Boot].page = "none"
                         /\ \E r \in Rows : GivenUp(r) /\ OwnerOf(r) = brk[n].owner
               /\ \A r \in Rows :
                    row'[r].status \in IN_FLIGHT => row'[r].ordno # 0]_vars
<1> SUFFICES ASSUME engine = "booting", engine' = "active"
             PROVE  /\ \A n \in OrdNos \ past :
                         brk[n].st = "working" =>
                           (\E r \in Rows : row'[r].ordno = n) \/ Overlooked(n)
                    /\ \A r \in Rows : row'[r].status \in IN_FLIGHT => row'[r].ordno # 0
  BY DEF Overlooked
<1>1. BootFinish
  BY BootingSteps
  DEF RecStep, RecGoesOn, RecList, RecFetch, RecFetchFails, RecApply, RecUnlock,
      RecFinish, RecSkip,
      RecVanished, RecLock, RecKnown, RecOrphan, RecOrphanFails, Crash, BootStep,
      BootQuarantine, BootFails, server
<1>2. row' = row /\ rec[Boot].pc = "done" /\ \A r \in Rows : ~Unresolved(r)
  BY <1>1 DEF BootFinish
<1>3. \A n \in OrdNos \ past : brk[n].st = "working" => HasRow(n) \/ Overlooked(n)
  BY <1>2 DEF BootInv, BootCovers, BootDone
<1> QED
  BY <1>2, <1>3 DEF HasRow, Unresolved

(* When boot lets the engine go ACTIVE, whatever a crash interrupted, each  *)
(* order of the day that still works at the broker has a row with its       *)
(* number, unless boot's query came back as an error or boot asked nothing  *)
(* and the server had given up a row of that order; and no row waits for an *)
(* answer (TC3 fills off).                                                  *)
THEOREM BootResolvesOrders ==
  ASSUME ~Realtime
  PROVE  Spec => BootResolves
<1>1. Init => BootInv
  BY InitBootInv
<1>2. BootInv /\ [Next]_vars => BootInv'
  BY StepBootInv
<1> QED
  BY <1>1, <1>2, StepBootResolves, PTL DEF Spec, BootResolves
==============================================================================
