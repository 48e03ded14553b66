--------------------------- MODULE OrderEntryProofs ---------------------------
(***************************************************************************)
(* Theorems about OrderEntry, for any callers, limits, rates and books.    *)
(*                                                                         *)
(* The sum over the open orders in a context (_committed_krw) is a value   *)
(* of some set, until the last section shows that it is a number: nothing  *)
(* before depends on it.                                                   *)
(***************************************************************************)
EXTENDS OrderEntry, TLAPS, FiniteSetTheorems, WellFoundedInduction

CtxOver(S) == [open : Nat, com : S, pos : [Symbols -> PosType], cash : Nat \cup {-1}]
PlaceOver(S) ==
  [pc : {"idle", "asked", "gate", "passed", "inserted", "sending",
         "taken", "refused", "lost", "count", "amend", "amending"},
   i : IntentType, skip : BOOLEAN, ctx : CtxOver(S), id : Ids \cup {0}]

Typed ==
  /\ \E S : p \in [Callers -> PlaceOver(S)]
  /\ signals \in [Cycles -> SUBSET IntentType]
  /\ armed \in BOOLEAN
  /\ row \in [Ids -> RowType]
  /\ used \in Nat
  /\ crashes \in Nat
  /\ brk \in [Ids -> BrkType]
  /\ held \in [Symbols -> Int]
  /\ pos \in [Symbols -> Int]
  /\ exitKrw \in Nat

Owning == {"inserted", "sending", "taken", "refused", "lost"}

\* A request that has inserted a row owns it until the answer is recorded:
\* the row is APPROVED until Submit, then SUBMITTED, and nothing else
\* touches it; what is not beyond APPROVED is not at the broker.
Owned ==
  /\ \A c \in Callers : p[c].pc \in Owning \cup {"count", "amend", "amending"} => p[c].id \in Ids
  /\ \A c \in Callers : p[c].pc = "inserted" => row[p[c].id].st = "approved"
  /\ \A c \in Callers : p[c].pc \in Owning \ {"inserted"} => row[p[c].id].st = "submitted"
  /\ \A c, d \in Callers :
       p[c].pc \in Owning /\ p[d].pc \in Owning /\ p[c].id = p[d].id => c = d
  /\ \A n \in Ids : row[n].st \in {"none", "approved"} => brk[n].st = "none"

------------------------------------------------------------------------------
LEMMA TimesNat ==
  ASSUME NEW a \in Nat, NEW b \in Nat
  PROVE  a * b \in Nat
  OBVIOUS

LEMMA AnyIntentType == AnyIntent \in IntentType
  BY RateAssumption DEF AnyIntent, IntentType

LEMMA NoRowType == NoRow \in RowType
  BY AnyIntentType DEF NoRow, RowType, RowStatus

LEMMA IdleType ==
  ASSUME NEW S, 0 \in S
  PROVE  Idle \in PlaceOver(S)
<1>1. NoCtx \in CtxOver(S)
  BY DEF NoCtx, CtxOver, PosType
<1> QED
  BY <1>1, AnyIntentType DEF Idle, PlaceOver

LEMMA Wider ==
  ASSUME NEW S, NEW x, p \in [Callers -> PlaceOver(S)]
  PROVE  p \in [Callers -> PlaceOver(S \cup {x})]
<1>1. CtxOver(S) \subseteq CtxOver(S \cup {x})
  BY DEF CtxOver
<1>2. PlaceOver(S) \subseteq PlaceOver(S \cup {x})
  BY <1>1 DEF PlaceOver
<1> QED
  BY <1>2

\* There is always a set with 0 in it.
LEMMA WithZero ==
  ASSUME Typed
  PROVE  \E S : 0 \in S /\ p \in [Callers -> PlaceOver(S)]
<1>1. PICK S : p \in [Callers -> PlaceOver(S)]
  BY DEF Typed
<1>2. p \in [Callers -> PlaceOver(S \cup {0})]
  BY <1>1, Wider
<1> QED
  BY <1>2

LEMMA MarkedType ==
  ASSUME Typed, NEW marks
  PROVE  Marked(marks) \in [Symbols -> PosType]
<1>1. ASSUME NEW s \in Symbols
      PROVE  Abs(pos[s]) * Price * RateMid \in Nat
  <2>1. Abs(pos[s]) \in Nat /\ Price \in Nat /\ RateMid \in Nat
    BY RateAssumption DEF Typed, Abs
  <2>2. Abs(pos[s]) * Price \in Nat
    BY <2>1, TimesNat
  <2> QED
    BY <2>1, <2>2, TimesNat
<1> QED
  BY <1>1 DEF Marked, PosType, Typed

LEMMA CostType ==
  ASSUME Typed, NEW c \in Callers
  PROVE  Cost(c) \in Nat
<1>1. p[c].i.qty \in Nat
  BY DEF Typed, PlaceOver, IntentType
<1>2. p[c].i.qty * Price \in Nat
  BY <1>1, TimesNat, RateAssumption
<1>3. p[c].i.qty * Price * RateCeil \in Nat
  BY <1>2, TimesNat, RateAssumption
<1> QED
  BY <1>3 DEF Cost, NotionalKrw, Notional

LEMMA EvaluateType ==
  ASSUME Typed, NEW quotes
  PROVE  Evaluate(quotes) \subseteq IntentType
<1>1. ASSUME NEW s \in Symbols
      PROVE  Entry(s) \in IntentType
  BY DEF Entry, IntentType
<1>2. ASSUME NEW s \in Symbols, pos[s] # 0
      PROVE  SellOff(s) \in IntentType
  BY <1>2 DEF SellOff, IntentType, Abs, Typed
<1> QED
  BY <1>1, <1>2 DEF Evaluate

\* How a step changes the request of one caller.
LEMMA StepType ==
  ASSUME Typed, NEW c \in Callers, NEW to \in {"asked", "gate", "passed", "inserted", "sending",
           "taken", "refused", "lost", "count", "amend", "amending"}, Step(c, to)
  PROVE  \E S : p' \in [Callers -> PlaceOver(S)]
<1>1. PICK S : p \in [Callers -> PlaceOver(S)]
  BY DEF Typed
<1>2. [p[c] EXCEPT !.pc = to] \in PlaceOver(S)
  BY <1>1 DEF PlaceOver
<1>3. p' = [p EXCEPT ![c] = [p[c] EXCEPT !.pc = to]]
  BY <1>1 DEF Step
<1> QED
  BY <1>1, <1>2, <1>3

LEMMA LeaveType ==
  ASSUME Typed, NEW c \in Callers, Leave(c)
  PROVE  \E S : p' \in [Callers -> PlaceOver(S)]
<1>1. PICK S : 0 \in S /\ p \in [Callers -> PlaceOver(S)]
  BY WithZero
<1> QED
  BY <1>1, IdleType DEF Leave

LEMMA AbortType ==
  ASSUME Typed, NEW c \in Callers, Abort(c)
  PROVE  (\E S : p' \in [Callers -> PlaceOver(S)]) /\ signals' \in [Cycles -> SUBSET IntentType]
<1>1. signals' \in [Cycles -> SUBSET IntentType]
  BY DEF Abort, Typed
<1> QED
  BY <1>1, LeaveType DEF Abort
------------------------------------------------------------------------------
(* Types. *)

LEMMA InitTyped == Init => Typed
<1> SUFFICES ASSUME Init PROVE Typed
  OBVIOUS
<1>1. p \in [Callers -> PlaceOver({0})]
  BY IdleType DEF Init
<1> QED
  BY <1>1, NoRowType, EntryAssumption DEF Init, Typed, BrkType

LEMMA AskType ==
  ASSUME Typed, NEW c \in Callers, NEW i \in IntentType, Ask(c, i)
  PROVE  \E S : p' \in [Callers -> PlaceOver(S)]
<1>1. PICK S : 0 \in S /\ p \in [Callers -> PlaceOver(S)]
  BY WithZero
<1> DEFINE com == Committed({})
           open == Cardinality(OpenIds) + Cardinality(Twins)
           T == S \cup {com}
           new == [Idle EXCEPT !.pc = "asked", !.i = i, !.ctx.open = open, !.ctx.com = com]
<1>2. p' = [p EXCEPT ![c] = new]
  BY DEF Ask
<1>3. open \in Nat
  <2>1. IsFiniteSet(OpenIds) /\ IsFiniteSet(Twins)
    BY FS_Interval, FS_Subset, EntryAssumption DEF OpenIds, Twins, Ids
  <2> QED
    BY <2>1, FS_CardinalityType
<1>4. com \in T /\ 0 \in T
  BY <1>1
<1>5. p \in [Callers -> PlaceOver(T)] /\ Idle \in PlaceOver(T)
  BY <1>1, <1>4, Wider, IdleType
<1> HIDE DEF com, open, T
<1>6. new \in PlaceOver(T)
  BY <1>3, <1>4, <1>5 DEF PlaceOver, CtxOver
<1> QED
  BY <1>2, <1>5, <1>6

LEMMA ReadType ==
  ASSUME Typed, NEW c \in Callers, ReadPositions(c)
  PROVE  \E S : p' \in [Callers -> PlaceOver(S)]
<1>1. PICK S : p \in [Callers -> PlaceOver(S)]
  BY DEF Typed
<1>2. PICK cash \in Cash, marks \in Marks :
        p' = [p EXCEPT ![c].pc = "gate", ![c].ctx.pos = Marked(marks), ![c].ctx.cash = cash]
  BY DEF ReadPositions
<1>3. Marked(marks) \in [Symbols -> PosType] /\ cash \in Nat \cup {-1}
  BY MarkedType, EntryAssumption
<1> DEFINE m == Marked(marks)
           x == [p[c].ctx EXCEPT !.pos = m, !.cash = cash]
           new == [p[c] EXCEPT !.pc = "gate", !.ctx = x]
<1>4. p[c] \in PlaceOver(S) /\ p[c].ctx \in CtxOver(S)
  BY <1>1 DEF PlaceOver
<1>5. p' = [p EXCEPT ![c] = new]
  BY <1>1, <1>2, <1>4 DEF PlaceOver, CtxOver
<1> HIDE DEF m
<1>6. x \in CtxOver(S)
  BY <1>3, <1>4 DEF CtxOver, m
<1>7. new \in PlaceOver(S)
  BY <1>4, <1>6 DEF PlaceOver
<1> QED
  BY <1>1, <1>5, <1>7

LEMMA AmendReadType ==
  ASSUME Typed, NEW c \in Clients, NEW n \in Ids, NEW q \in AmendQty, AmendRead(c, n, q)
  PROVE  \E S : p' \in [Callers -> PlaceOver(S)]
<1>1. PICK S : 0 \in S /\ p \in [Callers -> PlaceOver(S)]
  BY WithZero
<1>2. PICK marks \in Marks :
        p' = [p EXCEPT ![c] = [Idle EXCEPT
                !.pc = "amend", !.id = n, !.i = [row[n].i EXCEPT !.qty = q],
                !.ctx.com = Committed({n}), !.ctx.pos = Marked(marks)]]
  BY DEF AmendRead
<1> DEFINE com == Committed({n})
           T == S \cup {com}
           i == [row[n].i EXCEPT !.qty = q]
           m == Marked(marks)
           new == [Idle EXCEPT !.pc = "amend", !.id = n, !.i = i, !.ctx.com = com, !.ctx.pos = m]
<1>3. m \in [Symbols -> PosType] /\ com \in T
  BY MarkedType
<1>4. i \in IntentType
  <2>1. row[n].i \in IntentType /\ q \in Nat \ {0}
    BY EntryAssumption DEF Typed, RowType
  <2> QED
    BY <2>1 DEF IntentType
<1>5. p \in [Callers -> PlaceOver(T)] /\ Idle \in PlaceOver(T)
  BY <1>1, Wider, IdleType
<1>6. p' = [p EXCEPT ![c] = new]
  BY <1>2
<1> HIDE DEF com, T, i, m
<1>7. new \in PlaceOver(T)
  BY <1>3, <1>4, <1>5 DEF PlaceOver, CtxOver
<1> QED
  BY <1>5, <1>6, <1>7

LEMMA RowChange ==
  ASSUME Typed, NEW n \in Ids, NEW s \in RowStatus
  PROVE  [row EXCEPT ![n].st = s] \in [Ids -> RowType]
  BY DEF Typed, RowType

LEMMA BrkChange ==
  ASSUME Typed, NEW n \in Ids, NEW s \in {"none", "working", "done", "closed"}
  PROVE  [brk EXCEPT ![n].st = s] \in [Ids -> BrkType]
  BY DEF Typed, BrkType

LEMMA ReconciledType ==
  ASSUME Typed, NEW n \in Ids
  PROVE  Reconciled(n) \in RowType /\ Booted(n) \in RowType
<1>1. Reconciled(n) \in RowType
  BY DEF Typed, RowType, RowStatus, Reconciled
<1> QED
  BY <1>1 DEF Booted, RowType, RowStatus

LEMMA SyncedType ==
  ASSUME Typed
  PROVE  SyncedPositions \in [Symbols -> Int]
  BY DEF Typed, SyncedPositions

LEMMA ArrivedType ==
  ASSUME Typed, NEW S
  PROVE  Arrived(S) \in [Ids -> BrkType]
  BY DEF Typed, Arrived, BrkType, RowType, IntentType

LEMMA CallerTyped ==
  ASSUME Typed, Owned, NEW c \in Callers, CallerStep(c)
  PROVE  Typed'
<1>id. p[c].pc \in Owning \cup {"count", "amend", "amending"} => p[c].id \in Ids
  BY DEF Owned
<1>i. p[c].i \in IntentType /\ p[c].skip \in BOOLEAN
  BY DEF Typed, PlaceOver
<1>1. CASE ReadPositions(c)
  BY <1>1, ReadType DEF ReadPositions, Typed, market
<1>2. CASE GatePasses(c)
  <2>1. PICK S : 0 \in S /\ p \in [Callers -> PlaceOver(S)]
    BY WithZero
  <2>2. p' = [p EXCEPT ![c] = [p[c] EXCEPT !.pc = "passed", !.skip = Skips(c), !.ctx = NoCtx]]
    BY <1>2, <2>1 DEF GatePasses, PlaceOver
  <2>3. Skips(c) \in BOOLEAN
    BY <1>i DEF Skips, ReduceOnly, IntentType
  <2>4. NoCtx \in CtxOver(S)
    BY <2>1 DEF NoCtx, CtxOver, PosType
  <2>5. [p[c] EXCEPT !.pc = "passed", !.skip = Skips(c), !.ctx = NoCtx] \in PlaceOver(S)
    BY <2>1, <2>3, <2>4 DEF PlaceOver
  <2>6. p' \in [Callers -> PlaceOver(S)]
    BY <2>1, <2>2, <2>5
  <2> QED
    BY <1>2, <2>6 DEF GatePasses, Typed, market
<1>3. CASE GateRefuses(c)
  BY <1>3, LeaveType DEF GateRefuses, Typed, market
<1>4. CASE Insert(c)
  <2>1. PICK n \in Ids :
          /\ row' = [row EXCEPT ![n] = [NoRow EXCEPT !.st = "approved", !.i = p[c].i,
                                         !.skip = p[c].skip, !.era = crashes]]
          /\ p' = [p EXCEPT ![c].pc = "inserted", ![c].id = n]
    BY <1>4 DEF Insert
  <2>2. [NoRow EXCEPT !.st = "approved", !.i = p[c].i, !.skip = p[c].skip, !.era = crashes]
          \in RowType
    BY <1>i, NoRowType DEF RowType, RowStatus, Typed
  <2>3. row' \in [Ids -> RowType]
    BY <2>1, <2>2 DEF Typed
  <2>4. PICK S : p \in [Callers -> PlaceOver(S)]
    BY DEF Typed
  <2>5. p' = [p EXCEPT ![c] = [p[c] EXCEPT !.pc = "inserted", !.id = n]]
    BY <2>1, <2>4 DEF PlaceOver
  <2>6. [p[c] EXCEPT !.pc = "inserted", !.id = n] \in PlaceOver(S)
    BY <2>4 DEF PlaceOver
  <2>7. p' \in [Callers -> PlaceOver(S)]
    BY <2>4, <2>5, <2>6
  <2> QED
    BY <1>4, <2>3, <2>7 DEF Insert, Typed, market
<1>5. CASE Submit(c)
  BY <1>5, <1>id, StepType, RowChange DEF Submit, Typed, market, Owning, RowStatus
<1>6. CASE SubmitRaises(c)
  BY <1>6, AbortType DEF SubmitRaises, Typed, market
<1>7. CASE RecordAck(c)
  BY <1>7, <1>id, StepType, RowChange DEF RecordAck, Typed, market, Owning, RowStatus
<1>8. CASE RecordAckRaises(c)
  BY <1>8, AbortType DEF RecordAckRaises, Typed, market
<1>9. CASE RecordRefusal(c)
  BY <1>9, <1>id, LeaveType, RowChange DEF RecordRefusal, Typed, market, Owning, RowStatus
<1>10. CASE RecordDoubt(c)
  BY <1>10, <1>id, LeaveType, RowChange DEF RecordDoubt, Typed, market, Owning, RowStatus
<1>11. CASE Count(c)
  <2>1. Cost(c) \in Nat
    BY CostType
  <2>2. row' = [row EXCEPT ![p[c].id].counted = Cost(c)] /\ p[c].id \in Ids
    BY <1>11, <1>id DEF Count
  <2>3. row' \in [Ids -> RowType]
    BY <2>1, <2>2 DEF Typed, RowType
  <2>4. used' \in Nat /\ exitKrw' \in Nat
    BY <1>11, <2>1 DEF Count, Typed
  <2> QED
    BY <1>11, <2>3, <2>4, LeaveType DEF Count, Typed, market
<1>12. CASE AmendCheck(c)
  <2>1. Leave(c) \/ Step(c, "amending")
    BY <1>12 DEF AmendCheck
  <2> QED
    BY <1>12, <2>1, LeaveType, StepType DEF AmendCheck, Typed, market
<1>13. CASE AmendAnswer(c)
  <2> DEFINE n == p[c].id
  <2>1. n \in Ids
    BY <1>13, <1>id DEF AmendAnswer, Owning
  <2>2. brk' \in [Ids -> BrkType]
    BY <1>13, <1>i DEF AmendAnswer, Typed, BrkType, IntentType
  <2>3. \/ row' = row
        \/ row' = [row EXCEPT ![n] = [row[n] EXCEPT !.i = [row[n].i EXCEPT !.qty = p[c].i.qty],
                                                    !.amended = TRUE]]
        \/ row' = [row EXCEPT ![n] = [row[n] EXCEPT !.amended = TRUE]]
    BY <1>13, <2>1 DEF AmendAnswer, Typed, RowType
  <2>4. [row[n].i EXCEPT !.qty = p[c].i.qty] \in IntentType
    BY <1>i, <2>1 DEF Typed, RowType, IntentType
  <2>5. row' \in [Ids -> RowType]
    <3> DEFINE i == [row[n].i EXCEPT !.qty = p[c].i.qty]
    <3>1. i \in IntentType
      BY <2>4
    <3>2. \/ row' = row
          \/ row' = [row EXCEPT ![n] = [row[n] EXCEPT !.i = i, !.amended = TRUE]]
          \/ row' = [row EXCEPT ![n] = [row[n] EXCEPT !.amended = TRUE]]
      BY <2>3
    <3> HIDE DEF i, n
    <3>3. [row[n] EXCEPT !.i = i, !.amended = TRUE] \in RowType
      BY <2>1, <3>1 DEF Typed, RowType
    <3>4. [row[n] EXCEPT !.amended = TRUE] \in RowType
      BY <2>1 DEF Typed, RowType
    <3> QED
      BY <2>1, <3>2, <3>3, <3>4 DEF Typed
  <2> QED
    BY <1>13, <2>2, <2>5, LeaveType DEF AmendAnswer, Typed
<1>14. CASE BrokerTakes(c)
  <2>1. brk' \in [Ids -> BrkType]
    BY <1>14, <1>i DEF BrokerTakes, Typed, BrkType, IntentType
  <2>2. Step(c, "taken") \/ Step(c, "refused") \/ Step(c, "lost")
    BY <1>14 DEF BrokerTakes
  <2> QED
    BY <1>14, <2>1, <2>2, StepType DEF BrokerTakes, Typed
<1>15. CASE BrokerRefuses(c)
  <2>1. Step(c, "refused") \/ Step(c, "lost")
    BY <1>15 DEF BrokerRefuses
  <2> QED
    BY <1>15, <2>1, StepType DEF BrokerRefuses, Typed, market
<1> QED
  BY <1>1, <1>2, <1>3, <1>4, <1>5, <1>6, <1>7, <1>8, <1>9, <1>10, <1>11, <1>12, <1>13,
     <1>14, <1>15 DEF CallerStep

LEMMA NextTyped ==
  ASSUME Typed, Owned, [Next]_vars
  PROVE  Typed'
<1>1. ASSUME NEW c \in Callers, CallerStep(c) PROVE Typed'
  BY <1>1, CallerTyped
<1>2. ASSUME NEW c \in Clients, AskClient(c) PROVE Typed'
  <2>1. PICK i \in Intents : Ask(c, i)
    BY <1>2 DEF AskClient
  <2>2. i \in IntentType /\ c \in Callers
    BY EntryAssumption DEF Callers
  <2> QED
    BY <1>2, <2>1, <2>2, AskType DEF AskClient, Typed, market
<1>3. ASSUME NEW c \in Clients, NEW n \in Ids, NEW q \in AmendQty, AmendRead(c, n, q)
      PROVE  Typed'
  <2>1. \E S : p' \in [Callers -> PlaceOver(S)]
    BY <1>3, AmendReadType
  <2>2. UNCHANGED <<signals, armed, row, used, crashes, brk, held, pos, exitKrw>>
    BY <1>3 DEF AmendRead, market
  <2> HIDE <1>3
  <2> QED
    BY <2>1, <2>2 DEF Typed
<1>4. ASSUME NEW k \in Cycles, RunOnce(k) PROVE Typed'
  <2>1. signals' \in [Cycles -> SUBSET IntentType]
    BY <1>4, EvaluateType DEF RunOnce, Typed
  <2> QED
    BY <1>4, <2>1 DEF RunOnce, Typed, market
<1>5. ASSUME NEW k \in Cycles, AskCycle(k) PROVE Typed'
  <2>1. PICK i \in signals[k] : Ask(k, i) /\ signals' = [signals EXCEPT ![k] = @ \ {i}]
    BY <1>5 DEF AskCycle
  <2>2. i \in IntentType /\ k \in Callers
    BY DEF Callers, Typed
  <2>3. signals' \in [Cycles -> SUBSET IntentType]
    BY <2>1 DEF Typed
  <2> QED
    BY <1>5, <2>1, <2>2, <2>3, AskType DEF AskCycle, Typed, market
<1>6. ASSUME NEW n \in Ids, Execute(n) PROVE Typed'
  <2>1. brk' \in [Ids -> BrkType]
    BY <1>6, BrkChange DEF Execute
  <2>2. held' \in [Symbols -> Int]
    <3> DEFINE i == row[n].i
               lots == IF i.side = "buy" THEN brk[n].qty ELSE -brk[n].qty
    <3>1. held' = [held EXCEPT ![i.sym] = held[i.sym] + lots]
      BY <1>6 DEF Execute
    <3>2. lots \in Int /\ i.sym \in Symbols
      BY DEF Typed, BrkType, RowType, IntentType
    <3> HIDE DEF lots, i
    <3> QED
      BY <3>1, <3>2 DEF Typed
  <2> QED
    BY <1>6, <2>1, <2>2 DEF Execute, Typed
<1>7. ASSUME NEW n \in Ids, Cancel(n) PROVE Typed'
  <2>1. brk' \in [Ids -> BrkType] /\ row' \in [Ids -> RowType]
    BY <1>7, BrkChange, RowChange DEF Cancel, RowStatus
  <2> QED
    BY <1>7, <2>1 DEF Cancel, Typed
<1>8. CASE Reconcile
  BY <1>8, ReconciledType, SyncedType DEF Reconcile, Typed, market
<1>9. CASE ArmOrDisarm
  BY <1>9 DEF ArmOrDisarm, Typed, market
<1>10. CASE Restart
  <2>1. PICK S : 0 \in S /\ p \in [Callers -> PlaceOver(S)]
    BY WithZero
  <2>2. p' \in [Callers -> PlaceOver(S)]
    BY <1>10, <2>1, IdleType DEF Restart
  <2>3. brk' \in [Ids -> BrkType]
    BY <1>10, ArrivedType DEF Restart
  <2>4. row' \in [Ids -> RowType] /\ pos' \in [Symbols -> Int]
    BY <1>10, ReconciledType, SyncedType DEF Restart
  <2>5. signals' \in [Cycles -> SUBSET IntentType] /\ crashes' \in Nat
    BY <1>10 DEF Restart, Typed
  <2> QED
    BY <1>10, <2>2, <2>3, <2>4, <2>5 DEF Restart, Typed
<1>11. CASE UNCHANGED vars
  BY <1>11 DEF vars, Typed
<1> QED
  BY <1>1, <1>2, <1>3, <1>4, <1>5, <1>6, <1>7, <1>8, <1>9, <1>10, <1>11 DEF Next

------------------------------------------------------------------------------
(* Who owns which row. *)

LEMMA StepEffect ==
  ASSUME Typed, NEW c \in Callers, NEW to, Step(c, to)
  PROVE  /\ p'[c].pc = to /\ p'[c].id = p[c].id /\ p'[c].i = p[c].i
         /\ p'[c].skip = p[c].skip /\ p'[c].ctx = p[c].ctx
         /\ \A d \in Callers \ {c} : p'[d] = p[d]
  BY DEF Step, Typed, PlaceOver

LEMMA LeaveEffect ==
  ASSUME Typed, NEW c \in Callers, Leave(c)
  PROVE  /\ p'[c].pc = "idle" /\ p'[c].id = 0
         /\ \A d \in Callers \ {c} : p'[d] = p[d]
  BY DEF Leave, Typed, Idle

LEMMA AskEffect ==
  ASSUME Typed, NEW c \in Callers, NEW i, Ask(c, i)
  PROVE  /\ p[c].pc = "idle" /\ p'[c].pc = "asked"
         /\ p'[c].ctx.open = Cardinality(OpenIds) + Cardinality(Twins)
         /\ \A d \in Callers \ {c} : p'[d] = p[d]
  BY DEF Ask, Typed, Idle, NoCtx

LEMMA ReadEffect ==
  ASSUME Typed, NEW c \in Callers, ReadPositions(c)
  PROVE  /\ p[c].pc = "asked" /\ p'[c].pc = "gate" /\ p'[c].ctx.open = p[c].ctx.open
         /\ p'[c].i = p[c].i
         /\ \E marks \in Marks : p'[c].ctx.pos = Marked(marks)
         /\ \A d \in Callers \ {c} : p'[d] = p[d]
  BY DEF ReadPositions, Typed, PlaceOver, CtxOver

LEMMA PassEffect ==
  ASSUME Typed, NEW c \in Callers, GatePasses(c)
  PROVE  /\ p[c].pc = "gate" /\ p'[c].pc = "passed" /\ p'[c].i = p[c].i
         /\ p'[c].skip = Skips(c)
         /\ \A d \in Callers \ {c} : p'[d] = p[d]
  BY DEF GatePasses, Typed, PlaceOver

LEMMA InsertEffect ==
  ASSUME Typed, NEW c \in Callers, Insert(c)
  PROVE  \E n \in Ids :
           /\ row[n].st = "none"
           /\ row' = [row EXCEPT ![n] = row'[n]]
           /\ row'[n].st = "approved" /\ row'[n].i = p[c].i /\ row'[n].skip = p[c].skip
           /\ row'[n].era = crashes /\ ~row'[n].amended
           /\ p[c].pc = "passed" /\ p'[c].pc = "inserted" /\ p'[c].id = n
           /\ p'[c].skip = p[c].skip /\ p'[c].i = p[c].i
           /\ \A d \in Callers \ {c} : p'[d] = p[d]
<1>1. PICK n \in Ids :
        /\ row[n].st = "none"
        /\ row' = [row EXCEPT ![n] = [NoRow EXCEPT !.st = "approved", !.i = p[c].i,
                                       !.skip = p[c].skip, !.era = crashes]]
        /\ p' = [p EXCEPT ![c].pc = "inserted", ![c].id = n]
  BY DEF Insert
<1>2. /\ row' = [row EXCEPT ![n] = row'[n]]
      /\ row'[n].st = "approved" /\ row'[n].i = p[c].i /\ row'[n].skip = p[c].skip
      /\ row'[n].era = crashes /\ ~row'[n].amended
  BY <1>1 DEF Typed, NoRow
<1>3. /\ p'[c].pc = "inserted" /\ p'[c].id = n
      /\ p'[c].skip = p[c].skip /\ p'[c].i = p[c].i
      /\ \A d \in Callers \ {c} : p'[d] = p[d]
  BY <1>1 DEF Typed, PlaceOver
<1> QED
  BY <1>1, <1>2, <1>3 DEF Insert

LEMMA AmendEffect ==
  ASSUME Typed, NEW c \in Callers, NEW n \in Ids, NEW q, AmendRead(c, n, q)
  PROVE  /\ p'[c].pc = "amend" /\ p'[c].id = n /\ p[c].pc = "idle"
         /\ \A d \in Callers \ {c} : p'[d] = p[d]
  BY DEF AmendRead, Typed, Idle

\* What an answer to an amend may change in a row.
LEMMA AmendRows ==
  ASSUME Typed, NEW c \in Callers, AmendAnswer(c), p[c].id \in Ids
  PROVE  \A n \in Ids :
           /\ row'[n].st = row[n].st /\ row'[n].skip = row[n].skip
           /\ row'[n].twin = row[n].twin /\ row'[n].counted = row[n].counted
           /\ row'[n].era = row[n].era /\ row'[n].i.sym = row[n].i.sym
           /\ row'[n].i.side = row[n].i.side /\ row'[n].i.limit = row[n].i.limit
           /\ brk'[n].st = brk[n].st
           /\ \/ row'[n].amended
              \/ row'[n] = row[n] /\ brk'[n] = brk[n]
<1>1. CASE brk' = brk /\ row' = row
  BY <1>1
<1>2. CASE /\ brk' = [brk EXCEPT ![p[c].id].qty = p[c].i.qty]
           /\ \/ row' = [row EXCEPT ![p[c].id].i.qty = p[c].i.qty, ![p[c].id].amended = TRUE]
              \/ row' = [row EXCEPT ![p[c].id].amended = TRUE]
  <2>1. \A n \in Ids : brk'[n].st = brk[n].st /\ (n # p[c].id => brk'[n] = brk[n])
    BY <1>2 DEF Typed, BrkType
  <2>2. CASE row' = [row EXCEPT ![p[c].id].i.qty = p[c].i.qty, ![p[c].id].amended = TRUE]
    BY <2>1, <2>2 DEF Typed, RowType, IntentType
  <2>3. CASE row' = [row EXCEPT ![p[c].id].amended = TRUE]
    BY <2>1, <2>3 DEF Typed, RowType
  <2> QED
    BY <1>2, <2>2, <2>3
<1> QED
  BY <1>1, <1>2 DEF AmendAnswer

LEMMA InitOwned == Init => Owned
  BY DEF Init, Owned, Idle, Owning, NoRow

\* No row changes its state, no order appears at the broker, and a caller
\* that owns a row goes on from where it was.
LEMMA OwnedKept ==
  ASSUME Typed, Owned,
         \A n \in Ids : row'[n].st = row[n].st /\ (brk[n].st = "none" => brk'[n].st = "none"),
         \A c \in Callers :
           \/ p'[c].pc = p[c].pc /\ p'[c].id = p[c].id
           \/ p'[c].pc \notin Owning \cup {"count", "amend", "amending"}
           \/ p'[c].pc \in {"count", "amend", "amending"} /\ p'[c].id \in Ids
           \/ /\ p[c].pc \in Owning \ {"inserted"} /\ p'[c].pc \in Owning \ {"inserted"}
              /\ p'[c].id = p[c].id
  PROVE  Owned'
  BY DEF Owned, Owning

\* The caller c is done with its row, or the row is nobody's.
LEMMA OwnedLeft ==
  ASSUME Typed, Owned, NEW c \in Callers, NEW s \in RowStatus \ {"none", "approved"},
         p[c].pc \in Owning \ {"inserted"},
         row' = [row EXCEPT ![p[c].id].st = s], UNCHANGED brk,
         p'[c].pc \in {"idle", "count"}, p'[c].pc = "count" => p'[c].id = p[c].id,
         \A d \in Callers \ {c} : p'[d] = p[d]
  PROVE  Owned'
<1>1. p[c].id \in Ids /\ \A n \in Ids \ {p[c].id} : row'[n] = row[n]
  BY DEF Owned, Typed
<1>2. row'[p[c].id].st = s /\ row[p[c].id].st = "submitted"
  BY <1>1 DEF Owned, Typed, RowType
<1>3. \A d \in Callers \ {c} : p[d].pc \in Owning => p[d].id # p[c].id
  BY DEF Owned
<1> QED
  BY <1>1, <1>2, <1>3 DEF Owned, Owning

LEMMA CallerOwned ==
  ASSUME Typed, Owned, NEW c \in Callers, CallerStep(c)
  PROVE  Owned'
<1> USE DEF Owning, market
<1>id. p[c].pc \in Owning \cup {"count", "amend", "amending"} => p[c].id \in Ids
  BY DEF Owned
<1>1. CASE ReadPositions(c)
  BY <1>1, ReadEffect, OwnedKept DEF ReadPositions
<1>2. CASE GatePasses(c)
  BY <1>2, PassEffect, OwnedKept DEF GatePasses
<1>3. CASE GateRefuses(c)
  BY <1>3, LeaveEffect, OwnedKept DEF GateRefuses
<1>4. CASE Insert(c)
  <2>1. PICK n \in Ids :
           /\ row[n].st = "none"
           /\ row' = [row EXCEPT ![n] = row'[n]]
           /\ row'[n].st = "approved"
           /\ p'[c].pc = "inserted" /\ p'[c].id = n
           /\ \A d \in Callers \ {c} : p'[d] = p[d]
    BY <1>4, InsertEffect
  <2>2. \A m \in Ids \ {n} : row'[m] = row[m]
    BY <2>1 DEF Typed
  <2>3. \A d \in Callers \ {c} : p[d].pc \in Owning => p[d].id # n
    BY <2>1 DEF Owned
  <2>4. brk' = brk
    BY <1>4 DEF Insert
  <2> QED
    BY <2>1, <2>2, <2>3, <2>4 DEF Owned
<1>5. CASE Submit(c)
  <2>1. /\ p[c].pc = "inserted" /\ p'[c].pc = "sending" /\ p'[c].id = p[c].id
        /\ \A d \in Callers \ {c} : p'[d] = p[d]
        /\ brk' = brk
    BY <1>5, StepEffect DEF Submit
  <2>2. /\ \A n \in Ids \ {p[c].id} : row'[n] = row[n]
        /\ row'[p[c].id].st = "submitted"
    BY <1>5, <1>id DEF Submit, Typed, RowType
  <2>3. \A d \in Callers \ {c} : p[d].pc \in Owning => p[d].id # p[c].id
    BY <2>1 DEF Owned
  <2> QED
    BY <1>id, <2>1, <2>2, <2>3 DEF Owned
<1>6. CASE SubmitRaises(c)
  BY <1>6, LeaveEffect, OwnedKept DEF SubmitRaises, Abort
<1>7. CASE RecordAck(c)
  BY <1>7, StepEffect, OwnedLeft DEF RecordAck, RowStatus
<1>8. CASE RecordAckRaises(c)
  BY <1>8, LeaveEffect, OwnedKept DEF RecordAckRaises, Abort
<1>9. CASE RecordRefusal(c)
  BY <1>9, LeaveEffect, OwnedLeft DEF RecordRefusal, RowStatus
<1>10. CASE RecordDoubt(c)
  BY <1>10, LeaveEffect, OwnedLeft DEF RecordDoubt, RowStatus
<1>11. CASE Count(c)
  <2>1. \A n \in Ids : row'[n].st = row[n].st
    BY <1>11, <1>id DEF Count, Typed, RowType
  <2> QED
    BY <1>11, <2>1, LeaveEffect, OwnedKept DEF Count
<1>12. CASE AmendCheck(c)
  <2>1. Leave(c) \/ Step(c, "amending")
    BY <1>12 DEF AmendCheck
  <2> QED
    BY <1>12, <1>id, <2>1, LeaveEffect, StepEffect, OwnedKept DEF AmendCheck
<1>13. CASE AmendAnswer(c)
  BY <1>13, <1>id, AmendRows, LeaveEffect, OwnedKept DEF AmendAnswer
<1>14. CASE BrokerTakes(c)
  <2>1. /\ p[c].pc = "sending" /\ p'[c].pc \in {"taken", "refused", "lost"} /\ p'[c].id = p[c].id
        /\ \A d \in Callers \ {c} : p'[d] = p[d]
        /\ row' = row
    BY <1>14, StepEffect DEF BrokerTakes
  <2>2. \A n \in Ids \ {p[c].id} : brk'[n] = brk[n]
    BY <1>14 DEF BrokerTakes, Typed
  <2> QED
    BY <2>1, <2>2 DEF Owned
<1>15. CASE BrokerRefuses(c)
  <2>1. Step(c, "refused") \/ Step(c, "lost")
    BY <1>15 DEF BrokerRefuses
  <2> QED
    BY <1>15, <2>1, StepEffect, OwnedKept DEF BrokerRefuses
<1> QED
  BY <1>1, <1>2, <1>3, <1>4, <1>5, <1>6, <1>7, <1>8, <1>9, <1>10, <1>11, <1>12, <1>13,
     <1>14, <1>15 DEF CallerStep

\* Rows change their state only where nobody owns them.
LEMMA ReconciledRows ==
  ASSUME Typed, NEW n \in Ids
  PROVE  /\ \/ Reconciled(n).st = row[n].st
            \/ row[n].st = "accepted" /\ Reconciled(n).st = "filled"
         /\ \/ Booted(n).st = Reconciled(n).st
            \/ row[n].st \in {"submitted", "in_doubt"} /\ Booted(n).st = "quarantined"
         /\ \A r \in {Reconciled(n), Booted(n)} :
              /\ r.i = row[n].i /\ r.skip = row[n].skip /\ r.counted = row[n].counted
              /\ r.era = row[n].era /\ r.amended = row[n].amended
<1>1. row[n] \in RowType /\ Reconciled(n) \in RowType
  BY ReconciledType DEF Typed
<1> DEFINE s == IF row[n].st = "accepted" /\ brk[n].st = "done" THEN "filled" ELSE row[n].st
           t == /\ row[n].st \in {"submitted", "in_doubt", "rejected", "quarantined"}
                /\ brk[n].st = "working"
<1>2. Reconciled(n) = [row[n] EXCEPT !.st = s, !.twin = t]
  BY DEF Reconciled
<1>3. /\ Reconciled(n).st = s
      /\ Reconciled(n).i = row[n].i /\ Reconciled(n).skip = row[n].skip
      /\ Reconciled(n).counted = row[n].counted
      /\ Reconciled(n).era = row[n].era /\ Reconciled(n).amended = row[n].amended
  BY <1>1, <1>2 DEF RowType
<1>4. \/ Booted(n) = Reconciled(n)
      \/ /\ row[n].st \in {"submitted", "in_doubt"}
         /\ Booted(n) = [Reconciled(n) EXCEPT !.st = "quarantined"]
  BY DEF Booted
<1> QED
  BY <1>1, <1>3, <1>4 DEF RowType

LEMMA NextOwned ==
  ASSUME Typed, Owned, [Next]_vars
  PROVE  Owned'
<1> USE DEF Owning, market
<1>1. ASSUME NEW c \in Callers, CallerStep(c) PROVE Owned'
  BY <1>1, CallerOwned
<1>2. ASSUME NEW c \in Clients, AskClient(c) PROVE Owned'
  BY <1>2, AskEffect, OwnedKept DEF AskClient, Callers
<1>3. ASSUME NEW c \in Clients, NEW n \in Ids, NEW q \in AmendQty, AmendRead(c, n, q)
      PROVE  Owned'
  <2>1. c \in Callers
    BY DEF Callers
  <2>2. /\ p'[c].pc = "amend" /\ p'[c].id = n
        /\ \A d \in Callers \ {c} : p'[d] = p[d]
    BY <1>3, <2>1, AmendEffect
  <2>3. row' = row /\ brk' = brk
    BY <1>3 DEF AmendRead
  <2> QED
    BY <2>1, <2>2, <2>3, OwnedKept
<1>4. ASSUME NEW k \in Cycles, RunOnce(k) PROVE Owned'
  BY <1>4, OwnedKept DEF RunOnce
<1>5. ASSUME NEW k \in Cycles, AskCycle(k) PROVE Owned'
  BY <1>5, AskEffect, OwnedKept DEF AskCycle, Callers
<1>6. ASSUME NEW n \in Ids, Execute(n) PROVE Owned'
  <2>1. \A m \in Ids : brk[m].st = "none" => brk'[m].st = "none"
    BY <1>6 DEF Execute, Typed, BrkType
  <2> QED
    BY <1>6, <2>1, OwnedKept DEF Execute
<1>7. ASSUME NEW n \in Ids, Cancel(n) PROVE Owned'
  <2>1. /\ row[n].st = "accepted" /\ row'[n].st = "canceled"
        /\ \A m \in Ids \ {n} : row'[m] = row[m] /\ brk'[m] = brk[m]
        /\ p' = p
    BY <1>7 DEF Cancel, Typed, RowType
  <2> QED
    BY <2>1 DEF Owned
<1>8. CASE Reconcile
  <2>1. \A n \in Ids : \/ row'[n].st = row[n].st
                       \/ row[n].st = "accepted" /\ row'[n].st = "filled"
    BY <1>8, ReconciledRows DEF Reconcile
  <2> QED
    BY <1>8, <2>1 DEF Reconcile, Owned
<1>9. CASE ArmOrDisarm
  BY <1>9, OwnedKept DEF ArmOrDisarm
<1>10. CASE Restart
  <2>1. \A n \in Ids : row'[n].st \in {"none", "approved"} => row'[n].st = row[n].st
    BY <1>10, ReconciledRows DEF Restart
  <2>2. PICK S : brk' = Arrived(S) /\ S \subseteq Callers
    BY <1>10 DEF Restart
  <2>3. \A n \in Ids : row[n].st \in {"none", "approved"} => brk'[n] = brk[n]
    BY <2>2 DEF Arrived, Owned
  <2>4. \A c \in Callers : p'[c].pc = "idle"
    BY <1>10 DEF Restart, Idle
  <2> QED
    BY <2>1, <2>3, <2>4 DEF Owned
<1>11. CASE UNCHANGED vars
  BY <1>11, OwnedKept DEF vars
<1> QED
  BY <1>1, <1>2, <1>3, <1>4, <1>5, <1>6, <1>7, <1>8, <1>9, <1>10, <1>11 DEF Next

\* What stands APPROVED in the table, if only because a crash or a disarm of
\* LIVE left it there, has never reached the broker (order_service.py place).
THEOREM ApprovedIsNeverSent == Spec => []ApprovedIsUnsent
<1>1. Init => Typed /\ Owned
  BY InitTyped, InitOwned
<1>2. Typed /\ Owned /\ [Next]_vars => (Typed /\ Owned)'
  BY NextTyped, NextOwned
<1>3. Owned => ApprovedIsUnsent
  BY DEF Owned, ApprovedIsUnsent
<1> QED
  BY <1>1, <1>2, <1>3, PTL DEF Spec

------------------------------------------------------------------------------
(* The number of open orders. *)

LEMMA EntriesFinite == IsFiniteSet(OpenEntries) /\ IsFiniteSet(OpenIds) /\ IsFiniteSet(Twins)
<1>1. IsFiniteSet(Ids)
  BY FS_Interval, EntryAssumption DEF Ids
<1> QED
  BY <1>1, FS_Subset DEF OpenEntries, OpenIds, Twins

LEMMA TicketsFinite == IsFiniteSet(Tickets) /\ Cardinality(Tickets) <= Cardinality(Callers)
  BY FS_Subset, EntryAssumption DEF Tickets

HasTicket(c) == \/ p[c].pc \in {"asked", "gate"} /\ p[c].ctx.open < Limits.open
                \/ p[c].pc = "passed" /\ ~p[c].skip

LEMMA LimitType == Limits.open \in Nat /\ Cardinality(Callers) \in Nat \ {0}
<1>1. Limits.open \in Nat
  BY LimitsAssumption
<1>2. Cardinality(Callers) \in Nat \ {0}
  BY EntryAssumption, FS_CardinalityType, FS_EmptySet
<1> QED
  BY <1>1, <1>2

\* No open entry and no ticket is new.
LEMMA OvershootKept ==
  ASSUME OpenOvershoot,
         \A n \in Ids : row'[n].st \in OpenRow /\ ~row'[n].skip
                          => row[n].st \in OpenRow /\ ~row[n].skip,
         \A c \in Callers : HasTicket(c)' => HasTicket(c)
  PROVE  OpenOvershoot'
<1>1. OpenEntries' \subseteq OpenEntries
  BY DEF OpenEntries, OpenIds
<1>2. Tickets' \subseteq Tickets
  BY DEF Tickets, HasTicket
<1>3. /\ Cardinality(OpenEntries') \in Nat /\ Cardinality(OpenEntries) \in Nat
      /\ Cardinality(OpenEntries') <= Cardinality(OpenEntries)
  BY <1>1, EntriesFinite, FS_Subset, FS_CardinalityType
<1>4. /\ Cardinality(Tickets') \in Nat /\ Cardinality(Tickets) \in Nat
      /\ Cardinality(Tickets') <= Cardinality(Tickets)
  BY <1>2, TicketsFinite, FS_Subset, FS_CardinalityType
<1> QED
  BY <1>3, <1>4, LimitType DEF OpenOvershoot

LEMMA InitOvershoot == Init => OpenOvershoot
<1> SUFFICES ASSUME Init PROVE OpenOvershoot
  OBVIOUS
<1>1. OpenEntries = {} /\ Tickets = {}
  BY DEF Init, OpenEntries, OpenIds, OpenRow, NoRow, Tickets, Idle
<1> QED
  BY <1>1, FS_EmptySet, LimitType DEF OpenOvershoot

\* A request that reads a count below the limit finds room, whoever else
\* has read it before.
LEMMA AskOvershoot ==
  ASSUME Typed, OpenOvershoot, NEW c \in Callers, NEW i, Ask(c, i), UNCHANGED row
  PROVE  OpenOvershoot'
<1>1. /\ p[c].pc = "idle" /\ p'[c].pc = "asked"
      /\ p'[c].ctx.open = Cardinality(OpenIds) + Cardinality(Twins)
      /\ \A d \in Callers \ {c} : p'[d] = p[d]
  BY AskEffect
<1>2. CASE HasTicket(c)'
  <2>1. Cardinality(OpenIds) + Cardinality(Twins) < Limits.open
    BY <1>1, <1>2 DEF HasTicket
  <2>2. OpenEntries' \subseteq OpenIds
    BY DEF OpenEntries, OpenIds
  <2>3. /\ Cardinality(OpenIds) \in Nat /\ Cardinality(Twins) \in Nat
        /\ Cardinality(OpenEntries') \in Nat
        /\ Cardinality(OpenEntries') <= Cardinality(OpenIds)
    BY <2>2, EntriesFinite, FS_CardinalityType, FS_Subset
  <2>4. Tickets' \subseteq Callers
    BY DEF Tickets
  <2>5. Cardinality(Tickets') \in Nat /\ Cardinality(Tickets') <= Cardinality(Callers)
    BY <2>4, EntryAssumption, FS_Subset, FS_CardinalityType
  <2> QED
    BY <2>1, <2>3, <2>5, LimitType DEF OpenOvershoot
<1>3. CASE ~HasTicket(c)'
  BY <1>1, <1>3, OvershootKept DEF HasTicket
<1> QED
  BY <1>2, <1>3

\* The row of an entry takes the place of its ticket.
LEMMA InsertOvershoot ==
  ASSUME Typed, OpenOvershoot, NEW c \in Callers, Insert(c)
  PROVE  OpenOvershoot'
<1>1. PICK n \in Ids :
           /\ row[n].st = "none"
           /\ row' = [row EXCEPT ![n] = row'[n]]
           /\ row'[n].st = "approved" /\ row'[n].skip = p[c].skip
           /\ p[c].pc = "passed" /\ p'[c].pc = "inserted"
           /\ \A d \in Callers \ {c} : p'[d] = p[d]
  BY InsertEffect
<1>2. \A m \in Ids \ {n} : row'[m] = row[m]
  BY <1>1 DEF Typed
<1>3. p[c].skip \in BOOLEAN
  BY DEF Typed, PlaceOver
<1>4. CASE p[c].skip
  BY <1>1, <1>2, <1>4, OvershootKept DEF HasTicket
<1>5. CASE ~p[c].skip
  <2>1. n \notin OpenEntries /\ OpenEntries' = OpenEntries \cup {n}
    BY <1>1, <1>2, <1>5 DEF OpenEntries, OpenIds, OpenRow
  <2>2. c \in Tickets /\ Tickets' = Tickets \ {c}
    BY <1>1, <1>5 DEF Tickets
  <2>3. Cardinality(OpenEntries') = Cardinality(OpenEntries) + 1
    BY <2>1, EntriesFinite, FS_AddElement
  <2>4. Cardinality(Tickets') = Cardinality(Tickets) - 1
    BY <2>2, TicketsFinite, FS_RemoveElement
  <2>5. Cardinality(OpenEntries) \in Nat /\ Cardinality(Tickets) \in Nat
    BY EntriesFinite, TicketsFinite, FS_CardinalityType
  <2> QED
    BY <2>3, <2>4, <2>5, LimitType DEF OpenOvershoot
<1> QED
  BY <1>3, <1>4, <1>5

\* What the gate lets pass as an entry was counted below the limit.
LEMMA PassedBelow ==
  ASSUME Typed, NEW c \in Callers, GatePasses(c), ~Skips(c)
  PROVE  p[c].ctx.open < Limits.open
<1>1. ~Refused(p[c].i, p[c].ctx, used)
  BY DEF GatePasses, Passes
<1>2. ~(p[c].ctx.open >= Limits.open)
  BY <1>1 DEF Refused
<1>3. p[c].ctx.open \in Nat
  BY DEF Typed, PlaceOver, CtxOver
<1> QED
  BY <1>2, <1>3, LimitType

LEMMA CallerOvershoot ==
  ASSUME Typed, Owned, OpenOvershoot, NEW c \in Callers, CallerStep(c)
  PROVE  OpenOvershoot'
<1> USE DEF HasTicket
<1>id. p[c].pc \in Owning \cup {"count", "amend", "amending"} => p[c].id \in Ids
  BY DEF Owned
<1>1. CASE ReadPositions(c)
  BY <1>1, ReadEffect, OvershootKept DEF ReadPositions
<1>2. CASE GatePasses(c)
  BY <1>2, PassEffect, PassedBelow, OvershootKept DEF GatePasses
<1>3. CASE GateRefuses(c)
  BY <1>3, LeaveEffect, OvershootKept DEF GateRefuses
<1>4. CASE Insert(c)
  BY <1>4, InsertOvershoot
<1>5. ASSUME UNCHANGED row, \A d \in Callers \ {c} : p'[d] = p[d],
             p'[c].pc \in {"idle", "sending", "taken", "lost", "refused", "count", "amending"}
      PROVE  OpenOvershoot'
  BY <1>5, OvershootKept
<1>6. ASSUME NEW s \in RowStatus, row' = [row EXCEPT ![p[c].id].st = s], p[c].id \in Ids,
             s \in OpenRow => row[p[c].id].st \in OpenRow,
             \A d \in Callers \ {c} : p'[d] = p[d],
             p'[c].pc \in {"idle", "sending", "count"}
      PROVE  OpenOvershoot'
  <2>1. /\ \A n \in Ids : n # p[c].id => row'[n] = row[n]
        /\ row'[p[c].id].st = s /\ row'[p[c].id].skip = row[p[c].id].skip
    BY <1>6 DEF Typed, RowType
  <2> QED
    BY <1>6, <2>1, OvershootKept
<1>7. CASE Submit(c)
  <2>1. row[p[c].id].st = "approved" /\ p[c].id \in Ids
    BY <1>7, <1>id DEF Submit, Owned, Owning
  <2> QED
    BY <1>6, <1>7, <2>1, StepEffect DEF Submit, RowStatus, OpenRow
<1>8. CASE SubmitRaises(c)
  BY <1>5, <1>8, LeaveEffect DEF SubmitRaises, Abort
<1>9. CASE RecordAck(c) \/ RecordDoubt(c) \/ RecordRefusal(c)
  <2>1. row[p[c].id].st = "submitted" /\ p[c].id \in Ids
    BY <1>9, <1>id DEF RecordAck, RecordDoubt, RecordRefusal, Owned, Owning
  <2>2. CASE RecordAck(c)
    BY <1>6, <2>1, <2>2, StepEffect DEF RecordAck, RowStatus, OpenRow
  <2>3. CASE RecordDoubt(c)
    BY <1>6, <2>1, <2>3, LeaveEffect DEF RecordDoubt, RowStatus, OpenRow
  <2>4. CASE RecordRefusal(c)
    BY <1>6, <2>1, <2>4, LeaveEffect DEF RecordRefusal, RowStatus, OpenRow
  <2> QED
    BY <1>9, <2>2, <2>3, <2>4
<1>10. CASE RecordAckRaises(c)
  BY <1>5, <1>10, LeaveEffect DEF RecordAckRaises, Abort
<1>11. CASE Count(c)
  <2>1. \A n \in Ids : row'[n].st = row[n].st /\ row'[n].skip = row[n].skip
    BY <1>11, <1>id DEF Count, Typed, RowType
  <2> QED
    BY <1>11, <2>1, LeaveEffect, OvershootKept DEF Count
<1>12. CASE AmendCheck(c)
  <2>1. Leave(c) \/ Step(c, "amending")
    BY <1>12 DEF AmendCheck
  <2> QED
    BY <1>5, <1>12, <2>1, LeaveEffect, StepEffect DEF AmendCheck
<1>13. CASE AmendAnswer(c)
  <2>1. \A n \in Ids : row'[n].st = row[n].st /\ row'[n].skip = row[n].skip
    BY <1>13, <1>id, AmendRows DEF AmendAnswer
  <2> QED
    BY <1>13, <2>1, LeaveEffect, OvershootKept DEF AmendAnswer
<1>14. CASE BrokerTakes(c) \/ BrokerRefuses(c)
  <2>1. /\ UNCHANGED row
        /\ Step(c, "taken") \/ Step(c, "lost") \/ Step(c, "refused")
    BY <1>14 DEF BrokerTakes, BrokerRefuses
  <2> QED
    BY <1>5, <2>1, StepEffect
<1> QED
  BY <1>1, <1>2, <1>3, <1>4, <1>7, <1>8, <1>9, <1>10, <1>11, <1>12, <1>13, <1>14
  DEF CallerStep

LEMMA NextOvershoot ==
  ASSUME Typed, Owned, OpenOvershoot, [Next]_vars
  PROVE  OpenOvershoot'
<1> USE DEF HasTicket
<1>1. ASSUME NEW c \in Callers, CallerStep(c) PROVE OpenOvershoot'
  BY <1>1, CallerOvershoot
<1>2. ASSUME NEW c \in Clients, AskClient(c) PROVE OpenOvershoot'
  BY <1>2, AskOvershoot DEF AskClient, Callers
<1>3. ASSUME NEW c \in Clients, NEW n \in Ids, NEW q \in AmendQty, AmendRead(c, n, q)
      PROVE  OpenOvershoot'
  <2>1. c \in Callers
    BY DEF Callers
  <2>2. p'[c].pc = "amend" /\ \A d \in Callers \ {c} : p'[d] = p[d]
    BY <1>3, <2>1, AmendEffect
  <2>3. row' = row
    BY <1>3 DEF AmendRead
  <2> QED
    BY <2>2, <2>3, OvershootKept
<1>4. ASSUME NEW k \in Cycles, RunOnce(k) PROVE OpenOvershoot'
  BY <1>4, OvershootKept DEF RunOnce
<1>5. ASSUME NEW k \in Cycles, AskCycle(k) PROVE OpenOvershoot'
  BY <1>5, AskOvershoot DEF AskCycle, Callers
<1>6. ASSUME NEW n \in Ids, Execute(n) PROVE OpenOvershoot'
  BY <1>6, OvershootKept DEF Execute
<1>7. ASSUME NEW n \in Ids, Cancel(n) PROVE OpenOvershoot'
  <2>1. /\ row'[n].st = "canceled"
        /\ \A m \in Ids \ {n} : row'[m] = row[m]
        /\ p' = p
    BY <1>7 DEF Cancel, Typed, RowType
  <2> QED
    BY <2>1, OvershootKept DEF OpenRow
<1>8. CASE Reconcile
  <2>1. \A n \in Ids : (row'[n].st = row[n].st \/ row'[n].st = "filled")
                       /\ row'[n].skip = row[n].skip
    BY <1>8, ReconciledRows DEF Reconcile
  <2> QED
    BY <1>8, <2>1, OvershootKept DEF Reconcile, OpenRow
<1>9. CASE ArmOrDisarm
  BY <1>9, OvershootKept DEF ArmOrDisarm
<1>10. CASE Restart
  <2>1. \A n \in Ids : (\/ row'[n].st \in {row[n].st, "filled"}
                        \/ row[n].st \in {"submitted", "in_doubt"})
                       /\ row'[n].skip = row[n].skip
    BY <1>10, ReconciledRows DEF Restart
  <2>2. \A c \in Callers : p'[c].pc = "idle"
    BY <1>10 DEF Restart, Idle
  <2> QED
    BY <2>1, <2>2, OvershootKept DEF OpenRow
<1>11. CASE UNCHANGED vars
  BY <1>11, OvershootKept DEF vars
<1> QED
  BY <1>1, <1>2, <1>3, <1>4, <1>5, <1>6, <1>7, <1>8, <1>9, <1>10, <1>11 DEF Next

\* However many requests run at the same time, the orders that open
\* positions exceed max_open_orders by less than their number: those on
\* their way to a row are already paid for (gate.py pre_check).
THEOREM OpenIsBounded == Spec => []OpenOvershoot
<1>1. Init => Typed /\ Owned /\ OpenOvershoot
  BY InitTyped, InitOwned, InitOvershoot
<1>2. Typed /\ Owned /\ OpenOvershoot /\ [Next]_vars => (Typed /\ Owned /\ OpenOvershoot)'
  BY NextTyped, NextOwned, NextOvershoot
<1> QED
  BY <1>1, <1>2, PTL DEF Spec

------------------------------------------------------------------------------
(* The daily notional. *)

AdmittedSet == {c \in Callers : Admitted(c)}
Reserve(n)  == Limits.orderCap * n
Base        == exitKrw + Limits.daily + Reserve(Cardinality(Callers) - 1)

\* Every admitted order but one has a whole order cap reserved for it; the
\* one passed the gate against the sum and needs no more than its own cost.
DailyIInv ==
  /\ ~Live => used = 0
  /\ \A c \in AdmittedSet : Cost(c) <= Limits.orderCap
  /\ \/ used + Reserve(Cardinality(AdmittedSet)) <= Base
     \/ \E c \in AdmittedSet :
          used + Cost(c) + Reserve(Cardinality(AdmittedSet) - 1) <= Base

LEMMA ReserveFacts ==
  /\ Limits.orderCap \in Nat /\ Limits.daily \in Nat
  /\ Reserve(0) = 0
  /\ \A a \in Nat : Reserve(a) \in Nat /\ Reserve(a + 1) = Reserve(a) + Limits.orderCap
  /\ \A a, b \in Nat : a <= b => Reserve(a) <= Reserve(b)
<1> DEFINE k == Limits.orderCap
<1>1. k \in Nat /\ Limits.daily \in Nat
  BY LimitsAssumption
<1>2. ASSUME NEW x \in Nat, NEW a \in Nat
      PROVE  x * 0 = 0 /\ x * a \in Nat /\ x * (a + 1) = x * a + x
  OBVIOUS
<1>3. ASSUME NEW x \in Nat, NEW a \in Nat, NEW b \in Nat, a <= b
      PROVE  x * a <= x * b
  <2>1. b - a \in Nat /\ x * (b - a) \in Nat
    BY <1>2, <1>3
  <2>2. x * b = x * a + x * (b - a)
    BY <1>3
  <2> QED
    BY <1>2, <1>3, <2>1, <2>2
<1> HIDE DEF k
<1> QED
  BY <1>1, <1>2, <1>3 DEF Reserve, k

LEMMA AdmittedFinite ==
  /\ IsFiniteSet(AdmittedSet) /\ Cardinality(AdmittedSet) \in Nat
  /\ Cardinality(AdmittedSet) <= Cardinality(Callers)
  /\ \A c \in AdmittedSet : Cardinality(AdmittedSet) - 1 \in Nat
<1>1. IsFiniteSet(AdmittedSet) /\ Cardinality(AdmittedSet) <= Cardinality(Callers)
  BY EntryAssumption, FS_Subset DEF AdmittedSet
<1>2. Cardinality(AdmittedSet) \in Nat
  BY <1>1, FS_CardinalityType
<1>3. AdmittedSet # {} => Cardinality(AdmittedSet) # 0
  BY <1>1, FS_EmptySet
<1> QED
  BY <1>1, <1>2, <1>3

LEMMA BaseType ==
  ASSUME Typed
  PROVE  Base \in Nat /\ Cardinality(Callers) - 1 \in Nat
<1>1. Cardinality(Callers) - 1 \in Nat
  BY LimitType
<1>2. Reserve(Cardinality(Callers) - 1) \in Nat
  BY <1>1, ReserveFacts
<1>3. exitKrw \in Nat /\ Limits.daily \in Nat
  BY ReserveFacts DEF Typed
<1> QED
  BY <1>1, <1>2, <1>3 DEF Base

LEMMA InitDaily == Init => DailyIInv
<1> SUFFICES ASSUME Init PROVE DailyIInv
  OBVIOUS
<1>1. AdmittedSet = {} /\ used = 0
  BY DEF Init, AdmittedSet, Admitted, Idle
<1>2. Base \in Nat
  BY InitTyped, BaseType
<1> QED
  BY <1>1, <1>2, FS_EmptySet, ReserveFacts DEF DailyIInv

\* Nobody is admitted, nothing is counted.
LEMMA DailyKept ==
  ASSUME Typed, DailyIInv, UNCHANGED <<used, exitKrw>>,
         \A c \in Callers : Admitted(c)' => Admitted(c) /\ p'[c].i = p[c].i
  PROVE  DailyIInv'
<1> DEFINE A == AdmittedSet
           n == Cardinality(A)
           m == Cardinality(A')
<1>1. A' \subseteq A /\ Base' = Base
  BY DEF AdmittedSet, Base
<1>2. \A c \in A' : Cost(c)' = Cost(c)
  BY DEF Cost, AdmittedSet
<1>3. m \in Nat /\ n \in Nat /\ m <= n
  BY <1>1, AdmittedFinite, FS_Subset, FS_CardinalityType
<1>4. used \in Nat /\ Base \in Nat
  BY BaseType DEF Typed
<1>5. CASE used + Reserve(n) <= Base
  <2>1. Reserve(m) <= Reserve(n) /\ Reserve(m) \in Nat /\ Reserve(n) \in Nat
    BY <1>3, ReserveFacts
  <2>2. used + Reserve(m) <= Base
    BY <1>4, <1>5, <2>1
  <2> QED
    BY <1>1, <1>2, <2>2 DEF DailyIInv
<1>6. ASSUME NEW c \in A, used + Cost(c) + Reserve(n - 1) <= Base
      PROVE  DailyIInv'
  <2>1. n - 1 \in Nat /\ Cost(c) \in Nat
    BY AdmittedFinite, CostType DEF AdmittedSet
  <2>2. CASE c \in A'
    <3>1. m - 1 \in Nat /\ m - 1 <= n - 1
      BY <1>1, <1>3, <2>2, FS_EmptySet, AdmittedFinite, FS_Subset
    <3>2. Reserve(m - 1) <= Reserve(n - 1) /\ Reserve(m - 1) \in Nat /\ Reserve(n - 1) \in Nat
      BY <2>1, <3>1, ReserveFacts
    <3>3. used + Cost(c) + Reserve(m - 1) <= Base
      BY <1>4, <1>6, <2>1, <3>2
    <3> QED
      BY <1>1, <1>2, <2>2, <3>3 DEF DailyIInv
  <2>3. CASE c \notin A'
    <3>1. A' \subseteq A \ {c} /\ Cardinality(A \ {c}) = n - 1
      BY <1>1, <2>3, AdmittedFinite, FS_RemoveElement
    <3>2. m <= n - 1
      BY <3>1, AdmittedFinite, FS_Subset
    <3>3. Reserve(m) <= Reserve(n - 1) /\ Reserve(m) \in Nat /\ Reserve(n - 1) \in Nat
      BY <1>3, <2>1, <3>2, ReserveFacts
    <3>4. used + Reserve(m) <= Base
      BY <1>4, <1>6, <2>1, <3>3
    <3> QED
      BY <1>1, <1>2, <3>4 DEF DailyIInv
  <2> QED
    BY <2>2, <2>3
<1> QED
  BY <1>5, <1>6 DEF DailyIInv

\* What the gate lets pass as an entry fits under the order cap and, with
\* what has been counted so far, under the daily one.
LEMMA PassedFits ==
  ASSUME Limits.daily # 0, Typed, DailyIInv, NEW c \in Callers, GatePasses(c), ~Skips(c)
  PROVE  /\ Cost(c) <= Limits.orderCap
         /\ used + Cost(c) <= Limits.daily + exitKrw
<1>1. ~Refused(p[c].i, p[c].ctx, used)
  BY DEF GatePasses, Passes
<1>2. used \in Nat /\ exitKrw \in Nat /\ Cost(c) \in Nat
  BY CostType DEF Typed
<1>3. CASE Live
  <2>1. p[c].i.limit /\ ~(NotionalKrw(p[c].i) > Limits.orderCap)
        /\ ~(used + NotionalKrw(p[c].i) > Limits.daily)
    BY <1>1, <1>3 DEF Refused, OverNotional, OverDaily
  <2>2. Cost(c) = NotionalKrw(p[c].i)
    BY <1>3, <2>1 DEF Cost
  <2>3. ~(Cost(c) > Limits.orderCap) /\ ~(used + Cost(c) > Limits.daily)
    BY <2>1, <2>2
  <2>4. Limits.orderCap \in Nat /\ Limits.daily \in Nat
    BY ReserveFacts
  <2> QED
    BY <1>2, <2>3, <2>4
<1>4. CASE ~Live
  <2>1. used = 0 /\ Cost(c) = 0
    BY <1>4 DEF DailyIInv, Cost
  <2> QED
    BY <1>2, <2>1, ReserveFacts
<1> QED
  BY <1>3, <1>4

LEMMA PassDaily ==
  ASSUME Limits.daily # 0, Typed, DailyIInv, NEW c \in Callers, GatePasses(c)
  PROVE  DailyIInv'
<1>1. /\ p[c].pc = "gate" /\ p'[c].pc = "passed" /\ p'[c].i = p[c].i
      /\ p'[c].skip = Skips(c)
      /\ \A d \in Callers \ {c} : p'[d] = p[d]
      /\ UNCHANGED <<used, exitKrw>>
  BY PassEffect DEF GatePasses
<1>2. CASE Skips(c)
  BY <1>1, <1>2, DailyKept DEF Admitted
<1>3. CASE ~Skips(c)
  <2> DEFINE n == Cardinality(AdmittedSet)
             N == Cardinality(Callers)
  <2>1. c \notin AdmittedSet /\ AdmittedSet' = AdmittedSet \cup {c} /\ c \in AdmittedSet'
    BY <1>1, <1>3 DEF AdmittedSet, Admitted
  <2>2. \A d \in Callers : Cost(d)' = Cost(d)
    BY <1>1 DEF Cost
  <2>3. Cost(c) <= Limits.orderCap /\ used + Cost(c) <= Limits.daily + exitKrw
    BY <1>3, PassedFits
  <2>4. Cardinality(AdmittedSet') = n + 1
    BY <2>1, AdmittedFinite, FS_AddElement
  <2>5. AdmittedSet \subseteq Callers \ {c} /\ Cardinality(Callers \ {c}) = N - 1
    BY <2>1, EntryAssumption, FS_RemoveElement DEF AdmittedSet
  <2>6. n \in Nat /\ N - 1 \in Nat /\ n <= N - 1
    BY <2>5, AdmittedFinite, EntryAssumption, FS_RemoveElement, FS_Subset, BaseType
  <2>7. Reserve(n) <= Reserve(N - 1) /\ Reserve(n) \in Nat /\ Reserve(N - 1) \in Nat
    BY <2>6, ReserveFacts
  <2>8. used + Cost(c) + Reserve(n) <= Base
    <3>1. used \in Nat /\ exitKrw \in Nat /\ Cost(c) \in Nat /\ Limits.daily \in Nat
      BY CostType, ReserveFacts DEF Typed
    <3> QED
      BY <2>3, <2>7, <3>1 DEF Base
  <2>9. Base' = Base /\ Cardinality(AdmittedSet') - 1 = n
    BY <1>1, <2>4, <2>6 DEF Base
  <2>10. \E d \in AdmittedSet' : used' + Cost(d)' + Reserve(Cardinality(AdmittedSet') - 1) <= Base'
    BY <1>1, <2>1, <2>2, <2>8, <2>9
  <2> QED
    BY <1>1, <2>1, <2>2, <2>3, <2>10 DEF DailyIInv, AdmittedSet
<1> QED
  BY <1>2, <1>3

\* An exit that is counted moves both sides of the inequality; an entry
\* uses up what was reserved for it.
LEMMA CountDaily ==
  ASSUME Typed, DailyIInv, NEW c \in Callers, Count(c)
  PROVE  DailyIInv'
<1> DEFINE A == AdmittedSet
           n == Cardinality(A)
<1>1. /\ p[c].pc = "count" /\ p'[c].pc = "idle"
      /\ \A d \in Callers \ {c} : p'[d] = p[d]
      /\ used' = used + Cost(c)
      /\ exitKrw' = IF p[c].skip THEN exitKrw + Cost(c) ELSE exitKrw
  BY LeaveEffect DEF Count
<1>2. \A d \in Callers \ {c} : Cost(d)' = Cost(d)
  BY <1>1 DEF Cost
<1>3. A' = A \ {c}
  BY <1>1 DEF AdmittedSet, Admitted
<1>4. used \in Nat /\ exitKrw \in Nat /\ Cost(c) \in Nat /\ Base \in Nat
  BY CostType, BaseType DEF Typed
<1>5. ~Live => used' = 0
  BY <1>1 DEF DailyIInv, Cost
<1>6. \A d \in A' : Cost(d)' <= Limits.orderCap
  BY <1>2, <1>3 DEF DailyIInv, AdmittedSet
<1>7. n \in Nat
  BY AdmittedFinite
<1>8. CASE p[c].skip
  <2>1. A' = A /\ c \notin A
    BY <1>1, <1>3, <1>8 DEF AdmittedSet, Admitted
  <2>2. Base' = Base + Cost(c)
    <3>1. Reserve(Cardinality(Callers) - 1) \in Nat /\ Limits.daily \in Nat
      BY BaseType, ReserveFacts
    <3> QED
      BY <1>1, <1>4, <1>8, <3>1 DEF Base
  <2>3. CASE used + Reserve(n) <= Base
    <3>1. Reserve(n) \in Nat
      BY <1>7, ReserveFacts
    <3>2. used' + Reserve(n) <= Base'
      BY <1>1, <1>4, <2>2, <2>3, <3>1
    <3> QED
      BY <1>5, <1>6, <2>1, <3>2 DEF DailyIInv
  <2>4. ASSUME NEW d \in A, used + Cost(d) + Reserve(n - 1) <= Base
        PROVE  DailyIInv'
    <3>1. Reserve(n - 1) \in Nat /\ Cost(d) \in Nat
      BY AdmittedFinite, ReserveFacts, CostType DEF AdmittedSet
    <3>2. Cost(d)' = Cost(d)
      BY <1>2, <2>1 DEF AdmittedSet
    <3>3. used' + Cost(d)' + Reserve(n - 1) <= Base'
      BY <1>1, <1>4, <2>2, <2>4, <3>1, <3>2
    <3> QED
      BY <1>5, <1>6, <2>1, <3>3 DEF DailyIInv
  <2> QED
    BY <2>3, <2>4 DEF DailyIInv
<1>9. CASE ~p[c].skip
  <2>1. c \in A /\ Cost(c) <= Limits.orderCap
    BY <1>1, <1>9 DEF AdmittedSet, Admitted, DailyIInv
  <2>2. Cardinality(A') = n - 1 /\ n - 1 \in Nat
    BY <1>3, <2>1, AdmittedFinite, FS_RemoveElement
  <2>3. Base' = Base
    BY <1>1, <1>9 DEF Base
  <2>4. Reserve(n) = Reserve(n - 1) + Limits.orderCap /\ Reserve(n - 1) \in Nat
    <3>1. n = (n - 1) + 1
      BY <1>7
    <3> QED
      BY <2>2, <3>1, ReserveFacts
  <2>5. Limits.orderCap \in Nat
    BY ReserveFacts
  <2>6. CASE used + Reserve(n) <= Base
    <3>1. used' + Reserve(n - 1) <= Base'
      BY <1>1, <1>4, <2>1, <2>3, <2>4, <2>5, <2>6
    <3> QED
      BY <1>5, <1>6, <2>2, <3>1 DEF DailyIInv
  <2>7. CASE used + Cost(c) + Reserve(n - 1) <= Base
    <3>1. used' + Reserve(n - 1) <= Base'
      BY <1>1, <1>4, <2>3, <2>7
    <3> QED
      BY <1>5, <1>6, <2>2, <3>1 DEF DailyIInv
  <2>8. ASSUME NEW d \in A \ {c}, used + Cost(d) + Reserve(n - 1) <= Base
        PROVE  DailyIInv'
    <3>1. d \in A' /\ Cost(d)' = Cost(d) /\ Cost(d) \in Nat
      BY <1>2, <1>3, CostType DEF AdmittedSet
    <3>2. (n - 1) - 1 \in Nat
      BY <1>3, <2>2, <3>1, AdmittedFinite, FS_EmptySet, FS_RemoveElement
    <3>3. Reserve(n - 1) = Reserve((n - 1) - 1) + Limits.orderCap
          /\ Reserve((n - 1) - 1) \in Nat
      <4>1. n - 1 = ((n - 1) - 1) + 1
        BY <2>2
      <4> QED
        BY <3>2, <4>1, ReserveFacts
    <3>4. used' + Cost(d)' + Reserve((n - 1) - 1) <= Base'
      BY <1>1, <1>4, <2>1, <2>3, <2>5, <2>8, <3>1, <3>3
    <3> QED
      BY <1>5, <1>6, <2>2, <3>1, <3>4 DEF DailyIInv
  <2> QED
    BY <2>6, <2>7, <2>8 DEF DailyIInv
<1>10. p[c].skip \in BOOLEAN
  BY DEF Typed, PlaceOver
<1> QED
  BY <1>8, <1>9, <1>10

LEMMA NextDaily ==
  ASSUME Limits.daily # 0, Typed, Owned, DailyIInv, [Next]_vars
  PROVE  DailyIInv'
<1> USE DEF Admitted
<1>1. ASSUME NEW c \in Callers, CallerStep(c)
      PROVE  DailyIInv'
  <2>1. CASE GatePasses(c)
    BY <2>1, PassDaily
  <2>2. CASE Count(c)
    BY <2>2, CountDaily
  <2>3. CASE Insert(c)
    <3>1. /\ p[c].pc = "passed" /\ p'[c].pc = "inserted"
          /\ p'[c].skip = p[c].skip /\ p'[c].i = p[c].i
          /\ \A d \in Callers \ {c} : p'[d] = p[d]
      BY <2>3, InsertEffect
    <3>2. UNCHANGED <<used, exitKrw>>
      BY <2>3 DEF Insert
    <3> QED
      BY <3>1, <3>2, DailyKept
  <2>4. CASE ReadPositions(c)
    BY <2>4, ReadEffect, DailyKept DEF ReadPositions
  <2>5. CASE \/ GateRefuses(c) \/ SubmitRaises(c) \/ RecordAckRaises(c) \/ RecordRefusal(c)
             \/ RecordDoubt(c) \/ AmendAnswer(c)
    <3>1. Leave(c) /\ UNCHANGED <<used, exitKrw>>
      BY <2>5 DEF GateRefuses, SubmitRaises, RecordAckRaises, RecordRefusal, RecordDoubt,
                  AmendAnswer, Abort
    <3> QED
      BY <3>1, LeaveEffect, DailyKept
  <2>6. CASE Submit(c) \/ RecordAck(c) \/ BrokerTakes(c) \/ BrokerRefuses(c)
    <3>1. PICK to \in {"sending", "count", "taken", "lost", "refused"} :
            /\ Step(c, to)
            /\ p[c].pc \in {"inserted", "taken", "sending"}
            /\ UNCHANGED <<used, exitKrw>>
      BY <2>6 DEF Submit, RecordAck, BrokerTakes, BrokerRefuses
    <3> QED
      BY <3>1, StepEffect, DailyKept
  <2>7. CASE AmendCheck(c)
    <3>1. /\ Leave(c) \/ Step(c, "amending")
          /\ UNCHANGED <<used, exitKrw>>
      BY <2>7 DEF AmendCheck
    <3> QED
      BY <3>1, LeaveEffect, StepEffect, DailyKept
  <2> QED
    BY <1>1, <2>1, <2>2, <2>3, <2>4, <2>5, <2>6, <2>7 DEF CallerStep
<1>2. ASSUME NEW c \in Clients, AskClient(c) PROVE DailyIInv'
  BY <1>2, AskEffect, DailyKept DEF AskClient, Callers
<1>3. ASSUME NEW c \in Clients, NEW n \in Ids, NEW q \in AmendQty, AmendRead(c, n, q)
      PROVE  DailyIInv'
  <2>1. c \in Callers
    BY DEF Callers
  <2>2. p'[c].pc = "amend" /\ \A d \in Callers \ {c} : p'[d] = p[d]
    BY <1>3, <2>1, AmendEffect
  <2>3. UNCHANGED <<used, exitKrw>>
    BY <1>3 DEF AmendRead
  <2> QED
    BY <2>2, <2>3, DailyKept
<1>4. ASSUME NEW k \in Cycles, RunOnce(k) PROVE DailyIInv'
  BY <1>4, DailyKept DEF RunOnce
<1>5. ASSUME NEW k \in Cycles, AskCycle(k) PROVE DailyIInv'
  BY <1>5, AskEffect, DailyKept DEF AskCycle, Callers
<1>6. ASSUME NEW n \in Ids, Execute(n) \/ Cancel(n) PROVE DailyIInv'
  BY <1>6, DailyKept DEF Execute, Cancel
<1>7. CASE Reconcile \/ ArmOrDisarm
  BY <1>7, DailyKept DEF Reconcile, ArmOrDisarm
<1>8. CASE Restart
  <2>1. \A c \in Callers : p'[c].pc = "idle"
    BY <1>8 DEF Restart, Idle
  <2> QED
    BY <1>8, <2>1, DailyKept DEF Restart
<1>9. CASE UNCHANGED vars
  BY <1>9, DailyKept DEF vars
<1> QED
  BY <1>1, <1>2, <1>3, <1>4, <1>5, <1>6, <1>7, <1>8, <1>9 DEF Next

LEMMA DailyIInvBounds ==
  ASSUME Typed, DailyIInv
  PROVE  DailyOvershoot
<1>1. used \in Nat /\ Base \in Nat /\ Cardinality(AdmittedSet) \in Nat
  BY BaseType, AdmittedFinite DEF Typed
<1>2. used <= Base
  <2>1. CASE used + Reserve(Cardinality(AdmittedSet)) <= Base
    BY <1>1, <2>1, ReserveFacts
  <2>2. ASSUME NEW c \in AdmittedSet,
               used + Cost(c) + Reserve(Cardinality(AdmittedSet) - 1) <= Base
        PROVE  used <= Base
    <3>1. Cost(c) \in Nat /\ Reserve(Cardinality(AdmittedSet) - 1) \in Nat
      BY AdmittedFinite, ReserveFacts, CostType DEF AdmittedSet
    <3> QED
      BY <1>1, <2>2, <3>1
  <2> QED
    BY <2>1, <2>2 DEF DailyIInv
<1> QED
  BY <1>2 DEF DailyOvershoot, Base, Reserve

DailyInv == Limits.daily # 0 => DailyIInv

\* The daily notional exceeds its cap, unless that is 0 and not applied at
\* all, by no more than the order caps of all concurrent requests but one,
\* and what exits add (gate.py pre_check reads it, order_service.py
\* _bump_daily_notional adds to it after the answer).
THEOREM DailyIsBounded == Spec => []DailyOvershoot
<1>1. Init => Typed /\ Owned /\ DailyInv
  BY InitTyped, InitOwned, InitDaily DEF DailyInv
<1>2. Typed /\ Owned /\ DailyInv /\ [Next]_vars => (Typed /\ Owned /\ DailyInv)'
  <2> SUFFICES ASSUME Typed, Owned, DailyInv, [Next]_vars
               PROVE  Typed' /\ Owned' /\ DailyInv'
    OBVIOUS
  <2>1. Typed' /\ Owned'
    BY NextTyped, NextOwned
  <2>2. CASE Limits.daily = 0
    BY <2>1, <2>2 DEF DailyInv
  <2>3. CASE Limits.daily # 0
    BY <2>1, <2>3, NextDaily DEF DailyInv
  <2> QED
    BY <2>2, <2>3
<1>3. Typed /\ DailyInv => DailyOvershoot
  BY DailyIInvBounds DEF DailyInv, DailyOvershoot
<1> QED
  BY <1>1, <1>2, <1>3, PTL DEF Spec

------------------------------------------------------------------------------
(* What the broker holds, and what was counted of it. *)

\* The request, its row and the order at the broker agree, until an amend
\* comes between; and a request that has not been answered has no order at
\* the broker.
Agree ==
  /\ \A n \in Ids : row[n].era <= crashes
  /\ \A n \in Ids : brk[n].st # "none" => row[n].amended \/ brk[n].qty = row[n].i.qty
  /\ \A c \in Callers : p[c].pc \in Owning \cup {"count"} =>
       LET r == row[p[c].id] IN
         /\ r.i.limit = p[c].i.limit
         /\ r.amended \/ r.i = p[c].i
  /\ \A c \in Callers : p[c].pc \in {"inserted", "sending"}
                          => brk[p[c].id].st = "none"
  /\ \A c \in Callers : p[c].pc = "count" => row[p[c].id].st # "none"

\* Only a request on its way to _bump_daily_notional explains a row that
\* stands ACCEPTED and uncounted; one that stands REJECTED may be an order
\* whose answer was taken for a failure.
Explained(n) ==
  Live /\ brk[n].st # "none" /\ row[n].counted # brk[n].qty * Price * RateCeil =>
    \/ row[n].st \in {"submitted", "in_doubt", "rejected"}
    \/ \E c \in Callers : p[c].pc = "count" /\ p[c].id = n
    \/ row[n].era < crashes
    \/ row[n].amended
    \/ ~row[n].i.limit

CountIInv == Agree /\ \A n \in Ids : Explained(n)

LEMMA InitCount == Init => CountIInv
<1> SUFFICES ASSUME Init PROVE CountIInv
  OBVIOUS
<1>1. \A n \in Ids : brk[n].st = "none" /\ row[n].era = 0 /\ crashes = 0
  BY DEF Init, NoRow
<1>2. \A c \in Callers : p[c].pc = "idle"
  BY DEF Init, Idle
<1> QED
  BY <1>1, <1>2 DEF CountIInv, Agree, Explained, Owning

\* Rows and orders may only be amended, requests only end before they own a
\* row or go on.
LEMMA CountKept ==
  ASSUME Typed, Owned, CountIInv, UNCHANGED crashes,
         \A n \in Ids :
           /\ row'[n].era = row[n].era /\ row'[n].i.limit = row[n].i.limit
           /\ row'[n].counted = row[n].counted
           /\ row'[n].st = "none" => row[n].st = "none"
           /\ row[n].st \in {"submitted", "in_doubt", "rejected"} => row'[n].st = row[n].st
           /\ row'[n].amended \/ (/\ row'[n].i = row[n].i /\ brk'[n].qty = brk[n].qty
                                  /\ row'[n].amended = row[n].amended)
           /\ brk'[n].st = "none" <=> brk[n].st = "none",
         \A c \in Callers :
           \/ p'[c].pc \notin Owning \cup {"count"} /\ p[c].pc # "count"
           \/ /\ p[c].pc \in Owning \cup {"count"}
              /\ p'[c].i = p[c].i /\ p'[c].id = p[c].id
              /\ \/ p'[c].pc = p[c].pc
                 \/ p[c].pc = "inserted" /\ p'[c].pc = "sending"
                 \/ p[c].pc = "sending" /\ p'[c].pc \in {"lost", "refused"}
  PROVE  CountIInv'
<1>1. \A c \in Callers : p[c].pc \in Owning \cup {"count"} => p[c].id \in Ids
  BY DEF Owned
<1>2. (\A n \in Ids : row[n].era <= crashes)'
  BY DEF CountIInv, Agree
<1>3. (\A n \in Ids : brk[n].st # "none" => row[n].amended \/ brk[n].qty = row[n].i.qty)'
  BY DEF CountIInv, Agree
<1>4. ASSUME NEW c \in Callers, p'[c].pc \in Owning \cup {"count"}
      PROVE  /\ p'[c].id = p[c].id /\ p'[c].id \in Ids /\ p'[c].i = p[c].i
             /\ p[c].pc \in Owning \cup {"count"}
             /\ p'[c].pc \in {"inserted", "sending"} => p[c].pc \in {"inserted", "sending"}
  BY <1>1, <1>4 DEF Owning
<1>5. Agree'
  BY <1>2, <1>3, <1>4 DEF CountIInv, Agree, Owning
<1>6. \A n \in Ids : Explained(n)'
  <2> SUFFICES ASSUME NEW n \in Ids PROVE Explained(n)'
    OBVIOUS
  <2>1. \A c \in Callers : p[c].pc = "count" => p'[c].pc = "count" /\ p'[c].id = p[c].id
    BY DEF Owning
  <2> QED
    BY <2>1 DEF CountIInv, Explained
<1> QED
  BY <1>5, <1>6 DEF CountIInv

\* The steps of the owner of a row that change more than that.
LEMMA InsertCount ==
  ASSUME Typed, Owned, CountIInv, NEW c \in Callers, Insert(c)
  PROVE  CountIInv'
<1>1. PICK n \in Ids :
        /\ row[n].st = "none"
        /\ row' = [row EXCEPT ![n] = row'[n]]
        /\ row'[n].st = "approved" /\ row'[n].i = p[c].i /\ row'[n].era = crashes
        /\ p[c].pc = "passed" /\ p'[c].pc = "inserted" /\ p'[c].id = n /\ p'[c].i = p[c].i
        /\ \A d \in Callers \ {c} : p'[d] = p[d]
  BY InsertEffect
<1>2. \A m \in Ids \ {n} : row'[m] = row[m]
  BY <1>1 DEF Typed
<1>3. UNCHANGED <<crashes, brk>> /\ crashes \in Nat
  BY DEF Insert, market, Typed
<1>4. brk[n].st = "none"
  BY <1>1 DEF Owned
<1>5. \A d \in Callers \ {c} : p[d].pc \in Owning \cup {"count"} => p[d].id # n /\ p[d].id \in Ids
  BY <1>1 DEF Owned, Owning, CountIInv, Agree
<1>6. Agree'
  BY <1>1, <1>2, <1>3, <1>4, <1>5 DEF Agree, CountIInv, Owning
<1>7. ASSUME NEW m \in Ids \ {n} PROVE Explained(m)'
  BY <1>1, <1>2, <1>3 DEF CountIInv, Explained
<1>8. Explained(n)'
  BY <1>3, <1>4 DEF Explained
<1> QED
  BY <1>6, <1>7, <1>8 DEF CountIInv

\* The state of the row moves on: to SUBMITTED, to what the answer says.
LEMMA RecordCount ==
  ASSUME Typed, Owned, CountIInv, NEW c \in Callers,
         Submit(c) \/ RecordAck(c) \/ RecordRefusal(c) \/ RecordDoubt(c)
  PROVE  CountIInv'
<1>0. PICK n \in Ids : n = p[c].id
  BY DEF Owned, Owning, Submit, RecordAck, RecordRefusal, RecordDoubt
<1>1. /\ p[c].pc \in Owning
      /\ \A d \in Callers \ {c} : p'[d] = p[d] /\ (p[d].pc \in Owning => p[d].id # n)
      /\ UNCHANGED <<brk, crashes>>
  BY <1>0, StepEffect, LeaveEffect
  DEF Owned, Owning, Submit, RecordAck, RecordRefusal, RecordDoubt, market
<1>2. PICK s \in {"submitted", "accepted", "rejected", "in_doubt"} :
        /\ row' = [row EXCEPT ![n].st = s]
        /\ \/ p[c].pc = "inserted" /\ s = "submitted" /\ p'[c].pc = "sending"
              /\ p'[c].id = n /\ p'[c].i = p[c].i
           \/ s = "accepted" /\ p'[c].pc = "count" /\ p'[c].id = n /\ p'[c].i = p[c].i
           \/ p[c].pc = "refused" /\ s = "rejected" /\ p'[c].pc = "idle"
           \/ s = "in_doubt" /\ p'[c].pc = "idle"
  BY <1>0, StepEffect, LeaveEffect DEF Submit, RecordAck, RecordRefusal, RecordDoubt
<1>3. /\ \A m \in Ids \ {n} : row'[m] = row[m]
      /\ row'[n].st = s /\ row'[n].era = row[n].era /\ row'[n].amended = row[n].amended
      /\ row'[n].i = row[n].i /\ row'[n].counted = row[n].counted
  BY <1>1, <1>2 DEF Typed, RowType
<1>4. \A d \in Callers : p[d].pc \in Owning \cup {"count"} => p[d].id \in Ids
  BY DEF Owned
<1>5. Agree'
  <2>1. \A m \in Ids : /\ row'[m].era = row[m].era /\ row'[m].amended = row[m].amended
                       /\ row'[m].i = row[m].i
                       /\ row'[m].st = "none" => row[m].st = "none"
    BY <1>3
  <2>2. \A d \in Callers : p'[d].pc \in Owning \cup {"count"} =>
          /\ p[d].pc \in Owning \cup {"count"} /\ p'[d].id = p[d].id /\ p'[d].i = p[d].i
          /\ p'[d].pc \in {"inserted", "sending"} => p[d].pc \in {"inserted", "sending"}
    BY <1>0, <1>1, <1>2 DEF Owning
  <2>3. \A d \in Callers : p'[d].pc = "count" => row'[p'[d].id].st # "none"
    BY <1>1, <1>2, <1>3, <1>4 DEF CountIInv, Agree, Owning
  <2> QED
    BY <1>1, <1>4, <2>1, <2>2, <2>3 DEF CountIInv, Agree, Owning
<1>6. ASSUME NEW m \in Ids \ {n} PROVE Explained(m)'
  <2>1. \A d \in Callers : p[d].pc = "count" /\ p[d].id = m => p'[d] = p[d]
    BY <1>1 DEF Owning
  <2> QED
    BY <1>1, <1>3, <2>1 DEF CountIInv, Explained
<1>7. Explained(n)'
  <2>1. CASE s \in {"submitted", "in_doubt", "rejected"}
    BY <1>3, <2>1 DEF Explained
  <2>2. CASE s = "accepted"
    BY <1>2, <2>2 DEF Explained
  <2> QED
    BY <2>1, <2>2
<1> QED
  BY <1>5, <1>6, <1>7 DEF CountIInv

LEMMA TakesCount ==
  ASSUME Typed, Owned, CountIInv, NEW c \in Callers, BrokerTakes(c)
  PROVE  CountIInv'
<1> DEFINE n == p[c].id
<1>1. /\ p[c].pc = "sending" /\ n \in Ids
      /\ \A d \in Callers \ {c} : p'[d] = p[d] /\ (p[d].pc \in Owning => p[d].id # n)
      /\ UNCHANGED <<row, crashes>>
      /\ p'[c].pc \in {"taken", "refused", "lost"} /\ p'[c].id = n /\ p'[c].i = p[c].i
  BY StepEffect DEF Owned, Owning, BrokerTakes
<1>2. /\ \A m \in Ids \ {n} : brk'[m] = brk[m]
      /\ brk'[n].st = "working" /\ brk'[n].qty = p[c].i.qty
  BY <1>1 DEF Typed, BrokerTakes
<1>3. row[n].st = "submitted" /\ (row[n].amended \/ row[n].i = p[c].i)
  BY <1>1 DEF Owned, CountIInv, Agree, Owning
<1>4. \A d \in Callers : p[d].pc \in Owning \cup {"count"} => p[d].id \in Ids
  BY DEF Owned
<1> HIDE DEF n
<1>5. Agree'
  <2>1. \A d \in Callers : p'[d].pc \in {"inserted", "sending"}
                             => brk'[p'[d].id].st = "none"
    BY <1>1, <1>2, <1>4 DEF CountIInv, Agree, Owning
  <2>2. \A d \in Callers : p'[d].pc \in Owning \cup {"count"} =>
          /\ p[d].pc \in Owning \cup {"count"} /\ p'[d].id = p[d].id /\ p'[d].i = p[d].i
          /\ p'[d].pc = "count" => p[d].pc = "count"
    BY <1>1 DEF n, Owning
  <2> QED
    BY <1>1, <1>2, <1>3, <2>1, <2>2 DEF CountIInv, Agree
<1>6. ASSUME NEW m \in Ids PROVE Explained(m)'
  <2>1. \A d \in Callers : p[d].pc = "count" /\ p[d].id = m => p'[d] = p[d]
    BY <1>1 DEF Owning
  <2> QED
    BY <1>1, <1>2, <1>3, <2>1 DEF CountIInv, Explained
<1> QED
  BY <1>5, <1>6 DEF CountIInv

\* _bump_daily_notional counts the order, unless an amend has changed it.
LEMMA CountCount ==
  ASSUME Typed, Owned, CountIInv, NEW c \in Callers, Count(c)
  PROVE  CountIInv'
<1>0. PICK n \in Ids : n = p[c].id
  BY DEF Owned, Count
<1>1. /\ p[c].pc = "count" /\ p'[c].pc = "idle"
      /\ \A d \in Callers \ {c} : p'[d] = p[d]
      /\ UNCHANGED <<brk, crashes>>
  BY LeaveEffect DEF Count, market
<1>2. /\ \A m \in Ids \ {n} : row'[m] = row[m]
      /\ row'[n].st = row[n].st /\ row'[n].era = row[n].era /\ row'[n].amended = row[n].amended
      /\ row'[n].i = row[n].i /\ row'[n].counted = Cost(c)
  BY <1>0, <1>1 DEF Typed, RowType, Count
<1>3. \A d \in Callers : p[d].pc \in Owning \cup {"count"} => p[d].id \in Ids
  BY DEF Owned
<1>4. row[n].i.limit = p[c].i.limit /\ (row[n].amended \/ row[n].i = p[c].i)
  BY <1>0, <1>1 DEF CountIInv, Agree
<1>5. brk[n].st # "none" => row[n].amended \/ brk[n].qty = row[n].i.qty
  BY <1>1 DEF CountIInv, Agree
<1>6. Live /\ p[c].i.limit => Cost(c) = p[c].i.qty * Price * RateCeil
  BY DEF Cost, NotionalKrw, Notional
<1>7. Agree'
  <2>1. \A m \in Ids : /\ row'[m].era = row[m].era /\ row'[m].amended = row[m].amended
                       /\ row'[m].i = row[m].i /\ row'[m].st = row[m].st
    BY <1>2
  <2>2. \A d \in Callers : p'[d].pc \in Owning \cup {"count"} => p'[d] = p[d]
    BY <1>1 DEF Owning
  <2> QED
    BY <1>1, <1>3, <2>1, <2>2 DEF CountIInv, Agree, Owning
<1>8. ASSUME NEW m \in Ids \ {n} PROVE Explained(m)'
  BY <1>0, <1>1, <1>2 DEF CountIInv, Explained
<1>9. Explained(n)'
  BY <1>1, <1>2, <1>4, <1>5, <1>6 DEF Explained
<1> QED
  BY <1>7, <1>8, <1>9 DEF CountIInv

\* After a restart every row is of an earlier life of the server.
LEMMA RestartCount ==
  ASSUME Typed, Owned, CountIInv, Restart
  PROVE  CountIInv'
<1>1. /\ \A c \in Callers : p'[c].pc = "idle"
      /\ crashes' = crashes + 1 /\ crashes \in Nat
  BY DEF Restart, Idle, Typed
<1>2. PICK S \in SUBSET Callers : brk' = Arrived(S)
  BY DEF Restart
<1>3. \A n \in Ids : row'[n].i = row[n].i /\ row'[n].era = row[n].era
                     /\ row'[n].amended = row[n].amended
  BY ReconciledRows DEF Restart
<1>4. \A n \in Ids : row[n].era \in Nat /\ row[n].era < crashes'
  BY <1>1 DEF CountIInv, Agree, Typed, RowType
<1>5. ASSUME NEW n \in Ids, brk'[n].st # "none"
      PROVE  row'[n].amended \/ brk'[n].qty = row'[n].i.qty
  BY <1>2, <1>3, <1>5 DEF Arrived, CountIInv, Agree
<1>6. Agree'
  BY <1>1, <1>3, <1>4, <1>5 DEF Agree, Owning
<1>7. \A n \in Ids : Explained(n)'
  BY <1>3, <1>4 DEF Explained
<1> QED
  BY <1>6, <1>7 DEF CountIInv

LEMMA NextCount ==
  ASSUME Typed, Owned, CountIInv, [Next]_vars
  PROVE  CountIInv'
<1> USE DEF Owning, market
<1>id. \A c \in Callers : p[c].pc \in Owning \cup {"count", "amend", "amending"} => p[c].id \in Ids
  BY DEF Owned
<1>1. ASSUME NEW c \in Callers, CallerStep(c)
      PROVE  CountIInv'
  <2>1. CASE Insert(c)
    BY <2>1, InsertCount
  <2>2. CASE Submit(c) \/ RecordAck(c) \/ RecordRefusal(c) \/ RecordDoubt(c)
    BY <2>2, RecordCount
  <2>3. CASE BrokerTakes(c)
    BY <2>3, TakesCount
  <2>4. CASE Count(c)
    BY <2>4, CountCount
  <2>5. CASE ReadPositions(c)
    BY <2>5, ReadEffect, CountKept DEF ReadPositions
  <2>6. CASE GatePasses(c)
    BY <2>6, PassEffect, CountKept DEF GatePasses
  <2>7. CASE GateRefuses(c) \/ SubmitRaises(c) \/ RecordAckRaises(c)
    <3>1. Leave(c) /\ UNCHANGED <<row, brk, crashes>> /\ p[c].pc # "count"
      BY <2>7 DEF GateRefuses, SubmitRaises, RecordAckRaises, Abort
    <3> QED
      BY <3>1, LeaveEffect, CountKept
  <2>8. CASE AmendCheck(c)
    <3>1. /\ Leave(c) \/ Step(c, "amending")
          /\ p[c].pc = "amend" /\ UNCHANGED <<row, brk, crashes>>
      BY <2>8 DEF AmendCheck
    <3> QED
      BY <3>1, LeaveEffect, StepEffect, CountKept
  <2>9. CASE AmendAnswer(c)
    <3>1. p[c].id \in Ids /\ p[c].pc = "amending" /\ Leave(c) /\ UNCHANGED crashes
      BY <1>id, <2>9 DEF AmendAnswer
    <3>2. \A n \in Ids :
           /\ row'[n].st = row[n].st /\ row'[n].counted = row[n].counted
           /\ row'[n].era = row[n].era /\ row'[n].i.limit = row[n].i.limit
           /\ brk'[n].st = brk[n].st
           /\ \/ row'[n].amended
              \/ row'[n] = row[n] /\ brk'[n] = brk[n]
      BY <2>9, <3>1, AmendRows
    <3> QED
      BY <3>1, <3>2, LeaveEffect, CountKept
  <2>10. CASE BrokerRefuses(c)
    <3>1. /\ Step(c, "refused") \/ Step(c, "lost")
          /\ p[c].pc = "sending" /\ UNCHANGED <<row, brk, crashes>>
      BY <2>10 DEF BrokerRefuses
    <3> QED
      BY <3>1, StepEffect, CountKept
  <2> QED
    BY <1>1, <2>1, <2>2, <2>3, <2>4, <2>5, <2>6, <2>7, <2>8, <2>9, <2>10 DEF CallerStep
<1>2. ASSUME NEW c \in Clients, AskClient(c) PROVE CountIInv'
  <2>1. c \in Callers /\ \E i \in Intents : Ask(c, i)
    BY <1>2 DEF AskClient, Callers
  <2>2. UNCHANGED <<row, brk, crashes>>
    BY <1>2 DEF AskClient
  <2> QED
    BY <2>1, <2>2, AskEffect, CountKept
<1>3. ASSUME NEW c \in Clients, NEW n \in Ids, NEW q \in AmendQty, AmendRead(c, n, q)
      PROVE  CountIInv'
  <2>1. c \in Callers
    BY DEF Callers
  <2>2. /\ p'[c].pc = "amend" /\ p[c].pc = "idle"
        /\ \A d \in Callers \ {c} : p'[d] = p[d]
    BY <1>3, <2>1, AmendEffect
  <2>3. UNCHANGED <<row, brk, crashes>>
    BY <1>3 DEF AmendRead
  <2> QED
    BY <2>2, <2>3, CountKept
<1>4. ASSUME NEW k \in Cycles, RunOnce(k) PROVE CountIInv'
  BY <1>4, CountKept DEF RunOnce
<1>5. ASSUME NEW k \in Cycles, AskCycle(k) PROVE CountIInv'
  <2>1. k \in Callers /\ \E i \in signals[k] : Ask(k, i)
    BY <1>5 DEF AskCycle, Callers
  <2>2. UNCHANGED <<row, brk, crashes>>
    BY <1>5 DEF AskCycle
  <2> QED
    BY <2>1, <2>2, AskEffect, CountKept
<1>6. ASSUME NEW n \in Ids, Execute(n) PROVE CountIInv'
  <2>1. \A m \in Ids : brk'[m].qty = brk[m].qty /\ (brk'[m].st = "none" <=> brk[m].st = "none")
    BY <1>6 DEF Execute, Typed, BrkType
  <2> QED
    BY <1>6, <2>1, CountKept DEF Execute
<1>7. ASSUME NEW n \in Ids, Cancel(n) PROVE CountIInv'
  <2>1. \A m \in Ids :
          /\ brk'[m].qty = brk[m].qty /\ (brk'[m].st = "none" <=> brk[m].st = "none")
          /\ row'[m].era = row[m].era /\ row'[m].i = row[m].i
          /\ row'[m].counted = row[m].counted /\ row'[m].amended = row[m].amended
          /\ row'[m].st = row[m].st \/ (row[m].st = "accepted" /\ row'[m].st = "canceled")
    BY <1>7 DEF Cancel, Typed, BrkType, RowType
  <2>2. p' = p /\ crashes' = crashes
    BY <1>7 DEF Cancel
  <2> QED
    BY <2>1, <2>2, CountKept
<1>8. CASE Reconcile
  <2>1. \A m \in Ids :
          /\ row'[m].era = row[m].era /\ row'[m].i = row[m].i
          /\ row'[m].counted = row[m].counted /\ row'[m].amended = row[m].amended
          /\ row'[m].st = row[m].st \/ (row[m].st = "accepted" /\ row'[m].st = "filled")
    BY <1>8, ReconciledRows DEF Reconcile
  <2>2. p' = p /\ crashes' = crashes /\ brk' = brk
    BY <1>8 DEF Reconcile
  <2> QED
    BY <2>1, <2>2, CountKept
<1>9. CASE ArmOrDisarm
  BY <1>9, CountKept DEF ArmOrDisarm
<1>10. CASE Restart
  BY <1>10, RestartCount
<1>11. CASE UNCHANGED vars
  BY <1>11, CountKept DEF vars
<1> QED
  BY <1>1, <1>2, <1>3, <1>4, <1>5, <1>6, <1>7, <1>8, <1>9, <1>10, <1>11 DEF Next

\* What the broker holds and the daily notional does not is always one of
\* six cases: no answer recorded, an answer taken for a failure (_ack of the
\* adapters), place still on its way, a crash since, an amend, an order at
\* the market (order_service.py place and amend).
THEOREM UncountedIsAlwaysExplained == Spec => []UncountedIsExplained
<1>1. Init => Typed /\ Owned /\ CountIInv
  BY InitTyped, InitOwned, InitCount
<1>2. Typed /\ Owned /\ CountIInv /\ [Next]_vars => (Typed /\ Owned /\ CountIInv)'
  BY NextTyped, NextOwned, NextCount
<1>3. CountIInv => UncountedIsExplained
  BY DEF CountIInv, Explained, UncountedIsExplained
<1> QED
  BY <1>1, <1>2, <1>3, PTL DEF Spec

------------------------------------------------------------------------------
(* Short positions. *)

Exit(n, s) ==
  row[n].st # "none" /\ row[n].skip /\ row[n].i.sym = s /\ row[n].i.side = "sell"

\* As long as nothing has been sold of a symbol, what is held only grows: no
\* older reading of the position, and no exit let pass by one, exceeds it.
Covered(s) ==
  Sales(s) = {} =>
    /\ 0 <= held[s] /\ pos[s] <= held[s]
    /\ \A c \in Callers : p[c].pc = "gate" => p[c].ctx.pos[s].qty <= held[s]
    /\ \A c \in Callers :
         p[c].pc = "passed" /\ p[c].skip /\ p[c].i.sym = s /\ p[c].i.side = "sell"
           => p[c].i.qty <= held[s]
    /\ \A n \in Ids : Exit(n, s) /\ ~row[n].amended => row[n].i.qty <= held[s]

ShortIInv == (\A s \in Symbols : Covered(s)) /\ ShortHasACause

LEMMA InitShort == Init => ShortIInv
<1> SUFFICES ASSUME Init PROVE ShortIInv
  OBVIOUS
<1>1. \A s \in Symbols : held[s] = pos[s] /\ held[s] \in Nat
  BY EntryAssumption DEF Init
<1>2. \A c \in Callers : p[c].pc = "idle"
  BY DEF Init, Idle
<1>3. \A n \in Ids : row[n].st = "none"
  BY DEF Init, NoRow
<1> QED
  BY <1>1, <1>2, <1>3 DEF ShortIInv, Covered, Exit, ShortHasACause

\* The orders that are done are the same, and cause as much.
LEMMA ShortKept ==
  ASSUME Typed, ShortIInv, UNCHANGED held,
         \A s \in Symbols : pos'[s] \in {pos[s], held[s]},
         \A n \in Ids :
           /\ brk'[n].st = "done" <=> brk[n].st = "done"
           /\ row[n].st # "none" \/ brk[n].st = "done" =>
                /\ row'[n].i.sym = row[n].i.sym /\ row'[n].i.side = row[n].i.side
                /\ row'[n].skip = row[n].skip
                /\ row'[n].amended \/ (row'[n].i = row[n].i
                                       /\ row'[n].amended = row[n].amended)
           /\ row'[n].st # "none" => row[n].st # "none",
         \A c \in Callers :
           \/ p'[c].pc \notin {"gate", "passed"}
           \/ p'[c] = p[c]
  PROVE  ShortIInv'
<1>1. \A s \in Symbols : Sales(s)' = Sales(s)
  BY DEF Sales
<1>2. ASSUME NEW s \in Symbols PROVE Covered(s)'
  <2> SUFFICES ASSUME Sales(s)' = {} PROVE Covered(s)'
    BY DEF Covered
  <2>1. /\ 0 <= held[s] /\ pos[s] <= held[s]
        /\ \A c \in Callers : p[c].pc = "gate" => p[c].ctx.pos[s].qty <= held[s]
        /\ \A c \in Callers :
             p[c].pc = "passed" /\ p[c].skip /\ p[c].i.sym = s /\ p[c].i.side = "sell"
               => p[c].i.qty <= held[s]
        /\ \A n \in Ids : Exit(n, s) /\ ~row[n].amended => row[n].i.qty <= held[s]
    BY <1>1 DEF ShortIInv, Covered
  <2>2. held[s] \in Int /\ held' = held
    BY DEF Typed
  <2>3. \A n \in Ids : (Exit(n, s) /\ ~row[n].amended)'
                         => Exit(n, s) /\ ~row[n].amended /\ row'[n].i = row[n].i
    BY DEF Exit
  <2> QED
    BY <2>1, <2>2, <2>3 DEF Covered
<1>3. ShortHasACause'
  <2>1. ASSUME NEW s \in Symbols, NEW n \in Sales(s), row[n].amended \/ ~row[n].skip
        PROVE  row'[n].amended \/ ~row'[n].skip
    BY <2>1 DEF Sales
  <2> QED
    BY <1>1, <2>1 DEF ShortIInv, ShortHasACause
<1> QED
  BY <1>2, <1>3 DEF ShortIInv

\* The gate lets an exit pass that is no larger than the position it read.
LEMMA GateShort ==
  ASSUME Typed, ShortIInv, NEW c \in Callers, ReadPositions(c) \/ GatePasses(c)
  PROVE  ShortIInv'
<1>1. UNCHANGED <<row, brk, held, pos>>
  BY DEF ReadPositions, GatePasses, market
<1>2. /\ \A d \in Callers \ {c} : p'[d] = p[d]
      /\ \/ /\ p'[c].pc = "gate"
            /\ \A s \in Symbols : p'[c].ctx.pos[s].qty = pos[s]
         \/ /\ p[c].pc = "gate" /\ p'[c].pc = "passed"
            /\ p'[c].i = p[c].i /\ p'[c].skip = Skips(c)
  <2>1. \A marks \in Marks : \A s \in Symbols : Marked(marks)[s].qty = pos[s]
    BY DEF Marked
  <2>2. CASE ReadPositions(c)
    BY <2>1, <2>2, ReadEffect
  <2>3. CASE GatePasses(c)
    BY <2>3, PassEffect
  <2> QED
    BY <2>2, <2>3
<1>3. \A s \in Symbols : Sales(s)' = Sales(s)
  BY <1>1 DEF Sales
<1>4. ASSUME NEW s \in Symbols PROVE Covered(s)'
  <2> SUFFICES ASSUME Sales(s) = {} PROVE Covered(s)'
    BY <1>3 DEF Covered
  <2>1. /\ 0 <= held[s] /\ pos[s] <= held[s]
        /\ \A d \in Callers : p[d].pc = "gate" => p[d].ctx.pos[s].qty <= held[s]
        /\ \A d \in Callers :
             p[d].pc = "passed" /\ p[d].skip /\ p[d].i.sym = s /\ p[d].i.side = "sell"
               => p[d].i.qty <= held[s]
        /\ \A n \in Ids : Exit(n, s) /\ ~row[n].amended => row[n].i.qty <= held[s]
    BY DEF ShortIInv, Covered
  <2>2. ASSUME p'[c].pc = "passed", p'[c].skip, p'[c].i.sym = s, p'[c].i.side = "sell"
        PROVE  p'[c].i.qty <= held[s]
    <3>1. p[c].pc = "gate" /\ Skips(c) /\ p'[c].i = p[c].i
      BY <1>2, <2>2
    <3>2. p[c].i.qty <= p[c].ctx.pos[s].qty
      BY <2>2, <3>1 DEF Skips, ReduceOnly
    <3>3. p[c].ctx.pos[s].qty <= held[s]
      BY <2>1, <3>1
    <3>4. p[c].i.qty \in Int /\ p[c].ctx.pos[s].qty \in Int /\ held[s] \in Int
      BY DEF Typed, PlaceOver, CtxOver, PosType, IntentType
    <3> QED
      BY <3>1, <3>2, <3>3, <3>4
  <2>3. p'[c].pc = "gate" => p'[c].ctx.pos[s].qty <= held[s]
    BY <1>2, <2>1
  <2>4. \A n \in Ids : (Exit(n, s) /\ ~row[n].amended)' <=> Exit(n, s) /\ ~row[n].amended
    BY <1>1 DEF Exit
  <2> QED
    BY <1>1, <1>2, <2>1, <2>2, <2>3, <2>4 DEF Covered
<1>5. ShortHasACause'
  BY <1>1, <1>3 DEF ShortIInv, ShortHasACause
<1> QED
  BY <1>4, <1>5 DEF ShortIInv

LEMMA InsertShort ==
  ASSUME Typed, Owned, ShortIInv, NEW c \in Callers, Insert(c)
  PROVE  ShortIInv'
<1>1. PICK n \in Ids :
        /\ row[n].st = "none"
        /\ row' = [row EXCEPT ![n] = row'[n]]
        /\ row'[n].i = p[c].i /\ row'[n].skip = p[c].skip
        /\ p[c].pc = "passed" /\ p'[c].pc = "inserted"
        /\ \A d \in Callers \ {c} : p'[d] = p[d]
  BY InsertEffect
<1>2. \A m \in Ids \ {n} : row'[m] = row[m]
  BY <1>1 DEF Typed
<1>3. UNCHANGED <<brk, held, pos>> /\ brk[n].st = "none"
  BY <1>1 DEF Insert, market, Owned
<1>4. \A s \in Symbols : Sales(s)' = Sales(s)
  BY <1>2, <1>3 DEF Sales
<1>5. ASSUME NEW s \in Symbols PROVE Covered(s)'
  <2> SUFFICES ASSUME Sales(s) = {} PROVE Covered(s)'
    BY <1>4 DEF Covered
  <2>1. /\ 0 <= held[s] /\ pos[s] <= held[s]
        /\ \A d \in Callers : p[d].pc = "gate" => p[d].ctx.pos[s].qty <= held[s]
        /\ \A d \in Callers :
             p[d].pc = "passed" /\ p[d].skip /\ p[d].i.sym = s /\ p[d].i.side = "sell"
               => p[d].i.qty <= held[s]
        /\ \A m \in Ids : Exit(m, s) /\ ~row[m].amended => row[m].i.qty <= held[s]
    BY DEF ShortIInv, Covered
  <2>2. \A m \in Ids : (Exit(m, s) /\ ~row[m].amended)' => row'[m].i.qty <= held[s]
    BY <1>1, <1>2, <2>1 DEF Exit
  <2>3. \A d \in Callers : p'[d].pc \in {"gate", "passed"} => p'[d] = p[d]
    BY <1>1
  <2> QED
    BY <1>3, <2>1, <2>2, <2>3 DEF Covered
<1>6. ShortHasACause'
  BY <1>2, <1>3, <1>4 DEF ShortIInv, ShortHasACause, Sales
<1> QED
  BY <1>5, <1>6 DEF ShortIInv

LEMMA SalesFinite == \A s : IsFiniteSet(Sales(s)) /\ Cardinality(Sales(s)) \in Nat
<1>1. IsFiniteSet(Ids)
  BY FS_Interval, EntryAssumption DEF Ids
<1> QED
  BY <1>1, FS_Subset, FS_CardinalityType DEF Sales

\* The first sale of a symbol is covered unless it was amended or passed as
\* an entry; the second one is a cause by itself.
LEMMA ExecuteShort ==
  ASSUME Typed, Owned, Agree, ShortIInv, NEW n \in Ids, Execute(n)
  PROVE  ShortIInv'
<1> DEFINE i == row[n].i
           q == brk[n].qty
<1>1. /\ brk[n].st = "working" /\ brk'[n].st = "done"
      /\ \A m \in Ids \ {n} : brk'[m] = brk[m]
      /\ UNCHANGED <<p, row, pos>>
      /\ held' = [held EXCEPT ![i.sym] = held[i.sym] + IF i.side = "buy" THEN q ELSE -q]
  BY DEF Execute, Typed, BrkType
<1>2. /\ q \in Nat /\ i.sym \in Symbols /\ i.side \in {"buy", "sell"} /\ i.qty \in Nat
      /\ row[n].st # "none" /\ (row[n].amended \/ q = i.qty)
      /\ row[n].amended \in BOOLEAN /\ row[n].skip \in BOOLEAN
      /\ \A s \in Symbols : held[s] \in Int /\ pos[s] \in Int
  BY <1>1 DEF Typed, BrkType, RowType, IntentType, Owned, Agree
<1> HIDE DEF i, q
<1>3. \A s \in Symbols :
        IF i.sym = s /\ i.side = "sell"
        THEN n \notin Sales(s) /\ Sales(s)' = Sales(s) \cup {n} /\ held'[s] = held[s] - q
        ELSE Sales(s)' = Sales(s) /\ held'[s] \in Int /\ held'[s] >= held[s]
  <2> SUFFICES ASSUME NEW s \in Symbols
               PROVE IF i.sym = s /\ i.side = "sell"
                     THEN n \notin Sales(s) /\ Sales(s)' = Sales(s) \cup {n} /\ held'[s] = held[s] - q
                     ELSE Sales(s)' = Sales(s) /\ held'[s] \in Int /\ held'[s] >= held[s]
    OBVIOUS
  <2>1. CASE i.sym = s /\ i.side = "sell"
    <3>1. n \notin Sales(s) /\ Sales(s)' = Sales(s) \cup {n}
      BY <1>1, <2>1 DEF Sales, i
    <3>2. held'[s] = held[s] - q
      BY <1>1, <1>2, <2>1 DEF Typed
    <3> QED
      BY <2>1, <3>1, <3>2
  <2>2. CASE ~(i.sym = s /\ i.side = "sell")
    <3>1. Sales(s)' = Sales(s)
      BY <1>1, <2>2 DEF Sales, i
    <3>2. held'[s] = held[s] \/ held'[s] = held[s] + q
      BY <1>1, <1>2, <2>2 DEF Typed
    <3> QED
      BY <1>2, <2>2, <3>1, <3>2
  <2> QED
    BY <2>1, <2>2
<1>4. ASSUME NEW s \in Symbols PROVE Covered(s)'
  <2> SUFFICES ASSUME Sales(s)' = {} PROVE Covered(s)'
    BY DEF Covered
  <2>1. Sales(s) = {} /\ held'[s] \in Int /\ held'[s] >= held[s]
    BY <1>3
  <2>2. /\ 0 <= held[s] /\ pos[s] <= held[s]
        /\ \A d \in Callers : p[d].pc = "gate" => p[d].ctx.pos[s].qty <= held[s]
        /\ \A d \in Callers :
             p[d].pc = "passed" /\ p[d].skip /\ p[d].i.sym = s /\ p[d].i.side = "sell"
               => p[d].i.qty <= held[s]
        /\ \A m \in Ids : Exit(m, s) /\ ~row[m].amended => row[m].i.qty <= held[s]
    BY <2>1 DEF ShortIInv, Covered
  <2>3. /\ \A d \in Callers : p[d].ctx.pos[s].qty \in Int /\ p[d].i.qty \in Int
        /\ \A m \in Ids : row[m].i.qty \in Int
    BY DEF Typed, PlaceOver, CtxOver, PosType, RowType, IntentType
  <2>4. \A m \in Ids : Exit(m, s)' <=> Exit(m, s)
    BY <1>1 DEF Exit
  <2>5. \A x \in Int : x <= held[s] => x <= held'[s]
    BY <1>2, <2>1
  <2> QED
    BY <1>1, <1>2, <2>2, <2>3, <2>4, <2>5 DEF Covered
<1>5. ASSUME NEW s \in Symbols, held'[s] < 0
      PROVE  \/ Cardinality(Sales(s)') >= 2
             \/ \E m \in Sales(s)' : row'[m].amended \/ ~row'[m].skip
  <2>1. CASE ~(i.sym = s /\ i.side = "sell")
    <3>1. held[s] < 0 /\ Sales(s)' = Sales(s)
      BY <1>2, <1>3, <1>5, <2>1
    <3> QED
      BY <1>1, <3>1 DEF ShortIInv, ShortHasACause
  <2>2. CASE i.sym = s /\ i.side = "sell" /\ Sales(s) = {}
    <3>1. n \in Sales(s)' /\ held'[s] = held[s] - q
      BY <1>3, <2>2
    <3>2. Exit(n, s) /\ ~row[n].amended => i.qty <= held[s]
      BY <2>2 DEF ShortIInv, Covered, i
    <3>3. row[n].amended \/ ~row[n].skip
      BY <1>2, <1>5, <2>2, <3>1, <3>2 DEF Exit, i
    <3> QED
      BY <1>1, <3>1, <3>3
  <2>3. CASE i.sym = s /\ i.side = "sell" /\ Sales(s) # {}
    <3>1. n \notin Sales(s) /\ Sales(s)' = Sales(s) \cup {n}
      BY <1>3, <2>3
    <3>2. Cardinality(Sales(s)') = Cardinality(Sales(s)) + 1
      BY <3>1, SalesFinite, FS_AddElement
    <3>3. Cardinality(Sales(s)) \in Nat /\ Cardinality(Sales(s)) # 0
      BY <2>3, SalesFinite, FS_EmptySet
    <3> QED
      BY <3>2, <3>3
  <2> QED
    BY <2>1, <2>2, <2>3
<1>6. ShortHasACause'
  BY <1>5 DEF ShortHasACause
<1> QED
  BY <1>4, <1>6 DEF ShortIInv

LEMMA CallerShort ==
  ASSUME Typed, Owned, CountIInv, ShortIInv, NEW c \in Callers, CallerStep(c)
  PROVE  ShortIInv'
<1> USE DEF market
<1>id. p[c].pc \in Owning \cup {"count", "amend", "amending"} => p[c].id \in Ids
  BY DEF Owned
<1>1. CASE ReadPositions(c) \/ GatePasses(c)
  BY <1>1, GateShort
<1>2. CASE Insert(c)
  BY <1>2, InsertShort
<1>3. CASE GateRefuses(c) \/ SubmitRaises(c) \/ RecordAckRaises(c)
  <2>1. Leave(c) /\ UNCHANGED <<row, brk, held, pos>>
    BY <1>3 DEF GateRefuses, SubmitRaises, RecordAckRaises, Abort
  <2> QED
    BY <2>1, LeaveEffect, ShortKept
<1>4. CASE Submit(c) \/ RecordAck(c) \/ RecordRefusal(c) \/ RecordDoubt(c)
  <2>1. PICK s \in RowStatus \ {"none"} :
          /\ row' = [row EXCEPT ![p[c].id].st = s] /\ p[c].id \in Ids
          /\ p'[c].pc \in {"sending", "count", "idle"}
          /\ \A d \in Callers \ {c} : p'[d] = p[d]
          /\ UNCHANGED <<brk, held, pos>>
    BY <1>4, <1>id, StepEffect, LeaveEffect
    DEF Submit, RecordAck, RecordRefusal, RecordDoubt, RowStatus, Owning
  <2>2. row[p[c].id].st # "none"
    BY <1>4 DEF Owned, Owning, Submit, RecordAck, RecordRefusal, RecordDoubt
  <2>3. \A n \in Ids : /\ row'[n].i = row[n].i /\ row'[n].skip = row[n].skip
                       /\ row'[n].amended = row[n].amended
                       /\ row'[n].st # "none" => row[n].st # "none"
    BY <2>1, <2>2 DEF Typed, RowType
  <2> QED
    BY <2>1, <2>3, ShortKept
<1>5. CASE Count(c)
  <2>1. \A n \in Ids : /\ row'[n].i = row[n].i /\ row'[n].skip = row[n].skip
                       /\ row'[n].amended = row[n].amended /\ row'[n].st = row[n].st
    BY <1>5, <1>id DEF Count, Typed, RowType
  <2>2. /\ p'[c].pc = "idle" /\ \A d \in Callers \ {c} : p'[d] = p[d]
        /\ UNCHANGED <<brk, held, pos>>
    BY <1>5, LeaveEffect DEF Count
  <2> QED
    BY <2>1, <2>2, ShortKept
<1>6. CASE AmendCheck(c) \/ BrokerRefuses(c)
  <2>1. /\ Leave(c) \/ Step(c, "amending") \/ Step(c, "refused") \/ Step(c, "lost")
        /\ UNCHANGED <<row, brk, held, pos>>
    BY <1>6 DEF AmendCheck, BrokerRefuses
  <2>2. p'[c].pc \notin {"gate", "passed"} /\ \A d \in Callers \ {c} : p'[d] = p[d]
    BY <2>1, LeaveEffect, StepEffect
  <2> QED
    BY <2>1, <2>2, ShortKept
<1>7. CASE AmendAnswer(c)
  <2>1. /\ p[c].id \in Ids /\ Leave(c) /\ UNCHANGED <<held, pos>>
    BY <1>7, <1>id DEF AmendAnswer
  <2>2. \A n \in Ids :
           /\ row'[n].st = row[n].st /\ row'[n].skip = row[n].skip
           /\ row'[n].i.sym = row[n].i.sym /\ row'[n].i.side = row[n].i.side
           /\ brk'[n].st = brk[n].st
           /\ \/ row'[n].amended
              \/ row'[n] = row[n] /\ brk'[n] = brk[n]
    BY <1>7, <2>1, AmendRows
  <2> QED
    BY <2>1, <2>2, LeaveEffect, ShortKept
<1>8. CASE BrokerTakes(c)
  <2>1. /\ p[c].pc = "sending" /\ p[c].id \in Ids
        /\ Step(c, "taken") \/ Step(c, "refused") \/ Step(c, "lost")
        /\ UNCHANGED <<row, held, pos>>
    BY <1>8, <1>id DEF BrokerTakes, Owning
  <2>2. brk[p[c].id].st = "none"
    BY <2>1 DEF CountIInv, Agree
  <2>3. \A n \in Ids : brk'[n].st = "done" <=> brk[n].st = "done"
    BY <1>8, <2>1, <2>2 DEF BrokerTakes, Typed
  <2> QED
    BY <2>1, <2>3, StepEffect, ShortKept
<1> QED
  BY <1>1, <1>2, <1>3, <1>4, <1>5, <1>6, <1>7, <1>8 DEF CallerStep

LEMMA NextShort ==
  ASSUME Typed, Owned, CountIInv, ShortIInv, [Next]_vars
  PROVE  ShortIInv'
<1> USE DEF market
<1>1. ASSUME NEW c \in Callers, CallerStep(c) PROVE ShortIInv'
  BY <1>1, CallerShort
<1>2. ASSUME NEW c \in Callers, NEW i, Ask(c, i), UNCHANGED <<row, brk, held, pos>>
      PROVE  ShortIInv'
  BY <1>2, AskEffect, ShortKept
<1>3. ASSUME NEW c \in Clients, AskClient(c) PROVE ShortIInv'
  BY <1>2, <1>3 DEF AskClient, Callers
<1>4. ASSUME NEW k \in Cycles, AskCycle(k) PROVE ShortIInv'
  BY <1>2, <1>4 DEF AskCycle, Callers
<1>5. ASSUME NEW c \in Clients, NEW n \in Ids, NEW q \in AmendQty, AmendRead(c, n, q)
      PROVE  ShortIInv'
  <2>1. c \in Callers
    BY DEF Callers
  <2>2. p'[c].pc = "amend" /\ \A d \in Callers \ {c} : p'[d] = p[d]
    BY <1>5, <2>1, AmendEffect
  <2>3. UNCHANGED <<row, brk, held, pos>>
    BY <1>5 DEF AmendRead
  <2> QED
    BY <2>2, <2>3, ShortKept
<1>6. ASSUME NEW k \in Cycles, RunOnce(k) PROVE ShortIInv'
  BY <1>6, ShortKept DEF RunOnce
<1>7. ASSUME NEW n \in Ids, Execute(n) PROVE ShortIInv'
  BY <1>7, ExecuteShort DEF CountIInv
<1>8. ASSUME NEW n \in Ids, Cancel(n) PROVE ShortIInv'
  <2>1. \A m \in Ids :
          /\ brk'[m].st = "done" <=> brk[m].st = "done"
          /\ row'[m].i = row[m].i /\ row'[m].skip = row[m].skip
          /\ row'[m].amended = row[m].amended
          /\ row'[m].st # "none" => row[m].st # "none"
    BY <1>8 DEF Cancel, Typed, BrkType, RowType
  <2>2. UNCHANGED <<p, held, pos>>
    BY <1>8 DEF Cancel
  <2> QED
    BY <2>1, <2>2, ShortKept
<1>9. \A s \in Symbols : SyncedPositions[s] \in {pos[s], held[s]}
  BY DEF SyncedPositions
<1>10. \A m \in Ids :
          \A r \in {Reconciled(m), Booted(m)} :
             /\ r.i = row[m].i /\ r.skip = row[m].skip /\ r.amended = row[m].amended
             /\ r.st # "none" => row[m].st # "none"
  BY ReconciledRows
<1>11. CASE Reconcile
  BY <1>9, <1>10, <1>11, ShortKept DEF Reconcile
<1>12. CASE ArmOrDisarm
  BY <1>12, ShortKept DEF ArmOrDisarm
<1>13. CASE Restart
  <2>1. PICK S \in SUBSET Callers : brk' = Arrived(S)
    BY <1>13 DEF Restart
  <2>2. \A n \in Ids : brk'[n].st = "done" <=> brk[n].st = "done"
    BY <2>1 DEF Arrived, CountIInv, Agree
  <2>3. \A c \in Callers : p'[c].pc = "idle"
    BY <1>13 DEF Restart, Idle
  <2>4. held' = held /\ pos' = SyncedPositions /\ row' = [n \in Ids |-> Booted(n)]
    BY <1>13 DEF Restart
  <2> QED
    BY <1>9, <1>10, <2>2, <2>3, <2>4, ShortKept
<1>14. CASE UNCHANGED vars
  BY <1>14, ShortKept DEF vars
<1> QED
  BY <1>1, <1>3, <1>4, <1>5, <1>6, <1>7, <1>8, <1>11, <1>12, <1>13, <1>14 DEF Next

\* Reduce-only looks at one order and one reading of the position: an
\* account that goes short has sold a symbol twice, or amended the sale, or
\* sold as an entry (gate.py _reduce_only_ok, check_amend).
THEOREM ShortAlwaysHasACause == Spec => []ShortHasACause
<1>1. Init => Typed /\ Owned /\ CountIInv /\ ShortIInv
  BY InitTyped, InitOwned, InitCount, InitShort
<1>2. Typed /\ Owned /\ CountIInv /\ ShortIInv /\ [Next]_vars
        => (Typed /\ Owned /\ CountIInv /\ ShortIInv)'
  BY NextTyped, NextOwned, NextCount, NextShort
<1>3. ShortIInv => ShortHasACause
  BY DEF ShortIInv
<1> QED
  BY <1>1, <1>2, <1>3, PTL DEF Spec

------------------------------------------------------------------------------
(* The sum over the open orders in a context.                               *)

LEMMA Least ==
  ASSUME NEW T, T \subseteq Nat, T # {}
  PROVE  \E m \in T : \A n \in T : m <= n
<1>1. PICK m \in T : \A n \in T : ~ (<<n, m>> \in OpToRel(<, Nat))
  BY WFMin, NatLessThanWellFounded, Zenon
<1>2. m \in Nat /\ T \subseteq Nat
  OBVIOUS
<1>3. \A n \in T : <<n, m>> \in OpToRel(<, Nat) <=> n < m
  BY <1>2 DEF OpToRel
<1>4. \A n \in T : ~ (n < m)
  BY <1>1, <1>3, Zenon
<1>5. \A n \in T : m <= n
  BY <1>2, <1>4
<1> QED
  BY <1>5

LEMMA SetInduction ==
  ASSUME NEW T, 0 \in T, \A n \in Nat : n \in T => n + 1 \in T
  PROVE  \A n \in Nat : n \in T
<1> DEFINE B == Nat \ T
<1> SUFFICES ASSUME B # {} PROVE FALSE
  OBVIOUS
<1>1. B \subseteq Nat
  OBVIOUS
<1> HIDE DEF B
<1>2. PICK m \in B : \A n \in B : m <= n
  BY <1>1, Least
<1> USE DEF B
<1>3. m \in Nat /\ m # 0
  OBVIOUS
<1>4. m - 1 \in Nat /\ m - 1 < m /\ (m - 1) + 1 = m
  BY <1>3
<1>5. m - 1 \in T
  BY <1>2, <1>4
<1> QED
  BY <1>4, <1>5

\* A family of subsets that holds a set with all smaller ones holds them all.
LEMMA SubsetInduction ==
  ASSUME NEW S, IsFiniteSet(S), NEW P,
         \A s \in SUBSET S :
           (\A t \in SUBSET S : Cardinality(t) < Cardinality(s) => t \in P) => s \in P
  PROVE  \A s \in SUBSET S : s \in P
<1> DEFINE C == {Cardinality(s) : s \in {t \in SUBSET S : t \notin P}}
<1> SUFFICES ASSUME NEW u \in SUBSET S, u \notin P PROVE FALSE
  OBVIOUS
<1>1. \A s \in SUBSET S : Cardinality(s) \in Nat
  BY FS_Subset, FS_CardinalityType
<1>2. C \subseteq Nat /\ C # {}
  BY <1>1
<1>3. \A s \in SUBSET S : s \notin P => Cardinality(s) \in C
  OBVIOUS
<1>4. \A k \in C : \E s \in SUBSET S : s \notin P /\ Cardinality(s) = k
  OBVIOUS
<1> HIDE DEF C
<1>5. PICK m \in C : \A n \in C : m <= n
  BY <1>2, Least
<1>6. PICK s \in SUBSET S : s \notin P /\ Cardinality(s) = m
  BY <1>4
<1>7. \A t \in SUBSET S : Cardinality(t) < Cardinality(s) => t \in P
  <2> SUFFICES ASSUME NEW t \in SUBSET S, Cardinality(t) < m, t \notin P PROVE FALSE
    BY <1>6
  <2>1. m <= Cardinality(t)
    BY <1>3, <1>5
  <2> QED
    BY <1>1, <1>2, <2>1
<1> QED
  BY <1>6, <1>7

Any(s) == CHOOSE x \in s : TRUE

\* g sums w over the subsets of S, as MapThenSumSet does.
SumFun(w, S, g) ==
  g = [s \in SUBSET S |-> IF s = {} THEN 0 ELSE w[Any(s)] + g[s \ {Any(s)}]]

LEMMA AnyOf ==
  ASSUME NEW S, IsFiniteSet(S), NEW s \in SUBSET S, s # {}
  PROVE  /\ Any(s) \in s /\ s \ {Any(s)} \in SUBSET S
         /\ Cardinality(s) \in Nat \ {0}
         /\ Cardinality(s \ {Any(s)}) = Cardinality(s) - 1
<1>1. Any(s) \in s
  BY DEF Any
<1>2. IsFiniteSet(s) /\ Cardinality(s) \in Nat /\ Cardinality(s) # 0
  BY FS_Subset, FS_CardinalityType, FS_EmptySet
<1>3. Cardinality(s \ {Any(s)}) = Cardinality(s) - 1
  BY <1>1, <1>2, FS_RemoveElement
<1> QED
  BY <1>1, <1>2, <1>3

LEMMA SumFunExists ==
  ASSUME NEW S, IsFiniteSet(S), NEW w
  PROVE  \E g : SumFun(w, S, g)
<1> DEFINE Upto(n) == {s \in SUBSET S : Cardinality(s) <= n}
           F(n, g) == g = [s \in Upto(n) |-> IF s = {} THEN 0 ELSE w[Any(s)] + g[s \ {Any(s)}]]
           T == {n \in Nat : \E g : F(n, g)}
<1>0. \A s \in SUBSET S : Cardinality(s) \in Nat /\ (Cardinality(s) = 0 <=> s = {})
  BY FS_Subset, FS_CardinalityType, FS_EmptySet
<1>1. 0 \in T
  <2> DEFINE g == [s \in Upto(0) |-> 0]
  <2>1. \A s \in Upto(0) : s = {}
    BY <1>0
  <2>2. \A s \in Upto(0) : g[s] = IF s = {} THEN 0 ELSE w[Any(s)] + g[s \ {Any(s)}]
    BY <2>1
  <2>3. g = [s \in Upto(0) |-> g[s]]
    OBVIOUS
  <2> HIDE DEF g, Upto
  <2>4. F(0, g)
    BY <2>2, <2>3
  <2> HIDE DEF F
  <2> QED
    BY <2>4
<1>2. ASSUME NEW n \in Nat, n \in T PROVE n + 1 \in T
  <2>1. PICK h : F(n, h)
    BY <1>2
  <2> DEFINE g == [s \in Upto(n + 1) |-> IF s = {} THEN 0 ELSE w[Any(s)] + h[s \ {Any(s)}]]
  <2>2. \A s \in Upto(n) : s \in Upto(n + 1) /\ h[s] = g[s]
    <3>1. \A s \in Upto(n) : s \in Upto(n + 1)
      BY <1>0
    <3>2. \A s \in Upto(n) : h[s] = IF s = {} THEN 0 ELSE w[Any(s)] + h[s \ {Any(s)}]
      <4> HIDE DEF Upto
      <4> QED
        BY <2>1
    <3> HIDE DEF Upto
    <3> QED
      BY <3>1, <3>2
  <2>3. \A s \in Upto(n + 1) : s # {} => s \ {Any(s)} \in Upto(n)
    BY <1>0, AnyOf
  <2> HIDE DEF Upto
  <2>4. \A s \in Upto(n + 1) : g[s] = IF s = {} THEN 0 ELSE w[Any(s)] + g[s \ {Any(s)}]
    BY <2>2, <2>3
  <2>5. g = [s \in Upto(n + 1) |-> g[s]]
    OBVIOUS
  <2> HIDE DEF g
  <2>6. F(n + 1, g)
    BY <2>4, <2>5
  <2> HIDE DEF F
  <2> QED
    BY <2>6
<1> HIDE DEF T
<1>3. Cardinality(S) \in T
  BY <1>1, <1>2, SetInduction, FS_CardinalityType
<1> USE DEF T
<1>4. PICK g : F(Cardinality(S), g)
  BY <1>3
<1>5. Upto(Cardinality(S)) = SUBSET S
  BY FS_Subset
<1> HIDE DEF Upto
<1> QED
  BY <1>4, <1>5 DEF SumFun

LEMMA SumsEq ==
  ASSUME NEW S, NEW w, NEW g, SumFun(w, S, g)
  PROVE  /\ g[{}] = 0
         /\ \A s \in SUBSET S : s # {} => g[s] = w[Any(s)] + g[s \ {Any(s)}]
<1>1. g = [s \in SUBSET S |-> IF s = {} THEN 0 ELSE w[Any(s)] + g[s \ {Any(s)}]]
  BY DEF SumFun
<1>2. \A s \in SUBSET S : g[s] = IF s = {} THEN 0 ELSE w[Any(s)] + g[s \ {Any(s)}]
  BY <1>1
<1>3. {} \in SUBSET S
  OBVIOUS
<1> QED
  BY <1>2, <1>3

LEMMA SumsNat ==
  ASSUME NEW S, IsFiniteSet(S), NEW w \in [S -> Nat], NEW g, SumFun(w, S, g)
  PROVE  \A s \in SUBSET S : g[s] \in Nat
<1> DEFINE P == {s \in SUBSET S : g[s] \in Nat}
<1> SUFFICES ASSUME NEW s \in SUBSET S,
                    \A t \in SUBSET S : Cardinality(t) < Cardinality(s) => t \in P
             PROVE  s \in P
  <2> HIDE DEF P
  <2>1. \A s \in SUBSET S : s \in P
    BY SubsetInduction
  <2> QED
    BY <2>1 DEF P
<1>1. CASE s = {}
  BY <1>1, SumsEq
<1>2. CASE s # {}
  <2>1. /\ Any(s) \in S /\ s \ {Any(s)} \in P
    BY <1>2, AnyOf
  <2>2. g[s] = w[Any(s)] + g[s \ {Any(s)}]
    BY <1>2, SumsEq
  <2> QED
    BY <2>1, <2>2
<1> QED
  BY <1>1, <1>2

LEMMA MidSum ==
  ASSUME NEW F, IsFiniteSet(F), \A n \in F : Mid(n) \in Nat
  PROVE  MapThenSumSet(Mid, F) \in Nat
<1> DEFINE w == [n \in F |-> Mid(n)]
           Fun(g) == g = [s \in SUBSET F |-> IF s = {} THEN 0
               ELSE Mid(CHOOSE x \in s : TRUE) + g[s \ {CHOOSE x \in s : TRUE}]]
           k == CHOOSE g : Fun(g)
<1>1. \A g : SumFun(w, F, g) <=> Fun(g)
  <2> TAKE g
  <2>1. \A s \in SUBSET F : s # {} => Any(s) \in F /\ w[Any(s)] = Mid(Any(s))
    BY DEF Any
  <2> HIDE DEF w
  <2>2. \A s \in SUBSET F :
          (IF s = {} THEN 0 ELSE w[Any(s)] + g[s \ {Any(s)}])
            = (IF s = {} THEN 0
               ELSE Mid(CHOOSE x \in s : TRUE) + g[s \ {CHOOSE x \in s : TRUE}])
    BY <2>1 DEF Any
  <2>3. [s \in SUBSET F |-> IF s = {} THEN 0 ELSE w[Any(s)] + g[s \ {Any(s)}]]
          = [s \in SUBSET F |-> IF s = {} THEN 0
               ELSE Mid(CHOOSE x \in s : TRUE) + g[s \ {CHOOSE x \in s : TRUE}]]
    BY <2>2
  <2> QED
    BY <2>3 DEF SumFun
<1>2. MapThenSumSet(Mid, F) = k[F]
  BY DEF MapThenSumSet, MapThenFoldSet
<1>3. w \in [F -> Nat]
  OBVIOUS
<1> HIDE DEF Fun, w
<1>4. Fun(k)
  BY <1>1, SumFunExists
<1>5. SumFun(w, F, k)
  BY <1>1, <1>4
<1> HIDE DEF k
<1> QED
  BY <1>2, <1>3, <1>5, SumsNat

LEMMA CommittedType ==
  ASSUME Typed, NEW but
  PROVE  Committed(but) \in Nat
<1>1. ASSUME NEW n \in Ids
      PROVE  Mid(n) \in Nat
  <2>1. row[n].i.qty \in Nat
    BY DEF Typed, RowType, IntentType
  <2>2. Price \in Nat /\ RateMid \in Nat
    BY RateAssumption
  <2>3. Notional(row[n].i) \in Nat
    BY <2>1, <2>2, TimesNat DEF Notional
  <2> QED
    BY <2>2, <2>3, TimesNat DEF Mid
<1>2. /\ IsFiniteSet(OpenIds \ but) /\ OpenIds \ but \subseteq Ids
      /\ IsFiniteSet(Twins \ but) /\ Twins \ but \subseteq Ids
  BY EntriesFinite, FS_Subset DEF OpenIds, Twins
<1>3. MapThenSumSet(Mid, OpenIds \ but) \in Nat /\ MapThenSumSet(Mid, Twins \ but) \in Nat
  BY <1>1, <1>2, MidSum
<1> QED
  BY <1>3 DEF Committed

\* Every context has a sum of open orders, or none.
ComNat == \A c \in Callers : p[c].ctx.com \in Nat

\* What a step does to the contexts.
CtxMove ==
  \A c \in Callers : \/ p'[c].ctx.com = p[c].ctx.com \/ p'[c].ctx.com = 0
                     \/ \E but : p'[c].ctx.com = Committed(but)

LEMMA OneCtx ==
  ASSUME Typed, NEW c \in Callers, NEW x, p' = [p EXCEPT ![c] = x],
         \/ x.ctx.com = p[c].ctx.com \/ x.ctx.com = 0
         \/ \E but : x.ctx.com = Committed(but)
  PROVE  CtxMove
<1>1. p'[c] = x /\ \A d \in Callers \ {c} : p'[d] = p[d]
  BY DEF Typed
<1> QED
  BY <1>1 DEF CtxMove

LEMMA CallerCtx ==
  ASSUME Typed, NEW c \in Callers, CallerStep(c)
  PROVE  CtxMove
<1>0. Idle.ctx.com = 0 /\ NoCtx.com = 0
  BY DEF Idle, NoCtx
<1>1. ASSUME NEW to, Step(c, to) PROVE CtxMove
  BY <1>1, StepEffect DEF CtxMove
<1>2. CASE Leave(c)
  BY <1>0, <1>2, OneCtx DEF Leave
<1>3. CASE ReadPositions(c)
  <2>1. p'[c].ctx.com = p[c].ctx.com
    BY <1>3 DEF ReadPositions, Typed, PlaceOver, CtxOver
  <2> QED
    BY <1>3, <2>1, ReadEffect DEF CtxMove
<1>4. CASE GatePasses(c)
  <2>1. p'[c].ctx = NoCtx
    BY <1>4 DEF GatePasses, Typed, PlaceOver
  <2> QED
    BY <1>0, <1>4, <2>1, PassEffect DEF CtxMove
<1>5. CASE Insert(c)
  <2>1. p'[c].ctx = p[c].ctx
    BY <1>5 DEF Insert, Typed, PlaceOver
  <2>2. \A d \in Callers \ {c} : p'[d] = p[d]
    BY <1>5, InsertEffect
  <2> QED
    BY <2>1, <2>2 DEF CtxMove
<1> QED
  BY <1>1, <1>2, <1>3, <1>4, <1>5 DEF CallerStep, GateRefuses, Submit, SubmitRaises, Abort,
     RecordAck, RecordAckRaises, RecordRefusal, RecordDoubt, Count, AmendCheck, AmendAnswer,
     BrokerTakes, BrokerRefuses

LEMMA NextCtx ==
  ASSUME Typed, [Next]_vars
  PROVE  CtxMove
<1>1. ASSUME NEW c \in Callers, NEW i, Ask(c, i) PROVE CtxMove
  <2>1. p'[c].ctx.com = Committed({})
    BY <1>1 DEF Ask, Typed, Idle, NoCtx
  <2> QED
    BY <1>1, <2>1, AskEffect DEF CtxMove
<1>2. ASSUME NEW c \in Clients, NEW n \in Ids, NEW q, AmendRead(c, n, q) PROVE CtxMove
  <2>1. c \in Callers
    BY DEF Callers
  <2>2. p'[c].ctx.com = Committed({n})
    BY <1>2, <2>1 DEF AmendRead, Typed, Idle, NoCtx
  <2> QED
    BY <1>2, <2>1, <2>2, AmendEffect DEF CtxMove
<1>3. CASE Restart
  BY <1>3 DEF Restart, CtxMove, Idle, NoCtx
<1>4. UNCHANGED p => CtxMove
  BY DEF CtxMove
<1>5. ASSUME NEW c \in Clients, AskClient(c) PROVE CtxMove
  BY <1>1, <1>5 DEF AskClient, Callers
<1>6. ASSUME NEW k \in Cycles, AskCycle(k) PROVE CtxMove
  BY <1>1, <1>6 DEF AskCycle, Callers
<1>7. ASSUME NEW k \in Cycles, RunOnce(k) PROVE CtxMove
  BY <1>4, <1>7 DEF RunOnce
<1>8. ASSUME NEW n \in Ids, Execute(n) \/ Cancel(n) PROVE CtxMove
  BY <1>4, <1>8 DEF Execute, Cancel
<1>9. CASE Reconcile \/ ArmOrDisarm \/ UNCHANGED vars
  BY <1>4, <1>9 DEF Reconcile, ArmOrDisarm, vars
<1> QED
  BY <1>2, <1>3, <1>5, <1>6, <1>7, <1>8, <1>9, CallerCtx DEF Next

\* Requests, rows, counters and positions are well typed: an identifier is one
\* of a row, an exposure in a context is the sum of the open orders
\* (services/order_service.py, _committed_krw), and it is a number because
\* rows are finitely many.
THEOREM EntryTypeCorrect == Spec => []TypeOK
<1>1. Init => Typed /\ Owned /\ ComNat
  <2>1. Init => ComNat
    BY DEF Init, ComNat, Idle, NoCtx
  <2> QED
    BY <2>1, InitTyped, InitOwned
<1>2. Typed /\ Owned /\ ComNat /\ [Next]_vars => (Typed /\ Owned /\ ComNat)'
  <2>1. ASSUME Typed, ComNat, [Next]_vars PROVE ComNat'
    BY <2>1, NextCtx, CommittedType DEF ComNat, CtxMove
  <2> QED
    BY <2>1, NextTyped, NextOwned
<1>3. Typed /\ ComNat => TypeOK
  <2> SUFFICES ASSUME Typed, ComNat PROVE p \in [Callers -> PlaceType]
    BY DEF Typed, TypeOK
  <2>1. PICK S : p \in [Callers -> PlaceOver(S)]
    BY DEF Typed
  <2>2. ASSUME NEW c \in Callers
        PROVE  p[c] \in PlaceType
    <3>1. p[c] \in PlaceOver(S) /\ p[c].ctx.com \in Nat
      BY <2>1 DEF ComNat
    <3>2. p[c].ctx \in CtxOver(S)
      BY <3>1 DEF PlaceOver
    <3>3. p[c].ctx \in CtxType
      BY <3>1, <3>2 DEF CtxOver, CtxType
    <3> QED
      BY <3>1, <3>3 DEF PlaceOver, PlaceType
  <2> QED
    BY <2>1, <2>2
<1> QED
  BY <1>1, <1>2, <1>3, PTL DEF Spec
===============================================================================
