-------------------------- MODULE KillSwitchProofs --------------------------
(***************************************************************************)
(* Theorems about KillSwitch, for any orders, requests and initial         *)
(* positions.                                                              *)
(***************************************************************************)
EXTENDS KillSwitch, TLAPS

LEMMA BucketType == \A k \in Keys : BucketOf(k) \in Buckets
  BY DEF BucketOf, Buckets, Keys

LEMMA IdleRunType == IdleRun \in RunType
<1>1. <<"paper", "own">> \in Targets
  BY DEF Targets, Keys, Buckets
<1> QED
  BY <1>1 DEF IdleRun, RunType, Scopes, Buckets

LEMMA NextType ==
  ASSUME NEW m \in RunType
  PROVE  Next1(m) \in RunType /\ Next2(m) \in RunType
  BY IdleRunType DEF Next1, Next2, RunType, Buckets

LEMMA AppliedType ==
  ASSUME TypeOK, NEW b \in Buckets, NEW shown, NEW gone, Applied(b, shown, gone)
  PROVE  row' \in [Targets -> RowStatus] /\ misled' \subseteq Keys
  BY DEF Applied, Reconciled, TypeOK, RowStatus

LEMMA SyncedType ==
  ASSUME TypeOK, NEW b \in Buckets, Synced(b)
  PROVE  pos' \in [Buckets -> Int]
  BY DEF Synced, TypeOK

LEMMA OwnTarget == \A k \in Keys : <<k, "own">> \in Targets /\ <<k, "orphan">> \in Targets
  BY DEF Targets

------------------------------------------------------------------------------
(* Type correctness. *)

LEMMA InitType == Init => TypeOK
  BY KillSwitchAssumption, IdleRunType DEF Init, TypeOK, RowStatus

LEMMA PlaceType ==
  ASSUME TypeOK, NEW k \in Keys, PlaceStart(k) \/ PlaceStep(k) \/ PlaceAnswer(k)
  PROVE  TypeOK'
<1>1. CASE PlaceStart(k)
  BY <1>1 DEF PlaceStart, TypeOK, Reads, Scopes
<1>2. CASE GateGlobal(k)
  BY <1>2 DEF GateGlobal, TypeOK
<1>3. CASE GateMarket(k)
  BY <1>3 DEF GateMarket, TypeOK
<1>4. CASE PlaceInsert(k)
  BY <1>4, OwnTarget DEF PlaceInsert, TypeOK, RowStatus
<1>5. CASE PlaceSubmit(k)
  BY <1>5, OwnTarget DEF PlaceSubmit, TypeOK, RowStatus
<1>6. CASE PlaceAnswered(k)
  <2> DEFINE s == CASE ppc[k] = "refused" -> "rejected"
                    [] ppc[k] = "failed" -> "in_doubt"
                    [] row[<<k, "orphan">>] # "none" -> row[<<k, "own">>]
                    [] OTHER -> "accepted"
  <2>1. s \in RowStatus
    BY OwnTarget DEF TypeOK, RowStatus
  <2>2. row' = [row EXCEPT ![<<k, "own">>] = s]
    BY <1>6 DEF PlaceAnswered
  <2>3. row' \in [Targets -> RowStatus]
    BY <2>1, <2>2 DEF TypeOK
  <2> QED
    BY <1>6, <2>3 DEF PlaceAnswered, TypeOK
<1>7. CASE BrokerTakes(k)
  BY <1>7 DEF BrokerTakes, TypeOK
<1>8. CASE BrokerRefuses(k)
  BY <1>8 DEF BrokerRefuses, TypeOK
<1>9. CASE BrokerSilent(k)
  BY <1>9 DEF BrokerSilent, TypeOK
<1>10. CASE AckMisjudged(k)
  BY <1>10 DEF AckMisjudged, TypeOK
<1> QED
  BY <1>1, <1>2, <1>3, <1>4, <1>5, <1>6, <1>7, <1>8, <1>9, <1>10
  DEF PlaceStep, PlaceAnswer

LEMMA KillType ==
  ASSUME TypeOK, NEW r \in Runs, KillEngage(r) \/ KillStep(r)
  PROVE  TypeOK'
<1> USE DEF TypeOK
<1>0. /\ run[r] \in RunType /\ run[r].bucket \in Buckets
      /\ run[r].todo \subseteq Targets /\ run[r].excused \subseteq Keys
      /\ run[r].at \in Targets
  BY DEF RunType
<1>1. CASE KillEngage(r)
  <2>1. PICK q \in Requests :
          /\ halt' = [halt EXCEPT ![q[1]] = "killed"]
          /\ run' = [run EXCEPT ![r] = [IdleRun EXCEPT !.pc = "list", !.scope = q[1],
                                                       !.level = q[2]]]
    BY <1>1 DEF KillEngage
  <2>2. q[1] \in Scopes /\ q[2] \in {1, 2}
    BY KillSwitchAssumption
  <2>3. [IdleRun EXCEPT !.pc = "list", !.scope = q[1], !.level = q[2]] \in RunType
    BY <2>2, IdleRunType DEF RunType
  <2> QED
    BY <1>1, <2>1, <2>2, <2>3 DEF KillEngage
<1>2. CASE KillNoOp(r) \/ KillSwept(r) \/ KillFlattenSkips(r) \/ KillFlattened(r)
  <2>1. run' \in [Runs -> RunType]
    BY <1>0, <1>2, NextType DEF KillNoOp, KillSwept, KillFlattenSkips, KillFlattened
  <2> QED
    BY <1>2, <2>1 DEF KillNoOp, KillSwept, KillFlattenSkips, KillFlattened
<1>3. CASE KillList(r)
  <2>1. InFlight(run[r].bucket) \subseteq Keys
    BY DEF InFlight
  <2>2. {t \in OpenOf(run[r].bucket) : row[t] = "accepted"} \subseteq Targets
    BY DEF OpenOf
  <2>3. ASSUME NEW pc \in {"reconcile", "cancel"}, Listed(r, pc)
        PROVE  run' \in [Runs -> RunType]
    <3> DEFINE listed == {t \in OpenOf(run[r].bucket) : row[t] = "accepted"}
               flying == InFlight(run[r].bucket)
    <3>1. run' = [run EXCEPT ![r] = [run[r] EXCEPT !.pc = pc, !.todo = listed,
                                       !.excused = @ \cup flying]]
      BY <1>0, <2>3 DEF Listed
    <3>2. listed \in SUBSET Targets /\ flying \in SUBSET Keys
      BY <2>1, <2>2
    <3> HIDE DEF listed, flying
    <3>3. [run[r] EXCEPT !.pc = pc, !.todo = listed, !.excused = @ \cup flying] \in RunType
      BY <1>0, <3>2 DEF RunType
    <3> QED
      BY <3>1, <3>3
  <2> QED
    BY <1>3, <2>3 DEF KillList
<1>4. CASE KillReconcile(r)
  <2> DEFINE b == run[r].bucket
             open == {t \in Targets : BucketOf(t[1]) = b /\ row'[t] = "accepted"}
  <2>1. PICK shown \in Pages(b) :
          /\ Applied(b, shown, Lost(b, shown)) /\ Synced(b)
          /\ run' = [run EXCEPT ![r].pc = "cancel", ![r].todo = open,
                       ![r].excused = @ \cup InFlight(b) \cup Unfound(b, shown)]
    BY <1>4 DEF KillReconcile
  <2>2. row' \in [Targets -> RowStatus] /\ misled' \subseteq Keys /\ pos' \in [Buckets -> Int]
    BY <1>0, <2>1, AppliedType, SyncedType
  <2>3. InFlight(b) \subseteq Keys /\ Unfound(b, shown) \subseteq Keys /\ open \subseteq Targets
    BY DEF InFlight, Unfound
  <2>4. run' \in [Runs -> RunType]
    <3> HIDE DEF open, b
    <3> QED
      BY <1>0, <2>1, <2>3 DEF RunType
  <2> QED
    BY <1>4, <2>2, <2>4 DEF KillReconcile
<1>10. CASE KillBreaks(r)
  <2>0. PICK shown \in Pages(run[r].bucket) :
          \E gone \in SUBSET Lost(run[r].bucket, shown) : Applied(run[r].bucket, shown, gone)
    BY <1>10 DEF KillBreaks
  <2>1. PICK gone \in SUBSET Lost(run[r].bucket, shown) :
          Applied(run[r].bucket, shown, gone)
    BY <2>0
  <2>2. row' \in [Targets -> RowStatus] /\ misled' \subseteq Keys /\ pos' \in [Buckets -> Int]
    BY <1>0, <1>10, <2>1, AppliedType, SyncedType DEF KillBreaks
  <2> QED
    BY <1>10, <2>2, IdleRunType DEF KillBreaks
<1>5. CASE KillAborts(r)
  BY <1>5, IdleRunType DEF KillAborts
<1>6. CASE KillCancel(r)
  <2>1. PICK t \in run[r].todo :
          /\ brk' = [brk EXCEPT ![t[1]] = "closed"]
          /\ \/ run' = [run EXCEPT ![r].pc = "record", ![r].at = t, ![r].todo = @ \ {t}]
             \/ run' = [run EXCEPT ![r].todo = @ \ {t}]
             \/ run' = [run EXCEPT ![r] = IdleRun]
    BY <1>6 DEF KillCancel
  <2>2. t \in Targets /\ t[1] \in Keys
    BY <1>0 DEF Targets
  <2>3. run' \in [Runs -> RunType]
    <3>1. [run[r] EXCEPT !.pc = "record", !.at = t, !.todo = @ \ {t}] \in RunType
      BY <1>0, <2>2 DEF RunType
    <3>2. [run[r] EXCEPT !.todo = @ \ {t}] \in RunType
      BY <1>0 DEF RunType
    <3> QED
      BY <2>1, <3>1, <3>2, IdleRunType
  <2> QED
    BY <1>6, <2>1, <2>2, <2>3 DEF KillCancel
<1>7. CASE KillRefused(r)
  <2>1. PICK t \in run[r].todo :
          run' = [run EXCEPT ![r].todo = @ \ {t}, ![r].excused = @ \cup {t[1]}]
    BY <1>7 DEF KillRefused
  <2>2. t[1] \in Keys
    BY <1>0 DEF Targets
  <2>3. run' \in [Runs -> RunType]
    BY <1>0, <2>1, <2>2 DEF RunType
  <2> QED
    BY <1>7, <2>3 DEF KillRefused
<1>8. CASE KillRecord(r)
  <2>1. row' \in [Targets -> RowStatus]
    BY <1>0, <1>8 DEF KillRecord, RowStatus
  <2>2. run' \in [Runs -> RunType]
    BY <1>0, <1>8 DEF KillRecord, RunType
  <2> QED
    BY <1>8, <2>1, <2>2 DEF KillRecord
<1>9. CASE KillFlatten(r)
  <2>1. run[r].bucket \in Keys
    BY <1>0 DEF Keys
  <2>2. run' \in [Runs -> RunType]
    BY <1>0, <1>9 DEF KillFlatten, RunType
  <2>3. qty' \in [Buckets -> Int]
    BY <1>0, <1>9 DEF KillFlatten
  <2>4. ppc' \in [Keys -> {"idle", "global", "market", "insert", "submit", "sending",
                       "taken", "refused", "failed"}]
    BY <1>9 DEF KillFlatten
  <2>5. since' \in [Keys -> SUBSET Scopes]
    BY <1>9 DEF KillFlatten
  <2> QED
    BY <1>9, <2>2, <2>3, <2>4, <2>5 DEF KillFlatten
<1> QED
  BY <1>1, <1>2, <1>3, <1>4, <1>5, <1>6, <1>7, <1>8, <1>9, <1>10 DEF KillStep

LEMMA StepType == TypeOK /\ [Next]_vars => TypeOK'
<1> SUFFICES ASSUME TypeOK, [Next]_vars PROVE TypeOK'
  OBVIOUS
<1>1. CASE UNCHANGED vars
  BY <1>1 DEF TypeOK, vars
<1>2. ASSUME NEW k \in Keys, PlaceStart(k) \/ PlaceStep(k) \/ PlaceAnswer(k)
      PROVE  TypeOK'
  BY <1>2, PlaceType
<1>3. ASSUME NEW k \in Keys, BrokerExecutes(k)
      PROVE  TypeOK'
  <2>1. Lots(k) \in Int /\ BucketOf(k) \in Buckets
    BY BucketType DEF Lots, TypeOK
  <2> QED
    BY <1>3, <2>1 DEF BrokerExecutes, TypeOK
<1>4. ASSUME NEW r \in Runs, KillEngage(r) \/ KillStep(r)
      PROVE  TypeOK'
  BY <1>4, KillType
<1>5. CASE Reconcile
  <2>1. row' \in [Targets -> RowStatus] /\ misled' \subseteq Keys /\ pos' \in [Buckets -> Int]
    BY <1>5, AppliedType, SyncedType DEF Reconcile, Buckets
  <2> QED
    BY <1>5, <2>1 DEF Reconcile, TypeOK
<1>6. ASSUME NEW s \in Scopes, KillRelease(s)
      PROVE  TypeOK'
  <2>1. \A r \in Runs : [run[r] EXCEPT !.excused = Keys] \in RunType
    <3> SUFFICES ASSUME NEW r \in Runs PROVE [run[r] EXCEPT !.excused = Keys] \in RunType
      OBVIOUS
    <3>1. run[r] \in RunType
      BY DEF TypeOK
    <3> QED
      BY <3>1 DEF RunType
  <2>2. run' \in [Runs -> RunType]
    BY <1>6, <2>1 DEF KillRelease, TypeOK
  <2> QED
    BY <1>6, <2>2 DEF KillRelease, TypeOK
<1>7. CASE Arm \/ Disarm
  BY <1>7 DEF Arm, Disarm, TypeOK
<1> QED
  BY <1>1, <1>2, <1>3, <1>4, <1>5, <1>6, <1>7 DEF Next

(* The state of requests, rows and the broker's book keeps its types.       *)
THEOREM KillSwitchTypeCorrect == Spec => []TypeOK
  BY InitType, StepType, PTL DEF Spec

------------------------------------------------------------------------------
(* No entry passes the gate under a halt.  What a request has still to read *)
(* decides which halts may have held since it began.                        *)

Entries == Orders \ Exits

SinceHalted ==  \* what since says of the halts is true
  \A k \in Entries : \A s \in since[k] : s \in Reads(k) /\ halt[s] = "killed"

GlobalRead ==
  \A k \in Entries : ppc[k] = "market" => "global" \notin since[k]

HaltInv == TypeOK /\ SinceHalted /\ GlobalRead /\ HaltStopsEntries

LEMMA EntryIsKey == \A k \in Entries : k \in Orders /\ k \notin Buckets /\ k \notin Exits /\ k \in Keys
  BY KillSwitchAssumption DEF Entries, Keys

LEMMA HaltInit == Init => HaltInv
  BY InitType, EntryIsKey DEF Init, HaltInv, SinceHalted, GlobalRead, HaltStopsEntries,
     Entries

LEMMA HaltPlace ==
  ASSUME HaltInv, NEW j \in Keys, PlaceStart(j) \/ PlaceStep(j) \/ PlaceAnswer(j)
  PROVE  (SinceHalted /\ GlobalRead /\ HaltStopsEntries)'
<1> USE EntryIsKey DEF HaltInv, TypeOK, SinceHalted, GlobalRead, HaltStopsEntries, Entries
<1>1. CASE PlaceStart(j)
  <2>1. Reads(j)' = Reads(j)
    BY DEF Reads
  <2> QED
    BY <1>1, <2>1 DEF PlaceStart, Reads, Scopes
<1>2. CASE GateGlobal(j)
  BY <1>2 DEF GateGlobal
<1>3. CASE GateMarket(j)
  <2>1. \A k \in Entries : since[k] \subseteq {"global", "market"}
    BY DEF Scopes
  <2> QED
    BY <1>3, <2>1 DEF GateMarket
<1>4. CASE PlaceInsert(j)
  BY <1>4 DEF PlaceInsert
<1>5. CASE PlaceSubmit(j)
  BY <1>5 DEF PlaceSubmit
<1>6. CASE PlaceAnswered(j)
  BY <1>6 DEF PlaceAnswered
<1>7. CASE BrokerTakes(j)
  BY <1>7 DEF BrokerTakes
<1>8. CASE BrokerRefuses(j)
  BY <1>8 DEF BrokerRefuses
<1>9. CASE BrokerSilent(j)
  BY <1>9 DEF BrokerSilent
<1>10. CASE AckMisjudged(j)
  BY <1>10 DEF AckMisjudged
<1> QED
  BY <1>1, <1>2, <1>3, <1>4, <1>5, <1>6, <1>7, <1>8, <1>9, <1>10
  DEF PlaceStep, PlaceAnswer

LEMMA HaltKill ==
  ASSUME HaltInv, NEW r \in Runs, KillEngage(r) \/ KillStep(r)
  PROVE  (SinceHalted /\ GlobalRead /\ HaltStopsEntries)'
<1> USE EntryIsKey DEF HaltInv, TypeOK, SinceHalted, GlobalRead, HaltStopsEntries, Entries
<1>1. CASE KillEngage(r)
  BY <1>1 DEF KillEngage
<1>2. CASE KillFlatten(r)
  <2>1. run[r].bucket \in Buckets
    BY DEF RunType
  <2>2. \A k \in Entries : k # run[r].bucket
    BY <2>1
  <2>3. \A k \in Entries : ppc'[k] = ppc[k] /\ since'[k] = since[k]
    BY <1>2, <2>2 DEF KillFlatten
  <2> QED
    BY <1>2, <2>3 DEF KillFlatten
<1>3. CASE KillStep(r) /\ ~KillFlatten(r)
  <2>1. UNCHANGED <<halt, ppc, since>>
    BY <1>3 DEF KillStep, KillNoOp, KillList, KillReconcile, KillBreaks, KillCancel,
                KillRefused, KillAborts, KillRecord, KillSwept, KillFlattenSkips,
                KillFlattened
  <2> QED
    BY <2>1
<1> QED
  BY <1>1, <1>2, <1>3

LEMMA HaltStep == HaltInv /\ [Next]_vars => HaltInv'
<1> SUFFICES ASSUME HaltInv, [Next]_vars
             PROVE  (SinceHalted /\ GlobalRead /\ HaltStopsEntries)'
  BY StepType DEF HaltInv
<1> USE EntryIsKey DEF HaltInv, TypeOK, SinceHalted, GlobalRead, HaltStopsEntries, Entries
<1>1. CASE UNCHANGED vars
  BY <1>1 DEF vars
<1>2. ASSUME NEW k \in Keys, PlaceStart(k) \/ PlaceStep(k) \/ PlaceAnswer(k)
      PROVE  (SinceHalted /\ GlobalRead /\ HaltStopsEntries)'
  BY <1>2, HaltPlace
<1>3. ASSUME NEW k \in Keys, BrokerExecutes(k)
      PROVE  (SinceHalted /\ GlobalRead /\ HaltStopsEntries)'
  BY <1>3 DEF BrokerExecutes
<1>4. ASSUME NEW r \in Runs, KillEngage(r) \/ KillStep(r)
      PROVE  (SinceHalted /\ GlobalRead /\ HaltStopsEntries)'
  BY <1>4, HaltKill
<1>5. CASE Reconcile \/ Arm \/ Disarm
  BY <1>5 DEF Reconcile, Arm, Disarm
<1>6. ASSUME NEW s \in Scopes, KillRelease(s)
      PROVE  (SinceHalted /\ GlobalRead /\ HaltStopsEntries)'
  BY <1>6 DEF KillRelease
<1> QED
  BY <1>1, <1>2, <1>3, <1>4, <1>5, <1>6 DEF Next

(* An entry that passes the gate has seen each halt it reads inactive at    *)
(* some moment since it was requested, for any number of orders and kill    *)
(* switch requests (place, and the halt check of the gate).                 *)
THEOREM HaltHolds == Spec => []HaltStopsEntries
<1>1. Spec => []HaltInv
  BY HaltInit, HaltStep, PTL DEF Spec
<1>2. HaltInv => HaltStopsEntries
  BY DEF HaltInv
<1> QED
  BY <1>1, <1>2, PTL

------------------------------------------------------------------------------
(* Flattening never sells more than is held.  Until the flatten order of a  *)
(* bucket is executed, the table of positions says no more than is held:    *)
(* entries only add to it.  The row of the key keeps the order from being   *)
(* sent twice.                                                              *)

KeyUsedOnce ==
  \A b \in Buckets :
    /\ brk[b] # "none" => row[<<b, "own">>] # "none"
    /\ ppc[b] \in {"submit", "sending"} => brk[b] = "none" /\ row[<<b, "own">>] # "none"

HeldCoversTable ==
  Exits = {} => \A b \in Buckets :
                  brk[b] # "filled" => pos[b] <= held[b] /\ qty[b] <= held[b]

SoldOnce == KeyUsedOnce /\ HeldCoversTable /\ NeverOversells

OversellInv == TypeOK /\ SoldOnce

LEMMA BucketFacts ==
  \A b \in Buckets : b \in Keys /\ b \notin Orders /\ BucketOf(b) = b /\ <<b, "own">> \in Targets
  BY KillSwitchAssumption, OwnTarget DEF Keys, BucketOf

LEMMA OversellInit == Init => OversellInv
  BY InitType, BucketFacts, KillSwitchAssumption
  DEF Init, OversellInv, SoldOnce, KeyUsedOnce, HeldCoversTable, NeverOversells

LEMMA AppliedKeeps ==
  ASSUME NEW b \in Buckets, NEW shown, NEW gone, Applied(b, shown, gone)
  PROVE  \A t \in Targets : row[t] # "none" => row'[t] # "none"
  BY DEF Applied, Reconciled

LEMMA SyncedCovered ==
  ASSUME TypeOK, SoldOnce, NEW b \in Buckets, Synced(b), UNCHANGED <<brk, held, qty>>
  PROVE  HeldCoversTable' /\ NeverOversells'
  BY DEF TypeOK, Synced, SoldOnce, HeldCoversTable, NeverOversells

LEMMA OversellPlace ==
  ASSUME TypeOK, SoldOnce, NEW j \in Keys, PlaceStart(j) \/ PlaceStep(j) \/ PlaceAnswer(j)
  PROVE  SoldOnce'
<1> USE BucketFacts DEF TypeOK, SoldOnce, KeyUsedOnce, HeldCoversTable, NeverOversells
<1>1. CASE PlaceStart(j)
  BY <1>1 DEF PlaceStart
<1>2. CASE GateGlobal(j)
  BY <1>2 DEF GateGlobal
<1>3. CASE GateMarket(j)
  BY <1>3 DEF GateMarket
<1>4. CASE PlaceInsert(j)
  BY <1>4 DEF PlaceInsert
<1>5. CASE PlaceSubmit(j)
  BY <1>5 DEF PlaceSubmit
<1>6. CASE PlaceAnswered(j)
  <2>1. \A b \in Buckets : row[<<b, "own">>] # "none" => row'[<<b, "own">>] # "none"
    BY <1>6 DEF PlaceAnswered
  <2>2. \A b \in Buckets : ppc'[b] \in {"submit", "sending"} => ppc[b] = ppc'[b]
    BY <1>6 DEF PlaceAnswered
  <2> QED
    BY <1>6, <2>1, <2>2 DEF PlaceAnswered
<1>7. CASE BrokerTakes(j)
  BY <1>7 DEF BrokerTakes
<1>8. CASE BrokerRefuses(j)
  BY <1>8 DEF BrokerRefuses
<1>9. CASE BrokerSilent(j)
  BY <1>9 DEF BrokerSilent
<1>10. CASE AckMisjudged(j)
  BY <1>10 DEF AckMisjudged
<1> QED
  BY <1>1, <1>2, <1>3, <1>4, <1>5, <1>6, <1>7, <1>8, <1>9, <1>10
  DEF PlaceStep, PlaceAnswer

LEMMA OversellExecutes ==
  ASSUME TypeOK, SoldOnce, NEW j \in Keys, BrokerExecutes(j)
  PROVE  SoldOnce'
<1>1. KeyUsedOnce'
  BY BucketFacts DEF BrokerExecutes, SoldOnce, KeyUsedOnce, TypeOK
<1>2. ASSUME Exits = {}
      PROVE  (HeldCoversTable /\ NeverOversells)'
  <2>1. CASE j \in Buckets
    <3>1. Lots(j) = qty[j] /\ BucketOf(j) = j /\ qty[j] <= held[j]
      BY <1>2, <2>1, BucketFacts DEF Lots, SoldOnce, HeldCoversTable, BrokerExecutes
    <3> QED
      BY <1>2, <2>1, <3>1 DEF BrokerExecutes, SoldOnce, HeldCoversTable,
         NeverOversells, TypeOK
  <2>2. CASE j \notin Buckets
    <3>1. Lots(j) = -1 /\ BucketOf(j) \in Buckets
      BY <1>2, <2>2, BucketType DEF Lots
    <3>2. \A b \in Buckets : held'[b] >= held[b] /\ brk'[b] = brk[b]
      BY <2>2, <3>1 DEF BrokerExecutes, TypeOK
    <3>3. UNCHANGED <<pos, qty>> /\ held' \in [Buckets -> Int]
      BY <3>1 DEF BrokerExecutes, TypeOK
    <3> QED
      BY <3>2, <3>3 DEF SoldOnce, HeldCoversTable, NeverOversells, TypeOK
  <2> QED
    BY <2>1, <2>2
<1> QED
  BY <1>1, <1>2 DEF SoldOnce, HeldCoversTable, NeverOversells

LEMMA OversellKill ==
  ASSUME TypeOK, SoldOnce, NEW r \in Runs, KillEngage(r) \/ KillStep(r)
  PROVE  SoldOnce'
<1>0. run[r].bucket \in Buckets /\ run[r].at \in Targets
  BY DEF TypeOK, RunType
<1>1. CASE KillReconcile(r) \/ KillBreaks(r)
  <2>1. PICK shown, gone : Applied(run[r].bucket, shown, gone)
    <3>1. CASE KillReconcile(r)
      BY <3>1 DEF KillReconcile
    <3>2. CASE KillBreaks(r)
      BY <3>2 DEF KillBreaks
    <3> QED
      BY <1>1, <3>1, <3>2
  <2>2. Synced(run[r].bucket) /\ UNCHANGED <<ppc, brk, held, qty>>
    BY <1>1 DEF KillReconcile, KillBreaks
  <2>3. (HeldCoversTable /\ NeverOversells)'
    BY <1>0, <2>2, SyncedCovered
  <2>4. KeyUsedOnce'
    BY <1>0, <2>1, <2>2, AppliedKeeps, BucketFacts DEF SoldOnce, KeyUsedOnce
  <2> QED
    BY <2>3, <2>4 DEF SoldOnce
<1> USE BucketFacts DEF TypeOK, SoldOnce, KeyUsedOnce, HeldCoversTable, NeverOversells
<1>2. CASE KillCancel(r)
  BY <1>2 DEF KillCancel
<1>3. CASE KillRecord(r)
  BY <1>0, <1>3 DEF KillRecord, OpenRow
<1>4. CASE KillFlatten(r)
  <2>1. run[r].bucket \in Keys
    BY <1>0
  <2>2. row[<<run[r].bucket, "own">>] = "none" => brk[run[r].bucket] = "none"
    BY <1>0
  <2>3. \A b \in Buckets : ppc'[b] \in {"submit", "sending"} => ppc'[b] = ppc[b]
    BY <1>0, <1>4, <2>1 DEF KillFlatten
  <2>4. \A b \in Buckets : qty'[b] = qty[b] \/ (brk[b] = "none" /\ qty'[b] = pos[b])
    BY <1>0, <1>4, <2>2 DEF KillFlatten
  <2> QED
    BY <1>4, <2>3, <2>4 DEF KillFlatten
<1>5. CASE KillEngage(r) \/ KillNoOp(r) \/ KillList(r) \/ KillRefused(r) \/ KillAborts(r)
           \/ KillSwept(r) \/ KillFlattenSkips(r) \/ KillFlattened(r)
  <2>1. UNCHANGED <<ppc, row, brk, held, pos, qty>>
    BY <1>5 DEF KillEngage, KillNoOp, KillList, KillRefused, KillAborts, KillSwept,
                KillFlattenSkips, KillFlattened
  <2> QED
    BY <2>1
<1> QED
  BY <1>1, <1>2, <1>3, <1>4, <1>5 DEF KillStep

LEMMA OversellStep == OversellInv /\ [Next]_vars => OversellInv'
<1> SUFFICES ASSUME TypeOK, SoldOnce, [Next]_vars PROVE SoldOnce'
  BY StepType DEF OversellInv
<1>1. CASE UNCHANGED vars
  BY <1>1 DEF vars, SoldOnce, KeyUsedOnce, HeldCoversTable, NeverOversells
<1>2. ASSUME NEW k \in Keys, PlaceStart(k) \/ PlaceStep(k) \/ PlaceAnswer(k)
      PROVE  SoldOnce'
  BY <1>2, OversellPlace
<1>3. ASSUME NEW k \in Keys, BrokerExecutes(k)
      PROVE  SoldOnce'
  BY <1>3, OversellExecutes
<1>4. ASSUME NEW r \in Runs, KillEngage(r) \/ KillStep(r)
      PROVE  SoldOnce'
  BY <1>4, OversellKill
<1>5. CASE Reconcile
  <2>1. "paper" \in Buckets
    BY DEF Buckets
  <2>2. (HeldCoversTable /\ NeverOversells)'
    BY <1>5, <2>1, SyncedCovered DEF Reconcile
  <2>3. KeyUsedOnce'
    BY <1>5, <2>1, AppliedKeeps, BucketFacts DEF Reconcile, SoldOnce, KeyUsedOnce
  <2> QED
    BY <2>2, <2>3 DEF SoldOnce
<1>6. CASE Arm \/ Disarm \/ \E s \in Scopes : KillRelease(s)
  BY <1>6 DEF Arm, Disarm, KillRelease, SoldOnce, KeyUsedOnce, HeldCoversTable,
     NeverOversells
<1> QED
  BY <1>1, <1>2, <1>3, <1>4, <1>5, <1>6 DEF Next

(* If only flattening sells, then however often it is asked for, whenever   *)
(* the table of positions is brought up to date and whatever the broker     *)
(* answers, no bucket is ever sold short (flatten_all_positions).           *)
THEOREM NeverOversellsAlways == Spec => []NeverOversells
<1>1. Spec => []OversellInv
  BY OversellInit, OversellStep, PTL DEF Spec
<1>2. OversellInv => NeverOversells
  BY DEF OversellInv, SoldOnce
<1> QED
  BY <1>1, <1>2, PTL

------------------------------------------------------------------------------
(* Without the permission of the environment nothing opens the live path.   *)

PathClosed ==
  ~config.permission =>
    /\ ~armed /\ "live" \notin config.active
    /\ \A k \in Keys : BucketOf(k) = "live" => ppc[k] = "idle" /\ brk[k] = "none"

LEMMA ClosedInit == Init => PathClosed
  BY DEF Init, PathClosed

LEMMA ClosedStep == TypeOK /\ PathClosed /\ [Next]_vars => PathClosed'
<1> SUFFICES ASSUME TypeOK, ~config.permission, [Next]_vars,
                    ~armed, "live" \notin config.active,
                    \A k \in Keys : BucketOf(k) = "live" => ppc[k] = "idle" /\ brk[k] = "none"
             PROVE  PathClosed' \/ config' # config
  <2>1. [Next]_vars => config' = config
    BY DEF Next, vars, PlaceStart, PlaceStep, PlaceAnswer, GateGlobal, GateMarket,
           PlaceInsert, PlaceSubmit, PlaceAnswered, BrokerTakes, BrokerRefuses,
           BrokerSilent, AckMisjudged, BrokerExecutes, KillEngage, KillStep, KillNoOp,
           KillList, KillReconcile, KillBreaks, KillCancel, KillRefused, KillAborts,
           KillRecord, KillSwept,
           KillFlattenSkips, KillFlatten, KillFlattened, KillRelease, Reconcile, Arm,
           Disarm
  <2> QED
    BY <2>1 DEF PathClosed
<1> DEFINE live == {k \in Keys : BucketOf(k) = "live"}
<1> USE DEF PathClosed
<1>1. CASE UNCHANGED vars
  BY <1>1 DEF vars
<1>2. ASSUME NEW j \in Keys, PlaceStart(j) \/ PlaceStep(j) \/ PlaceAnswer(j)
      PROVE  PathClosed'
  <2>1. j \notin live
    BY <1>2 DEF PlaceStart, PlaceStep, PlaceAnswer, GateGlobal, GateMarket, PlaceInsert,
                PlaceSubmit, PlaceAnswered, BrokerTakes, BrokerRefuses, BrokerSilent,
                AckMisjudged
  <2>2. \A k \in live : ppc'[k] = ppc[k] /\ brk'[k] = brk[k]
    BY <1>2, <2>1 DEF TypeOK, PlaceStart, PlaceStep, PlaceAnswer, GateGlobal, GateMarket,
                PlaceInsert, PlaceSubmit, PlaceAnswered, BrokerTakes, BrokerRefuses,
                BrokerSilent, AckMisjudged
  <2>3. UNCHANGED <<armed, config>>
    BY <1>2 DEF PlaceStart, PlaceStep, PlaceAnswer, GateGlobal, GateMarket, PlaceInsert,
                PlaceSubmit, PlaceAnswered, BrokerTakes, BrokerRefuses, BrokerSilent,
                AckMisjudged
  <2> QED
    BY <2>2, <2>3
<1>3. ASSUME NEW j \in Keys, BrokerExecutes(j)
      PROVE  PathClosed'
  BY <1>3 DEF BrokerExecutes, TypeOK
<1>4. ASSUME NEW r \in Runs, KillEngage(r) \/ KillStep(r)
      PROVE  PathClosed'
  <2>1. CASE KillFlatten(r)
    <3>1. run[r].bucket # "live"
      BY <2>1 DEF KillFlatten
    <3>2. run[r].bucket \in Buckets
      BY DEF TypeOK, RunType
    <3>3. \A k \in live : k # run[r].bucket
      BY <3>1, <3>2 DEF BucketOf
    <3> QED
      BY <2>1, <3>3 DEF KillFlatten, TypeOK
  <2>2. CASE KillCancel(r)
    <3>1. PICK t \in run[r].todo :
            brk[t[1]] = "working" /\ brk' = [brk EXCEPT ![t[1]] = "closed"]
      BY <2>2 DEF KillCancel
    <3>2. t[1] \in Keys
      BY <3>1 DEF TypeOK, RunType, Targets
    <3> QED
      BY <2>2, <3>1, <3>2 DEF KillCancel, TypeOK
  <2>3. CASE (KillEngage(r) \/ KillStep(r)) /\ ~KillFlatten(r) /\ ~KillCancel(r)
    BY <2>3 DEF KillEngage, KillStep, KillNoOp, KillList, KillReconcile, KillBreaks,
                KillRefused, KillAborts, KillRecord, KillSwept, KillFlattenSkips,
                KillFlattened
  <2> QED
    BY <1>4, <2>1, <2>2, <2>3
<1>5. CASE Reconcile \/ Arm \/ Disarm \/ \E s \in Scopes : KillRelease(s)
  BY <1>5 DEF Reconcile, Arm, Disarm, KillRelease
<1> QED
  BY <1>1, <1>2, <1>3, <1>4, <1>5 DEF Next

(* README.md: without HANBIT_ALLOW_LIVE no live order is sent, whatever is  *)
(* armed, flattened, reconciled or killed (_allow_live, engine check).      *)
THEOREM LiveOrdersNeedPermission == Spec => []LiveNeedsPermission
<1>1. Spec => []TypeOK
  BY KillSwitchTypeCorrect
<1>2. Spec => []PathClosed
  BY <1>1, ClosedInit, ClosedStep, PTL DEF Spec
<1>3. PathClosed => LiveNeedsPermission
  BY DEF PathClosed, LiveNeedsPermission
<1> QED
  BY <1>2, <1>3, PTL
------------------------------------------------------------------------------
(* Level 1 sweeps the book.  Two things have to be remembered together: of  *)
(* every order, which rows can stand beside what the broker knows of it     *)
(* (BookRows), and of every kill switch request, what the list it works     *)
(* through has to do with the book (Sound).                                 *)

Known == {"accepted", "canceled", "filled"}  \* rows with an order number

InPlace(k) ==  \* what the row and the book are while the request is in place
  /\ ppc[k] \in {"global", "market", "insert"} => row[<<k, "own">>] = "none"
  /\ ppc[k] = "submit" => row[<<k, "own">>] = "approved"
  /\ ppc[k] \in {"sending", "taken", "refused", "failed"} => row[<<k, "own">>] = "submitted"
  /\ row[<<k, "own">>] \in {"none", "approved"} => brk[k] = "none"
  /\ ppc[k] = "sending" => brk[k] = "none"
  /\ ppc[k] = "refused" => brk[k] = "none" \/ k \in misled

RowsOfBook(k) ==
  /\ brk[k] = "none" => row[<<k, "orphan">>] = "none"
  /\ brk[k] = "working" /\ k \notin misled =>
       /\ row[<<k, "orphan">>] \in {"none", "accepted"}
       /\ row[<<k, "own">>] \notin {"canceled", "filled"}

WorkingHasRow(k) ==  \* no working order without a row to find it by
  brk[k] = "working" /\ ppc[k] = "idle" /\ k \notin misled =>
    row[<<k, "own">>] \in {"accepted", "in_doubt"} \/ row[<<k, "orphan">>] = "accepted"

BookRow(k) == InPlace(k) /\ RowsOfBook(k) /\ WorkingHasRow(k)

BookRows == \A k \in Orders : BookRow(k)

Late(m, k) ==  \* a request that was not in flight has seen the halt
  m.pc \in {"reconcile", "cancel", "record"} /\ ppc[k] # "idle"
    => k \in m.excused \/ m.scope \in since[k]

ToSweep(m, k) ==  \* a working entry is still on the list
  m.pc \in {"cancel", "record"} /\ brk[k] = "working"
    => k \in m.excused \cup misled \/ \E t \in m.todo : t[1] = k

Sound(m) ==
  /\ m.scope = "market" => m.bucket = "paper"
  /\ m.pc # "idle" => halt[m.scope] = "killed" \/ m.excused = Keys
  /\ \A t \in m.todo \cup {m.at} : t[1] \in Orders => row[t] \in Known
  /\ m.pc = "record" /\ m.at[1] \in Orders => brk[m.at[1]] \in {"filled", "closed"}
  /\ \A k \in Entries : BucketOf(k) = m.bucket => Late(m, k) /\ ToSweep(m, k)

SweepInv == HaltInv /\ BookRows /\ \A r \in Runs : Sound(run[r])

LEMMA OrderFacts ==
  \A k \in Orders : /\ k \in Keys /\ k \notin Buckets
                    /\ <<k, "own">> \in Targets /\ <<k, "orphan">> \in Targets
  BY KillSwitchAssumption, OwnTarget DEF Keys

LEMMA IdleSound == Sound(IdleRun)
  BY KillSwitchAssumption DEF Sound, IdleRun, Late, ToSweep, Buckets

LEMMA SweepInit == Init => SweepInv
<1> SUFFICES ASSUME Init PROVE BookRows /\ \A r \in Runs : Sound(run[r])
  BY HaltInit DEF SweepInv
<1>1. BookRows
  BY OrderFacts DEF Init, BookRows, BookRow, InPlace, RowsOfBook, WorkingHasRow
<1>2. \A r \in Runs : run[r] = IdleRun
  BY DEF Init
<1> QED
  BY <1>1, <1>2, IdleSound

LEMMA BookPlace ==
  ASSUME TypeOK, BookRows, NEW j \in Keys, PlaceStart(j) \/ PlaceStep(j) \/ PlaceAnswer(j)
  PROVE  BookRows'
<1> SUFFICES ASSUME NEW k \in Orders PROVE BookRow(k)'
  BY DEF BookRows
<1>0. BookRow(k) /\ k \in Keys /\ <<k, "own">> \in Targets /\ <<k, "orphan">> \in Targets
  BY OrderFacts DEF BookRows
<1> USE <1>0 DEF TypeOK, BookRow, InPlace, RowsOfBook, WorkingHasRow
<1>1. CASE PlaceStart(j)
  BY <1>1 DEF PlaceStart
<1>2. CASE GateGlobal(j)
  BY <1>2 DEF GateGlobal
<1>3. CASE GateMarket(j)
  BY <1>3 DEF GateMarket
<1>4. CASE PlaceInsert(j)
  BY <1>4 DEF PlaceInsert
<1>5. CASE PlaceSubmit(j)
  BY <1>5 DEF PlaceSubmit
<1>6. CASE PlaceAnswered(j)
  BY <1>6 DEF PlaceAnswered
<1>7. CASE BrokerTakes(j)
  BY <1>7 DEF BrokerTakes
<1>8. CASE BrokerRefuses(j)
  BY <1>8 DEF BrokerRefuses
<1>9. CASE BrokerSilent(j)
  BY <1>9 DEF BrokerSilent
<1>10. CASE AckMisjudged(j)
  BY <1>10 DEF AckMisjudged
<1> QED
  BY <1>1, <1>2, <1>3, <1>4, <1>5, <1>6, <1>7, <1>8, <1>9, <1>10
  DEF PlaceStep, PlaceAnswer

(* What a reconcile run does to the rows of an order.                       *)
LEMMA AppliedRow ==
  ASSUME TypeOK, NEW b \in Buckets, NEW shown \in Pages(b), NEW gone \in SUBSET Accepted(b),
         Applied(b, shown, gone), NEW k \in Orders
  PROVE  /\ row'[<<k, "own">>] =
              IF row[<<k, "own">>] = "accepted" /\ k \in shown /\ brk[k] = "filled"
              THEN "filled"
              ELSE IF <<k, "own">> \in gone THEN "canceled" ELSE row[<<k, "own">>]
         /\ row'[<<k, "orphan">>] =
              IF row[<<k, "orphan">>] = "accepted" /\ k \in shown /\ brk[k] = "filled"
              THEN "filled"
              ELSE IF <<k, "orphan">> \in gone THEN "canceled"
              ELSE IF k \in shown /\ ~Numbered(k)
              THEN IF brk[k] = "filled" THEN "filled" ELSE "accepted"
              ELSE row[<<k, "orphan">>]
<1>1. \A t \in Targets : t \in Accepted(b) <=> BucketOf(t[1]) = b /\ row[t] = "accepted"
  BY DEF Accepted
<1>2. k \in shown => BucketOf(k) = b
  BY DEF Pages
<1>3. /\ <<k, "own">> \in Targets /\ <<k, "own">>[1] = k /\ <<k, "own">>[2] = "own"
      /\ <<k, "orphan">> \in Targets /\ <<k, "orphan">>[1] = k /\ <<k, "orphan">>[2] = "orphan"
  BY OrderFacts
<1> QED
  BY <1>1, <1>2, <1>3 DEF Applied, Reconciled

(* A row that a run closes was accepted, and the run is told of it.         *)
LEMMA GoneRows ==
  ASSUME NEW b \in Buckets, NEW shown, NEW gone \in SUBSET Accepted(b),
         Applied(b, shown, gone), NEW k \in Orders
  PROVE  /\ <<k, "own">> \in gone => row[<<k, "own">>] = "accepted"
         /\ <<k, "orphan">> \in gone => row[<<k, "orphan">>] = "accepted"
         /\ brk[k] = "working" /\ k \notin misled'
              => <<k, "own">> \notin gone /\ <<k, "orphan">> \notin gone
         /\ misled \subseteq misled'
<1>1. <<k, "own">>[1] = k /\ <<k, "orphan">>[1] = k /\ k \in Keys
  BY OrderFacts
<1> QED
  BY <1>1 DEF Accepted, Applied

LEMMA BookReconciled ==
  ASSUME TypeOK, BookRows, NEW b \in Buckets, NEW shown \in Pages(b),
         NEW gone \in SUBSET Accepted(b), Applied(b, shown, gone), UNCHANGED <<ppc, brk>>
  PROVE  BookRows'
<1> SUFFICES ASSUME NEW k \in Orders PROVE BookRow(k)'
  BY DEF BookRows
<1>1. BookRow(k)
  BY DEF BookRows
<1>2. k \in shown => brk[k] # "none"
  BY DEF Pages
<1> DEFINE own == row[<<k, "own">>]
           orphan == row[<<k, "orphan">>]
<1>rows. /\ row'[<<k, "own">>] =
              IF own = "accepted" /\ k \in shown /\ brk[k] = "filled" THEN "filled"
              ELSE IF <<k, "own">> \in gone THEN "canceled" ELSE own
         /\ row'[<<k, "orphan">>] =
              IF orphan = "accepted" /\ k \in shown /\ brk[k] = "filled" THEN "filled"
              ELSE IF <<k, "orphan">> \in gone THEN "canceled"
              ELSE IF k \in shown /\ ~Numbered(k)
              THEN IF brk[k] = "filled" THEN "filled" ELSE "accepted"
              ELSE orphan
  BY AppliedRow
<1>gone. /\ <<k, "own">> \in gone => own = "accepted"
         /\ <<k, "orphan">> \in gone => orphan = "accepted"
  BY GoneRows
<1>ours. row'[<<k, "own">>] =
           IF own = "accepted" /\ k \in shown /\ brk[k] = "filled" THEN "filled"
           ELSE IF <<k, "own">> \in gone THEN "canceled" ELSE own
  BY <1>rows
<1>theirs. row'[<<k, "orphan">>] =
           IF orphan = "accepted" /\ k \in shown /\ brk[k] = "filled" THEN "filled"
           ELSE IF <<k, "orphan">> \in gone THEN "canceled"
           ELSE IF k \in shown /\ ~Numbered(k)
           THEN IF brk[k] = "filled" THEN "filled" ELSE "accepted"
           ELSE orphan
  BY <1>rows
<1>3. \/ row'[<<k, "own">>] = own
      \/ own = "accepted" /\ row'[<<k, "own">>] \in {"filled", "canceled"}
  <2> HIDE DEF own
  <2> QED
    BY <1>ours, <1>gone
<1>4. brk[k] = "none" => row'[<<k, "orphan">>] = orphan
                         \/ orphan = "accepted"
  <2> HIDE DEF orphan
  <2>1. <<k, "orphan">> \in gone => orphan = "accepted"
    BY <1>gone
  <2> QED
    BY <1>2, <1>theirs, <2>1

<1>5. brk[k] = "working" /\ k \notin misled' =>
        /\ row'[<<k, "own">>] = own
        /\ row'[<<k, "orphan">>] = orphan \/ row'[<<k, "orphan">>] = "accepted"
  BY AppliedRow, GoneRows
<1>6. misled \subseteq misled'
  BY GoneRows
<1>7. InPlace(k)'
  BY <1>1, <1>3, <1>6 DEF BookRow, InPlace
<1>8. RowsOfBook(k)' /\ WorkingHasRow(k)'
  BY <1>1, <1>4, <1>5, <1>6 DEF BookRow, RowsOfBook, WorkingHasRow
<1> QED
  BY <1>7, <1>8 DEF BookRow

(* After the reconcile of a sweep an order that works and does not fly is   *)
(* known by its number, or has been misjudged, or was not found.            *)
LEMMA FoundByReconcile ==
  ASSUME TypeOK, NEW b \in Buckets, NEW shown \in Pages(b),
         Applied(b, shown, Lost(b, shown)), NEW k \in Orders, BookRow(k),
         BucketOf(k) = b, brk[k] = "working", ppc[k] = "idle",
         k \notin misled', k \notin Unfound(b, shown)
  PROVE  row'[<<k, "own">>] = "accepted" \/ row'[<<k, "orphan">>] = "accepted"
<1>1. Lost(b, shown) \in SUBSET Accepted(b)
  BY DEF Lost
<1>2. /\ misled \subseteq misled'
      /\ <<k, "own">> \notin Lost(b, shown) /\ <<k, "orphan">> \notin Lost(b, shown)
  BY <1>1, GoneRows
<1>3. k \in shown \/ Numbered(k)
  BY OrderFacts DEF Unfound
<1>4. /\ row'[<<k, "own">>] = row[<<k, "own">>]
      /\ row'[<<k, "orphan">>] = IF k \in shown /\ ~Numbered(k) THEN "accepted"
                                 ELSE row[<<k, "orphan">>]
  BY <1>1, <1>2, AppliedRow
<1> QED
  BY <1>2, <1>3, <1>4 DEF BookRow, RowsOfBook, WorkingHasRow, Numbered

LEMMA BookKill ==
  ASSUME TypeOK, BookRows, NEW r \in Runs, Sound(run[r]), KillEngage(r) \/ KillStep(r)
  PROVE  BookRows'
<1>0. run[r].bucket \in Buckets /\ run[r].at \in Targets /\ run[r].todo \subseteq Targets
  BY DEF TypeOK, RunType
<1>1. CASE KillReconcile(r)
  <2>1. PICK shown \in Pages(run[r].bucket) :
          Applied(run[r].bucket, shown, Lost(run[r].bucket, shown))
    BY <1>1 DEF KillReconcile
  <2>2. Lost(run[r].bucket, shown) \in SUBSET Accepted(run[r].bucket)
    BY DEF Lost
  <2>3. UNCHANGED <<ppc, brk>>
    BY <1>1 DEF KillReconcile
  <2> QED
    BY <1>0, <2>1, <2>2, <2>3, BookReconciled
<1>6. CASE KillBreaks(r)
  <2>0. PICK shown \in Pages(run[r].bucket) :
          \E gone \in SUBSET Lost(run[r].bucket, shown) : Applied(run[r].bucket, shown, gone)
    BY <1>6 DEF KillBreaks
  <2>1. PICK gone \in SUBSET Lost(run[r].bucket, shown) :
          Applied(run[r].bucket, shown, gone)
    BY <2>0
  <2>2. gone \in SUBSET Accepted(run[r].bucket)
    BY DEF Lost
  <2>3. UNCHANGED <<ppc, brk>>
    BY <1>6 DEF KillBreaks
  <2> QED
    BY <1>0, <2>1, <2>2, <2>3, BookReconciled
<1>3. CASE KillRecord(r)
  <2>1. PICK q \in Keys, o \in {"own", "orphan"} : run[r].at = <<q, o>>
    BY <1>0 DEF Targets
  <2>2. q \in Orders => row[<<q, o>>] \in Known /\ brk[q] \in {"filled", "closed"}
    BY <1>3, <2>1 DEF Sound, KillRecord
  <2>3. row' = [row EXCEPT ![<<q, o>>] = IF @ \in OpenRow THEN "canceled" ELSE @]
    BY <1>3, <2>1 DEF KillRecord
  <2>4. \A t \in Targets : t # <<q, o>> => row'[t] = row[t]
    BY <2>3 DEF TypeOK
  <2>5. row'[<<q, o>>] = row[<<q, o>>] \/ row'[<<q, o>>] = "canceled"
    BY <2>3, OwnTarget DEF TypeOK
  <2>6. UNCHANGED <<ppc, brk, misled>>
    BY <1>3 DEF KillRecord
  <2>7. ASSUME NEW k \in Orders
        PROVE  \/ /\ row'[<<k, "own">>] = row[<<k, "own">>]
                  /\ row'[<<k, "orphan">>] = row[<<k, "orphan">>]
               \/ /\ brk[k] \in {"filled", "closed"}
                  /\ \/ row'[<<k, "own">>] = row[<<k, "own">>]
                     \/ row[<<k, "own">>] \in Known /\ row'[<<k, "own">>] = "canceled"
    <3>0. <<k, "own">> \in Targets /\ <<k, "orphan">> \in Targets
      BY OrderFacts
    <3>1. CASE k # q
      BY <2>4, <3>0, <3>1
    <3>2. CASE k = q /\ o = "own"
      BY <2>2, <2>4, <2>5, <3>0, <3>2
    <3>3. CASE k = q /\ o = "orphan"
      BY <2>2, <2>4, <3>0, <3>3
    <3> QED
      BY <3>1, <3>2, <3>3
  <2>8. ASSUME NEW k \in Orders PROVE BookRow(k)'
    <3>1. BookRow(k)
      BY DEF BookRows
    <3>2. brk[k] \notin {"filled", "closed"} => row'[<<k, "own">>] = row[<<k, "own">>]
                                             /\ row'[<<k, "orphan">>] = row[<<k, "orphan">>]
      BY <2>7
    <3>3. \/ row'[<<k, "own">>] = row[<<k, "own">>]
          \/ row[<<k, "own">>] \in Known /\ row'[<<k, "own">>] = "canceled"
      BY <2>7
    <3> QED
      BY <2>6, <3>1, <3>2, <3>3 DEF BookRow, InPlace, RowsOfBook, WorkingHasRow, Known
  <2> QED
    BY <2>8 DEF BookRows
<1>2. CASE KillCancel(r)
  <2>1. PICK t \in run[r].todo :
          brk[t[1]] = "working" /\ brk' = [brk EXCEPT ![t[1]] = "closed"]
    BY <1>2 DEF KillCancel
  <2>2. \A k \in Orders : brk'[k] = brk[k] \/ (brk[k] = "working" /\ brk'[k] = "closed")
    BY <2>1, <1>0, OrderFacts DEF TypeOK, Targets
  <2>3. UNCHANGED <<ppc, row, misled>>
    BY <1>2 DEF KillCancel
  <2> SUFFICES ASSUME NEW k \in Orders PROVE BookRow(k)'
    BY DEF BookRows
  <2>4. BookRow(k)
    BY DEF BookRows
  <2>5. CASE brk'[k] = brk[k]
    BY <2>3, <2>4, <2>5 DEF BookRow, InPlace, RowsOfBook, WorkingHasRow
  <2>6. CASE brk[k] = "working" /\ brk'[k] = "closed"
    BY <2>3, <2>4, <2>6 DEF BookRow, InPlace, RowsOfBook, WorkingHasRow
  <2> QED
    BY <2>2, <2>5, <2>6
<1>4. CASE KillFlatten(r)
  <2>1. \A k \in Orders : ppc'[k] = ppc[k]
    BY <1>0, <1>4, OrderFacts DEF KillFlatten, TypeOK
  <2>2. UNCHANGED <<row, brk, misled>>
    BY <1>4 DEF KillFlatten
  <2> QED
    BY <2>1, <2>2 DEF BookRows, BookRow, InPlace, RowsOfBook, WorkingHasRow
<1>5. CASE KillEngage(r) \/ KillNoOp(r) \/ KillList(r) \/ KillRefused(r) \/ KillAborts(r)
           \/ KillSwept(r) \/ KillFlattenSkips(r) \/ KillFlattened(r)
  <2>1. UNCHANGED <<ppc, row, brk, misled>>
    BY <1>5 DEF KillEngage, KillNoOp, KillList, KillRefused, KillAborts, KillSwept,
                KillFlattenSkips, KillFlattened
  <2> QED
    BY <2>1 DEF BookRows, BookRow, InPlace, RowsOfBook, WorkingHasRow
<1> QED
  BY <1>1, <1>2, <1>3, <1>4, <1>5, <1>6 DEF KillStep

------------------------------------------------------------------------------
(* What no step but a release of the halt takes back.                       *)

Onward ==
  /\ \A t \in Targets : t[1] \in Orders /\ row[t] \in Known => row'[t] \in Known
  /\ \A k \in Orders : brk[k] \in {"filled", "closed"} => brk'[k] \in {"filled", "closed"}
  /\ \A s \in Scopes : halt[s] = "killed" => halt'[s] = "killed"
  /\ \A k \in Entries : ppc'[k] # "idle" =>
       \/ ppc[k] # "idle" /\ since'[k] = since[k]
       \/ since'[k] = {s \in Reads(k) : halt[s] = "killed"}
  /\ \A k \in Entries : brk'[k] = "working" =>
       brk[k] = "working" \/ (ppc[k] # "idle" /\ since[k] = {})
  /\ misled \subseteq misled'

LEMMA OnwardPlace ==
  ASSUME HaltInv, BookRows, NEW j \in Keys, PlaceStart(j) \/ PlaceStep(j)
                                            \/ PlaceAnswer(j)
  PROVE  Onward
<1> USE EntryIsKey DEF HaltInv, TypeOK, Onward
<1>1. CASE PlaceStart(j)
  BY <1>1 DEF PlaceStart
<1>2. CASE GateGlobal(j)
  BY <1>2 DEF GateGlobal
<1>3. CASE GateMarket(j)
  BY <1>3 DEF GateMarket
<1>4. CASE PlaceInsert(j)
  BY <1>4 DEF PlaceInsert, Known
<1>5. CASE PlaceSubmit(j)
  BY <1>5 DEF PlaceSubmit, Known, BookRows, BookRow, InPlace
<1>6. CASE PlaceAnswered(j)
  <2>1. j \in Orders => row[<<j, "own">>] \notin Known
    BY <1>6 DEF PlaceAnswered, Known, BookRows, BookRow, InPlace
  <2>2. \A t \in Targets : t # <<j, "own">> => row'[t] = row[t]
    BY <1>6 DEF PlaceAnswered
  <2>3. \A t \in Targets : t[1] \in Orders /\ row[t] \in Known => row'[t] \in Known
    BY <2>1, <2>2
  <2>4. \A k \in Entries : ppc'[k] # "idle" => ppc[k] # "idle"
    BY <1>6 DEF PlaceAnswered
  <2>5. UNCHANGED <<halt, since, brk, misled>>
    BY <1>6 DEF PlaceAnswered
  <2> QED
    BY <2>3, <2>4, <2>5
<1>7. CASE BrokerTakes(j)
  <2>1. ppc[j] = "sending" /\ UNCHANGED <<halt, since, row, misled>>
    BY <1>7 DEF BrokerTakes
  <2>2. j \in Orders => brk[j] = "none"
    BY <2>1 DEF BookRows, BookRow, InPlace
  <2>3. j \in Entries => since[j] = {}
    BY <2>1 DEF HaltStopsEntries, Entries
  <2>4. /\ \A k \in Orders : k # j => brk'[k] = brk[k]
        /\ \A k \in Entries : ppc'[k] # "idle" => ppc[k] # "idle"
    BY <1>7 DEF BrokerTakes
  <2> QED
    BY <2>1, <2>2, <2>3, <2>4
<1>8. CASE BrokerRefuses(j)
  BY <1>8 DEF BrokerRefuses
<1>9. CASE BrokerSilent(j)
  BY <1>9 DEF BrokerSilent
<1>10. CASE AckMisjudged(j)
  BY <1>10 DEF AckMisjudged
<1> QED
  BY <1>1, <1>2, <1>3, <1>4, <1>5, <1>6, <1>7, <1>8, <1>9, <1>10
  DEF PlaceStep, PlaceAnswer

LEMMA OnwardReconciled ==
  ASSUME TypeOK, NEW b \in Buckets, NEW shown, NEW gone, Applied(b, shown, gone),
         UNCHANGED <<halt, ppc, since, brk>>
  PROVE  Onward
<1>1. \A t \in Targets : row[t] \in Known => row'[t] \in Known
  BY DEF Applied, Reconciled, Known, Numbered
<1>2. misled \subseteq misled'
  BY DEF Applied
<1> QED
  BY <1>1, <1>2 DEF Onward

LEMMA OnwardKill ==
  ASSUME HaltInv, NEW r \in Runs, KillEngage(r) \/ KillStep(r)
  PROVE  Onward
<1> USE EntryIsKey DEF HaltInv, TypeOK, Onward
<1>0. run[r].bucket \in Buckets /\ run[r].at \in Targets /\ run[r].todo \subseteq Targets
  BY DEF RunType
<1>1. CASE KillEngage(r)
  BY <1>1 DEF KillEngage
<1>2. CASE KillReconcile(r)
  BY <1>0, <1>2, OnwardReconciled DEF KillReconcile
<1>7. CASE KillBreaks(r)
  BY <1>0, <1>7, OnwardReconciled DEF KillBreaks
<1>3. CASE KillCancel(r)
  <2>1. PICK t \in run[r].todo :
          brk[t[1]] = "working" /\ brk' = [brk EXCEPT ![t[1]] = "closed"]
    BY <1>3 DEF KillCancel
  <2>2. t[1] \in Keys
    BY <1>0 DEF Targets
  <2>3. UNCHANGED <<halt, ppc, since, row, misled>>
    BY <1>3 DEF KillCancel
  <2> QED
    BY <2>1, <2>2, <2>3, OrderFacts
<1>4. CASE KillRecord(r)
  <2>1. \A t \in Targets : row[t] \in Known => row'[t] \in Known
    BY <1>0, <1>4 DEF KillRecord, Known
  <2>2. UNCHANGED <<halt, ppc, since, brk, misled>>
    BY <1>4 DEF KillRecord
  <2> QED
    BY <2>1, <2>2
<1>5. CASE KillFlatten(r)
  <2>1. \A k \in Entries : ppc'[k] = ppc[k] /\ since'[k] = since[k]
    BY <1>0, <1>5 DEF KillFlatten
  <2>2. UNCHANGED <<halt, row, brk, misled>>
    BY <1>5 DEF KillFlatten
  <2> QED
    BY <2>1, <2>2
<1>6. CASE KillNoOp(r) \/ KillList(r) \/ KillRefused(r) \/ KillAborts(r)
           \/ KillSwept(r) \/ KillFlattenSkips(r) \/ KillFlattened(r)
  <2>1. UNCHANGED <<halt, ppc, since, row, brk, misled>>
    BY <1>6 DEF KillNoOp, KillList, KillRefused, KillAborts, KillSwept,
                KillFlattenSkips, KillFlattened
  <2> QED
    BY <2>1
<1> QED
  BY <1>1, <1>2, <1>3, <1>4, <1>5, <1>6, <1>7 DEF KillStep

(* A request that does not move stays sound: orders placed after it listed  *)
(* its own have seen the halt and do not reach the broker.                  *)
LEMMA SoundOnward ==
  ASSUME TypeOK, Onward, NEW m \in RunType, Sound(m)
  PROVE  Sound(m)'
<1>0. m.scope \in Scopes /\ m.at \in Targets /\ m.todo \subseteq Targets
  BY DEF RunType
<1>1. m.pc # "idle" => halt'[m.scope] = "killed" \/ m.excused = Keys
  BY <1>0 DEF Sound, Onward
<1>2. \A t \in m.todo \cup {m.at} : t[1] \in Orders => row'[t] \in Known
  BY <1>0 DEF Sound, Onward
<1>3. m.pc = "record" /\ m.at[1] \in Orders => brk'[m.at[1]] \in {"filled", "closed"}
  BY DEF Sound, Onward
<1>4. ASSUME NEW k \in Entries, BucketOf(k) = m.bucket
      PROVE  Late(m, k)' /\ ToSweep(m, k)'
  <2>1. Late(m, k) /\ ToSweep(m, k)
    BY <1>4 DEF Sound
  <2>2. m.scope \in Reads(k)
    BY <1>0, <1>4 DEF Sound, Reads, Scopes
  <2>3. k \in Keys
    BY EntryIsKey
  <2>4. m.pc # "idle" => halt[m.scope] = "killed" \/ m.excused = Keys
    BY DEF Sound
  <2>5. Late(m, k)'
    <3> SUFFICES ASSUME m.pc \in {"reconcile", "cancel", "record"}, ppc'[k] # "idle",
                        k \notin m.excused
                 PROVE  m.scope \in since'[k]
      BY DEF Late
    <3>1. halt[m.scope] = "killed"
      BY <2>3, <2>4
    <3>2. CASE ppc[k] # "idle" /\ since'[k] = since[k]
      BY <2>1, <3>2 DEF Late
    <3>3. CASE since'[k] = {s \in Reads(k) : halt[s] = "killed"}
      BY <2>2, <3>1, <3>3
    <3> QED
      BY <3>2, <3>3 DEF Onward
  <2>6. ToSweep(m, k)'
    BY <2>1 DEF Late, ToSweep, Onward
  <2> QED
    BY <2>5, <2>6
<1> QED
  BY <1>1, <1>2, <1>3, <1>4 DEF Sound, BucketOf

LEMMA SoundKill ==
  ASSUME SweepInv, NEW r \in Runs, KillEngage(r) \/ KillStep(r)
  PROVE  \A s \in Runs : Sound(run[s])'
<1>0. /\ TypeOK /\ run \in [Runs -> RunType] /\ run[r] \in RunType
      /\ Onward /\ BookRows' /\ TypeOK' /\ BookRows
  BY OnwardKill, BookKill, KillType DEF SweepInv, HaltInv, TypeOK
<1>1. ASSUME NEW s \in Runs, s # r PROVE Sound(run[s])'
  <2>1. run'[s] = run[s]
    BY <1>0, <1>1 DEF KillEngage, KillStep, KillNoOp, KillList, KillReconcile, KillBreaks,
         KillCancel, KillRefused, KillAborts, KillRecord, KillSwept, KillFlattenSkips,
         KillFlatten,
         KillFlattened, Listed
  <2>2. PICK m \in RunType : m = run[s]
    BY <1>0
  <2>3. Sound(m)
    BY <2>2 DEF SweepInv
  <2>4. Sound(m)'
    BY <1>0, <2>3, SoundOnward
  <2>5. m = run'[s]
    BY <2>1, <2>2
  <2> QED
    BY <2>4, <2>5 DEF Sound, Late, ToSweep, BucketOf
<1>2. Sound(run[r])'
  <2>0. PICK m \in RunType : m = run[r]
    BY <1>0
  <2>1. /\ m.bucket \in Buckets /\ m.at \in Targets /\ m.todo \subseteq Targets
        /\ m.excused \subseteq Keys /\ m.scope \in Scopes
    BY DEF RunType
  <2>2. Sound(m) /\ Sound(m)'
    BY <1>0, <2>0, SoundOnward DEF SweepInv
  <2>3. SUFFICES ASSUME NEW n \in RunType, n = run'[r] PROVE Sound(n)'
    <3>1. run'[r] \in RunType
      BY <1>0 DEF TypeOK
    <3>2. PICK n \in RunType : n = run'[r]
      BY <3>1
    <3>3. Sound(n)'
      BY <2>3, <3>2
    <3> QED
      BY <3>2, <3>3 DEF Sound, Late, ToSweep, BucketOf
  <2>4. ASSUME n.pc \notin {"reconcile", "cancel", "record"},
               n.scope = "market" => n.bucket = "paper",
               n.pc # "idle" => n.scope = m.scope /\ n.excused = m.excused /\ m.pc # "idle",
               n.todo \subseteq m.todo, n.at \in {m.at, <<"paper", "own">>}
        PROVE  Sound(n)'
    <3>1. "paper" \notin Orders
      BY KillSwitchAssumption DEF Buckets
    <3> QED
      BY <2>2, <2>4, <3>1 DEF Sound, Late, ToSweep
  <2>5. CASE KillEngage(r)
    <3>1. PICK q \in Requests :
            /\ halt' = [halt EXCEPT ![q[1]] = "killed"]
            /\ run' = [run EXCEPT ![r] = [IdleRun EXCEPT !.pc = "list", !.scope = q[1],
                                                         !.level = q[2]]]
      BY <2>5 DEF KillEngage
    <3>2. n = [IdleRun EXCEPT !.pc = "list", !.scope = q[1], !.level = q[2]]
      BY <1>0, <2>3, <3>1
    <3>3. q[1] \in Scopes
      BY KillSwitchAssumption
    <3>4. halt'[q[1]] = "killed"
      BY <1>0, <3>1, <3>3 DEF TypeOK
    <3>5. /\ n.pc = "list" /\ n.scope = q[1] /\ n.bucket = "paper"
          /\ n.todo = {} /\ n.at = <<"paper", "own">>
      BY <3>2 DEF IdleRun
    <3>6. "paper" \notin Orders
      BY KillSwitchAssumption DEF Buckets
    <3> QED
      BY <3>4, <3>5, <3>6 DEF Sound, Late, ToSweep
  <2>6. CASE \/ KillNoOp(r) \/ KillSwept(r) \/ KillFlattenSkips(r) \/ KillFlattened(r)
             \/ KillAborts(r) \/ KillBreaks(r)
    <3>1. m.pc # "idle" /\ n \in {Next1(m), Next2(m), IdleRun}
      BY <1>0, <2>0, <2>3, <2>6
      DEF KillNoOp, KillSwept, KillFlattenSkips, KillFlattened, KillAborts, KillBreaks
    <3>2. m.scope = "market" => m.bucket = "paper"
      BY <2>2 DEF Sound
    <3>3. \/ n = [m EXCEPT !.pc = "list", !.bucket = "live"] /\ m.scope = "global"
          \/ n = [m EXCEPT !.pc = "flatten", !.bucket = "paper"]
          \/ n = [m EXCEPT !.pc = "flatten", !.bucket = "live"] /\ m.scope = "global"
          \/ n = IdleRun
      BY <3>1 DEF Next1, Next2
    <3>4. /\ n.pc \in {"list", "flatten", "idle"}
          /\ n.scope = "market" => n.bucket = "paper"
          /\ n.pc # "idle" => n.scope = m.scope /\ n.excused = m.excused
          /\ n.todo \subseteq m.todo /\ n.at \in {m.at, <<"paper", "own">>}
      <4>1. CASE n = [m EXCEPT !.pc = "list", !.bucket = "live"] /\ m.scope = "global"
        BY <4>1 DEF RunType
      <4>2. CASE n = [m EXCEPT !.pc = "flatten", !.bucket = "paper"]
        BY <4>2 DEF RunType
      <4>3. CASE n = [m EXCEPT !.pc = "flatten", !.bucket = "live"] /\ m.scope = "global"
        BY <4>3 DEF RunType
      <4>4. CASE n = IdleRun
        BY <4>4 DEF IdleRun
      <4> QED
        BY <3>3, <4>1, <4>2, <4>3, <4>4
    <3> QED
      BY <2>4, <3>1, <3>4
  <2>7. CASE KillFlatten(r)
    <3>1. m.pc = "flatten" /\ n = [m EXCEPT !.pc = "place"]
      BY <1>0, <2>0, <2>3, <2>7 DEF KillFlatten
    <3>2. /\ n.pc = "place" /\ n.scope = m.scope /\ n.bucket = m.bucket
          /\ n.excused = m.excused /\ n.todo = m.todo /\ n.at = m.at
      BY <3>1 DEF RunType
    <3> QED
      BY <2>2, <2>4, <3>1, <3>2 DEF Sound
  <2>8. CASE KillList(r) \/ KillReconcile(r)
    <3> DEFINE b == m.bucket
               accepted == {t \in Targets : BucketOf(t[1]) = b /\ row'[t] = "accepted"}
    <3>1. ppc' = ppc /\ brk' = brk
      BY <2>8 DEF KillList, KillReconcile
    <3>2. PICK pc \in {"reconcile", "cancel"}, unfound \in SUBSET Keys :
            /\ n = [m EXCEPT !.pc = pc, !.todo = accepted,
                             !.excused = @ \cup InFlight(b) \cup unfound]
            /\ \A k \in Orders :
                 /\ pc = "cancel" /\ BucketOf(k) = b /\ brk[k] = "working"
                 /\ ppc[k] = "idle" /\ k \notin misled' \cup unfound
                 => row'[<<k, "own">>] = "accepted" \/ row'[<<k, "orphan">>] = "accepted"
      <4>1. CASE KillReconcile(r)
        <5>1. PICK shown \in Pages(b) :
                /\ Applied(b, shown, Lost(b, shown))
                /\ run' = [run EXCEPT ![r].pc = "cancel", ![r].todo = accepted,
                             ![r].excused = @ \cup InFlight(b) \cup Unfound(b, shown)]
          BY <2>0, <4>1 DEF KillReconcile
        <5>2. n = [m EXCEPT !.pc = "cancel", !.todo = accepted,
                            !.excused = @ \cup InFlight(b) \cup Unfound(b, shown)]
          <6> HIDE DEF accepted
          <6> QED
            BY <1>0, <2>0, <2>3, <5>1
        <5>3. \A k \in Orders : BookRow(k)
          BY <1>0 DEF BookRows
        <5>4. \A k \in Orders :
                /\ BucketOf(k) = b /\ brk[k] = "working" /\ ppc[k] = "idle"
                /\ k \notin misled' \cup Unfound(b, shown)
                => row'[<<k, "own">>] = "accepted" \/ row'[<<k, "orphan">>] = "accepted"
          BY <1>0, <2>1, <5>1, <5>3, FoundByReconcile
        <5>5. Unfound(b, shown) \in SUBSET Keys
          BY DEF Unfound
        <5> HIDE DEF accepted
        <5> QED
          BY <5>2, <5>4, <5>5
      <4>2. CASE KillList(r)
        <5>1. row' = row /\ misled' = misled
          BY <4>2 DEF KillList
        <5>2. {t \in OpenOf(b) : row[t] = "accepted"} = accepted
          BY <5>1 DEF OpenOf, OpenRow
        <5> HIDE DEF accepted
        <5>3. PICK pc \in {"reconcile", "cancel"} :
                /\ Listed(r, pc)
                /\ pc = "cancel" => \A t \in OpenOf(b) : row[t] # "in_doubt"
          BY <2>0, <4>2 DEF KillList
        <5>4. n = [m EXCEPT !.pc = pc, !.todo = accepted,
                            !.excused = @ \cup InFlight(b) \cup {}]
          BY <1>0, <2>0, <2>3, <5>2, <5>3 DEF Listed
        <5>5. ASSUME NEW k \in Orders, pc = "cancel", BucketOf(k) = b, brk[k] = "working",
                     ppc[k] = "idle", k \notin misled'
              PROVE  row'[<<k, "own">>] = "accepted" \/ row'[<<k, "orphan">>] = "accepted"
          <6>1. row[<<k, "own">>] # "in_doubt"
            BY <5>3, <5>5, OrderFacts DEF OpenOf, OpenRow
          <6> QED
            BY <1>0, <5>1, <5>5, <6>1 DEF BookRows, BookRow, WorkingHasRow
        <5>6. \A k \in Orders :
                /\ pc = "cancel" /\ BucketOf(k) = b /\ brk[k] = "working"
                /\ ppc[k] = "idle" /\ k \notin misled' \cup {}
                => row'[<<k, "own">>] = "accepted" \/ row'[<<k, "orphan">>] = "accepted"
          BY <5>5
        <5>7. {} \in SUBSET Keys
          OBVIOUS
        <5> HIDE DEF b
        <5> QED
          BY <5>4, <5>6, <5>7
      <4> QED
        BY <2>8, <4>1, <4>2
    <3>3. /\ n.pc = pc /\ n.scope = m.scope /\ n.bucket = b
          /\ n.todo = accepted /\ n.excused = m.excused \cup InFlight(b) \cup unfound
          /\ n.at = m.at
      <4> HIDE DEF accepted
      <4> QED
        BY <3>2 DEF RunType
    <3>4. m.pc # "idle"
      BY <2>0, <2>8 DEF KillList, KillReconcile
    <3>5. InFlight(b) \subseteq Keys
      BY DEF InFlight
    <3>6. ASSUME NEW k \in Orders, n.pc = "cancel", BucketOf(k) = b, brk[k] = "working",
                 ppc[k] = "idle", k \notin misled' \cup n.excused
          PROVE  row'[<<k, "own">>] = "accepted" \/ row'[<<k, "orphan">>] = "accepted"
      BY <3>2, <3>3, <3>6
    <3>7. ASSUME NEW k \in Entries, BucketOf(k) = b
          PROVE  Late(n, k)' /\ ToSweep(n, k)'
      <4>1. ppc[k] # "idle" => k \in n.excused
        BY <3>3, <3>7, EntryIsKey DEF InFlight
      <4>2. <<k, "own">>[1] = k /\ <<k, "orphan">>[1] = k
        OBVIOUS
      <4>3. n.pc = "cancel" /\ brk[k] = "working" /\ ppc[k] = "idle"
              /\ k \notin misled' \cup n.excused
              => <<k, "own">> \in n.todo \/ <<k, "orphan">> \in n.todo
        BY <3>3, <3>6, <3>7, EntryIsKey, OrderFacts
      <4> HIDE DEF accepted, b
      <4> QED
        BY <3>1, <3>3, <4>1, <4>2, <4>3 DEF Late, ToSweep
    <3>8. n.pc # "idle" => halt'[n.scope] = "killed" \/ n.excused = Keys
      BY <2>1, <2>2, <3>3, <3>4, <3>5 DEF Sound
    <3>9. \A t \in n.todo \cup {n.at} : t[1] \in Orders => row'[t] \in Known
      BY <2>2, <3>3 DEF Sound, Known
    <3>10. BucketOf(n.bucket)' = BucketOf(n.bucket) /\ \A k \in Keys : BucketOf(k)' = BucketOf(k)
      BY DEF BucketOf
    <3> QED
      BY <2>2, <3>3, <3>7, <3>8, <3>9 DEF Sound
  <2>9. CASE KillCancel(r)
    <3>1. PICK t \in m.todo :
            /\ brk[t[1]] = "working" /\ brk' = [brk EXCEPT ![t[1]] = "closed"]
            /\ \/ run' = [run EXCEPT ![r].pc = "record", ![r].at = t, ![r].todo = @ \ {t}]
               \/ run' = [run EXCEPT ![r].todo = @ \ {t}]
               \/ run' = [run EXCEPT ![r] = IdleRun]
      BY <2>0, <2>9 DEF KillCancel
    <3>2. t[1] \in Keys
      BY <2>1 DEF Targets
    <3>3. brk'[t[1]] = "closed" /\ m.pc = "cancel"
      BY <1>0, <2>0, <2>9, <3>1, <3>2 DEF TypeOK, KillCancel
    <3>4. CASE n = [m EXCEPT !.pc = "record", !.at = t, !.todo = @ \ {t}]
      <4>1. /\ n.pc = "record" /\ n.scope = m.scope /\ n.bucket = m.bucket
            /\ n.excused = m.excused /\ n.todo = m.todo \ {t} /\ n.at = t
        BY <3>4 DEF RunType
      <4> QED
        BY <2>2, <3>1, <3>3, <4>1 DEF Sound, Late, ToSweep
    <3>5. CASE n = [m EXCEPT !.todo = @ \ {t}]
      <4>1. /\ n.pc = m.pc /\ n.scope = m.scope /\ n.bucket = m.bucket
            /\ n.excused = m.excused /\ n.todo = m.todo \ {t} /\ n.at = m.at
        BY <3>5 DEF RunType
      <4> QED
        BY <2>2, <3>1, <3>3, <4>1 DEF Sound, Late, ToSweep
    <3>6. CASE n = IdleRun
      <4>1. n.pc = "idle" /\ n.scope = "global" /\ n.todo = {} /\ n.at = <<"paper", "own">>
        BY <3>6 DEF IdleRun
      <4> QED
        BY <2>4, <4>1
    <3> QED
      BY <1>0, <2>0, <2>3, <3>1, <3>4, <3>5, <3>6
  <2>10. CASE KillRefused(r)
    <3>1. PICK t \in m.todo :
            run' = [run EXCEPT ![r].todo = @ \ {t}, ![r].excused = @ \cup {t[1]}]
      BY <2>0, <2>10 DEF KillRefused
    <3>2. n = [m EXCEPT !.todo = @ \ {t}, !.excused = @ \cup {t[1]}]
      BY <1>0, <2>0, <2>3, <3>1
    <3>3. /\ n.pc = m.pc /\ n.scope = m.scope /\ n.bucket = m.bucket
          /\ n.excused = m.excused \cup {t[1]} /\ n.todo = m.todo \ {t} /\ n.at = m.at
      BY <3>2 DEF RunType
    <3>4. t[1] \in Keys
      BY <2>1 DEF Targets
    <3>5. m.pc = "cancel"
      BY <2>0, <2>10 DEF KillRefused
    <3>6. m.excused = Keys => n.excused = Keys
      BY <3>3, <3>4
    <3> QED
      BY <2>2, <3>3, <3>5, <3>6 DEF Sound, Late, ToSweep
  <2>11. CASE KillRecord(r)
    <3>1. m.pc = "record" /\ n = [m EXCEPT !.pc = "cancel"]
      BY <1>0, <2>0, <2>3, <2>11 DEF KillRecord
    <3>2. /\ n.pc = "cancel" /\ n.scope = m.scope /\ n.bucket = m.bucket
          /\ n.excused = m.excused /\ n.todo = m.todo /\ n.at = m.at
      BY <3>1 DEF RunType
    <3> QED
      BY <2>2, <3>1, <3>2 DEF Sound, Late, ToSweep
  <2> QED
    BY <2>5, <2>6, <2>7, <2>8, <2>9, <2>10, <2>11 DEF KillStep
<1> QED
  BY <1>1, <1>2

LEMMA SweepStep == SweepInv /\ [Next]_vars => SweepInv'
<1> SUFFICES ASSUME SweepInv, [Next]_vars
             PROVE  BookRows' /\ \A r \in Runs : Sound(run[r])'
  BY HaltStep DEF SweepInv
<1>0. TypeOK /\ HaltInv /\ BookRows /\ run \in [Runs -> RunType]
  BY DEF SweepInv, HaltInv, TypeOK
<1>1. ASSUME Onward, UNCHANGED run PROVE \A r \in Runs : Sound(run[r])'
  <2> SUFFICES ASSUME NEW r \in Runs PROVE Sound(run[r])'
    OBVIOUS
  <2>1. PICK m \in RunType : m = run[r]
    BY <1>0
  <2>2. Sound(m)
    BY <2>1 DEF SweepInv
  <2>3. Sound(m)' /\ m = run'[r]
    BY <1>0, <1>1, <2>1, <2>2, SoundOnward
  <2> QED
    BY <2>3 DEF Sound, Late, ToSweep, BucketOf
<1>2. CASE UNCHANGED vars
  <2>1. Onward
    BY <1>2 DEF vars, Onward
  <2>2. BookRows'
    BY <1>0, <1>2 DEF vars, BookRows, BookRow, InPlace, RowsOfBook, WorkingHasRow
  <2> QED
    BY <1>1, <1>2, <2>1, <2>2 DEF vars
<1>3. ASSUME NEW k \in Keys, PlaceStart(k) \/ PlaceStep(k) \/ PlaceAnswer(k)
      PROVE  BookRows' /\ \A r \in Runs : Sound(run[r])'
  <2>1. UNCHANGED run
    BY <1>3 DEF PlaceStart, PlaceStep, PlaceAnswer, GateGlobal, GateMarket, PlaceInsert,
                PlaceSubmit, PlaceAnswered, BrokerTakes, BrokerRefuses, BrokerSilent,
                AckMisjudged
  <2> QED
    BY <1>0, <1>1, <1>3, <2>1, BookPlace, OnwardPlace
<1>4. ASSUME NEW k \in Keys, BrokerExecutes(k)
      PROVE  BookRows' /\ \A r \in Runs : Sound(run[r])'
  <2>1. \A j \in Keys : brk'[j] = brk[j] \/ (brk[j] = "working" /\ brk'[j] = "filled")
    BY <1>0, <1>4 DEF BrokerExecutes, TypeOK
  <2>2. UNCHANGED <<halt, ppc, since, row, run, misled>>
    BY <1>4 DEF BrokerExecutes
  <2>3. Onward
    BY <2>1, <2>2, OrderFacts, EntryIsKey DEF Onward
  <2>4. ASSUME NEW j \in Orders PROVE BookRow(j)'
    <3>1. BookRow(j) /\ j \in Keys
      BY <1>0, OrderFacts DEF BookRows
    <3>2. CASE brk'[j] = brk[j]
      BY <2>2, <3>1, <3>2 DEF BookRow, InPlace, RowsOfBook, WorkingHasRow
    <3>3. CASE brk[j] = "working" /\ brk'[j] = "filled"
      BY <2>2, <3>1, <3>3 DEF BookRow, InPlace, RowsOfBook, WorkingHasRow
    <3> QED
      BY <2>1, <3>1, <3>2, <3>3
  <2> QED
    BY <1>1, <2>2, <2>3, <2>4 DEF BookRows
<1>5. ASSUME NEW r \in Runs, KillEngage(r) \/ KillStep(r)
      PROVE  BookRows' /\ \A s \in Runs : Sound(run[s])'
  <2>1. Sound(run[r])
    BY DEF SweepInv
  <2> QED
    BY <1>0, <1>5, <2>1, BookKill, SoundKill
<1>6. CASE Reconcile
  <2>1. "paper" \in Buckets
    BY DEF Buckets
  <2>2. UNCHANGED <<halt, ppc, since, brk, run>>
    BY <1>6 DEF Reconcile
  <2>3. PICK shown \in Pages("paper"), gone \in SUBSET Accepted("paper") :
          Applied("paper", shown, gone)
    BY <1>6 DEF Reconcile
  <2>4. Onward
    BY <1>0, <2>1, <2>2, <2>3, OnwardReconciled
  <2>5. BookRows'
    BY <1>0, <2>1, <2>2, <2>3, BookReconciled
  <2> QED
    BY <1>1, <2>2, <2>4, <2>5
<1>7. CASE Arm \/ Disarm
  <2>1. UNCHANGED <<halt, ppc, since, row, brk, run, misled>>
    BY <1>7 DEF Arm, Disarm
  <2>2. Onward
    BY <2>1 DEF Onward
  <2>3. BookRows'
    BY <1>0, <2>1 DEF BookRows, BookRow, InPlace, RowsOfBook, WorkingHasRow
  <2> QED
    BY <1>1, <2>1, <2>2, <2>3
<1>8. ASSUME NEW s \in Scopes, KillRelease(s)
      PROVE  BookRows' /\ \A r \in Runs : Sound(run[r])'
  <2>1. UNCHANGED <<ppc, row, brk, misled>>
    BY <1>8 DEF KillRelease
  <2>2. BookRows'
    BY <1>0, <2>1 DEF BookRows, BookRow, InPlace, RowsOfBook, WorkingHasRow
  <2>3. ASSUME NEW r \in Runs PROVE Sound(run[r])'
    <3>1. PICK m \in RunType : m = run[r]
      BY <1>0
    <3>2. Sound(m)
      BY <3>1 DEF SweepInv
    <3>3. PICK n : n = run'[r] /\ n = IF m.pc = "idle" THEN m ELSE [m EXCEPT !.excused = Keys]
      BY <1>0, <1>8, <3>1 DEF KillRelease
    <3>4. /\ n.pc = m.pc /\ n.scope = m.scope /\ n.bucket = m.bucket
          /\ n.todo = m.todo /\ n.at = m.at /\ (n.pc # "idle" => n.excused = Keys)
      BY <3>3 DEF RunType
    <3>5. Sound(n)'
      BY <2>1, <3>2, <3>4, EntryIsKey DEF Sound, Late, ToSweep, BucketOf
    <3> QED
      BY <3>3, <3>5 DEF Sound, Late, ToSweep, BucketOf
  <2> QED
    BY <2>2, <2>3
<1> QED
  BY <1>2, <1>3, <1>4, <1>5, <1>6, <1>7, <1>8 DEF Next

(* The sweep of level 1 forgets no entry, for any number of orders and of   *)
(* kill switch requests, however they interleave with orders being placed:  *)
(* what still works at the broker when a bucket is through was in flight    *)
(* when its orders were listed, or the broker refused to cancel it or did   *)
(* not show it to the reconcile of orders in doubt, or its row was closed   *)
(* by a reconcile that did not see it work or by an answer taken for a      *)
(* failure, or the halt was released (cancel_all_open, reconcile, _ack).    *)
THEOREM SweepForgetsNoEntry == Spec => []SweepsTheBook
<1>1. Spec => []SweepInv
  BY SweepInit, SweepStep, PTL DEF Spec
<1>2. SweepInv => SweepsTheBook
  <2> SUFFICES ASSUME SweepInv, NEW r \in Runs, run[r].pc = "cancel", run[r].todo = {},
                      NEW k \in Orders \ Exits, BucketOf(k) = run[r].bucket,
                      brk[k] = "working"
               PROVE  k \in run[r].excused \cup misled
    BY DEF SweepsTheBook
  <2>1. ToSweep(run[r], k)
    BY DEF SweepInv, Sound, Entries
  <2> QED
    BY <2>1 DEF ToSweep
<1> QED
  BY <1>1, <1>2, PTL
==============================================================================
