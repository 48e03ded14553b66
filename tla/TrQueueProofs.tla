---------------------------- MODULE TrQueueProofs ----------------------------
(***************************************************************************)
(* Theorems about the queue of TrQueue, for any callers, priorities and    *)
(* number of retries.                                                      *)
(***************************************************************************)
EXTENDS TrQueue, TLAPS

(* draining says whether somebody leads, there is one leader at most, it    *)
(* has a job in its hands, and nobody waits in a queue without a leader.    *)
Led        == draining <=> \E l \in Callers : pc[l] \in Leading
OneLeader  == \A a, b \in Callers : pc[a] \in Leading /\ pc[b] \in Leading => a = b
LeaderHasJob == \A l \in Callers : pc[l] \in Leading => cur[l] \in Callers
IdleIsEmpty == ~draining => waiters = {}

LeadInv == TypeOK /\ Led /\ OneLeader /\ LeaderHasJob /\ IdleIsEmpty

LEMMA LeadInit == Init => LeadInv
<1> SUFFICES ASSUME Init PROVE LeadInv
  OBVIOUS
<1>1. TypeOK
  <2>1. attempts \in [Callers -> 0..MaxRetries]
    BY TrQueueAssumption DEF Init
  <2>2. /\ over \in [Callers -> 0..2] /\ promo \in [Callers -> TrPriority]
        /\ cur \in [Callers -> Callers \cup {Nobody}]
    BY DEF Init, TrPriority
  <2> QED
    BY <2>1, <2>2 DEF Init, TypeOK
<1> QED
  BY <1>1 DEF Init, LeadInv, Led, OneLeader, LeaderHasJob, IdleIsEmpty, Leading

(* The head of the leader's loop either ends its lead or goes on with a job. *)
LEMMA DrainStep ==
  ASSUME LeadInv, NEW l \in Callers, NEW ws \in SUBSET Callers,
         pc[l] \in Leading, Drain(l, ws)
  PROVE  /\ waiters' \subseteq Callers
         /\ draining' \in BOOLEAN
         /\ pc' \in [Callers -> {"idle", "await"} \cup Leading]
         /\ cur' \in [Callers -> Callers \cup {Nobody}]
         /\ Led' /\ OneLeader' /\ LeaderHasJob' /\ IdleIsEmpty'
<1> USE DEF LeadInv, TypeOK, Led, OneLeader, LeaderHasJob, IdleIsEmpty, Leading
<1>1. CASE ws = {} /\ waiters' = {} /\ draining' = FALSE
           /\ pc' = [pc EXCEPT ![l] = "await"] /\ cur' = [cur EXCEPT ![l] = Nobody]
  BY <1>1
<1>2. CASE \E j \in ws : /\ waiters' = ws \ {j}
                         /\ pc' = [pc EXCEPT ![l] = "gate"]
                         /\ cur' = [cur EXCEPT ![l] = j]
                         /\ draining' = draining
  BY <1>2
<1> QED
  BY <1>1, <1>2 DEF Drain

LEMMA LeadStep == LeadInv /\ [Next]_vars => LeadInv'
<1> SUFFICES ASSUME LeadInv, [Next]_vars PROVE LeadInv'
  OBVIOUS
<1> USE TrQueueAssumption
<1>1. ASSUME NEW c \in Callers, SubmitWaits(c) PROVE LeadInv'
  BY <1>1 DEF SubmitWaits, NewJob, clock, LeadInv, TypeOK, Led, OneLeader,
     LeaderHasJob, IdleIsEmpty, Leading, TrPriority, Queued
<1>2. ASSUME NEW c \in Callers, SubmitLeads(c) PROVE LeadInv'
  <2>1. TypeOK'
    BY <1>2 DEF SubmitLeads, NewJob, clock, LeadInv, TypeOK, Leading, TrPriority
  <2>2. Led' /\ OneLeader' /\ LeaderHasJob' /\ IdleIsEmpty'
    BY <1>2 DEF SubmitLeads, NewJob, LeadInv, TypeOK, Led, OneLeader,
       LeaderHasJob, IdleIsEmpty, Leading
  <2> QED
    BY <2>1, <2>2 DEF LeadInv
<1>3. ASSUME NEW c \in Callers, Return(c) PROVE LeadInv'
  BY <1>3 DEF Return, clock, LeadInv, TypeOK, Led, OneLeader, LeaderHasJob, IdleIsEmpty,
     Leading, TrPriority
<1>4. ASSUME NEW c \in Callers, Gate(c) PROVE LeadInv'
  <2>1. over' \in [Callers -> 0..2]
    BY <1>4 DEF Gate, LeadInv, TypeOK
  <2>2. /\ UNCHANGED <<fut, waiters, draining, cur, before, promo, attempts,
                       stamped, recent>>
        /\ pc[c] = "gate" /\ pc' = [pc EXCEPT ![c] = "call"]
    BY <1>4 DEF Gate, clock
  <2> QED
    BY <2>1, <2>2 DEF LeadInv, TypeOK, Led, OneLeader, LeaderHasJob, IdleIsEmpty, Leading
<1>5. ASSUME NEW c \in Callers, CallReturns(c) PROVE LeadInv'
  <2>1. /\ waiters' \subseteq Callers /\ draining' \in BOOLEAN
        /\ pc' \in [Callers -> {"idle", "await"} \cup Leading]
        /\ cur' \in [Callers -> Callers \cup {Nobody}]
        /\ Led' /\ OneLeader' /\ LeaderHasJob' /\ IdleIsEmpty'
    BY <1>5, DrainStep DEF CallReturns, LeadInv, TypeOK, Leading
  <2>2. fut' \in [Callers -> {"none", "pending", "result", "error", "cancelled"}]
    BY <1>5 DEF CallReturns, LeadInv, TypeOK
  <2>3. /\ stamped' = TRUE /\ recent' = TRUE
        /\ UNCHANGED <<before, promo, attempts, over>>
    BY <1>5 DEF CallReturns
  <2> QED
    BY <2>1, <2>2, <2>3 DEF LeadInv, TypeOK
<1>6. ASSUME NEW c \in Callers, CallExceedsCount(c) PROVE LeadInv'
  <2>1. attempts' \in [Callers -> 0..MaxRetries]
    <3>1. cur[c] \in Callers
      BY <1>6 DEF CallExceedsCount, LeadInv, LeaderHasJob, Leading
    <3>2. attempts[cur[c]] + 1 \in 0..MaxRetries
      BY <1>6, <3>1 DEF CallExceedsCount, LeadInv, TypeOK
    <3> QED
      BY <1>6, <3>1, <3>2 DEF CallExceedsCount, LeadInv, TypeOK
  <2>2. /\ UNCHANGED <<fut, waiters, draining, cur, before, promo, over>>
        /\ stamped' = TRUE /\ recent' = TRUE
        /\ pc[c] = "call" /\ pc' = [pc EXCEPT ![c] = "backoff"]
    BY <1>6 DEF CallExceedsCount
  <2> QED
    BY <2>1, <2>2 DEF LeadInv, TypeOK, Led, OneLeader, LeaderHasJob, IdleIsEmpty, Leading
<1>7. ASSUME NEW c \in Callers, Backoff(c) PROVE LeadInv'
  <2>1. pc[c] \in Leading /\ cur[c] \in Callers
    BY <1>7 DEF Backoff, LeadInv, LeaderHasJob, Leading
  <2>2. /\ waiters' \subseteq Callers /\ draining' \in BOOLEAN
        /\ pc' \in [Callers -> {"idle", "await"} \cup Leading]
        /\ cur' \in [Callers -> Callers \cup {Nobody}]
        /\ Led' /\ OneLeader' /\ LeaderHasJob' /\ IdleIsEmpty'
    BY <1>7, <2>1, DrainStep DEF Backoff, LeadInv, TypeOK
  <2> QED
    BY <1>7, <2>2 DEF Backoff, clock, LeadInv, TypeOK
<1>8. ASSUME NEW c \in Callers, CancelWaiter(c) PROVE LeadInv'
  BY <1>8 DEF CancelWaiter, clock, LeadInv, TypeOK, Led, OneLeader,
     LeaderHasJob, IdleIsEmpty, Leading, TrPriority
<1>9. ASSUME NEW c \in Callers, CancelLeader(c) PROVE LeadInv'
  <2>1. fut' \in [Callers -> {"none", "pending", "result", "error", "cancelled"}]
    BY <1>9 DEF CancelLeader, LeadInv, TypeOK
  <2>2. /\ waiters' = {} /\ draining' = FALSE
        /\ pc[c] \in Leading /\ pc' = [pc EXCEPT ![c] = "idle"]
        /\ cur' = [cur EXCEPT ![c] = Nobody]
        /\ recent' \in BOOLEAN
        /\ UNCHANGED <<before, promo, attempts, stamped, over>>
    BY <1>9 DEF CancelLeader, LeadInv, TypeOK
  <2>3. TypeOK'
    BY <2>1, <2>2 DEF LeadInv, TypeOK
  <2>4. Led' /\ OneLeader' /\ LeaderHasJob' /\ IdleIsEmpty'
    BY <2>2 DEF LeadInv, TypeOK, Led, OneLeader, LeaderHasJob, IdleIsEmpty, Leading
  <2> QED
    BY <2>3, <2>4 DEF LeadInv
<1>10. ASSUME NEW c \in Callers, Age(c) PROVE LeadInv'
  <2>1. promo' \in [Callers -> TrPriority]
    BY <1>10 DEF Age, LeadInv, TypeOK, TrPriority
  <2> QED
    BY <1>10, <2>1 DEF Age, clock, LeadInv, TypeOK, Led, OneLeader, LeaderHasJob, IdleIsEmpty
<1>11. ASSUME IntervalPasses PROVE LeadInv'
  BY <1>11 DEF IntervalPasses, LeadInv, TypeOK, Led, OneLeader, LeaderHasJob, IdleIsEmpty
<1>12. ASSUME UNCHANGED vars PROVE LeadInv'
  BY <1>12 DEF vars, LeadInv, TypeOK, Led, OneLeader, LeaderHasJob, IdleIsEmpty
<1> QED
  BY <1>1, <1>2, <1>3, <1>4, <1>5, <1>6, <1>7, <1>8, <1>9, <1>10, <1>11, <1>12
     DEF Next, Submit, Lead, Cancel

(* Queue state is well typed whatever is submitted, retried or cancelled    *)
(* (core/tr_queue.py).                                                      *)
THEOREM QueueTypeCorrect == Spec => []TypeOK
<1>1. LeadInv => TypeOK
  BY DEF LeadInv
<1> QED
  BY LeadInit, LeadStep, <1>1, PTL DEF Spec

(* At most one account TR of the bucket is in flight (the draining flag of  *)
(* core/tr_queue.py), for any number of callers that come, retry or are     *)
(* cancelled.                                                               *)
THEOREM CallsAreSerial == Spec => []SerialCalls
<1>1. LeadInv => SerialCalls
  BY DEF LeadInv, OneLeader, SerialCalls, Leading
<1> QED
  BY LeadInit, LeadStep, <1>1, PTL DEF Spec

(* A job in the queue always has a leader to run it (submit and _drain of   *)
(* core/tr_queue.py).                                                       *)
THEOREM NoJobStranded == Spec => []NoneStranded
<1>1. LeadInv => NoneStranded
  BY DEF LeadInv, Led, IdleIsEmpty, NoneStranded
<1> QED
  BY LeadInit, LeadStep, <1>1, PTL DEF Spec

------------------------------------------------------------------------------
(* A KILL job is overtaken once at most.  Once that has happened, or if the *)
(* KILL job was there when the leader chose, the leader that waits for the  *)
(* interval has a job in hand that is as urgent.                            *)
NextIsUrgent ==
  \A c \in waiters : Prio[c] = KILL /\ over[c] > 0
    => \A l \in Callers : pc[l] = "gate" => Eff(cur[l]) = KILL

KillInv == LeadInv /\ KillOvertakenOnce /\ NextIsUrgent

LEMMA EffType ==
  ASSUME TypeOK, NEW c \in Callers
  PROVE  Eff(c) \in TrPriority /\ (Prio[c] = KILL => Eff(c) = KILL)
  BY TrQueueAssumption DEF TypeOK, Eff, TrPriority, KILL

(* While a KILL job waits, the job a leader picks has KILL urgency.         *)
LEMMA PickUrgent ==
  ASSUME LeadInv, NEW ws \in SUBSET Callers, NEW j \in ws, Pick(ws, j),
         NEW c \in ws \ {j}, Prio[c] = KILL
  PROVE  Eff(j) = KILL
<1>1. Eff(c) = KILL /\ Eff(j) \in TrPriority
  BY EffType DEF LeadInv
<1>2. Eff(j) < Eff(c) \/ Eff(j) = Eff(c)
  BY DEF Pick
<1> QED
  BY <1>1, <1>2 DEF TrPriority, KILL

LEMMA DrainUrgent ==
  ASSUME KillInv, NEW l \in Callers, NEW ws \in SUBSET Callers,
         pc[l] \in Leading, Drain(l, ws),
         UNCHANGED <<promo, over>>
  PROVE  KillOvertakenOnce' /\ NextIsUrgent'
<1>1. KillOvertakenOnce'
  BY DEF KillInv, KillOvertakenOnce
<1>2. CASE ws = {} /\ waiters' = {}
  BY <1>1, <1>2 DEF NextIsUrgent
<1>3. ASSUME NEW j \in ws, Pick(ws, j), waiters' = ws \ {j},
             pc' = [pc EXCEPT ![l] = "gate"], cur' = [cur EXCEPT ![l] = j]
      PROVE  NextIsUrgent'
  <2> SUFFICES ASSUME NEW c \in ws \ {j}, Prio[c] = KILL,
                      NEW k \in Callers, pc'[k] = "gate"
               PROVE  Eff(cur[k])'  = KILL
    BY <1>3 DEF NextIsUrgent
  <2>1. k = l
    BY <1>3 DEF KillInv, LeadInv, OneLeader, TypeOK, Leading
  <2>2. cur'[l] = j
    BY <1>3 DEF KillInv, LeadInv, TypeOK
  <2>3. Eff(j) = KILL
    BY <1>3, PickUrgent DEF KillInv
  <2> QED
    BY <2>1, <2>2, <2>3 DEF Eff
<1> QED
  BY <1>1, <1>2, <1>3 DEF Drain

LEMMA KillInit == Init => KillInv
<1> SUFFICES ASSUME Init PROVE KillInv
  OBVIOUS
<1>1. KillOvertakenOnce /\ NextIsUrgent
  BY DEF Init, KillOvertakenOnce, NextIsUrgent
<1> QED
  BY <1>1, LeadInit DEF KillInv

LEMMA KillStep == KillInv /\ [Next]_vars => KillInv'
<1> SUFFICES ASSUME KillInv, [Next]_vars
             PROVE  KillOvertakenOnce' /\ NextIsUrgent'
  BY LeadStep DEF KillInv
<1> USE TrQueueAssumption
<1>1. ASSUME NEW c \in Callers, NewJob(c), waiters' \subseteq waiters \cup {c},
             \A l \in Callers : pc'[l] = "gate" =>
                \/ waiters' = {}
                \/ pc[l] = "gate" /\ cur'[l] = cur[l]
      PROVE  KillOvertakenOnce' /\ NextIsUrgent'
  <2>1. over' = [over EXCEPT ![c] = 0] /\ promo' = [promo EXCEPT ![c] = 0]
    BY <1>1 DEF NewJob
  <2>2. KillOvertakenOnce'
    BY <2>1 DEF KillInv, LeadInv, TypeOK, KillOvertakenOnce
  <2>3. ASSUME NEW d \in waiters', Prio[d] = KILL, over'[d] > 0,
               NEW l \in Callers, pc'[l] = "gate"
        PROVE  Eff(cur[l])' = KILL
    <3>1. d # c /\ d \in waiters /\ over[d] > 0
      BY <1>1, <2>1, <2>3 DEF KillInv, LeadInv, TypeOK
    <3>2. pc[l] = "gate" /\ cur'[l] = cur[l]
      BY <1>1, <2>3
    <3>3. Eff(cur[l]) = KILL /\ cur[l] \in Callers
      BY <2>3, <3>1, <3>2 DEF KillInv, NextIsUrgent, LeadInv, LeaderHasJob, Leading
    <3>4. cur[l] # c
      BY <1>1, <3>2 DEF NewJob, Queued
    <3>5. promo'[cur[l]] = promo[cur[l]]
      BY <2>1, <3>3, <3>4 DEF KillInv, LeadInv, TypeOK
    <3> QED
      BY <3>2, <3>3, <3>5 DEF Eff
  <2> QED
    BY <2>2, <2>3 DEF NextIsUrgent
<1>2. ASSUME NEW c \in Callers, SubmitWaits(c)
      PROVE  KillOvertakenOnce' /\ NextIsUrgent'
  <2>1. NewJob(c) /\ waiters' = waiters \cup {c} /\ cur' = cur
        /\ pc' = [pc EXCEPT ![c] = "await"]
    BY <1>2 DEF SubmitWaits
  <2>2. \A l \in Callers : pc'[l] = "gate" => pc[l] = "gate"
    BY <2>1 DEF KillInv, LeadInv, TypeOK
  <2> QED
    BY <1>1, <2>1, <2>2
<1>3. ASSUME NEW c \in Callers, SubmitLeads(c)
      PROVE  KillOvertakenOnce' /\ NextIsUrgent'
  <2>1. NewJob(c) /\ waiters' = {}
    BY <1>3 DEF SubmitLeads, KillInv, LeadInv, IdleIsEmpty
  <2> QED
    BY <1>1, <2>1
<1>4. ASSUME NEW c \in Callers, Return(c) \/ CancelWaiter(c)
      PROVE  KillOvertakenOnce' /\ NextIsUrgent'
  <2>1. UNCHANGED <<waiters, cur, promo, over>> /\ pc' = [pc EXCEPT ![c] = "idle"]
    BY <1>4 DEF Return, CancelWaiter
  <2>2. \A l \in Callers : pc'[l] = "gate" => pc[l] = "gate"
    BY <2>1 DEF KillInv, LeadInv, TypeOK
  <2> QED
    BY <2>1, <2>2 DEF KillInv, KillOvertakenOnce, NextIsUrgent, Eff
<1>5. ASSUME NEW c \in Callers, Gate(c)
      PROVE  KillOvertakenOnce' /\ NextIsUrgent'
  <2>1. /\ pc[c] = "gate" /\ pc' = [pc EXCEPT ![c] = "call"]
        /\ over' = [j \in Callers |->
              IF j \in waiters /\ Eff(j) < Eff(cur[c]) /\ over[j] < 2
              THEN over[j] + 1 ELSE over[j]]
    BY <1>5 DEF Gate
  <2>2. \A l \in Callers : pc'[l] # "gate"
    BY <2>1 DEF KillInv, LeadInv, OneLeader, TypeOK, Leading
  <2>3. ASSUME NEW j \in Callers, Prio[j] = KILL PROVE over'[j] <= 1
    <3>1. over[j] \in 0..2 /\ over[j] <= 1
      BY <2>3 DEF KillInv, LeadInv, TypeOK, KillOvertakenOnce
    <3>2. CASE over[j] = 0
      BY <2>1, <3>2
    <3>3. CASE over[j] = 1
      <4>1. j \in waiters => Eff(cur[c]) = KILL
        BY <2>1, <2>3, <3>3 DEF KillInv, NextIsUrgent
      <4>2. Eff(j) = KILL
        BY <2>3, EffType DEF KillInv, LeadInv
      <4> QED
        BY <2>1, <3>3, <4>1, <4>2 DEF KILL
    <3> QED
      BY <3>1, <3>2, <3>3
  <2> QED
    BY <2>2, <2>3 DEF KillOvertakenOnce, NextIsUrgent
<1>6. ASSUME NEW c \in Callers, CallReturns(c)
      PROVE  KillOvertakenOnce' /\ NextIsUrgent'
  BY <1>6, DrainUrgent DEF CallReturns, Leading, KillInv, LeadInv, TypeOK
<1>7. ASSUME NEW c \in Callers, CallExceedsCount(c)
      PROVE  KillOvertakenOnce' /\ NextIsUrgent'
  <2>1. UNCHANGED <<waiters, cur, promo, over>> /\ pc' = [pc EXCEPT ![c] = "backoff"]
    BY <1>7 DEF CallExceedsCount
  <2>2. \A l \in Callers : pc'[l] = "gate" => pc[l] = "gate"
    BY <2>1 DEF KillInv, LeadInv, TypeOK
  <2> QED
    BY <2>1, <2>2 DEF KillInv, KillOvertakenOnce, NextIsUrgent, Eff
<1>8. ASSUME NEW c \in Callers, Backoff(c)
      PROVE  KillOvertakenOnce' /\ NextIsUrgent'
  <2>1. pc[c] \in Leading /\ cur[c] \in Callers
    BY <1>8 DEF Backoff, KillInv, LeadInv, LeaderHasJob, Leading
  <2>2. waiters \cup {cur[c]} \in SUBSET Callers
    BY <2>1 DEF KillInv, LeadInv, TypeOK
  <2> QED
    BY <1>8, <2>1, <2>2, DrainUrgent DEF Backoff
<1>9. ASSUME NEW c \in Callers, CancelLeader(c)
      PROVE  KillOvertakenOnce' /\ NextIsUrgent'
  BY <1>9 DEF CancelLeader, KillInv, KillOvertakenOnce, NextIsUrgent
<1>10. ASSUME NEW c \in Callers, Age(c)
       PROVE  KillOvertakenOnce' /\ NextIsUrgent'
  <2>1. UNCHANGED <<pc, waiters, cur, over>> /\ promo' = [promo EXCEPT ![c] = @ + 1]
        /\ promo[c] < Prio[c]
    BY <1>10 DEF Age
  <2>2. ASSUME NEW j \in Callers, Eff(j) = KILL PROVE Eff(j)' = KILL
    BY <2>1, <2>2 DEF Eff, KillInv, LeadInv, TypeOK, TrPriority, KILL
  <2>3. ASSUME NEW l \in Callers, pc[l] = "gate", Eff(cur[l]) = KILL
        PROVE  Eff(cur[l])' = KILL
    <3>1. cur[l] \in Callers
      BY <2>3 DEF KillInv, LeadInv, LeaderHasJob, Leading
    <3> QED
      BY <2>1, <2>2, <2>3, <3>1 DEF Eff
  <2> QED
    BY <2>1, <2>3 DEF KillInv, KillOvertakenOnce, NextIsUrgent
<1>11. ASSUME IntervalPasses \/ UNCHANGED vars
       PROVE  KillOvertakenOnce' /\ NextIsUrgent'
  BY <1>11 DEF IntervalPasses, vars, KillInv, KillOvertakenOnce, NextIsUrgent, Eff
<1> QED
  BY <1>2, <1>3, <1>4, <1>5, <1>6, <1>7, <1>8, <1>9, <1>10, <1>11
     DEF Next, Submit, Lead, Cancel

(* The kill switch waits for one less urgent call at most, whatever is      *)
(* queued in front of it (_pick of core/tr_queue.py).                       *)
THEOREM KillComesNext == Spec => []KillOvertakenOnce
<1>1. KillInv => KillOvertakenOnce
  BY DEF KillInv
<1> QED
  BY KillInit, KillStep, <1>1, PTL DEF Spec

------------------------------------------------------------------------------
(* The spacing of calls: without cancellation the time of the last call is  *)
(* always recorded.                                                         *)
Recorded == recent => stamped

(* As long as no task is cancelled, a call begins only when the interval    *)
(* since the last one has passed (_gate of core/tr_queue.py).               *)
THEOREM CallsAreSpacedOut ==
  ASSUME ~Cancels
  PROVE  Spec => CallsAreSpaced
<1>1. Init => Recorded
  BY DEF Init, Recorded
<1>2. Recorded /\ [Next]_vars => Recorded'
  BY DEF Recorded, Next, Submit, SubmitWaits, SubmitLeads, NewJob, Return, Lead,
         Gate, CallReturns, CallExceedsCount, Backoff, Cancel, CancelWaiter,
         CancelLeader, IntervalPasses, Age, clock, vars
<1>3. TypeOK /\ Recorded /\ [Next]_vars
        => [\A l \in Callers : pc[l] # "call" /\ pc'[l] = "call" => ~recent]_vars
  <2> SUFFICES ASSUME TypeOK, Recorded, Next,
                      NEW l \in Callers, pc[l] # "call", pc'[l] = "call"
               PROVE  ~recent
    OBVIOUS
  <2>1. ASSUME NEW c \in Callers, Gate(c) PROVE ~recent
    BY <2>1 DEF Gate, Recorded
  <2>2. ASSUME NEW c \in Callers,
               Submit(c) \/ Return(c) \/ CallReturns(c) \/ CallExceedsCount(c)
                 \/ Backoff(c) \/ Cancel(c)
        PROVE  FALSE
    BY <2>2 DEF Submit, SubmitWaits, SubmitLeads, Return, CallReturns,
       CallExceedsCount, Backoff, Drain, Cancel, CancelWaiter, CancelLeader, TypeOK
  <2>3. ASSUME NEW c \in Callers, Age(c) \/ IntervalPasses PROVE FALSE
    BY <2>3 DEF Age, IntervalPasses
  <2> QED
    BY <2>1, <2>2, <2>3 DEF Next, Lead
<1> QED
  BY <1>1, <1>2, <1>3, QueueTypeCorrect, PTL DEF Spec, CallsAreSpaced
==============================================================================
