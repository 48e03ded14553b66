------------------------------- MODULE TrQueue -------------------------------
(***************************************************************************)
(* The serial queue for account TRs (core/tr_queue.py), one bucket of it.  *)
(*                                                                         *)
(* The queue has no task of its own: the caller of submit that finds it    *)
(* idle becomes the leader and runs everybody's jobs, one at a time, until *)
(* the list of waiters is empty; the others wait for the future of their   *)
(* job.  A leader steps from await to await: the minimum interval before a *)
(* call ("gate"), the call, the backoff after a call that exceeded the     *)
(* call count.  Between two awaits nothing else runs, so choosing the next *)
(* job is part of the step that ended the previous one.                    *)
(*                                                                         *)
(* A caller has one job at a time and names it.  The clock is two flags,   *)
(* and aging a step that promotes a job by one level.                      *)
(***************************************************************************)
EXTENDS Integers, FiniteSets

CONSTANTS
  Callers,
  Prio,        \* [Callers -> TrPriority], 0 = KILL, 1 = BOOT, 2 = ROUTINE
  MaxRetries,  \* max_retries
  Cancels,     \* TRUE: the task of a caller may be cancelled
  Nobody       \* no job

TrPriority == 0..2
KILL == 0

ASSUME TrQueueAssumption ==
  /\ Prio \in [Callers -> TrPriority]
  /\ MaxRetries \in Nat
  /\ Cancels \in BOOLEAN
  /\ Nobody \notin Callers

VARIABLES
  pc,        \* where the coroutine of a caller is; "idle": not in submit
  fut,       \* the future of the caller's job
  waiters,   \* b.waiters
  draining,  \* b.draining
  cur,       \* the job a leader has taken out of the waiters
  before,    \* <<a, b>>: a's job has a smaller seq than b's
  promo,     \* levels a job has been promoted by aging
  attempts,  \* job.attempts
  stamped,   \* the interval since b.last_call has not passed
  recent,    \* the interval since the last call ended has not passed
  over       \* history: calls of less urgent jobs begun while a job waits, up to 2

vars == <<pc, fut, waiters, draining, cur, before, promo, attempts, stamped,
          recent, over>>
clock == <<stamped, recent>>

Leading == {"gate", "call", "backoff"}

TypeOK ==
  /\ pc \in [Callers -> {"idle", "await"} \cup Leading]
  /\ fut \in [Callers -> {"none", "pending", "result", "error", "cancelled"}]
  /\ waiters \subseteq Callers
  /\ draining \in BOOLEAN
  /\ cur \in [Callers -> Callers \cup {Nobody}]
  /\ before \subseteq Callers \X Callers
  /\ promo \in [Callers -> TrPriority]
  /\ attempts \in [Callers -> 0..MaxRetries]
  /\ stamped \in BOOLEAN /\ recent \in BOOLEAN
  /\ over \in [Callers -> 0..2]

Init ==
  /\ pc = [c \in Callers |-> "idle"]
  /\ fut = [c \in Callers |-> "none"]
  /\ waiters = {}
  /\ draining = FALSE
  /\ cur = [c \in Callers |-> Nobody]
  /\ before = {}
  /\ promo = [c \in Callers |-> 0]
  /\ attempts = [c \in Callers |-> 0]
  /\ stamped = FALSE /\ recent = FALSE
  /\ over = [c \in Callers |-> 0]

------------------------------------------------------------------------------
(* A job that is in the queue or in a leader's hands. *)
Queued(c) == c \in waiters \/ \E l \in Callers : cur[l] = c

(* Mutant: no aging. *)
EffFixed(c) == Prio[c]

Eff(c) == IF Prio[c] - promo[c] > KILL THEN Prio[c] - promo[c] ELSE KILL

(* Mutant: first in, first out. *)
PickFifo(ws, j) == j \in ws /\ \A k \in ws \ {j} : <<j, k>> \in before

(* _pick: the most urgent job, the oldest of those. *)
Pick(ws, j) ==
  /\ j \in ws
  /\ \A k \in ws \ {j} :
       Eff(j) < Eff(k) \/ (Eff(j) = Eff(k) /\ <<j, k>> \in before)

(* Mutant: the leader leaves with jobs still waiting. *)
DrainOnce(l, ws) ==
  /\ waiters' = ws
  /\ draining' = FALSE
  /\ pc' = [pc EXCEPT ![l] = "await"]
  /\ cur' = [cur EXCEPT ![l] = Nobody]

(* The head of the loop of _drain, with the jobs ws waiting. *)
Drain(l, ws) ==
  \/ /\ ws = {}
     /\ waiters' = {}
     /\ draining' = FALSE
     /\ pc' = [pc EXCEPT ![l] = "await"]
     /\ cur' = [cur EXCEPT ![l] = Nobody]
  \/ \E j \in ws :
       /\ Pick(ws, j)
       /\ waiters' = ws \ {j}
       /\ pc' = [pc EXCEPT ![l] = "gate"]
       /\ cur' = [cur EXCEPT ![l] = j]
       /\ UNCHANGED draining

------------------------------------------------------------------------------
(* submit. *)

NewJob(c) ==
  /\ pc[c] = "idle"
  /\ ~Queued(c)   \* bound: one job per caller, also after a cancellation
  /\ fut' = [fut EXCEPT ![c] = "pending"]
  /\ before' = {e \in before : e[1] # c /\ e[2] # c}
                 \cup {<<b, c>> : b \in {x \in Callers : x # c /\ Queued(x)}}
  /\ promo' = [promo EXCEPT ![c] = 0]
  /\ attempts' = [attempts EXCEPT ![c] = 0]
  /\ over' = [over EXCEPT ![c] = 0]
  /\ UNCHANGED clock

SubmitWaits(c) ==
  /\ NewJob(c)
  /\ draining
  /\ waiters' = waiters \cup {c}
  /\ pc' = [pc EXCEPT ![c] = "await"]
  /\ UNCHANGED <<draining, cur>>

(* Mutant: the new leader does not announce itself. *)
SubmitLeadsUnseen(c) ==
  /\ NewJob(c)
  /\ ~draining
  /\ waiters' = waiters
  /\ pc' = [pc EXCEPT ![c] = "gate"]
  /\ cur' = [cur EXCEPT ![c] = c]
  /\ UNCHANGED draining

(* No job waits (NoneStranded), so the new leader picks its own. *)
SubmitLeads(c) ==
  /\ NewJob(c)
  /\ ~draining
  /\ draining' = TRUE
  /\ waiters' = waiters
  /\ pc' = [pc EXCEPT ![c] = "gate"]
  /\ cur' = [cur EXCEPT ![c] = c]

(* The future is done: submit returns its result or raises. *)
Return(c) ==
  /\ pc[c] = "await"
  /\ fut[c] # "pending"
  /\ pc' = [pc EXCEPT ![c] = "idle"]
  /\ fut' = [fut EXCEPT ![c] = "none"]
  /\ UNCHANGED <<waiters, draining, cur, before, promo, attempts, clock, over>>

------------------------------------------------------------------------------
(* The leader. *)

(* Mutant: the interval is not waited for. *)
GateOpen(l) ==
  /\ pc[l] = "gate"
  /\ pc' = [pc EXCEPT ![l] = "call"]
  /\ over' = [j \in Callers |->
                IF j \in waiters /\ Eff(j) < Eff(cur[l]) /\ over[j] < 2
                THEN over[j] + 1 ELSE over[j]]
  /\ UNCHANGED <<fut, waiters, draining, cur, before, promo, attempts, clock>>

Gate(l) ==
  /\ pc[l] = "gate"
  /\ ~stamped
  /\ pc' = [pc EXCEPT ![l] = "call"]
  /\ over' = [j \in Callers |->
                IF j \in waiters /\ Eff(j) < Eff(cur[l]) /\ over[j] < 2
                THEN over[j] + 1 ELSE over[j]]
  /\ UNCHANGED <<fut, waiters, draining, cur, before, promo, attempts, clock>>

(* set_result and set_exception leave a future alone that is already done. *)
CallReturns(l) ==
  /\ pc[l] = "call"
  /\ \E r \in {"result", "error"} :
       fut' = [fut EXCEPT ![cur[l]] = IF @ = "pending" THEN r ELSE @]
  /\ stamped' = TRUE /\ recent' = TRUE
  /\ Drain(l, waiters)
  /\ UNCHANGED <<before, promo, attempts, over>>

(* Mutant: retried without limit. *)
CallExceedsCountAlways(l) ==
  /\ pc[l] = "call"
  /\ attempts' = [attempts EXCEPT ![cur[l]] = @ + 1]
  /\ stamped' = TRUE /\ recent' = TRUE
  /\ pc' = [pc EXCEPT ![l] = "backoff"]
  /\ UNCHANGED <<fut, waiters, draining, cur, before, promo, over>>

CallExceedsCount(l) ==
  /\ pc[l] = "call"
  /\ attempts[cur[l]] < MaxRetries
  /\ attempts' = [attempts EXCEPT ![cur[l]] = @ + 1]
  /\ stamped' = TRUE /\ recent' = TRUE
  /\ pc' = [pc EXCEPT ![l] = "backoff"]
  /\ UNCHANGED <<fut, waiters, draining, cur, before, promo, over>>

Backoff(l) ==
  /\ pc[l] = "backoff"
  /\ Drain(l, waiters \cup {cur[l]})
  /\ UNCHANGED <<fut, before, promo, attempts, clock, over>>

------------------------------------------------------------------------------
(* Cancellation of the task of a caller.  A waiter takes its future along,  *)
(* the job stays in the queue.  A leader cancels the futures of the jobs    *)
(* that wait; the job it has taken out is not among them.                   *)

CancelWaiter(c) ==
  /\ Cancels
  /\ pc[c] = "await" /\ fut[c] = "pending"
  /\ fut' = [fut EXCEPT ![c] = "cancelled"]
  /\ pc' = [pc EXCEPT ![c] = "idle"]
  /\ UNCHANGED <<waiters, draining, cur, before, promo, attempts, clock, over>>

CancelLeader(l) ==
  /\ Cancels
  /\ pc[l] \in Leading
  /\ fut' = [c \in Callers |-> IF c = l THEN "none"
                               ELSE IF c \in waiters /\ fut[c] = "pending"
                                    THEN "cancelled" ELSE fut[c]]
  /\ waiters' = {}
  /\ draining' = FALSE
  /\ pc' = [pc EXCEPT ![l] = "idle"]
  /\ cur' = [cur EXCEPT ![l] = Nobody]
  /\ recent' = (recent \/ pc[l] = "call")
  /\ UNCHANGED <<before, promo, attempts, stamped, over>>

------------------------------------------------------------------------------
(* The clock. *)

IntervalPasses ==
  /\ recent
  /\ stamped' = FALSE /\ recent' = FALSE
  /\ UNCHANGED <<pc, fut, waiters, draining, cur, before, promo, attempts, over>>

Age(c) ==
  /\ Queued(c)
  /\ promo[c] < Prio[c]
  /\ promo' = [promo EXCEPT ![c] = @ + 1]
  /\ UNCHANGED <<pc, fut, waiters, draining, cur, before, attempts, clock, over>>

------------------------------------------------------------------------------
Submit(c) == SubmitWaits(c) \/ SubmitLeads(c)

Lead(l) == Gate(l) \/ CallReturns(l) \/ CallExceedsCount(l) \/ Backoff(l)

Cancel(c) == CancelWaiter(c) \/ CancelLeader(c)

Next ==
  \/ \E c \in Callers : Submit(c) \/ Return(c) \/ Lead(c) \/ Cancel(c) \/ Age(c)
  \/ IntervalPasses

Spec == Init /\ [][Next]_vars

(* The event loop runs a coroutine that can run, a TR comes to an end (the  *)
(* HTTP client times out), and time passes.                                 *)
Fairness ==
  /\ \A c \in Callers : WF_vars(Return(c)) /\ WF_vars(Lead(c)) /\ WF_vars(Age(c))
  /\ WF_vars(IntervalPasses)

FairSpec == Spec /\ Fairness

------------------------------------------------------------------------------
(* Properties. *)

(* One account TR of the bucket is in flight at a time, although leaders    *)
(* come, go and are cancelled in the middle of a call.                      *)
SerialCalls ==
  \A a, b \in Callers : pc[a] = "call" /\ pc[b] \in Leading => a = b

(* No job is left in the queue without somebody to run it: a submit that    *)
(* sees draining and only appends its job can rely on the leader.           *)
NoneStranded == waiters # {} => \E l \in Callers : pc[l] \in Leading

(* Once a KILL job waits, at most one call of a less urgent job still       *)
(* begins: the one whose leader was already waiting for the interval.       *)
KillOvertakenOnce == \A c \in Callers : Prio[c] = KILL => over[c] <= 1

(* The call count limit: a call begins only when the interval since the end *)
(* of the previous one has passed.                                          *)
CallsAreSpaced ==
  [][\A l \in Callers : pc[l] # "call" /\ pc'[l] = "call" => ~recent]_vars

(* Aging: whatever more urgent jobs keep being submitted, every job is      *)
(* answered in the end.                                                     *)
NoStarvation == \A c \in Callers : fut[c] = "pending" ~> fut[c] # "pending"
==============================================================================
