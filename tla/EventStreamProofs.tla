-------------------------- MODULE EventStreamProofs --------------------------
(***************************************************************************)
(* LossIsCounted and TypeOK for any number of sockets, queue sizes,        *)
(* requests and restarts.  LossIsCounted speaks of the last message        *)
(* ingested; it is kept because that message is among those seen in this   *)
(* life of the server, or because nothing has been seen yet.               *)
(***************************************************************************)
EXTENDS EventStream, FiniteSetTheorems, SequenceTheorems, TLAPS

Seqs == Nat \ {0}

\* What the argument needs of the types: a message is a positive seq.
Numbers ==
  /\ seq \in Nat
  /\ lastSeq \in Nat
  /\ gap \in BOOLEAN
  /\ seen \subseteq Seqs
  /\ queue \in [Conns -> Seq(Seqs)]

\* The store remembers a message of this life of the server once it has one.
LastIsSeen == seen = {} \/ lastSeq \in seen

LossIInv == Numbers /\ LastIsSeen /\ LossIsCounted

LEMMA InitLoss == Init => LossIInv
<1> SUFFICES ASSUME Init PROVE LossIInv
  OBVIOUS
<1>1. [c \in Conns |-> <<>>] \in [Conns -> Seq(Seqs)]
  OBVIOUS
<1>2. Numbers
  BY <1>1 DEF Init, Numbers
<1> QED
  BY <1>2 DEF Init, LossIInv, LastIsSeen, LossIsCounted

LEMMA PublishNumbers ==
  ASSUME Numbers, NEW n \in Seqs, Publish(n)
  PROVE  queue' \in [Conns -> Seq(Seqs)]
<1> DEFINE q(c) == IF c \in subs /\ Len(queue[c]) < QueueCap
                   THEN Append(queue[c], n) ELSE queue[c]
<1>1. ASSUME NEW c \in Conns PROVE q(c) \in Seq(Seqs)
  BY DEF Numbers
<1>2. queue' = [c \in Conns |-> q(c)]
  BY DEF Publish
<1> HIDE DEF q
<1> QED
  BY <1>1, <1>2

\* The steps that leave the store alone: only the queues and seq may change.
LEMMA StoreKept ==
  ASSUME LossIInv, UNCHANGED <<lastSeq, gap, seen>>,
         seq' \in Nat, queue' \in [Conns -> Seq(Seqs)]
  PROVE  LossIInv'
  BY DEF LossIInv, Numbers, LastIsSeen, LossIsCounted

\* ingest: the new seq is counted as a gap, or is at most one past the last.
LEMMA Ingest ==
  ASSUME LossIInv, NEW c \in Conns, OnMessage(c)
  PROVE  LossIInv'
<1> DEFINE n == Head(queue[c])
<1>1. /\ gap' = (gap \/ GapBefore(n)) /\ lastSeq' = n /\ seen' = seen \cup {n}
      /\ seq' = seq /\ queue' = [queue EXCEPT ![c] = Tail(@)]
      /\ queue[c] # <<>>
  BY DEF OnMessage
<1>2. n \in Seqs /\ Tail(queue[c]) \in Seq(Seqs)
  BY <1>1 DEF LossIInv, Numbers
<1> HIDE DEF n
<1>3. Numbers'
  <2>1. queue' \in [Conns -> Seq(Seqs)]
    BY <1>1, <1>2 DEF LossIInv, Numbers
  <2>2. n \in Nat /\ seen' \subseteq Seqs
    BY <1>1, <1>2 DEF LossIInv, Numbers, Seqs
  <2>3. gap' \in BOOLEAN
    BY <1>1 DEF LossIInv, Numbers, GapBefore
  <2> QED
    BY <1>1, <2>1, <2>2, <2>3 DEF LossIInv, Numbers
<1>4. LastIsSeen'
  BY <1>1 DEF LastIsSeen
<1>5. ASSUME ~gap', NEW m \in seen', m < n
      PROVE  m..n \subseteq seen'
  <2>1. ~gap /\ (lastSeq = 0 \/ n <= lastSeq + 1)
    <3>1. ~gap /\ ~GapBefore(n)
      BY <1>1, <1>5
    <3> QED
      BY <1>2, <3>1 DEF GapBefore, LossIInv, Numbers, Seqs
  <2>2. m \in seen /\ m \in Seqs /\ n \in Nat
    BY <1>1, <1>2, <1>5 DEF LossIInv, Numbers, Seqs
  <2>3. lastSeq \in seen /\ lastSeq \in Seqs
    BY <2>2 DEF LossIInv, LastIsSeen, Numbers
  <2>4. n <= lastSeq + 1
    BY <2>1, <2>3 DEF Seqs
  <2>5. m = lastSeq \/ (m < lastSeq => m..lastSeq \subseteq seen)
    BY <2>1, <2>2, <2>3 DEF LossIInv, LossIsCounted
  <2>6. SUFFICES ASSUME NEW k \in m..n, k # n, k # m PROVE k \in seen
    BY <1>1, <2>2
  <2>7. k \in Nat /\ m < k /\ k < n
    BY <2>2, <2>6 DEF Seqs
  <2>8. k <= lastSeq /\ m < lastSeq /\ k \in m..lastSeq
    BY <2>2, <2>3, <2>4, <2>7 DEF Seqs
  <2> QED
    BY <2>2, <2>3, <2>5, <2>8 DEF Seqs
<1>6. LossIsCounted'
  BY <1>1, <1>5 DEF LossIsCounted
<1> QED
  BY <1>3, <1>4, <1>6 DEF LossIInv

\* A crash forgets what was seen of the server's life; the store does not.
LEMMA CrashLoss ==
  ASSUME LossIInv, Crash
  PROVE  LossIInv'
<1>1. seen' = {} /\ seq' = 0 /\ queue' = [c \in Conns |-> <<>>]
      /\ UNCHANGED <<lastSeq, gap>>
  BY DEF Crash
<1>2. Numbers'
  BY <1>1 DEF LossIInv, Numbers
<1> QED
  BY <1>1, <1>2 DEF LossIInv, LastIsSeen, LossIsCounted

LEMMA NextLoss ==
  ASSUME LossIInv, [Next]_vars
  PROVE  LossIInv'
<1> USE DEF serverVars, socketVars, storeVars
<1>0. seq \in Nat /\ queue \in [Conns -> Seq(Seqs)]
  BY DEF LossIInv, Numbers
<1>1. CASE Change \/ RequestRaises \/ Restart \/ TimerFires \/ Mount \/ Unmount
  BY <1>0, <1>1, StoreKept
  DEF Change, Engage, Release, RequestRaises, Restart, TimerFires, Mount, Unmount
<1>2. CASE PublishHalt
  <2>1. seq' = seq + 1 /\ Publish(seq + 1) /\ seq + 1 \in Seqs
    BY <1>0, <1>2 DEF PublishHalt, Seqs
  <2>2. queue' \in [Conns -> Seq(Seqs)]
    BY <2>1, PublishNumbers DEF LossIInv
  <2> QED
    BY <1>0, <1>2, <2>1, <2>2, StoreKept DEF PublishHalt
<1>3. CASE Crash
  BY <1>3, CrashLoss
<1>4. CASE Poll \/ QueryStep
  BY <1>0, <1>4, StoreKept DEF Poll, QueryStep, Read, Answer, QueryFails
<1>5. ASSUME NEW c \in Conns, ServerStep(c)
      PROVE  LossIInv'
  <2>1. queue' \in [Conns -> Seq(Seqs)] /\ seq' \in Nat
    <3>1. <<>> \in Seq(Seqs)
      OBVIOUS
    <3>2. seq' = seq /\ (queue' = queue \/ queue' = [queue EXCEPT ![c] = <<>>])
      BY <1>5 DEF ServerStep, Accept, Subscribe, Disconnect
    <3> QED
      BY <1>0, <3>1, <3>2
  <2> QED
    BY <1>5, <2>1, StoreKept DEF ServerStep, Accept, Subscribe, Disconnect
<1>6. ASSUME NEW c \in Conns, OnOpen(c) \/ OnClose(c) \/ Break(c)
      PROVE  LossIInv'
  BY <1>0, <1>6, StoreKept DEF OnOpen, OnClose, Break
<1>7. ASSUME NEW c \in Conns, OnMessage(c)
      PROVE  LossIInv'
  BY <1>7, Ingest
<1>8. CASE UNCHANGED vars
  BY <1>0, <1>8, StoreKept DEF vars
<1> QED
  BY <1>1, <1>2, <1>3, <1>4, <1>5, <1>6, <1>7, <1>8 DEF Next, RequestEnds, SocketStep

\* Without a counted gap, no message between the first and the last one the
\* tab ingested in this life of the server is missing, whatever the queues
\* dropped, however many sockets delivered, in whichever order
\* (event_bus.py publish, store.ts ingest).
THEOREM LossIsAlwaysCounted == Spec => []LossIsCounted
<1>1. LossIInv => LossIsCounted
  BY DEF LossIInv
<1> QED
  BY <1>1, InitLoss, NextLoss, PTL DEF Spec
-----------------------------------------------------------------------------
(* Type correctness.  The number of scheduled reconnects is bounded because  *)
(* a socket that is gone leaves at most one, and only a mount brings in a    *)
(* socket that no reconnect stands for.                                      *)

Messages(n) == UNION {[1..k -> 1..n] : k \in 0..QueueCap}

ServerType ==
  /\ up \in BOOLEAN
  /\ halted \subseteq Scopes
  /\ unsaid \in 0..MaxRequests
  /\ seq \in 0..MaxRequests
  /\ subs \subseteq {c \in Conns : server[c] = "streaming"}
  /\ queue \in [Conns -> Messages(seq)]
  /\ server \in [Conns -> {"none", "accepted", "streaming"}]

SocketType ==
  /\ client \in [Conns -> {"closed", "connecting", "open", "closing"}]
  /\ socket \in Conns \cup {None}
  /\ retries \in BOOLEAN /\ stopped \in BOOLEAN /\ mounted \in BOOLEAN
  /\ timers \in Nat
  /\ status \in {"connecting", "open", "closed"}

\* What the query may have read so far.
Readings == UNION {[1..n -> BOOLEAN] : n \in 0..Len(ReadPlan)}

StoreType ==
  /\ lastSeq \in 0..MaxRequests
  /\ gap \in BOOLEAN
  /\ fetch = Idle \/ fetch \in Readings
  /\ seen \subseteq 1..seq

Budget ==  \* every message was asked for
  /\ used \in [requests : 0..MaxRequests, crashes : Nat, breaks : Nat, mounts : 0..MaxMounts]
  /\ seq + unsaid <= used.requests

Busy == {c \in Conns : client[c] # "closed"}
Attempts == IF mounted THEN used.mounts + 1 ELSE used.mounts

Reconnects ==  \* each mount brings one socket or reconnect into the world
  /\ IsFiniteSet(Busy)
  /\ timers + Cardinality(Busy) <= Attempts

TypeIInv == ServerType /\ SocketType /\ StoreType /\ Budget /\ Reconnects

LEMMA TypeFollows == TypeIInv => TypeOK
<1> SUFFICES ASSUME TypeIInv PROVE TypeOK
  OBVIOUS
<1>1. timers \in 0..MaxMounts + 1
  <2>1. Cardinality(Busy) \in Nat
    BY FS_CardinalityType DEF TypeIInv, Reconnects
  <2>2. used.mounts \in 0..MaxMounts /\ timers \in Nat /\ MaxMounts \in Nat
    BY EventStreamAssumption DEF TypeIInv, Budget, SocketType
  <2> QED
    BY <2>1, <2>2 DEF TypeIInv, Reconnects, Attempts
<1> QED
  BY <1>1 DEF TypeIInv, ServerType, SocketType, StoreType, TypeOK, Messages, Readings

\* A queue holds a sequence no longer than its capacity.
LEMMA MessagesAre ==
  ASSUME NEW n \in Nat, NEW s
  PROVE  s \in Messages(n) <=> s \in Seq(1..n) /\ Len(s) <= QueueCap
<1>1. ASSUME s \in Messages(n) PROVE s \in Seq(1..n) /\ Len(s) <= QueueCap
  <2>1. PICK k \in 0..QueueCap : s \in [1..k -> 1..n]
    BY <1>1 DEF Messages
  <2>2. k \in Nat
    BY EventStreamAssumption
  <2>3. s \in Seq(1..n)
    BY <2>1, <2>2, SeqDef
  <2>4. Len(s) = k
    BY <2>1, <2>2, <2>3, LenProperties
  <2> QED
    BY <2>1, <2>3, <2>4, EventStreamAssumption
<1>2. ASSUME s \in Seq(1..n), Len(s) <= QueueCap PROVE s \in Messages(n)
  <2>1. Len(s) \in 0..QueueCap /\ s \in [1..Len(s) -> 1..n]
    BY <1>2, LenProperties, EventStreamAssumption
  <2> QED
    BY <2>1 DEF Messages
<1> QED
  BY <1>1, <1>2

LEMMA EmptyMessages == \A n \in Nat : <<>> \in Messages(n)
<1> SUFFICES ASSUME NEW n \in Nat PROVE <<>> \in Messages(n)
  OBVIOUS
<1>1. <<>> \in Seq(1..n) /\ Len(<<>>) = 0
  OBVIOUS
<1>2. <<>> \in Seq(1..n) /\ Len(<<>>) <= QueueCap
  BY <1>1, EventStreamAssumption
<1> QED
  BY <1>2, MessagesAre

LEMMA InitTypes == Init => TypeIInv
<1> SUFFICES ASSUME Init PROVE TypeIInv
  OBVIOUS
<1>1. ServerType
  BY EmptyMessages, EventStreamAssumption DEF Init, ServerType
<1>4. SocketType
  BY DEF Init, SocketType
<1>5. StoreType
  <2>1. 0 \in 0..MaxRequests
    BY EventStreamAssumption
  <2> QED
    BY <2>1 DEF Init, StoreType, Idle
<1>2. Budget
  BY EventStreamAssumption DEF Init, Budget
<1>3. Reconnects
  <2>1. Busy = {}
    BY DEF Init, Busy
  <2> QED
    BY <2>1, FS_EmptySet DEF Init, Reconnects, Attempts
<1> QED
  BY <1>1, <1>2, <1>3, <1>4, <1>5 DEF TypeIInv

\* A step spends one of a budget, and the others stay.
LEMMA SpendBudget ==
  ASSUME Budget, NEW w \in {"requests", "crashes", "breaks", "mounts"},
         NEW max \in Nat, Spend(w, max),
         w = "requests" => max = MaxRequests,
         w = "mounts" => max = MaxMounts
  PROVE  /\ used' \in [requests : 0..MaxRequests, crashes : Nat, breaks : Nat, mounts : 0..MaxMounts]
         /\ used'.requests = IF w = "requests" THEN used.requests + 1 ELSE used.requests
         /\ used'.mounts = IF w = "mounts" THEN used.mounts + 1 ELSE used.mounts
<1>1. MaxRequests \in Nat /\ MaxMounts \in Nat
  BY EventStreamAssumption
<1>2. CASE w = "requests"
  BY <1>1, <1>2 DEF Budget, Spend
<1>3. CASE w = "crashes"
  BY <1>1, <1>3 DEF Budget, Spend
<1>4. CASE w = "breaks"
  BY <1>1, <1>4 DEF Budget, Spend
<1>5. CASE w = "mounts"
  BY <1>1, <1>5 DEF Budget, Spend
<1> QED
  BY <1>2, <1>3, <1>4, <1>5

LEMMA ReconnectsKept ==
  ASSUME Reconnects, UNCHANGED <<client, timers, mounted>>, used'.mounts = used.mounts
  PROVE  Reconnects'
  BY DEF Reconnects, Attempts, Busy

LEMMA ChangeTypes ==
  ASSUME TypeIInv, Change
  PROVE  TypeIInv'
<1>1. PICK s \in Scopes : Engage(s) \/ Release(s)
  BY DEF Change
<1>2. /\ Spend("requests", MaxRequests) /\ unsaid' = unsaid + 1
      /\ UNCHANGED <<up, seq, subs, queue, server, socketVars, storeVars>>
      /\ halted' \subseteq Scopes
  BY <1>1 DEF Engage, Release, TypeIInv, ServerType
<1>3. /\ used' \in [requests : 0..MaxRequests, crashes : Nat, breaks : Nat, mounts : 0..MaxMounts]
      /\ used'.requests = used.requests + 1 /\ used'.mounts = used.mounts
  BY <1>2, SpendBudget, EventStreamAssumption DEF TypeIInv
<1>4. unsaid' \in 0..MaxRequests /\ seq' + unsaid' <= used'.requests
  BY <1>2, <1>3, EventStreamAssumption DEF TypeIInv, Budget, ServerType
<1>5. SocketType' /\ StoreType'
  BY <1>2 DEF TypeIInv, SocketType, StoreType, socketVars, storeVars
<1>6. ServerType'
  BY <1>2, <1>4 DEF TypeIInv, ServerType
<1>7. Reconnects'
  BY <1>2, <1>3, ReconnectsKept DEF TypeIInv, socketVars
<1> QED
  BY <1>3, <1>4, <1>5, <1>6, <1>7 DEF TypeIInv, Budget

LEMMA PublishTypes ==
  ASSUME TypeIInv, PublishHalt
  PROVE  TypeIInv'
<1> DEFINE q(c) == IF c \in subs /\ Len(queue[c]) < QueueCap
                   THEN Append(queue[c], seq + 1) ELSE queue[c]
<1>1. /\ unsaid > 0 /\ unsaid' = unsaid - 1 /\ seq' = seq + 1
      /\ queue' = [c \in Conns |-> q(c)]
      /\ UNCHANGED <<up, halted, subs, server, used>> /\ UNCHANGED socketVars /\ UNCHANGED storeVars
  BY DEF PublishHalt, Publish
<1>2. /\ unsaid' \in 0..MaxRequests /\ seq' \in 0..MaxRequests /\ seq' + unsaid' <= used'.requests
      /\ seq \in Nat
  BY <1>1, EventStreamAssumption DEF TypeIInv, Budget, ServerType
<1>3. ASSUME NEW c \in Conns PROVE q(c) \in Messages(seq + 1)
  <2>1. queue[c] \in Seq(1..seq) /\ Len(queue[c]) <= QueueCap
    BY <1>2, MessagesAre DEF TypeIInv, ServerType
  <2>2. queue[c] \in Seq(1..(seq + 1))
    BY <1>2, <2>1, SeqMonotonic
  <2>3. q(c) \in Seq(1..(seq + 1)) /\ Len(q(c)) <= QueueCap
    <3>1. CASE c \in subs /\ Len(queue[c]) < QueueCap
      BY <1>2, <2>2, <3>1, AppendProperties, EventStreamAssumption
    <3>2. CASE ~(c \in subs /\ Len(queue[c]) < QueueCap)
      BY <2>1, <2>2, <3>2
    <3> QED
      BY <3>1, <3>2
  <2> HIDE DEF q
  <2> QED
    BY <1>2, <2>3, MessagesAre
<1> HIDE DEF q
<1>4. ServerType'
  BY <1>1, <1>2, <1>3 DEF TypeIInv, ServerType
<1>5. SocketType' /\ StoreType'
  BY <1>1, <1>2 DEF TypeIInv, SocketType, StoreType, socketVars, storeVars
<1>6. Reconnects'
  BY <1>1, ReconnectsKept DEF TypeIInv, socketVars
<1> QED
  BY <1>1, <1>2, <1>4, <1>5, <1>6 DEF TypeIInv, Budget

LEMMA RaiseTypes ==
  ASSUME TypeIInv, RequestRaises
  PROVE  TypeIInv'
<1>1. /\ unsaid > 0 /\ unsaid' = unsaid - 1
      /\ UNCHANGED <<up, halted, seq, subs, queue, server, used>>
      /\ UNCHANGED socketVars /\ UNCHANGED storeVars
  BY DEF RequestRaises
<1>2. unsaid' \in 0..MaxRequests /\ seq' + unsaid' <= used'.requests
  BY <1>1, EventStreamAssumption DEF TypeIInv, Budget, ServerType
<1>3. ServerType'
  BY <1>1, <1>2 DEF TypeIInv, ServerType
<1>4. SocketType' /\ StoreType'
  BY <1>1 DEF TypeIInv, SocketType, StoreType, socketVars, storeVars
<1>5. Reconnects'
  BY <1>1, ReconnectsKept DEF TypeIInv, socketVars
<1> QED
  BY <1>1, <1>2, <1>3, <1>4, <1>5 DEF TypeIInv, Budget

LEMMA ServerTypes ==
  ASSUME TypeIInv, NEW c \in Conns, ServerStep(c)
  PROVE  TypeIInv'
<1>1. UNCHANGED <<up, halted, unsaid, seq, used>> /\ UNCHANGED socketVars /\ UNCHANGED storeVars
  BY DEF ServerStep, Accept, Subscribe, Disconnect
<1>2. queue' = queue \/ queue' = [queue EXCEPT ![c] = <<>>]
  BY DEF ServerStep, Accept, Subscribe, Disconnect
<1>3. queue' \in [Conns -> Messages(seq')]
  BY <1>1, <1>2, EmptyMessages DEF TypeIInv, ServerType
<1>4. server' \in [Conns -> {"none", "accepted", "streaming"}]
  BY DEF ServerStep, Accept, Subscribe, Disconnect, TypeIInv, ServerType
<1>5. subs' \subseteq {k \in Conns : server'[k] = "streaming"}
  BY DEF ServerStep, Accept, Subscribe, Disconnect, TypeIInv, ServerType
<1>6. ServerType' /\ Budget'
  BY <1>1, <1>3, <1>4, <1>5 DEF TypeIInv, ServerType, Budget
<1>7. SocketType' /\ StoreType'
  BY <1>1 DEF TypeIInv, SocketType, StoreType, socketVars, storeVars
<1>8. Reconnects'
  BY <1>1, ReconnectsKept DEF TypeIInv, socketVars
<1> QED
  BY <1>6, <1>7, <1>8 DEF TypeIInv

\* What the steps of the socket and the store keep on the server's side.
LEMMA ServerKept ==
  ASSUME TypeIInv, UNCHANGED <<up, halted, unsaid, seq, subs, server>>,
         queue' = queue \/ \E c \in Conns : queue[c] # <<>> /\ queue' = [queue EXCEPT ![c] = Tail(@)]
  PROVE  ServerType'
<1>1. queue' \in [Conns -> Messages(seq)]
  <2>1. CASE queue' = queue
    BY <2>1 DEF TypeIInv, ServerType
  <2>2. ASSUME NEW c \in Conns, queue[c] # <<>>, queue' = [queue EXCEPT ![c] = Tail(@)]
        PROVE  queue' \in [Conns -> Messages(seq)]
    <3>1. seq \in Nat /\ queue[c] \in Messages(seq)
      BY EventStreamAssumption DEF TypeIInv, ServerType
    <3>2. queue[c] \in Seq(1..seq) /\ Len(queue[c]) <= QueueCap
      BY <3>1, MessagesAre
    <3>3. Tail(queue[c]) \in Seq(1..seq) /\ Len(Tail(queue[c])) <= QueueCap
      <4>1. Tail(queue[c]) \in Seq(1..seq) /\ Len(Tail(queue[c])) = Len(queue[c]) - 1
        BY <2>2, <3>2, HeadTailProperties
      <4>2. Len(queue[c]) \in Nat /\ QueueCap \in Nat
        BY <3>2, LenProperties, EventStreamAssumption
      <4> QED
        BY <3>2, <4>1, <4>2
    <3>4. Tail(queue[c]) \in Messages(seq)
      BY <3>1, <3>3, MessagesAre
    <3> QED
      BY <2>2, <3>4 DEF TypeIInv, ServerType
  <2> QED
    BY <2>1, <2>2
<1> QED
  BY <1>1 DEF TypeIInv, ServerType

LEMMA EmptyReading == <<>> \in Readings
<1>1. Len(ReadPlan) \in Nat
  OBVIOUS
<1>2. <<>> \in [1..0 -> BOOLEAN]
  OBVIOUS
<1>3. 0 \in 0..Len(ReadPlan)
  BY <1>1
<1> HIDE DEF ReadPlan
<1> QED
  BY <1>2, <1>3 DEF Readings

LEMMA ReadMore ==
  ASSUME NEW got \in Readings, Len(got) < Len(ReadPlan), NEW x \in BOOLEAN
  PROVE  Append(got, x) \in Readings
<1>1. PICK n \in 0..Len(ReadPlan) : got \in [1..n -> BOOLEAN]
  BY DEF Readings
<1>2. n \in Nat /\ Len(ReadPlan) \in Nat
  OBVIOUS
<1>3. got \in Seq(BOOLEAN)
  BY <1>1, <1>2, SeqDef
<1>4. Len(got) = n
  BY <1>1, <1>2, <1>3, LenProperties
<1>5. Append(got, x) \in Seq(BOOLEAN) /\ Len(Append(got, x)) = n + 1
  BY <1>3, <1>4, AppendProperties
<1>6. Append(got, x) \in [1..(n + 1) -> BOOLEAN]
  BY <1>5, LenProperties
<1>7. n + 1 \in 0..Len(ReadPlan)
  BY <1>2, <1>4
<1> HIDE DEF ReadPlan
<1> QED
  BY <1>6, <1>7 DEF Readings

\* The query reads no further than its plan.
LEMMA FetchTypes ==
  ASSUME TypeIInv, Poll \/ QueryStep
  PROVE  TypeIInv'
<1>1. UNCHANGED serverVars /\ UNCHANGED socketVars /\ UNCHANGED <<lastSeq, gap, used, seen>>
  BY DEF Poll, QueryStep, Read, Answer, QueryFails
<1>2. <<>> \in Readings
  BY EmptyReading
<1>3. fetch' = Idle \/ fetch' \in Readings
  <2>1. CASE Read
    <3>1. fetch \in Readings /\ Len(fetch) < Len(ReadPlan)
      BY <2>1 DEF Read, TypeIInv, StoreType
    <3>2. \E x : x = (ReadPlan[Len(fetch) + 1] \in halted)
      OBVIOUS
    <3>3. PICK x : x = (ReadPlan[Len(fetch) + 1] \in halted)
      BY <3>2
    <3>4. x \in BOOLEAN
      BY <3>3
    <3>5. fetch' = Append(fetch, x)
      BY <2>1, <3>3, Zenon DEF Read
    <3> QED
      BY <3>1, <3>4, <3>5, ReadMore
  <2> QED
    BY <1>2, <2>1 DEF Poll, QueryStep, Answer, QueryFails
<1>4. ServerType'
  BY <1>1, ServerKept DEF serverVars
<1>5. SocketType' /\ StoreType' /\ Budget'
  BY <1>1, <1>3 DEF TypeIInv, SocketType, StoreType, Budget, serverVars, socketVars
<1>6. Reconnects'
  BY <1>1, ReconnectsKept DEF TypeIInv, socketVars
<1> QED
  BY <1>4, <1>5, <1>6 DEF TypeIInv

LEMMA RefetchedType ==
  ASSUME StoreType
  PROVE  /\ Refetched = Idle \/ Refetched \in Readings
         /\ <<>> \in Readings
  BY EmptyReading DEF Refetched, StoreType

\* The sockets that are busy, when one of them changes.
LEMMA BusyOne ==
  ASSUME SocketType, NEW c \in Conns, NEW s, client' = [client EXCEPT ![c] = s]
  PROVE  Busy' = IF s = "closed" THEN Busy \ {c} ELSE Busy \cup {c}
  BY DEF Busy, SocketType

LEMMA OpenTypes ==
  ASSUME TypeIInv, NEW c \in Conns, OnOpen(c)
  PROVE  TypeIInv'
<1>1. UNCHANGED serverVars /\ UNCHANGED <<socket, timers, stopped, mounted, lastSeq, gap, cache, used, seen>>
  BY DEF OnOpen
<1>2. ServerType' /\ Budget'
  BY <1>1, ServerKept DEF serverVars, TypeIInv, Budget
<1>3. SocketType' /\ StoreType'
  BY <1>1, RefetchedType DEF TypeIInv, OnOpen, SocketType, StoreType, serverVars
<1>4. Busy' = Busy
  BY BusyOne DEF OnOpen, TypeIInv, Busy
<1>5. Reconnects'
  BY <1>1, <1>4 DEF TypeIInv, Reconnects, Attempts
<1> QED
  BY <1>2, <1>3, <1>5 DEF TypeIInv

LEMMA MessageTypes ==
  ASSUME TypeIInv, NEW c \in Conns, OnMessage(c)
  PROVE  TypeIInv'
<1>1. /\ UNCHANGED <<up, halted, unsaid, seq, subs, server>> /\ UNCHANGED socketVars /\ UNCHANGED <<cache, used>>
      /\ queue[c] # <<>> /\ queue' = [queue EXCEPT ![c] = Tail(@)]
  BY DEF OnMessage
<1>2. ServerType' /\ Budget'
  BY <1>1, ServerKept DEF TypeIInv, Budget
<1>3. Head(queue[c]) \in 1..seq /\ seq \in 0..MaxRequests
  <2>1. seq \in Nat /\ queue[c] \in Messages(seq)
    BY EventStreamAssumption DEF TypeIInv, ServerType
  <2>2. queue[c] \in Seq(1..seq)
    BY <2>1, MessagesAre
  <2> QED
    BY <1>1, <2>2, HeadTailProperties DEF TypeIInv, ServerType
<1>4. StoreType'
  <2>1. lastSeq' = Head(queue[c]) /\ seen' = seen \cup {Head(queue[c])}
        /\ gap' \in BOOLEAN /\ fetch' = Refetched
    BY DEF OnMessage, TypeIInv, StoreType, GapBefore
  <2>2. fetch' = Idle \/ fetch' \in Readings
    BY <2>1, RefetchedType DEF TypeIInv
  <2>3. lastSeq' \in 0..MaxRequests
    BY <1>3, <2>1, EventStreamAssumption
  <2> QED
    BY <1>1, <1>3, <2>1, <2>2, <2>3 DEF TypeIInv, StoreType, Idle
<1>5. SocketType'
  BY <1>1 DEF TypeIInv, SocketType, socketVars
<1>6. Reconnects'
  BY <1>1, ReconnectsKept DEF TypeIInv, socketVars
<1> QED
  BY <1>2, <1>4, <1>5, <1>6 DEF TypeIInv

LEMMA CloseTypes ==
  ASSUME TypeIInv, NEW c \in Conns, OnClose(c)
  PROVE  TypeIInv'
<1>1. /\ UNCHANGED serverVars /\ UNCHANGED storeVars /\ UNCHANGED <<socket, stopped, mounted, used>>
      /\ client[c] = "closing" /\ client' = [client EXCEPT ![c] = "closed"]
      /\ timers' \in {timers, timers + 1}
  BY DEF OnClose
<1>2. ServerType' /\ Budget' /\ StoreType'
  BY <1>1, ServerKept DEF TypeIInv, Budget, StoreType, serverVars, storeVars
<1>3. SocketType'
  <2>1. status' = "closed" /\ retries' \in {retries, TRUE}
    BY DEF OnClose
  <2> QED
    <3>1. client' \in [Conns -> {"closed", "connecting", "open", "closing"}]
      BY <1>1 DEF TypeIInv, SocketType
    <3>2. timers' \in Nat
      BY <1>1 DEF TypeIInv, SocketType
    <3>3. retries' \in BOOLEAN
      BY <2>1 DEF TypeIInv, SocketType
    <3>4. socket' \in Conns \cup {None} /\ stopped' \in BOOLEAN /\ mounted' \in BOOLEAN
      BY <1>1 DEF TypeIInv, SocketType
    <3> QED
      BY <2>1, <3>1, <3>2, <3>3, <3>4 DEF SocketType
<1>4. Busy' = Busy \ {c} /\ c \in Busy
  BY <1>1, BusyOne DEF TypeIInv, Busy
<1>5. Reconnects'
  <2>1. IsFiniteSet(Busy') /\ Cardinality(Busy') = Cardinality(Busy) - 1
    BY <1>4, FS_RemoveElement DEF TypeIInv, Reconnects
  <2>2. Cardinality(Busy) \in Nat /\ timers \in Nat /\ used.mounts \in Nat
    BY FS_CardinalityType, EventStreamAssumption DEF TypeIInv, Reconnects, Budget, SocketType
  <2>3. Attempts' = Attempts /\ Attempts \in Nat
    BY <1>1, <2>2 DEF Attempts
  <2> QED
    BY <1>1, <2>1, <2>2, <2>3 DEF TypeIInv, Reconnects
<1> QED
  BY <1>2, <1>3, <1>5 DEF TypeIInv

LEMMA BreakTypes ==
  ASSUME TypeIInv, NEW c \in Conns, Break(c)
  PROVE  TypeIInv'
<1>1. /\ UNCHANGED serverVars /\ UNCHANGED storeVars
      /\ UNCHANGED <<socket, retries, timers, stopped, mounted, status>>
      /\ client[c] # "closed" /\ client' = [client EXCEPT ![c] = "closing"]
  BY DEF Break
<1>2. Budget' /\ used'.mounts = used.mounts
  <2>1. CASE UNCHANGED used
    BY <1>1, <2>1 DEF TypeIInv, Budget, serverVars
  <2>2. CASE Spend("breaks", MaxBreaks)
    BY <1>1, <2>2, SpendBudget, EventStreamAssumption DEF TypeIInv, Budget, serverVars
  <2> QED
    BY <2>1, <2>2 DEF Break
<1>3. ServerType' /\ StoreType' /\ SocketType'
  BY <1>1, ServerKept DEF TypeIInv, StoreType, SocketType, serverVars, storeVars
<1>4. Busy' = Busy
  BY <1>1, BusyOne DEF TypeIInv, Busy
<1>5. Reconnects'
  BY <1>1, <1>2, <1>4 DEF TypeIInv, Reconnects, Attempts
<1> QED
  BY <1>2, <1>3, <1>5 DEF TypeIInv

\* A new socket takes a slot that was free.
LEMMA ConnectBusy ==
  ASSUME SocketType, IsFiniteSet(Busy), NEW c \in Conns, Connect(c)
  PROVE  /\ IsFiniteSet(Busy') /\ Cardinality(Busy') = Cardinality(Busy) + 1
         /\ client' \in [Conns -> {"closed", "connecting", "open", "closing"}]
         /\ socket' = c /\ status' = "connecting"
<1>1. c \notin Busy /\ Busy' = Busy \cup {c}
  <2>1. client[c] = "closed" /\ client' = [client EXCEPT ![c] = "connecting"]
    BY DEF Connect, Free
  <2>2. Busy' = Busy \cup {c}
    BY <2>1 DEF Busy, SocketType
  <2> QED
    BY <2>1, <2>2 DEF Busy
<1> QED
  BY <1>1, FS_AddElement DEF Connect, SocketType

LEMMA TimerTypes ==
  ASSUME TypeIInv, TimerFires
  PROVE  TypeIInv'
<1>1. /\ UNCHANGED serverVars /\ UNCHANGED storeVars /\ UNCHANGED <<retries, stopped, mounted, used>>
      /\ timers > 0 /\ timers' = timers - 1
  BY DEF TimerFires
<1>2. ServerType' /\ Budget' /\ StoreType'
  BY <1>1, ServerKept DEF TypeIInv, Budget, StoreType, serverVars, storeVars
<1>3. IsFiniteSet(Busy) /\ Cardinality(Busy) \in Nat /\ timers \in Nat /\ used.mounts \in Nat /\ SocketType
  BY FS_CardinalityType, EventStreamAssumption DEF TypeIInv, Reconnects, Budget, SocketType
<1>4. Attempts' = Attempts /\ Attempts \in Nat /\ timers + Cardinality(Busy) <= Attempts
  BY <1>1, <1>3 DEF Attempts, TypeIInv, Reconnects
<1>5. CASE UNCHANGED <<client, socket, status>>
  <2>1. Busy' = Busy /\ SocketType'
    BY <1>1, <1>3, <1>5 DEF Busy, SocketType
  <2> QED
    BY <1>1, <1>2, <1>3, <1>4, <2>1 DEF TypeIInv, Reconnects
<1>6. ASSUME NEW c \in Conns, Connect(c) PROVE TypeIInv'
  <2>1. SocketType'
    BY <1>1, <1>3, <1>6, ConnectBusy DEF SocketType
  <2>2. IsFiniteSet(Busy') /\ Cardinality(Busy') = Cardinality(Busy) + 1
    BY <1>3, <1>6, ConnectBusy
  <2> QED
    BY <1>1, <1>2, <1>3, <1>4, <2>1, <2>2 DEF TypeIInv, Reconnects
<1> QED
  BY <1>5, <1>6 DEF TimerFires

LEMMA MountTypes ==
  ASSUME TypeIInv, Mount
  PROVE  TypeIInv'
<1>1. /\ UNCHANGED serverVars /\ UNCHANGED <<retries, timers, lastSeq, gap, cache, used, seen>>
      /\ ~mounted /\ mounted' = TRUE /\ stopped' = FALSE
      /\ fetch' \in {fetch, <<>>}
  BY DEF Mount
<1>2. ServerType' /\ Budget' /\ StoreType'
  BY <1>1, ServerKept, RefetchedType DEF TypeIInv, Budget, StoreType, serverVars
<1>3. IsFiniteSet(Busy) /\ Cardinality(Busy) \in Nat /\ timers \in Nat /\ used.mounts \in Nat /\ SocketType
  BY FS_CardinalityType, EventStreamAssumption DEF TypeIInv, Reconnects, Budget, SocketType
<1>4. Attempts' = Attempts + 1 /\ Attempts \in Nat /\ timers + Cardinality(Busy) <= Attempts
  BY <1>1, <1>3 DEF Attempts, TypeIInv, Reconnects
<1>5. CASE UNCHANGED <<client, socket, status>>
  <2>1. Busy' = Busy /\ SocketType'
    BY <1>1, <1>3, <1>5 DEF Busy, SocketType
  <2> QED
    BY <1>1, <1>2, <1>3, <1>4, <2>1 DEF TypeIInv, Reconnects
<1>6. ASSUME NEW c \in Conns, Connect(c) PROVE TypeIInv'
  <2>1. SocketType'
    BY <1>1, <1>3, <1>6, ConnectBusy DEF SocketType
  <2>2. IsFiniteSet(Busy') /\ Cardinality(Busy') = Cardinality(Busy) + 1
    BY <1>3, <1>6, ConnectBusy
  <2> QED
    BY <1>1, <1>2, <1>3, <1>4, <2>1, <2>2 DEF TypeIInv, Reconnects
<1> QED
  BY <1>5, <1>6 DEF Mount

LEMMA UnmountTypes ==
  ASSUME TypeIInv, Unmount
  PROVE  TypeIInv'
<1>1. /\ UNCHANGED serverVars /\ UNCHANGED <<timers, status, lastSeq, gap, cache, seen>>
      /\ mounted /\ mounted' = FALSE /\ stopped' = TRUE /\ retries' = FALSE
      /\ Spend("mounts", MaxMounts) /\ socket' = None /\ fetch' = Idle
      /\ client' = [c \in Conns |->
           IF c = socket /\ client[c] \in {"open", "connecting"} THEN "closing" ELSE client[c]]
  BY DEF Unmount
<1>2. /\ used' \in [requests : 0..MaxRequests, crashes : Nat, breaks : Nat, mounts : 0..MaxMounts]
      /\ used'.requests = used.requests /\ used'.mounts = used.mounts + 1
  BY <1>1, SpendBudget, EventStreamAssumption DEF TypeIInv
<1>3. ServerType' /\ Budget' /\ StoreType'
  BY <1>1, <1>2, ServerKept DEF TypeIInv, Budget, StoreType, serverVars
<1>4. SocketType' /\ Busy' = Busy
  BY <1>1 DEF TypeIInv, SocketType, Busy
<1>5. Attempts' = Attempts
  BY <1>1, <1>2 DEF Attempts
<1> QED
  BY <1>1, <1>3, <1>4, <1>5 DEF TypeIInv, Reconnects

LEMMA CrashTypes ==
  ASSUME TypeIInv, Crash
  PROVE  TypeIInv'
<1>1. /\ Spend("crashes", MaxCrashes) /\ up' = FALSE /\ unsaid' = 0 /\ seq' = 0 /\ subs' = {}
      /\ queue' = [c \in Conns |-> <<>>] /\ server' = [c \in Conns |-> "none"]
      /\ client' = [c \in Conns |->
           IF client[c] \in {"open", "connecting"} THEN "closing" ELSE client[c]]
      /\ fetch' = Idle /\ seen' = {}
      /\ UNCHANGED <<halted, socket, retries, timers, stopped, mounted, status, lastSeq, gap, cache>>
  BY DEF Crash
<1>2. /\ used' \in [requests : 0..MaxRequests, crashes : Nat, breaks : Nat, mounts : 0..MaxMounts]
      /\ used'.requests = used.requests /\ used'.mounts = used.mounts
  BY <1>1, SpendBudget, EventStreamAssumption DEF TypeIInv
<1>3. ServerType'
  <2>1. queue' \in [Conns -> Messages(seq')]
    BY <1>1, EmptyMessages
  <2>2. 0 \in 0..MaxRequests
    BY EventStreamAssumption
  <2> QED
    BY <1>1, <2>1, <2>2 DEF TypeIInv, ServerType
<1>4. Budget'
  BY <1>1, <1>2, EventStreamAssumption DEF Budget
<1>5. StoreType'
  BY <1>1 DEF TypeIInv, StoreType
<1>6. SocketType' /\ Busy' = Busy
  BY <1>1 DEF TypeIInv, SocketType, Busy
<1>7. Reconnects'
  BY <1>1, <1>2, <1>6 DEF TypeIInv, Reconnects, Attempts
<1> QED
  BY <1>3, <1>4, <1>5, <1>6, <1>7 DEF TypeIInv

LEMMA NextTypes ==
  ASSUME TypeIInv, [Next]_vars
  PROVE  TypeIInv'
<1>1. CASE Restart
  <2>1. /\ up' = TRUE /\ UNCHANGED <<halted, unsaid, seq, subs, queue, server, used>>
        /\ UNCHANGED socketVars /\ UNCHANGED storeVars
    BY <1>1 DEF Restart
  <2>2. Reconnects'
    BY <2>1, ReconnectsKept DEF TypeIInv, socketVars
  <2> QED
    BY <2>1, <2>2 DEF TypeIInv, ServerType, SocketType, StoreType, Budget, socketVars, storeVars
<1>2. CASE UNCHANGED vars
  <2>1. Reconnects'
    BY <1>2, ReconnectsKept DEF TypeIInv, vars, socketVars
  <2> QED
    BY <1>2, <2>1 DEF TypeIInv, ServerType, SocketType, StoreType, Budget, vars, serverVars, socketVars, storeVars
<1> QED
  BY <1>1, <1>2, ChangeTypes, PublishTypes, RaiseTypes, ServerTypes, FetchTypes, OpenTypes,
     MessageTypes, CloseTypes, BreakTypes, TimerTypes, MountTypes, UnmountTypes, CrashTypes
  DEF Next, RequestEnds, SocketStep

\* Every variable keeps to its type: no queue grows beyond its capacity or
\* belongs to a connection the endpoint has left, no message is numbered
\* beyond what was published, and however sockets close and providers mount
\* again, no more reconnects are scheduled than there were mounts
\* (event_bus.py subscribe and publish, client.ts scheduleReconnect).
THEOREM EventStreamTypeCorrect == Spec => []TypeOK
  BY InitTypes, NextTypes, TypeFollows, PTL DEF Spec
==============================================================================
