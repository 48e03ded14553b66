----------------------------- MODULE EventStream -----------------------------
(***************************************************************************)
(* The kill switch state on its way to a browser tab: the requests that    *)
(* change it (risk/killswitch.py, risk/halt.py), the event bus             *)
(* (core/event_bus.py), the WebSocket endpoint (api/ws.py), the tab's      *)
(* connection manager and store (web/src/lib/ws), and the REST query       *)
(* (api/risk.py, web/src/lib/query/hooks.ts) that shows the state.  The    *)
(* event says only that something changed: the pages show what the query   *)
(* read, and an event makes it read again.                                 *)
(*                                                                         *)
(* One topic is modelled, "risk.halt_state"; a message is its seq.  A      *)
(* connection takes a slot of Conns from the WebSocket constructor until   *)
(* both sides are done with it.  What lies between the server's queue and  *)
(* the tab (the forward task and TCP) is part of the queue.                *)
(***************************************************************************)
EXTENDS Naturals, Sequences, FiniteSets

CONSTANTS
  Conns,        \* slots for the sockets that are alive at the same time
  None,         \* no socket, no query running
  Scopes,       \* the scopes normalize_scope yields, or only "global"
  QueueCap,     \* EventBus maxsize
  MaxRequests,  \* kill switch requests
  MaxCrashes,   \* restarts of the server
  MaxBreaks,    \* connections the network breaks
  MaxMounts     \* times the providers are mounted

ASSUME EventStreamAssumption ==
  /\ None \notin Conns
  /\ {"global"} \subseteq Scopes /\ Scopes \subseteq {"global", "market"}
  /\ QueueCap \in Nat \ {0}
  /\ {MaxRequests, MaxCrashes, MaxBreaks, MaxMounts} \subseteq Nat

VARIABLES
  up,       \* the server process runs
  halted,   \* trading_halt: the scopes whose state is killed
  unsaid,   \* requests that wrote trading_halt and did not publish yet
  seq,      \* EventBus._seq of the topic
  subs,     \* EventBus._subs: the connections with a queue
  queue,    \* what each queue holds
  server,   \* the handler of a connection: none, accepted, streaming
  client,   \* the socket of the tab: closed, connecting, open, closing
  socket,   \* the socket the connection manager knows
  retries,  \* retries > 0
  timers,   \* reconnects that are scheduled
  stopped,
  mounted,
  status,   \* what the page says of the stream
  lastSeq,  \* lastSeq of the topic in the store, 0: undefined
  gap,      \* gaps > 0
  fetch,    \* the query: idle, or the scopes it has read so far
  cache,    \* what the query shows
  used,     \* requests, crashes, breaks and mounts so far
  seen      \* history: seqs of this life of the server the tab has ingested

serverVars == <<up, halted, unsaid, seq, subs, queue, server>>
socketVars == <<client, socket, retries, timers, stopped, mounted, status>>
storeVars == <<lastSeq, gap, fetch, cache, seen>>
vars == <<serverVars, socketVars, storeVars, used>>

\* The scopes halt_state reads, one after the other: global for the LIVE
\* bucket, whose markets have no row, then both for the PAPER one.
ReadPlan == SelectSeq(<<"global", "global", "market">>, LAMBDA s : s \in Scopes)

\* What the query shows once it has read the scopes of its plan.
Shown(got) == [live |-> got[1], paper |-> \E i \in DOMAIN got \ {1} : got[i]]
Truth == Shown([i \in DOMAIN ReadPlan |-> ReadPlan[i] \in halted])

Idle == None
TypeOK ==
  /\ up \in BOOLEAN
  /\ halted \subseteq Scopes
  /\ unsaid \in 0..MaxRequests
  /\ seq \in 0..MaxRequests
  /\ subs \subseteq {c \in Conns : server[c] = "streaming"}
  /\ queue \in [Conns -> UNION {[1..n -> 1..seq] : n \in 0..QueueCap}]
  /\ server \in [Conns -> {"none", "accepted", "streaming"}]
  /\ client \in [Conns -> {"closed", "connecting", "open", "closing"}]
  /\ socket \in Conns \cup {None}
  /\ {retries, stopped, mounted, gap} \subseteq BOOLEAN
  /\ timers \in 0..MaxMounts + 1
  /\ status \in {"connecting", "open", "closed"}
  /\ lastSeq \in 0..MaxRequests
  /\ fetch = Idle \/ fetch \in UNION {[1..n -> BOOLEAN] : n \in 0..Len(ReadPlan)}
  /\ seen \subseteq 1..seq

Init ==
  /\ up = TRUE /\ halted = {} /\ unsaid = 0 /\ seq = 0
  /\ subs = {} /\ queue = [c \in Conns |-> <<>>]
  /\ server = [c \in Conns |-> "none"]
  /\ client = [c \in Conns |-> "closed"]
  /\ socket = None /\ retries = FALSE /\ timers = 0
  /\ stopped = FALSE /\ mounted = FALSE /\ status = "connecting"
  /\ lastSeq = 0 /\ gap = FALSE
  /\ fetch = Idle /\ cache = Truth
  /\ used = [requests |-> 0, crashes |-> 0, breaks |-> 0, mounts |-> 0]
  /\ seen = {}

Spend(what, max) ==
  /\ used[what] < max
  /\ used' = [used EXCEPT ![what] = @ + 1]

-----------------------------------------------------------------------------
(* The server: kill switch requests, the bus, the endpoint.                *)

\* engage or release: the row of the scope is written first.
Engage(s) ==
  /\ up
  /\ Spend("requests", MaxRequests)
  /\ halted' = halted \cup {s}
  /\ unsaid' = unsaid + 1
  /\ UNCHANGED <<up, seq, subs, queue, server, socketVars, storeVars>>

Release(s) ==
  /\ up
  /\ Spend("requests", MaxRequests)
  /\ halted' = halted \ {s}
  /\ unsaid' = unsaid + 1
  /\ UNCHANGED <<up, seq, subs, queue, server, socketVars, storeVars>>

\* EventBus.publish: a new seq; each queue takes the message or drops it.
Publish(topicSeq) ==
  queue' = [c \in Conns |->
    IF c \in subs /\ Len(queue[c]) < QueueCap
    THEN Append(queue[c], topicSeq)
    ELSE queue[c]]

\* _publish_halt, the last step of engage and release.
PublishHalt ==
  /\ up
  /\ unsaid > 0
  /\ unsaid' = unsaid - 1
  /\ seq' = seq + 1
  /\ Publish(seq + 1)
  /\ UNCHANGED <<up, halted, subs, server, socketVars, storeVars, used>>

\* engage raises before its last step: an order that cannot be cancelled, a
\* database that is locked.  The row is written, and nothing is published.
RequestRaises ==
  /\ up
  /\ unsaid > 0
  /\ unsaid' = unsaid - 1
  /\ UNCHANGED <<up, halted, seq, subs, queue, server, socketVars, storeVars, used>>

\* websocket.accept and the info frame.
Accept(c) ==
  /\ up
  /\ client[c] = "connecting" /\ server[c] = "none"
  /\ server' = [server EXCEPT ![c] = "accepted"]
  /\ UNCHANGED <<up, halted, unsaid, seq, subs, queue, socketVars, storeVars, used>>

\* Only after the info frame is sent does the endpoint subscribe.
Subscribe(c) ==
  /\ up
  /\ server[c] = "accepted"
  /\ server' = [server EXCEPT ![c] = "streaming"]
  /\ subs' = subs \cup {c}
  /\ queue' = [queue EXCEPT ![c] = <<>>]
  /\ UNCHANGED <<up, halted, unsaid, seq, socketVars, storeVars, used>>

\* Mutant: the endpoint ends without unsubscribing its queue.
DisconnectLeaks(c) ==
  /\ up
  /\ server[c] # "none" /\ client[c] \in {"closing", "closed"}
  /\ server' = [server EXCEPT ![c] = "none"]
  /\ queue' = [queue EXCEPT ![c] = <<>>]
  /\ UNCHANGED <<up, halted, unsaid, seq, subs, socketVars, storeVars, used>>

\* The endpoint notices that the socket is gone: forward task cancelled,
\* queue unsubscribed.
Disconnect(c) ==
  /\ up
  /\ server[c] # "none" /\ client[c] \in {"closing", "closed"}
  /\ server' = [server EXCEPT ![c] = "none"]
  /\ subs' = subs \ {c}
  /\ queue' = [queue EXCEPT ![c] = <<>>]
  /\ UNCHANGED <<up, halted, unsaid, seq, socketVars, storeVars, used>>

\* The process dies: bus, queues, requests and connections with it.
Crash ==
  /\ up
  /\ Spend("crashes", MaxCrashes)
  /\ up' = FALSE
  /\ unsaid' = 0 /\ seq' = 0 /\ subs' = {}
  /\ queue' = [c \in Conns |-> <<>>]
  /\ server' = [c \in Conns |-> "none"]
  /\ client' = [c \in Conns |->
       IF client[c] \in {"open", "connecting"} THEN "closing" ELSE client[c]]
  /\ fetch' = Idle
  /\ seen' = {}
  /\ UNCHANGED <<halted, socket, retries, timers, stopped, mounted, status,
                 lastSeq, gap, cache>>

Restart ==
  /\ ~up
  /\ up' = TRUE
  /\ UNCHANGED <<halted, unsaid, seq, subs, queue, server, socketVars, storeVars, used>>

-----------------------------------------------------------------------------
(* The query.  Invalidating it or polling it starts it again.              *)

Refetched == IF mounted THEN <<>> ELSE fetch

\* Mutant: the interval pauses while the stream is open.
PollOffline ==
  /\ mounted /\ status # "open"
  /\ fetch = Idle
  /\ fetch' = <<>>
  /\ UNCHANGED <<serverVars, socketVars, lastSeq, gap, cache, used, seen>>

Poll ==
  /\ mounted
  /\ fetch = Idle
  /\ fetch' = <<>>
  /\ UNCHANGED <<serverVars, socketVars, lastSeq, gap, cache, used, seen>>

\* The handler reads one scope after the other.
Read ==
  /\ up
  /\ fetch # Idle /\ Len(fetch) < Len(ReadPlan)
  /\ fetch' = Append(fetch, ReadPlan[Len(fetch) + 1] \in halted)
  /\ UNCHANGED <<serverVars, socketVars, lastSeq, gap, cache, used, seen>>

Answer ==
  /\ fetch # Idle /\ Len(fetch) = Len(ReadPlan)
  /\ cache' = Shown(fetch)
  /\ fetch' = Idle
  /\ UNCHANGED <<serverVars, socketVars, lastSeq, gap, used, seen>>

QueryFails ==
  /\ ~up
  /\ fetch # Idle
  /\ fetch' = Idle
  /\ UNCHANGED <<serverVars, socketVars, lastSeq, gap, cache, used, seen>>

-----------------------------------------------------------------------------
(* The tab's connection manager.                                           *)

Free(c) == client[c] = "closed" /\ server[c] = "none"

\* connect: the new socket becomes the one the manager knows.
Connect(c) ==
  /\ Free(c)
  /\ client' = [client EXCEPT ![c] = "connecting"]
  /\ socket' = c
  /\ status' = "connecting"

OnOpen(c) ==
  /\ client[c] = "connecting" /\ server[c] # "none"
  /\ client' = [client EXCEPT ![c] = "open"]
  /\ retries' = FALSE
  /\ status' = "open"
  /\ fetch' = IF retries THEN Refetched ELSE fetch
  /\ UNCHANGED <<serverVars, socket, timers, stopped, mounted, lastSeq, gap,
                 cache, used, seen>>

\* Mutant: one message may be missing.
GapBeforeTwo(n) == lastSeq # 0 /\ n > lastSeq + 2

\* ingest: the first seq of a topic, and one that does not grow, is no gap.
GapBefore(n) == lastSeq # 0 /\ n > lastSeq + 1

OnMessage(c) ==
  /\ client[c] = "open"
  /\ queue[c] # <<>>
  /\ LET n == Head(queue[c]) IN
       /\ gap' = (gap \/ GapBefore(n))
       /\ lastSeq' = n
       /\ seen' = seen \cup {n}
  /\ queue' = [queue EXCEPT ![c] = Tail(@)]
  /\ fetch' = Refetched
  /\ UNCHANGED <<up, halted, unsaid, seq, subs, server, socketVars, cache, used>>

\* onclose, of whichever socket: the manager does not ask if it is its own.
OnClose(c) ==
  /\ client[c] = "closing"
  /\ client' = [client EXCEPT ![c] = "closed"]
  /\ status' = "closed"
  /\ IF stopped THEN UNCHANGED <<retries, timers>>
                ELSE retries' = TRUE /\ timers' = timers + 1
  /\ UNCHANGED <<serverVars, socket, stopped, mounted, storeVars, used>>

TimerFires ==
  /\ timers > 0
  /\ timers' = timers - 1
  /\ IF stopped THEN UNCHANGED <<client, socket, status>>
                ELSE \E c \in Conns : Connect(c)
  /\ UNCHANGED <<serverVars, retries, stopped, mounted, storeVars, used>>

\* A connection breaks, or cannot be made.
Break(c) ==
  /\ client[c] \in {"open", "connecting"}
  /\ IF up \/ client[c] = "open" THEN Spend("breaks", MaxBreaks)
                                 ELSE UNCHANGED used
  /\ client' = [client EXCEPT ![c] = "closing"]
  /\ UNCHANGED <<serverVars, socket, retries, timers, stopped, mounted, status, storeVars>>

\* Mutant: a remounted tab stays stopped.
MountStopped ==
  /\ ~mounted
  /\ mounted' = TRUE
  /\ IF socket # None /\ client[socket] \in {"open", "connecting"}
     THEN UNCHANGED <<client, socket, status>>
     ELSE \E c \in Conns : Connect(c)
  /\ fetch' \in {fetch, <<>>}
  /\ UNCHANGED <<serverVars, retries, timers, stopped, lastSeq, gap, cache, used, seen>>

\* startStream; the observers that mount read again if they are stale.
Mount ==
  /\ ~mounted
  /\ mounted' = TRUE
  /\ stopped' = FALSE
  /\ IF socket # None /\ client[socket] \in {"open", "connecting"}
     THEN UNCHANGED <<client, socket, status>>
     ELSE \E c \in Conns : Connect(c)
  /\ fetch' \in {fetch, <<>>}
  /\ UNCHANGED <<serverVars, retries, timers, lastSeq, gap, cache, used, seen>>

\* stopStream closes the socket the manager knows, and no other.
Unmount ==
  /\ mounted
  /\ Spend("mounts", MaxMounts)
  /\ mounted' = FALSE
  /\ stopped' = TRUE
  /\ retries' = FALSE
  /\ client' = [c \in Conns |->
       IF c = socket /\ client[c] \in {"open", "connecting"} THEN "closing" ELSE client[c]]
  /\ socket' = None
  /\ fetch' = Idle
  /\ UNCHANGED <<serverVars, timers, status, lastSeq, gap, cache, seen>>

-----------------------------------------------------------------------------
Change == \E s \in Scopes : Engage(s) \/ Release(s)
RequestEnds == PublishHalt \/ RequestRaises
ServerStep(c) == Accept(c) \/ Subscribe(c) \/ Disconnect(c)
SocketStep(c) == OnOpen(c) \/ OnMessage(c) \/ OnClose(c)
QueryStep == Read \/ Answer \/ QueryFails

Next ==
  \/ Change \/ RequestEnds \/ Crash \/ Restart
  \/ Poll \/ QueryStep
  \/ \E c \in Conns : ServerStep(c) \/ SocketStep(c) \/ Break(c)
  \/ TimerFires \/ Mount \/ Unmount

Spec == Init /\ [][Next]_vars

\* The server is started again, its requests and tasks end or go on, the page
\* stays mounted, the browser delivers its events and its timers, and a
\* connection to a server that is down fails.  A forward task lives as long as
\* its endpoint: one that dies alone (ws.py:40-46, a send that raises while the
\* endpoint still waits for text) leaves a stream that is open and silent.
Fairness ==
  /\ WF_vars(RequestEnds) /\ WF_vars(Restart)
  /\ WF_vars(Poll) /\ WF_vars(QueryStep)
  /\ \A c \in Conns :
       /\ WF_vars(ServerStep(c)) /\ WF_vars(SocketStep(c))
       /\ WF_vars(~up /\ Break(c))
  /\ WF_vars(TimerFires) /\ WF_vars(Mount)

FairSpec == Spec /\ Fairness

-----------------------------------------------------------------------------
(* Properties.                                                             *)

\* A message the bus dropped from a full queue shows up as a gap as soon as
\* the tab ingests a later one of the same life of the server: without a
\* counted gap, everything between the first and the last message is there
\* (event_bus.py publish, store.ts ingest).
LossIsCounted ==
  \A n \in seen :
    ~gap /\ n = lastSeq => \A m \in seen : m < n => m..n \subseteq seen

\* Whatever the stream loses, a polled query ends up with the state of the
\* kill switch (hooks.ts refetchInterval, risk.py halt_state).
PolledCatchesUp == <>[](cache = Truth)

\* The tab ends up with an open socket the bus knows, and says so, whatever
\* closed before, in whichever order (client.ts scheduleReconnect).  Not that
\* it is the only one: a socket opened while an older one closes is joined by
\* the one that the late onclose of the older one schedules.
StreamComesBack ==
  <>[](status = "open" /\ \E c \in Conns : client[c] = "open" /\ c \in subs)
==============================================================================
