------------------------------ MODULE EventBus ------------------------------
(***************************************************************************)
(* The in-process publish/subscribe bus of the control plane               *)
(* (src/core/services/event_bus.py) together with the two ends of its SSE  *)
(* stream: the route that turns Last-Event-Id into `since`                 *)
(* (ui/web/routes/events/__init__.py) and the browser's event store        *)
(* (ui/web/templates/scripts/_event_stream.html).                          *)
(*                                                                         *)
(* Every public method of the bus runs under one lock, so each is one      *)
(* atomic action.  The generator that serves a client runs between the     *)
(* locked sections, so subscribing, sending sys:ready, sending the         *)
(* snapshot, taking an event from the queue, timing out and publishing the *)
(* heartbeat are separate actions.                                         *)
(*                                                                         *)
(* A payload is abstracted to the sequence number of the cache:done event  *)
(* that carried it, 0 standing for "no data".  Clients are SSE             *)
(* subscribers; a connection ends with both sides gone (Disconnect), which *)
(* the code reaches through the generator's finally block.                 *)
(***************************************************************************)
EXTENDS Integers, Sequences, FiniteSets

CONSTANTS
    Clients,      \* browser tabs
    Keys,         \* cache keys ("docker", "testing", ...)
    BufferSize,   \* deque(maxlen=buffer_size), 500 in the code
    QueueSize,    \* subscriber_queue_size, 200 in the code
    MaxSeq,       \* bound: sequence numbers one server instance hands out
    MaxInstances  \* bound: boots of the server

ASSUME ConstAssumption ==
    /\ BufferSize \in Nat \ {0}
    /\ QueueSize \in Nat \ {0}
    /\ MaxSeq \in Nat
    /\ MaxInstances \in Nat \ {0}

VARIABLES
    seq,           \* self._seq
    buffer,        \* self._buffer, oldest event first
    latest,        \* self._latest
    instance,      \* self._instance_id: which boot is running
    subscribers,   \* the clients whose queue is in self._subscribers
    queue,         \* the generator's q, per client
    needSnapshot,  \* the generator's need_snapshot, per client
    phase,         \* where the client's generator is suspended
    store,         \* the browser's _store
    lastSeq,       \* the browser's last event id
    seen,          \* the browser's _sse.instanceId, 0 before the first ready
    log,           \* history: every event this instance broadcast
    pos            \* history: how much of the log the connection is past

serverVars == <<seq, buffer, latest, instance, log>>
connVars   == <<subscribers, queue, needSnapshot, phase, pos>>
clientVars == <<store, lastSeq, seen>>
vars == <<serverVars, connVars, clientVars>>

Phases == {"off", "subscribed", "ready", "live", "timeout"}

(* What a broadcast event is to the bus: cache:done and cache:bust change  *)
(* self._latest, every other type is only relayed.  A bust carries the     *)
(* keys its scope names ("all" names every key).                           *)
Event == [seq : 1..MaxSeq, type : {"cache:done", "cache:bust", "other"},
          keys : SUBSET Keys]

TypeOK ==
    /\ seq \in 0..MaxSeq
    /\ buffer \in Seq(Event)
    /\ latest \in [Keys -> 0..MaxSeq]
    /\ instance \in 1..MaxInstances
    /\ subscribers \subseteq Clients
    /\ queue \in [Clients -> Seq(Event)]
    /\ needSnapshot \in [Clients -> BOOLEAN]
    /\ phase \in [Clients -> Phases]
    /\ store \in [Clients -> [Keys -> 0..MaxSeq]]
    /\ lastSeq \in [Clients -> 0..MaxSeq]
    /\ seen \in [Clients -> 0..MaxInstances]
    /\ log \in Seq(Event)
    /\ pos \in [Clients -> Nat]

Empty == [k \in Keys |-> 0]

Init ==
    /\ seq = 0
    /\ buffer = << >>
    /\ latest = Empty
    /\ instance = 1
    /\ subscribers = {}
    /\ queue = [c \in Clients |-> << >>]
    /\ needSnapshot = [c \in Clients |-> TRUE]
    /\ phase = [c \in Clients |-> "off"]
    /\ store = [c \in Clients |-> Empty]
    /\ lastSeq = [c \in Clients |-> 0]
    /\ seen = [c \in Clients |-> 0]
    /\ log = << >>
    /\ pos = [c \in Clients |-> 0]

(***************************************************************************)
(* Publishing                                                              *)
(***************************************************************************)

\* deque.append with a maxlen: the oldest event falls off a full buffer.
Remember(buf, e) ==
    IF Len(buf) < BufferSize THEN Append(buf, e) ELSE Append(Tail(buf), e)

\* Mutant: an invalidation is only relayed.
TrackKeeps(table, e) ==
    [k \in Keys |-> IF k \in e.keys /\ e.type = "cache:done" THEN e.seq ELSE table[k]]

\* self._latest after an event.
Track(table, e) ==
    [k \in Keys |->
        IF k \notin e.keys THEN table[k]
        ELSE IF e.type = "cache:done" THEN e.seq
        ELSE IF e.type = "cache:bust" THEN 0
        ELSE table[k]]

HasRoom(q) == Len(q) < QueueSize

\* publish(): the event goes into the buffer and every queue that has room;
\* a full queue is removed from the subscribers, its generator lives on.
Publish(type, keys) ==
    LET e == [seq |-> seq + 1, type |-> type, keys |-> keys]
    IN  /\ seq < MaxSeq
        /\ seq' = seq + 1
        /\ buffer' = Remember(buffer, e)
        /\ latest' = Track(latest, e)
        /\ queue' = [c \in Clients |->
                        IF c \in subscribers /\ HasRoom(queue[c])
                        THEN Append(queue[c], e) ELSE queue[c]]
        /\ subscribers' = {c \in subscribers : HasRoom(queue[c])}
        /\ log' = Append(log, e)
        /\ UNCHANGED <<instance, needSnapshot, pos>>

PublishDone(k) ==
    /\ Publish("cache:done", {k})
    /\ UNCHANGED <<phase, clientVars>>

PublishBust(ks) ==
    /\ Publish("cache:bust", ks)
    /\ UNCHANGED <<phase, clientVars>>

PublishOther ==
    /\ Publish("other", {})
    /\ UNCHANGED <<phase, clientVars>>

(***************************************************************************)
(* The generator of one SSE connection                                     *)
(***************************************************************************)

\* How many events of a buffer (which is in sequence order) are not newer
\* than `since`; the replay starts behind them.
Behind(buf, since) ==
    CHOOSE i \in 0..Len(buf) :
        \A j \in 1..Len(buf) : buf[j].seq <= since <=> j <= i

\* Mutant: `since` is taken for the next event the client has seen.
MissedSkipping(buf, since) == SubSeq(buf, Behind(buf, since) + 2, Len(buf))

Missed(buf, since) == SubSeq(buf, Behind(buf, since) + 1, Len(buf))

WithinBuffer(since) ==
    /\ since > 0
    /\ buffer # << >>
    /\ since >= buffer[1].seq

\* The replay is possible and fits into the fresh queue.
CanReplay(since) ==
    /\ WithinBuffer(since)
    /\ Len(Missed(buffer, since)) <= QueueSize

\* The locked part of subscribe(): decide between replay and snapshot, fill
\* the queue and register it, all before anything is sent.
Subscribe(c) ==
    /\ phase[c] = "off"
    /\ phase' = [phase EXCEPT ![c] = "subscribed"]
    /\ subscribers' = subscribers \cup {c}
    /\ \/ /\ CanReplay(lastSeq[c])
          /\ needSnapshot' = [needSnapshot EXCEPT ![c] = FALSE]
          /\ queue' = [queue EXCEPT ![c] = Missed(buffer, lastSeq[c])]
          /\ pos' = [pos EXCEPT ![c] = Behind(log, lastSeq[c])]
       \/ /\ ~CanReplay(lastSeq[c])
          /\ needSnapshot' = [needSnapshot EXCEPT ![c] = TRUE]
          /\ queue' = [queue EXCEPT ![c] = << >>]
          /\ pos' = [pos EXCEPT ![c] = Len(log)]
    /\ UNCHANGED <<serverVars, clientVars>>

\* Mutant: the snapshot is forgotten after sys:ready.
ReadyOnly(c) ==
    /\ phase[c] = "subscribed"
    /\ seq < MaxSeq
    /\ seq' = seq + 1
    /\ phase' = [phase EXCEPT ![c] = "live"]
    /\ lastSeq' = [lastSeq EXCEPT ![c] = seq + 1]
    /\ store' = [store EXCEPT ![c] =
                    IF seen[c] \in {0, instance} THEN @ ELSE Empty]
    /\ seen' = [seen EXCEPT ![c] = instance]
    /\ UNCHANGED <<buffer, latest, instance, log, subscribers, queue,
                   needSnapshot, pos>>

\* sys:ready takes a sequence number of its own and is not broadcast.  The
\* browser adopts the number as its position, and drops its store when the
\* instance id differs from the one it knew.
Ready(c) ==
    /\ phase[c] = "subscribed"
    /\ seq < MaxSeq
    /\ seq' = seq + 1
    /\ phase' = [phase EXCEPT ![c] = IF needSnapshot[c] THEN "ready" ELSE "live"]
    /\ lastSeq' = [lastSeq EXCEPT ![c] = seq + 1]
    /\ store' = [store EXCEPT ![c] =
                    IF seen[c] \in {0, instance} THEN @ ELSE Empty]
    /\ seen' = [seen EXCEPT ![c] = instance]
    /\ UNCHANGED <<buffer, latest, instance, log, subscribers, queue,
                   needSnapshot, pos>>

\* state:snapshot, also numbered and not broadcast.  The browser stores the
\* keys that are present and leaves the others as they are.
Snapshot(c) ==
    /\ phase[c] = "ready"
    /\ seq < MaxSeq
    /\ seq' = seq + 1
    /\ phase' = [phase EXCEPT ![c] = "live"]
    /\ lastSeq' = [lastSeq EXCEPT ![c] = seq + 1]
    /\ store' = [store EXCEPT ![c] =
                    [k \in Keys |-> IF latest[k] # 0 THEN latest[k] ELSE @[k]]]
    /\ UNCHANGED <<buffer, latest, instance, log, subscribers, queue,
                   needSnapshot, pos, seen>>

\* Mutant: the browser ignores events numbered below its last event id.
DeliverNewer(c) ==
    LET e == Head(queue[c])
    IN  /\ phase[c] = "live"
        /\ queue[c] # << >>
        /\ queue' = [queue EXCEPT ![c] = Tail(@)]
        /\ pos' = [pos EXCEPT ![c] = @ + 1]
        /\ lastSeq' = [lastSeq EXCEPT ![c] = e.seq]
        /\ store' = [store EXCEPT ![c] =
                        IF e.type = "cache:done" /\ e.seq > lastSeq[c]
                        THEN Track(@, e) ELSE @]
        /\ UNCHANGED <<serverVars, subscribers, needSnapshot, phase, seen>>

\* q.get() returns an event, which reaches the browser.  cache:done fills the
\* store; _onCacheBust leaves the store alone.
Deliver(c) ==
    LET e == Head(queue[c])
    IN  /\ phase[c] = "live"
        /\ queue[c] # << >>
        /\ queue' = [queue EXCEPT ![c] = Tail(@)]
        /\ pos' = [pos EXCEPT ![c] = @ + 1]
        /\ lastSeq' = [lastSeq EXCEPT ![c] = e.seq]
        /\ store' = [store EXCEPT ![c] =
                        IF e.type = "cache:done" THEN Track(@, e) ELSE @]
        /\ UNCHANGED <<serverVars, subscribers, needSnapshot, phase, seen>>

\* q.get() times out on an empty queue ...
TimeOut(c) ==
    /\ phase[c] = "live"
    /\ queue[c] = << >>
    /\ phase' = [phase EXCEPT ![c] = "timeout"]
    /\ UNCHANGED <<serverVars, subscribers, queue, needSnapshot, pos,
                   clientVars>>

\* Mutant: the yielded heartbeat is numbered again.
HeartbeatRenumbered(c) ==
    /\ phase[c] = "timeout"
    /\ Publish("other", {})
    /\ phase' = [phase EXCEPT ![c] = "live"]
    /\ lastSeq' = [lastSeq EXCEPT ![c] = seq + 2]
    /\ UNCHANGED <<store, seen>>

\* ... and the generator publishes a heartbeat to everybody, itself included,
\* and also yields it directly, ahead of whatever its queue has got since.
Heartbeat(c) ==
    /\ phase[c] = "timeout"
    /\ Publish("other", {})
    /\ phase' = [phase EXCEPT ![c] = "live"]
    /\ lastSeq' = [lastSeq EXCEPT ![c] = seq + 1]
    /\ UNCHANGED <<store, seen>>

\* The finally block of the generator; what was queued is lost with it.
Disconnect(c) ==
    /\ phase[c] # "off"
    /\ phase' = [phase EXCEPT ![c] = "off"]
    /\ subscribers' = subscribers \ {c}
    /\ queue' = [queue EXCEPT ![c] = << >>]
    /\ UNCHANGED <<serverVars, needSnapshot, pos, clientVars>>

(***************************************************************************)
(* The environment                                                         *)
(***************************************************************************)

\* The page is loaded anew: nothing of the old tab is left.
Reload(c) ==
    /\ phase[c] = "off"
    /\ lastSeq[c] # 0
    /\ store' = [store EXCEPT ![c] = Empty]
    /\ lastSeq' = [lastSeq EXCEPT ![c] = 0]
    /\ seen' = [seen EXCEPT ![c] = 0]
    /\ UNCHANGED <<serverVars, connVars>>

\* The server process is replaced: a new EventBus() and no connection; the
\* browsers keep what they have.
Restart ==
    /\ instance < MaxInstances
    /\ instance' = instance + 1
    /\ seq' = 0
    /\ buffer' = << >>
    /\ latest' = Empty
    /\ log' = << >>
    /\ subscribers' = {}
    /\ queue' = [c \in Clients |-> << >>]
    /\ phase' = [c \in Clients |-> "off"]
    /\ pos' = [c \in Clients |-> 0]
    /\ UNCHANGED <<needSnapshot, clientVars>>

Next ==
    \/ \E k \in Keys : PublishDone(k)
    \/ \E ks \in (SUBSET Keys) \ {{}} : PublishBust(ks)
    \/ PublishOther
    \/ \E c \in Clients :
        \/ Subscribe(c) \/ Disconnect(c) \/ Reload(c)
        \/ Ready(c) \/ Snapshot(c) \/ Deliver(c) \/ TimeOut(c) \/ Heartbeat(c)
    \/ Restart

\* The generator of an open connection keeps running: the WSGI server pulls
\* from it as long as the browser reads.  Nothing forces a publish, and an
\* idle connection need not reach its time-out within the bound on seq.
Fairness ==
    \A c \in Clients :
        WF_vars(Ready(c) \/ Snapshot(c) \/ Deliver(c) \/ Heartbeat(c))

Spec == Init /\ [][Next]_vars
FairSpec == Spec /\ Fairness

(***************************************************************************)
(* Safety                                                                  *)
(***************************************************************************)

Max2(a, b) == IF a >= b THEN a ELSE b

\* Event numbers grow along the log, never past the counter: a reader may
\* use the last number it saw as its position.
LogOrdered ==
    /\ \A i \in 1..Len(log) : log[i].seq <= seq
    /\ \A i, j \in 1..Len(log) : i < j => log[i].seq < log[j].seq

\* The replay buffer is exactly the newest BufferSize events broadcast, with
\* none missing and none out of order (event_bus.py:168).
BufferIsTail ==
    buffer = SubSeq(log, Max2(0, Len(log) - BufferSize) + 1, Len(log))

\* Whatever mix of replay and live publishing filled it, the queue of an open
\* connection holds a gapless stretch of the log from its position, even if the
\* bus has dropped it (event_bus.py:184-193), and for a registered client it
\* reaches to the end of the log: no event is lost, doubled or reordered between
\* the replay and the live stream (event_bus.py:234-255, "replays missed events").
QueueIsTail ==
    \A c \in Clients :
        /\ phase[c] # "off" =>
              queue[c] = SubSeq(log, pos[c] + 1, pos[c] + Len(queue[c]))
        /\ c \in subscribers => pos[c] + Len(queue[c]) = Len(log)

Agrees(c) == \A k \in Keys : latest[k] # 0 => store[c][k] = latest[k]

Drained(c) ==
    /\ c \in subscribers
    /\ phase[c] \in {"live", "timeout"}
    /\ queue[c] = << >>

\* A connection that began with a snapshot shows the newest data of every key
\* once its queue is drained, although events older than the snapshot are
\* delivered after it (event_bus.py:255-275).
SnapshotConverges ==
    \A c \in Clients : Drained(c) /\ needSnapshot[c] => Agrees(c)

(***************************************************************************)
(* Refinement                                                              *)
(***************************************************************************)

\* Where a connection stands, and how far it will be fed.
FeedConn ==
    [c \in Clients |->
        CASE phase[c] = "off" -> "off"
          [] phase[c] = "subscribed" ->
                IF needSnapshot[c] THEN "fresh" ELSE "resumed"
          [] phase[c] = "ready" -> "due"
          [] OTHER -> "live"]

FeedUpto == [c \in Clients |-> pos[c] + Len(queue[c])]

Feed == INSTANCE EventFeed WITH conn <- FeedConn, upto <- FeedUpto, last <- lastSeq

\* The ring buffer, the queues and the table of the latest data are one log that
\* every connection reads with a cursor, from where the tab left off or from the
\* newest data of every key (event_bus.py:131-348).
ImplementsFeed == Feed!Spec

(***************************************************************************)
(* Liveness                                                                *)
(***************************************************************************)

\* A new connection ends up showing current data, unless it goes away or is
\* dropped for being slow; the last disjunct is the bound of the model
\* (event_bus.py:262-277).
EventuallyCurrent ==
    \A c \in Clients :
        phase[c] = "subscribed" /\ needSnapshot[c]
            ~> \/ phase[c] = "off"
               \/ c \notin subscribers
               \/ Drained(c) /\ Agrees(c)
               \/ seq = MaxSeq
=============================================================================
