----------------------------- MODULE EventFeed ------------------------------
(***************************************************************************)
(* What the event bus promises to the tabs of the browser, without the     *)
(* ring buffer, the queues, the list of subscribers and the table of the   *)
(* latest data it keeps the promise with.                                  *)
(*                                                                         *)
(* There is one log.  An open connection reads it from a cursor, event by  *)
(* event, up to the end of the log -- or up to the event at which it fell  *)
(* behind: from then on nothing more is fed to it.  A connection begins    *)
(* either where the tab left off, or at the end of the log with the newest *)
(* data that the log holds of every key.                                   *)
(***************************************************************************)
EXTENDS Integers, Sequences

CONSTANTS
    Clients,  \* the tabs
    Keys      \* the cache keys

VARIABLES
    seq,       \* the last number given out
    log,       \* the events broadcast since the server started
    instance,  \* which start of the server this is
    conn,      \* "off", "resumed", "fresh", "due" (the snapshot is) or "live"
    pos,       \* how far the connection has read
    upto,      \* how far it will be fed
    last,      \* the last number the tab has seen
    store,     \* what the tab shows of every key
    seen       \* the start of the server the tab knows of, 0 for none

vars == <<seq, log, instance, conn, pos, upto, last, store, seen>>

Nothing == [k \in Keys |-> 0]

Init ==
    /\ seq = 0 /\ log = << >> /\ instance = 1
    /\ conn = [c \in Clients |-> "off"]
    /\ pos = [c \in Clients |-> 0] /\ upto = [c \in Clients |-> 0]
    /\ last = [c \in Clients |-> 0] /\ seen = [c \in Clients |-> 0]
    /\ store = [c \in Clients |-> Nothing]

Changes(e, k) == e.type \in {"cache:done", "cache:bust"} /\ k \in e.keys

\* The number of the event that brought the newest data of a key: none if
\* there was no such event, or if it was invalidated since.
Newest(k) ==
    {log[i].seq : i \in {j \in 1..Len(log) :
        /\ Changes(log[j], k) /\ log[j].type = "cache:done"
        /\ \A later \in 1..Len(log) : later > j => ~Changes(log[later], k)}}

\* Every open connection that has not fallen behind may fall behind now.
Extend(type, keys) ==
    /\ seq' = seq + 1
    /\ log' = Append(log, [seq |-> seq + 1, type |-> type, keys |-> keys])
    /\ \E fed \in SUBSET {c \in Clients : conn[c] # "off" /\ upto[c] = Len(log)} :
          upto' = [c \in Clients |-> IF c \in fed THEN Len(log) + 1 ELSE upto[c]]
    /\ UNCHANGED <<instance, conn, pos, store, seen>>

Broadcast ==
    /\ \E type \in {"cache:done", "cache:bust", "other"}, keys \in SUBSET Keys :
          Extend(type, keys)
    /\ UNCHANGED last

\* A heartbeat is broadcast, and is shown to an idle tab at once.
Heartbeat(c) ==
    /\ conn[c] = "live"
    /\ Extend("other", {})
    /\ last' = [last EXCEPT ![c] = seq + 1]

\* From where the tab left off, going by the last number it has seen.
Resume(c) ==
    /\ conn[c] = "off"
    /\ conn' = [conn EXCEPT ![c] = "resumed"]
    /\ \E p \in 0..Len(log) :
          /\ \A i \in 1..Len(log) : log[i].seq <= last[c] <=> i <= p
          /\ pos' = [pos EXCEPT ![c] = p]
    /\ upto' = [upto EXCEPT ![c] = Len(log)]
    /\ UNCHANGED <<seq, log, instance, last, store, seen>>

StartAfresh(c) ==
    /\ conn[c] = "off"
    /\ conn' = [conn EXCEPT ![c] = "fresh"]
    /\ pos' = [pos EXCEPT ![c] = Len(log)]
    /\ upto' = [upto EXCEPT ![c] = Len(log)]
    /\ UNCHANGED <<seq, log, instance, last, store, seen>>

Numbered(c) == seq' = seq + 1 /\ last' = [last EXCEPT ![c] = seq + 1]

\* The greeting; a tab that knew another start of the server begins empty.
Greet(c) ==
    /\ \/ conn[c] = "resumed" /\ conn' = [conn EXCEPT ![c] = "live"]
       \/ conn[c] = "fresh" /\ conn' = [conn EXCEPT ![c] = "due"]
    /\ Numbered(c)
    /\ store' = [store EXCEPT ![c] = IF seen[c] \in {0, instance} THEN @ ELSE Nothing]
    /\ seen' = [seen EXCEPT ![c] = instance]
    /\ UNCHANGED <<log, instance, pos, upto>>

\* The newest data of every key; a key without any is left as it is.
TakeSnapshot(c) ==
    /\ conn[c] = "due"
    /\ conn' = [conn EXCEPT ![c] = "live"]
    /\ Numbered(c)
    /\ store' = [store EXCEPT ![c] = [k \in Keys |->
          IF Newest(k) = {} THEN @[k] ELSE CHOOSE n \in Newest(k) : TRUE]]
    /\ UNCHANGED <<log, instance, pos, upto, seen>>

\* The next event of the log; only new data is shown.
Read(c) ==
    LET e == log[pos[c] + 1] IN
    /\ conn[c] = "live" /\ pos[c] < upto[c]
    /\ pos' = [pos EXCEPT ![c] = @ + 1]
    /\ last' = [last EXCEPT ![c] = e.seq]
    /\ store' = [store EXCEPT ![c] = [k \in Keys |->
          IF e.type = "cache:done" /\ k \in e.keys THEN e.seq ELSE @[k]]]
    /\ UNCHANGED <<seq, log, instance, conn, upto, seen>>

\* What was fed and not read is lost with the connection.
HangUp(c) ==
    /\ conn[c] # "off"
    /\ conn' = [conn EXCEPT ![c] = "off"]
    /\ upto' = [upto EXCEPT ![c] = pos[c]]
    /\ UNCHANGED <<seq, log, instance, pos, last, store, seen>>

LoadPage(c) ==
    /\ conn[c] = "off"
    /\ last' = [last EXCEPT ![c] = 0]
    /\ store' = [store EXCEPT ![c] = Nothing]
    /\ seen' = [seen EXCEPT ![c] = 0]
    /\ UNCHANGED <<seq, log, instance, conn, pos, upto>>

\* The server starts again: an empty log, and every connection is gone.
StartServer ==
    /\ instance' = instance + 1
    /\ seq' = 0 /\ log' = << >>
    /\ conn' = [c \in Clients |-> "off"]
    /\ pos' = [c \in Clients |-> 0] /\ upto' = [c \in Clients |-> 0]
    /\ UNCHANGED <<last, store, seen>>

Next ==
    \/ Broadcast \/ StartServer
    \/ \E c \in Clients :
        \/ Heartbeat(c) \/ Resume(c) \/ StartAfresh(c) \/ Greet(c)
        \/ TakeSnapshot(c) \/ Read(c) \/ HangUp(c) \/ LoadPage(c)

Spec == Init /\ [][Next]_vars
=============================================================================
