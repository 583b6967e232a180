---------------------------- MODULE BrowserProofs ---------------------------
(***************************************************************************)
(* Theorems about the two things a tab of the browser relies on: the feed  *)
(* of events from the server (EventBus, which is shown to implement        *)
(* EventFeed), for any number of clients and keys and any size of buffer   *)
(* and queues, and what it knows of the other tabs (TabMesh), for any      *)
(* number of tabs.  The two share no state.                                *)
(***************************************************************************)
EXTENDS EventBus, TabMesh, SequenceTheorems, WellFoundedInduction, TLAPS

(***************************************************************************)
(* The event bus: types                                                    *)
(***************************************************************************)

\* The replay buffer stays a sequence of events when one is appended.
LEMMA RememberType ==
    ASSUME TypeOK, NEW e \in Event
    PROVE  Remember(buffer, e) \in Seq(Event)
<1>1. CASE Len(buffer) < BufferSize
  BY <1>1 DEF TypeOK, Remember
<1>2. CASE ~(Len(buffer) < BufferSize)
  <2>1. Len(buffer) >= 1
    BY <1>2, ConstAssumption DEF TypeOK
  <2>2. buffer # << >>
    BY <2>1
  <2>. QED BY <1>2, <2>2 DEF TypeOK, Remember
<1>. QED BY <1>1, <1>2

\* The per-key sequence numbers stay well typed.
LEMMA TrackType ==
    ASSUME NEW t \in [Keys -> 0..MaxSeq], NEW e \in Event, MaxSeq \in Nat
    PROVE  Track(t, e) \in [Keys -> 0..MaxSeq]
BY DEF Track, Event

\* Publishing keeps the bus well typed.
LEMMA PublishType ==
    ASSUME TypeOK, NEW type \in {"cache:done", "cache:bust", "other"},
           NEW ks \in SUBSET Keys, Publish(type, ks)
    PROVE  /\ seq' \in 0..MaxSeq
           /\ buffer' \in Seq(Event)
           /\ latest' \in [Keys -> 0..MaxSeq]
           /\ instance' = instance
           /\ subscribers' \subseteq subscribers
           /\ queue' \in [Clients -> Seq(Event)]
           /\ log' \in Seq(Event)
           /\ UNCHANGED <<needSnapshot, pos>>
           /\ seq + 1 \in 0..MaxSeq
<1> DEFINE e == [seq |-> seq + 1, type |-> type, keys |-> ks]
<1>1. e \in Event
  BY ConstAssumption DEF TypeOK, Publish, Event
<1>2. buffer' \in Seq(Event)
  BY <1>1, RememberType DEF Publish
<1>3. latest' \in [Keys -> 0..MaxSeq]
  BY <1>1, TrackType, ConstAssumption DEF Publish, TypeOK
<1>4. queue' \in [Clients -> Seq(Event)]
  BY <1>1 DEF Publish, TypeOK
<1>5. log' \in Seq(Event)
  BY <1>1 DEF Publish, TypeOK
<1>. QED
  BY <1>2, <1>3, <1>4, <1>5, ConstAssumption DEF Publish, TypeOK

(***************************************************************************)
(* The inductive invariant                                                 *)
(***************************************************************************)

\* BufferIsTail, element by element.
BufferInv ==
    /\ Len(buffer) = IF Len(log) <= BufferSize THEN Len(log) ELSE BufferSize
    /\ \A i \in 1..Len(buffer) : buffer[i] = log[Len(log) - Len(buffer) + i]

\* QueueIsTail, element by element: an open connection's queue is a stretch of
\* the log from its position, which for a registered client reaches to the end
\* of the log.
QueueInv ==
    \A c \in Clients :
        /\ c \in subscribers =>
              phase[c] # "off" /\ pos[c] + Len(queue[c]) = Len(log)
        /\ phase[c] # "off" =>
              /\ pos[c] + Len(queue[c]) <= Len(log)
              /\ \A i \in 1..Len(queue[c]) : queue[c][i] = log[pos[c] + i]

IInv == TypeOK /\ LogOrdered /\ BufferInv /\ QueueInv

Ordered(s) == \A i, j \in 1..Len(s) : i < j => s[i].seq < s[j].seq

\* In an ordered sequence the events up to `since` are a prefix, so Behind is
\* well defined and the replay starts right behind it.
LEMMA BehindLemma ==
    ASSUME NEW s \in Seq(Event), Ordered(s), NEW since \in Nat
    PROVE  /\ Behind(s, since) \in 0..Len(s)
           /\ \A j \in 1..Len(s) : s[j].seq <= since <=> j <= Behind(s, since)
<1> DEFINE Newer == {j \in 1..Len(s) + 1 : j = Len(s) + 1 \/ s[j].seq > since}
<1>1. PICK m \in Newer : \A j \in Newer : ~(<<j, m>> \in OpToRel(<, Nat))
  <2>1. Newer \subseteq Nat /\ Len(s) + 1 \in Newer
    OBVIOUS
  <2>. HIDE DEF Newer
  <2>. QED BY <2>1, WFMin, NatLessThanWellFounded
<1>2. \A j \in Newer : m <= j
  <2> SUFFICES ASSUME NEW j \in Newer, j < m PROVE FALSE
    OBVIOUS
  <2>1. <<j, m>> \in Nat \X Nat /\ <<j, m>>[1] < <<j, m>>[2]
    OBVIOUS
  <2>2. <<j, m>> \in OpToRel(<, Nat)
    BY <2>1, Zenon DEF OpToRel
  <2>. QED BY <1>1, <2>2
<1>3. \A j \in 1..Len(s) : s[j] \in Event /\ s[j].seq \in Int
  <2> SUFFICES ASSUME NEW j \in 1..Len(s) PROVE s[j] \in Event /\ s[j].seq \in Int
    OBVIOUS
  <2>1. s[j] \in Event
    OBVIOUS
  <2>. QED BY <2>1, ConstAssumption DEF Event
<1>4. \A j \in 1..Len(s) : s[j].seq <= since <=> j <= m - 1
  <2> SUFFICES ASSUME NEW j \in 1..Len(s)
               PROVE  s[j].seq <= since <=> j <= m - 1
    OBVIOUS
  <2>1. CASE j < m
    BY <1>2, <1>3, <2>1
  <2>2. CASE j >= m
    BY <1>3, <2>2 DEF Ordered
  <2>. QED BY <2>1, <2>2
<1>5. \E i \in 0..Len(s) : \A j \in 1..Len(s) : s[j].seq <= since <=> j <= i
  <2>1. m - 1 \in 0..Len(s)
    BY DEF Newer
  <2>. QED BY <1>4, <2>1
<1>. QED BY <1>5 DEF Behind

\* The buffer, a suffix of the ordered log, is ordered.
LEMMA BufferOrdered ==
    ASSUME TypeOK, LogOrdered, BufferInv
    PROVE  Ordered(buffer) /\ Ordered(log)
<1>1. Ordered(log)
  BY DEF LogOrdered, Ordered
<1>2. Len(log) \in Nat /\ Len(buffer) \in Nat /\ Len(buffer) <= Len(log)
  BY ConstAssumption DEF TypeOK, BufferInv
<1>3. Ordered(buffer)
  <2> SUFFICES ASSUME NEW i \in 1..Len(buffer), NEW j \in 1..Len(buffer), i < j
               PROVE  buffer[i].seq < buffer[j].seq
    BY DEF Ordered
  <2> DEFINE off == Len(log) - Len(buffer)
  <2>1. /\ off + i \in 1..Len(log) /\ off + j \in 1..Len(log)
        /\ off + i < off + j
    BY <1>2
  <2>2. buffer[i] = log[off + i] /\ buffer[j] = log[off + j]
    BY DEF BufferInv
  <2>. HIDE DEF off
  <2>. QED BY <1>1, <2>1, <2>2 DEF Ordered
<1>. QED BY <1>1, <1>3

\* The events up to `since` are the first i of s.
IsCut(s, since, i) == \A j \in 1..Len(s) : s[j].seq <= since <=> j <= i

\* buf is what is left of all without its first off events.
IsSuffix(buf, all, off) ==
    /\ Len(all) = off + Len(buf)
    /\ \A i \in 1..Len(buf) : buf[i] = all[off + i]

\* A suffix and the whole sequence agree on where the newer events begin, as
\* long as the suffix has at least one event that is not newer.
LEMMA SuffixBehind ==
    ASSUME NEW buf \in Seq(Event), NEW all \in Seq(Event), NEW off \in Nat,
           IsSuffix(buf, all, off), buf # << >>,
           NEW since, buf[1].seq <= since,
           NEW b \in 0..Len(buf), NEW l \in 0..Len(all),
           IsCut(buf, since, b), IsCut(all, since, l)
    PROVE  b >= 1 /\ l = off + b
<1>. USE DEF IsCut, IsSuffix
<1>. Len(buf) >= 1
  OBVIOUS
<1>1. b >= 1
  <2>1. 1 \in 1..Len(buf)
    OBVIOUS
  <2>. QED BY <2>1
<1>2. off + b <= l
  <2>1. buf[b] = all[off + b] /\ buf[b].seq <= since /\ off + b \in 1..Len(all)
    BY <1>1
  <2>. QED BY <2>1
<1>3. l <= off + b
  <2>1. CASE b = Len(buf)
    BY <2>1
  <2>2. CASE b < Len(buf)
    <3>1. b + 1 \in 1..Len(buf) /\ ~(b + 1 <= b) /\ off + (b + 1) \in 1..Len(all)
      BY <2>2
    <3>2. ~(all[off + (b + 1)].seq <= since)
      BY <3>1
    <3>3. ~(off + (b + 1) <= l)
      BY <3>1, <3>2
    <3>. QED BY <3>3
  <2>. QED BY <2>1, <2>2
<1>. QED BY <1>1, <1>2, <1>3

\* What the replay puts into the queue is the log past the client's position.
LEMMA ReplayLemma ==
    ASSUME IInv, NEW c \in Clients, CanReplay(lastSeq[c])
    PROVE  /\ Behind(log, lastSeq[c]) \in 0..Len(log)
           /\ Missed(buffer, lastSeq[c]) \in Seq(Event)
           /\ Behind(log, lastSeq[c]) + Len(Missed(buffer, lastSeq[c])) = Len(log)
           /\ \A i \in 1..Len(Missed(buffer, lastSeq[c])) :
                 Missed(buffer, lastSeq[c])[i]
                     = log[Behind(log, lastSeq[c]) + i]
<1> DEFINE since == lastSeq[c]
           b == Behind(buffer, since)
           l == Behind(log, since)
           off == Len(log) - Len(buffer)
<1>0. since \in Nat /\ buffer \in Seq(Event) /\ log \in Seq(Event)
  BY ConstAssumption DEF IInv, TypeOK
<1>1. /\ b \in 0..Len(buffer)
      /\ IsCut(buffer, since, b)
  BY <1>0, BufferOrdered, BehindLemma DEF IInv, IsCut
<1>2. /\ l \in 0..Len(log)
      /\ IsCut(log, since, l)
  BY <1>0, BufferOrdered, BehindLemma DEF IInv, IsCut
<1>3. off \in Nat /\ IsSuffix(buffer, log, off)
  <2>1. Len(log) \in Nat /\ Len(buffer) \in Nat
    BY <1>0
  <2>2. Len(buffer) <= Len(log)
    BY <2>1, ConstAssumption DEF IInv, BufferInv
  <2>. QED BY <2>1, <2>2 DEF IInv, BufferInv, IsSuffix
<1>4. buffer # << >> /\ buffer[1].seq <= since
  BY <1>0 DEF CanReplay, WithinBuffer, IInv, TypeOK, Event
<1>5. b >= 1 /\ l = off + b
  <2>. HIDE DEF b, l, off, since
  <2>. QED BY <1>0, <1>1, <1>2, <1>3, <1>4, SuffixBehind
<1>6. /\ Missed(buffer, since) \in Seq(Event)
      /\ Len(Missed(buffer, since)) = Len(buffer) - b
      /\ \A i \in 1..Len(buffer) - b : Missed(buffer, since)[i] = buffer[b + i]
  <2>1. \A i \in b + 1..Len(buffer) : buffer[i] \in Event
    BY <1>0, <1>1
  <2>2. b + 1 \in Int /\ Len(buffer) \in Int /\ b \in Int
    BY <1>0, <1>1
  <2>. HIDE DEF b
  <2>3. Missed(buffer, since) = SubSeq(buffer, b + 1, Len(buffer))
    BY DEF Missed, b
  <2>. QED BY <1>1, <2>1, <2>2, <2>3, SubSeqProperties
<1>7. \A i \in 1..Len(buffer) - b : buffer[b + i] = log[l + i]
  <2> SUFFICES ASSUME NEW i \in 1..Len(buffer) - b
               PROVE  buffer[b + i] = log[l + i]
    OBVIOUS
  <2>1. b + i \in 1..Len(buffer) /\ off + (b + i) = l + i
    BY <1>0, <1>1, <1>3, <1>5
  <2>. QED BY <1>3, <2>1 DEF IsSuffix
<1>. HIDE DEF b, l, off
<1>8. l + Len(Missed(buffer, since)) = Len(log)
  BY <1>0, <1>1, <1>3, <1>5, <1>6 DEF IsSuffix
<1>9. \A i \in 1..Len(Missed(buffer, since)) : Missed(buffer, since)[i] = log[l + i]
  BY <1>6, <1>7
<1>. QED BY <1>2, <1>6, <1>8, <1>9 DEF l

(***************************************************************************)
(* Publishing preserves the invariant                                      *)
(***************************************************************************)

\* Publishing keeps the log ordered and buffer and queues its suffixes.
LEMMA PublishInv ==
    ASSUME IInv, NEW type \in {"cache:done", "cache:bust", "other"},
           NEW ks \in SUBSET Keys, Publish(type, ks),
           \A c \in Clients : phase'[c] = "off" <=> phase[c] = "off"
    PROVE  LogOrdered' /\ BufferInv' /\ QueueInv'
<1> DEFINE e == [seq |-> seq + 1, type |-> type, keys |-> ks]
<1>a. e \in Event /\ e.seq = seq + 1
  BY ConstAssumption DEF IInv, TypeOK, Publish, Event
<1>b. /\ log \in Seq(Event) /\ buffer \in Seq(Event) /\ seq \in Nat
      /\ queue \in [Clients -> Seq(Event)]
  BY ConstAssumption DEF IInv, TypeOK
<1>c. Len(log) \in Nat /\ Len(buffer) \in Nat
  BY <1>b
<1>1. /\ e \in Event /\ e.seq = seq + 1 /\ seq \in Nat
      /\ log \in Seq(Event) /\ buffer \in Seq(Event)
      /\ queue \in [Clients -> Seq(Event)]
      /\ Len(log) \in Nat /\ Len(buffer) \in Nat
  BY <1>a, <1>b, <1>c
<1>2. /\ seq' = seq + 1
      /\ log' = Append(log, e)
      /\ buffer' = Remember(buffer, e)
      /\ queue' = [c \in Clients |->
                      IF c \in subscribers /\ HasRoom(queue[c])
                      THEN Append(queue[c], e) ELSE queue[c]]
      /\ subscribers' = {c \in subscribers : HasRoom(queue[c])}
      /\ pos' = pos
  BY DEF Publish
<1>. HIDE DEF e
<1>3. /\ Len(log') = Len(log) + 1
      /\ \A i \in 1..Len(log) : log'[i] = log[i]
      /\ log'[Len(log) + 1] = e
  BY <1>1, <1>2
<1>d. Len(log') = Len(log) + 1
  BY <1>3
<1>4. LogOrdered'
  <2>1. \A i \in 1..Len(log) : log[i].seq <= seq /\ log[i].seq \in Int
    <3> SUFFICES ASSUME NEW i \in 1..Len(log)
                 PROVE  log[i].seq <= seq /\ log[i].seq \in Int
      OBVIOUS
    <3>1. log[i] \in Event
      BY <1>1
    <3>. QED BY <3>1, ConstAssumption DEF IInv, LogOrdered, Event
  <2>2. \A i \in 1..Len(log') : log'[i].seq <= seq'
    BY <1>1, <1>2, <1>3, <2>1
  <2>3. \A i, j \in 1..Len(log') : i < j => log'[i].seq < log'[j].seq
    <3> SUFFICES ASSUME NEW i \in 1..Len(log'), NEW j \in 1..Len(log'), i < j
                 PROVE  log'[i].seq < log'[j].seq
      OBVIOUS
    <3>1. CASE j <= Len(log)
      <4>1. i \in 1..Len(log) /\ j \in 1..Len(log)
        BY <1>1, <1>3, <3>1
      <4>. QED BY <1>3, <4>1 DEF IInv, LogOrdered
    <3>2. CASE j = Len(log) + 1
      <4>1. i \in 1..Len(log)
        BY <1>1, <1>3, <3>2
      <4>. QED BY <1>1, <1>3, <2>1, <3>2, <4>1
    <3>3. j <= Len(log) \/ j = Len(log) + 1
      BY <1>c, <1>d
    <3>. QED BY <3>1, <3>2, <3>3
  <2>. QED BY <2>2, <2>3 DEF LogOrdered
<1>5. BufferInv'
  <2>. USE ConstAssumption
  <2>0. /\ Len(buffer) \in Nat /\ Len(log) \in Nat
        /\ Len(buffer) = IF Len(log) <= BufferSize THEN Len(log) ELSE BufferSize
        /\ \A i \in 1..Len(buffer) : buffer[i] = log[Len(log) - Len(buffer) + i]
    BY <1>c DEF IInv, BufferInv
  <2>1. CASE Len(buffer) < BufferSize
    <3>1. buffer' = Append(buffer, e)
      BY <1>2, <2>1 DEF Remember
    <3>2. /\ Len(buffer') = Len(buffer) + 1
          /\ \A i \in 1..Len(buffer) : buffer'[i] = buffer[i]
          /\ buffer'[Len(buffer) + 1] = e
      BY <1>1, <3>1
    <3>3. Len(buffer) = Len(log)
      BY <2>0, <2>1
    <3>4. ASSUME NEW i \in 1..Len(buffer') PROVE buffer'[i] = log'[i]
      <4>1. CASE i \in 1..Len(buffer)
        <5>1. buffer'[i] = buffer[i] /\ i \in 1..Len(log)
          BY <3>2, <3>3, <4>1
        <5>2. buffer[i] = log[Len(log) - Len(buffer) + i] /\ log'[i] = log[i]
          BY <1>3, <2>0, <4>1, <5>1
        <5>3. Len(log) - Len(buffer) + i = i
          BY <2>0, <3>3, <4>1
        <5>. QED BY <5>1, <5>2, <5>3
      <4>2. CASE i = Len(buffer) + 1
        BY <1>3, <3>2, <3>3, <4>2
      <4>. QED BY <2>0, <3>2, <4>1, <4>2
    <3>5. /\ Len(log') - Len(buffer') = 0
          /\ Len(log') <= BufferSize
          /\ Len(log') = Len(buffer')
      BY <1>3, <2>0, <2>1, <3>2, <3>3
    <3>6. \A i \in 1..Len(buffer') : Len(log') - Len(buffer') + i = i
      BY <3>5
    <3>. QED BY <3>4, <3>5, <3>6 DEF BufferInv
  <2>2. CASE ~(Len(buffer) < BufferSize)
    <3>1. buffer' = Append(Tail(buffer), e) /\ buffer # << >>
      BY <1>1, <1>2, <2>2 DEF Remember
    <3>2. /\ Tail(buffer) \in Seq(Event)
          /\ Len(Tail(buffer)) = Len(buffer) - 1
          /\ \A i \in 1..Len(Tail(buffer)) : Tail(buffer)[i] = buffer[i + 1]
      BY <1>1, <3>1, HeadTailProperties
    <3>3. /\ Len(buffer') = Len(buffer)
          /\ \A i \in 1..Len(buffer) - 1 : buffer'[i] = buffer[i + 1]
          /\ buffer'[Len(buffer)] = e
      BY <1>1, <3>1, <3>2, <2>0
    <3>4. Len(buffer') = BufferSize /\ Len(log') > BufferSize
      BY <1>3, <2>0, <2>2, <3>3
    <3>5. ASSUME NEW i \in 1..Len(buffer')
          PROVE  buffer'[i] = log'[Len(log') - Len(buffer') + i]
      <4>1. CASE i = Len(buffer)
        BY <1>3, <2>0, <3>3, <4>1
      <4>2. CASE i # Len(buffer)
        <5>1. i \in 1..Len(buffer) - 1 /\ i + 1 \in 1..Len(buffer)
          BY <2>0, <3>3, <4>2
        <5>2. buffer'[i] = log[Len(log) - Len(buffer) + (i + 1)]
          BY <2>0, <3>3, <5>1
        <5>3. /\ Len(log) - Len(buffer) + (i + 1) \in 1..Len(log)
              /\ Len(log) - Len(buffer) + (i + 1) = Len(log') - Len(buffer') + i
          BY <1>3, <2>0, <3>3, <5>1
        <5>. QED BY <1>3, <5>2, <5>3
      <4>. QED BY <4>1, <4>2
    <3>. QED BY <1>3, <2>0, <3>4, <3>5 DEF BufferInv
  <2>. QED BY <2>1, <2>2
<1>6. QueueInv'
  <2> SUFFICES ASSUME NEW c \in Clients
      PROVE /\ c \in subscribers' =>
                  phase'[c] # "off" /\ pos'[c] + Len(queue'[c]) = Len(log')
            /\ phase'[c] # "off" =>
                  /\ pos'[c] + Len(queue'[c]) <= Len(log')
                  /\ \A i \in 1..Len(queue'[c]) : queue'[c][i] = log'[pos'[c] + i]
    BY DEF QueueInv
  <2>1. /\ queue[c] \in Seq(Event) /\ pos[c] \in Nat /\ Len(log) \in Nat
        /\ Len(queue[c]) \in Nat
        /\ c \in subscribers =>
              phase[c] # "off" /\ pos[c] + Len(queue[c]) = Len(log)
        /\ phase[c] # "off" =>
              /\ pos[c] + Len(queue[c]) <= Len(log)
              /\ \A i \in 1..Len(queue[c]) : queue[c][i] = log[pos[c] + i]
    BY <1>1 DEF IInv, QueueInv, TypeOK
  <2>2. CASE c \in subscribers /\ HasRoom(queue[c])
    <3>1. queue'[c] = Append(queue[c], e)
      BY <1>2, <2>2
    <3>2. /\ Len(queue'[c]) = Len(queue[c]) + 1
          /\ \A i \in 1..Len(queue[c]) : queue'[c][i] = queue[c][i]
          /\ queue'[c][Len(queue[c]) + 1] = e
      BY <1>1, <2>1, <3>1
    <3>3. pos'[c] + Len(queue'[c]) = Len(log')
      <4>1. pos'[c] = pos[c] /\ pos[c] + Len(queue[c]) = Len(log)
        BY <1>2, <2>1, <2>2
      <4>2. Len(queue'[c]) = Len(queue[c]) + 1
        BY <3>2
      <4>. QED BY <1>c, <1>d, <2>1, <4>1, <4>2
    <3>4. ASSUME NEW i \in 1..Len(queue'[c])
          PROVE  queue'[c][i] = log'[pos'[c] + i]
      <4>1. CASE i \in 1..Len(queue[c])
        <5>1. pos[c] + i \in 1..Len(log) /\ queue[c][i] = log[pos[c] + i]
          BY <2>1, <2>2, <4>1
        <5>. QED BY <1>2, <1>3, <3>2, <4>1, <5>1
      <4>2. CASE i = Len(queue[c]) + 1
        <5>1. pos[c] + i = Len(log) + 1
          BY <2>1, <2>2, <4>2
        <5>. QED BY <1>2, <1>3, <3>2, <4>2, <5>1
      <4>. QED BY <2>1, <3>2, <4>1, <4>2
    <3>5. phase'[c] # "off"
      BY <2>1, <2>2
    <3>6. Len(log') \in Nat
      BY <1>1, <1>3
    <3>. QED BY <3>3, <3>4, <3>5, <3>6
  <2>3. CASE ~(c \in subscribers /\ HasRoom(queue[c]))
    <3>1. queue'[c] = queue[c] /\ c \notin subscribers'
      BY <1>2, <2>3
    <3>. QED BY <1>2, <1>3, <2>1, <3>1
  <2>. QED BY <2>2, <2>3
<1>. QED BY <1>4, <1>5, <1>6

(***************************************************************************)
(* Every other step preserves it                                           *)
(***************************************************************************)

\* The bus starts within the invariant.
LEMMA InitInv == Init => IInv
<1>1. << >> \in Seq(Event) /\ Len(<< >>) = 0
  OBVIOUS
<1>. QED
  BY <1>1, ConstAssumption
  DEF Init, IInv, TypeOK, LogOrdered, BufferInv, QueueInv, Phases, Empty

\* Publish keeps the invariant.
LEMMA PublishStep ==
    ASSUME IInv, NEW type \in {"cache:done", "cache:bust", "other"},
           NEW ks \in SUBSET Keys, Publish(type, ks),
           UNCHANGED <<phase, clientVars>>
    PROVE  IInv'
<1>1. TypeOK'
  BY PublishType, ConstAssumption DEF IInv, TypeOK, clientVars
<1>2. \A c \in Clients : phase'[c] = "off" <=> phase[c] = "off"
  OBVIOUS
<1>. QED BY <1>1, <1>2, PublishInv DEF IInv

\* A subscription with its replay keeps the invariant.
LEMMA SubscribeStep ==
    ASSUME IInv, NEW c \in Clients, Subscribe(c)
    PROVE  IInv'
<1>1. UNCHANGED <<serverVars, clientVars>>
  BY DEF Subscribe
<1>2. LogOrdered' /\ BufferInv'
  BY <1>1 DEF IInv, LogOrdered, BufferInv, serverVars
<1>3. CASE CanReplay(lastSeq[c])
  <2> DEFINE l == Behind(log, lastSeq[c])
             m == Missed(buffer, lastSeq[c])
  <2>1. /\ l \in Nat /\ m \in Seq(Event)
        /\ l + Len(m) = Len(log)
        /\ \A i \in 1..Len(m) : m[i] = log[l + i]
    BY <1>3, ReplayLemma
  <2>2. /\ queue' = [queue EXCEPT ![c] = m]
        /\ pos' = [pos EXCEPT ![c] = l]
        /\ needSnapshot' = [needSnapshot EXCEPT ![c] = FALSE]
        /\ phase' = [phase EXCEPT ![c] = "subscribed"]
        /\ subscribers' = subscribers \cup {c}
    BY <1>3 DEF Subscribe
  <2>. HIDE DEF l, m
  <2>3. TypeOK'
    BY <1>1, <2>1, <2>2 DEF IInv, TypeOK, serverVars, clientVars, Phases
  <2>4. QueueInv'
    <3> SUFFICES ASSUME NEW d \in Clients
        PROVE /\ d \in subscribers' =>
                    phase'[d] # "off" /\ pos'[d] + Len(queue'[d]) = Len(log')
              /\ phase'[d] # "off" =>
                    /\ pos'[d] + Len(queue'[d]) <= Len(log')
                    /\ \A i \in 1..Len(queue'[d]) :
                          queue'[d][i] = log'[pos'[d] + i]
      BY DEF QueueInv
    <3>0. log' = log /\ Len(log) \in Nat
      BY <1>1 DEF serverVars, IInv, TypeOK
    <3>1. CASE d = c
      <4>1. queue'[d] = m /\ pos'[d] = l /\ phase'[d] = "subscribed"
        BY <2>2, <3>1 DEF IInv, TypeOK
      <4>. QED BY <2>1, <3>0, <4>1
    <3>2. CASE d # c
      <4>1. /\ queue'[d] = queue[d] /\ pos'[d] = pos[d] /\ phase'[d] = phase[d]
            /\ d \in subscribers' => d \in subscribers
        BY <2>2, <3>2 DEF IInv, TypeOK
      <4>. QED BY <3>0, <4>1 DEF IInv, QueueInv
    <3>. QED BY <3>1, <3>2
  <2>. QED BY <1>2, <2>3, <2>4 DEF IInv
<1>4. CASE ~CanReplay(lastSeq[c])
  <2>1. /\ queue' = [queue EXCEPT ![c] = << >>]
        /\ pos' = [pos EXCEPT ![c] = Len(log)]
        /\ needSnapshot' = [needSnapshot EXCEPT ![c] = TRUE]
        /\ phase' = [phase EXCEPT ![c] = "subscribed"]
        /\ subscribers' = subscribers \cup {c}
    BY <1>4 DEF Subscribe
  <2>2. /\ log' = log /\ Len(log) \in Nat /\ << >> \in Seq(Event)
        /\ Len(<< >>) = 0
    BY <1>1 DEF serverVars, IInv, TypeOK
  <2>3. TypeOK'
    BY <1>1, <2>1, <2>2 DEF IInv, TypeOK, serverVars, clientVars, Phases
  <2>4. QueueInv'
    <3> SUFFICES ASSUME NEW d \in Clients
        PROVE /\ d \in subscribers' =>
                    phase'[d] # "off" /\ pos'[d] + Len(queue'[d]) = Len(log')
              /\ phase'[d] # "off" =>
                    /\ pos'[d] + Len(queue'[d]) <= Len(log')
                    /\ \A i \in 1..Len(queue'[d]) :
                          queue'[d][i] = log'[pos'[d] + i]
      BY DEF QueueInv
    <3>1. CASE d = c
      <4>1. queue'[d] = << >> /\ pos'[d] = Len(log) /\ phase'[d] = "subscribed"
        BY <2>1, <3>1 DEF IInv, TypeOK
      <4>. QED BY <2>2, <4>1
    <3>2. CASE d # c
      <4>1. /\ queue'[d] = queue[d] /\ pos'[d] = pos[d] /\ phase'[d] = phase[d]
            /\ d \in subscribers' => d \in subscribers
        BY <2>1, <3>2 DEF IInv, TypeOK
      <4>. QED BY <2>2, <4>1 DEF IInv, QueueInv
    <3>. QED BY <3>1, <3>2
  <2>. QED BY <1>2, <2>3, <2>4 DEF IInv
<1>. QED BY <1>3, <1>4

\* Handing one event to the client keeps the invariant.
LEMMA DeliverStep ==
    ASSUME IInv, NEW c \in Clients, Deliver(c)
    PROVE  IInv'
<1> DEFINE e == Head(queue[c])
<1>1. /\ queue[c] \in Seq(Event) /\ queue[c] # << >> /\ e = queue[c][1]
      /\ e \in Event /\ e.seq \in 0..MaxSeq
      /\ Tail(queue[c]) \in Seq(Event)
      /\ Len(Tail(queue[c])) = Len(queue[c]) - 1
      /\ \A i \in 1..Len(Tail(queue[c])) : Tail(queue[c])[i] = queue[c][i + 1]
  <2>1. queue[c] \in Seq(Event) /\ queue[c] # << >>
    BY DEF IInv, TypeOK, Deliver
  <2>2. e \in Event /\ e = queue[c][1]
    BY <2>1
  <2>3. e.seq \in 0..MaxSeq
    BY <2>2, ConstAssumption DEF Event
  <2>. QED BY <2>1, <2>2, <2>3, HeadTailProperties
<1>2. /\ queue' = [queue EXCEPT ![c] = Tail(@)]
      /\ pos' = [pos EXCEPT ![c] = @ + 1]
      /\ lastSeq' = [lastSeq EXCEPT ![c] = e.seq]
      /\ store' = [store EXCEPT ![c] =
                      IF e.type = "cache:done" THEN Track(@, e) ELSE @]
      /\ UNCHANGED <<serverVars, subscribers, needSnapshot, phase, seen>>
  BY DEF Deliver
<1>. HIDE DEF e
<1>3. Track(store[c], e) \in [Keys -> 0..MaxSeq]
  BY <1>1, TrackType, ConstAssumption DEF IInv, TypeOK
<1>4. TypeOK'
  <2>1. queue' \in [Clients -> Seq(Event)]
    BY <1>1, <1>2 DEF IInv, TypeOK
  <2>2. store' \in [Clients -> [Keys -> 0..MaxSeq]]
    BY <1>2, <1>3 DEF IInv, TypeOK
  <2>3. lastSeq' \in [Clients -> 0..MaxSeq] /\ pos' \in [Clients -> Nat]
    BY <1>1, <1>2 DEF IInv, TypeOK
  <2>. QED BY <1>2, <2>1, <2>2, <2>3 DEF IInv, TypeOK, serverVars
<1>5. LogOrdered' /\ BufferInv'
  BY <1>2 DEF IInv, LogOrdered, BufferInv, serverVars
<1>6. QueueInv'
  <2> SUFFICES ASSUME NEW d \in Clients
      PROVE /\ d \in subscribers' =>
                  phase'[d] # "off" /\ pos'[d] + Len(queue'[d]) = Len(log')
            /\ phase'[d] # "off" =>
                  /\ pos'[d] + Len(queue'[d]) <= Len(log')
                  /\ \A i \in 1..Len(queue'[d]) :
                        queue'[d][i] = log'[pos'[d] + i]
    BY DEF QueueInv
  <2>0. /\ log' = log /\ Len(log) \in Nat /\ pos[d] \in Nat
        /\ Len(queue[d]) \in Nat /\ phase'[d] = phase[d]
        /\ subscribers' = subscribers
    BY <1>2 DEF serverVars, IInv, TypeOK
  <2>1. CASE d = c
    <3>1. queue'[d] = Tail(queue[c]) /\ pos'[d] = pos[c] + 1
      BY <1>2, <2>1 DEF IInv, TypeOK
    <3>2. /\ c \in subscribers => pos[c] + Len(queue[c]) = Len(log)
          /\ c \in subscribers => phase[c] # "off"
          /\ phase[c] # "off"
          /\ pos[c] + Len(queue[c]) <= Len(log)
          /\ \A i \in 1..Len(queue[c]) : queue[c][i] = log[pos[c] + i]
      BY DEF IInv, QueueInv, Deliver
    <3>a. /\ Len(queue'[d]) = Len(queue[c]) - 1 /\ Len(queue[c]) \in Nat
          /\ pos[c] \in Nat
      BY <1>1, <2>0, <2>1, <3>1
    <3>3. pos'[d] + Len(queue'[d]) = pos[c] + Len(queue[c])
      BY <3>1, <3>a
    <3>4. ASSUME NEW i \in 1..Len(queue'[d])
          PROVE  queue'[d][i] = log'[pos'[d] + i]
      <4>1. i + 1 \in 1..Len(queue[c]) /\ pos[c] + (i + 1) = pos'[d] + i
        BY <3>1, <3>a
      <4>2. queue'[d][i] = queue[c][i + 1]
        BY <1>1, <3>1
      <4>. QED BY <2>0, <3>2, <4>1, <4>2
    <3>. QED BY <2>0, <2>1, <3>2, <3>3, <3>4
  <2>2. CASE d # c
    <3>1. queue'[d] = queue[d] /\ pos'[d] = pos[d]
      BY <1>2, <2>2 DEF IInv, TypeOK
    <3>. QED BY <2>0, <3>1 DEF IInv, QueueInv
  <2>. QED BY <2>1, <2>2
<1>. QED BY <1>4, <1>5, <1>6 DEF IInv

\* A step of a generator that touches neither the log nor a queue.
LEMMA QuietStep ==
    ASSUME IInv, TypeOK', seq' >= seq,
           UNCHANGED <<log, buffer, queue, subscribers, pos>>,
           \A c \in Clients : phase'[c] = "off" <=> phase[c] = "off"
    PROVE  IInv'
<1>1. LogOrdered'
  <2> SUFFICES ASSUME NEW i \in 1..Len(log) PROVE log[i].seq <= seq'
    BY DEF IInv, LogOrdered
  <2>1. log[i] \in Event
    BY DEF IInv, TypeOK
  <2>2. log[i].seq \in Int /\ log[i].seq <= seq
    BY <2>1, ConstAssumption DEF Event, IInv, LogOrdered
  <2>3. seq \in Int /\ seq' \in Int
    BY DEF IInv, TypeOK
  <2>. QED BY <2>2, <2>3
<1>2. BufferInv' /\ QueueInv'
  BY DEF IInv, BufferInv, QueueInv
<1>. QED BY <1>1, <1>2 DEF IInv

\* A heartbeat keeps the invariant.
LEMMA HeartbeatStep ==
    ASSUME IInv, NEW c \in Clients, Heartbeat(c)
    PROVE  IInv'
<1>1. /\ Publish("other", {})
      /\ phase[c] = "timeout"
      /\ phase' = [phase EXCEPT ![c] = "live"]
      /\ lastSeq' = [lastSeq EXCEPT ![c] = seq + 1]
      /\ UNCHANGED <<store, seen>>
  BY DEF Heartbeat
<1>2. TypeOK'
  BY <1>1, PublishType, ConstAssumption DEF IInv, TypeOK, Phases
<1>3. \A d \in Clients : phase'[d] = "off" <=> phase[d] = "off"
  BY <1>1 DEF IInv, TypeOK
<1>. QED BY <1>1, <1>2, <1>3, PublishInv DEF IInv

\* A lost connection keeps the invariant.
LEMMA DisconnectStep ==
    ASSUME IInv, NEW c \in Clients, Disconnect(c)
    PROVE  IInv'
<1>1. /\ phase' = [phase EXCEPT ![c] = "off"]
      /\ subscribers' = subscribers \ {c}
      /\ queue' = [queue EXCEPT ![c] = << >>]
      /\ UNCHANGED <<serverVars, needSnapshot, pos, clientVars>>
  BY DEF Disconnect
<1>2. << >> \in Seq(Event)
  OBVIOUS
<1>3. TypeOK'
  BY <1>1, <1>2 DEF IInv, TypeOK, serverVars, clientVars, Phases
<1>4. LogOrdered' /\ BufferInv'
  BY <1>1 DEF IInv, LogOrdered, BufferInv, serverVars
<1>5. QueueInv'
  <2> SUFFICES ASSUME NEW d \in Clients
      PROVE /\ d \in subscribers' =>
                  phase'[d] # "off" /\ pos'[d] + Len(queue'[d]) = Len(log')
            /\ phase'[d] # "off" =>
                  /\ pos'[d] + Len(queue'[d]) <= Len(log')
                  /\ \A i \in 1..Len(queue'[d]) :
                        queue'[d][i] = log'[pos'[d] + i]
    BY DEF QueueInv
  <2>1. CASE d = c
    BY <1>1, <2>1 DEF IInv, TypeOK
  <2>2. CASE d # c
    <3>1. /\ queue'[d] = queue[d] /\ pos'[d] = pos[d] /\ phase'[d] = phase[d]
          /\ d \in subscribers' => d \in subscribers
          /\ log' = log
      BY <1>1, <2>2 DEF IInv, TypeOK, serverVars
    <3>. QED BY <3>1 DEF IInv, QueueInv
  <2>. QED BY <2>1, <2>2
<1>. QED BY <1>3, <1>4, <1>5 DEF IInv

\* A server restart keeps the invariant.
LEMMA RestartStep == ASSUME IInv, Restart PROVE IInv'
<1>1. << >> \in Seq(Event) /\ Len(<< >>) = 0
  OBVIOUS
<1>2. TypeOK'
  BY <1>1, ConstAssumption
  DEF Restart, IInv, TypeOK, clientVars, Phases, Empty
<1>3. LogOrdered' /\ BufferInv'
  BY <1>1, ConstAssumption DEF Restart, LogOrdered, BufferInv
<1>4. QueueInv'
  BY <1>1 DEF Restart, QueueInv
<1>. QED BY <1>2, <1>3, <1>4 DEF IInv

\* The ready event keeps the invariant.
LEMMA ReadyStep ==
    ASSUME IInv, NEW c \in Clients, Ready(c)
    PROVE  IInv'
<1>1. TypeOK'
  <2>1. store' \in [Clients -> [Keys -> 0..MaxSeq]]
    BY ConstAssumption DEF Ready, IInv, TypeOK, Empty
  <2>. QED BY <2>1, ConstAssumption DEF Ready, IInv, TypeOK, Phases
<1>2. /\ seq' >= seq /\ UNCHANGED <<log, buffer, queue, subscribers, pos>>
      /\ \A d \in Clients : phase'[d] = "off" <=> phase[d] = "off"
  BY DEF Ready, IInv, TypeOK
<1>. QED BY <1>1, <1>2, QuietStep

\* The snapshot event keeps the invariant.
LEMMA SnapshotStep ==
    ASSUME IInv, NEW c \in Clients, Snapshot(c)
    PROVE  IInv'
<1>1. TypeOK'
  <2>1. store' \in [Clients -> [Keys -> 0..MaxSeq]]
    BY DEF Snapshot, IInv, TypeOK
  <2>. QED BY <2>1, ConstAssumption DEF Snapshot, IInv, TypeOK, Phases
<1>2. /\ seq' >= seq /\ UNCHANGED <<log, buffer, queue, subscribers, pos>>
      /\ \A d \in Clients : phase'[d] = "off" <=> phase[d] = "off"
  BY DEF Snapshot, IInv, TypeOK
<1>. QED BY <1>1, <1>2, QuietStep

\* Every action of bus and clients keeps the invariant.
LEMMA NextInv == IInv /\ [Next]_vars => IInv'
<1> SUFFICES ASSUME IInv, [Next]_vars PROVE IInv'
  OBVIOUS
<1>1. ASSUME NEW k \in Keys, PublishDone(k) PROVE IInv'
  BY <1>1, PublishStep DEF PublishDone
<1>2. ASSUME NEW ks \in (SUBSET Keys) \ {{}}, PublishBust(ks) PROVE IInv'
  BY <1>2, PublishStep DEF PublishBust
<1>3. CASE PublishOther
  BY <1>3, PublishStep DEF PublishOther
<1>4. ASSUME NEW c \in Clients, Subscribe(c) PROVE IInv'
  BY <1>4, SubscribeStep
<1>5. ASSUME NEW c \in Clients, Disconnect(c) PROVE IInv'
  BY <1>5, DisconnectStep
<1>6. ASSUME NEW c \in Clients, Reload(c) PROVE IInv'
  <2>1. TypeOK'
    BY <1>6, ConstAssumption
    DEF Reload, IInv, TypeOK, Empty, serverVars, connVars
  <2>2. /\ seq' >= seq /\ UNCHANGED <<log, buffer, queue, subscribers, pos>>
        /\ \A d \in Clients : phase'[d] = "off" <=> phase[d] = "off"
    BY <1>6 DEF Reload, IInv, TypeOK, serverVars, connVars
  <2>. QED BY <2>1, <2>2, QuietStep
<1>7. ASSUME NEW c \in Clients, Ready(c) PROVE IInv'
  BY <1>7, ReadyStep
<1>8. ASSUME NEW c \in Clients, Snapshot(c) PROVE IInv'
  BY <1>8, SnapshotStep
<1>9. ASSUME NEW c \in Clients, Deliver(c) PROVE IInv'
  BY <1>9, DeliverStep
<1>10. ASSUME NEW c \in Clients, TimeOut(c) PROVE IInv'
  <2>1. TypeOK'
    BY <1>10 DEF TimeOut, IInv, TypeOK, serverVars, clientVars, Phases
  <2>2. /\ seq' >= seq /\ UNCHANGED <<log, buffer, queue, subscribers, pos>>
        /\ \A d \in Clients : phase'[d] = "off" <=> phase[d] = "off"
    BY <1>10 DEF TimeOut, IInv, TypeOK, serverVars
  <2>. QED BY <2>1, <2>2, QuietStep
<1>11. ASSUME NEW c \in Clients, Heartbeat(c) PROVE IInv'
  BY <1>11, HeartbeatStep
<1>12. CASE Restart
  BY <1>12, RestartStep
<1>13. CASE UNCHANGED vars
  BY <1>13
  DEF vars, serverVars, connVars, clientVars, IInv, TypeOK, LogOrdered,
      BufferInv, QueueInv
<1>. QED
  BY <1>1, <1>2, <1>3, <1>4, <1>5, <1>6, <1>7, <1>8, <1>9, <1>10, <1>11,
     <1>12, <1>13 DEF Next

\* The inductive invariant holds in every reachable state of bus and clients.
THEOREM Invariance == Spec => []IInv
BY InitInv, NextInv, PTL DEF Spec

(***************************************************************************)
(* The invariants the runs check                                           *)
(***************************************************************************)

\* The state of bus, connections and browsers is well typed in every
\* reachable state.
THEOREM TypeCorrect == Spec => []TypeOK
<1>1. IInv => TypeOK
  BY DEF IInv
<1>. QED BY <1>1, Invariance, PTL

\* Sequence numbers grow along the log of one server instance.
THEOREM OrderedLog == Spec => []LogOrdered
<1>1. IInv => LogOrdered
  BY DEF IInv
<1>. QED BY <1>1, Invariance, PTL

\* Two sequences of the same length with the same elements are equal.
LEMMA SameSeq ==
    ASSUME NEW s \in Seq(Event), NEW t \in Seq(Event), Len(s) = Len(t),
           \A i \in 1..Len(s) : s[i] = t[i]
    PROVE  s = t
OBVIOUS

\* A sequence with the elements of t behind p is that stretch of t.
LEMMA StretchLemma ==
    ASSUME NEW s \in Seq(Event), NEW t \in Seq(Event), NEW p \in Nat,
           p + Len(s) <= Len(t), \A i \in 1..Len(s) : s[i] = t[p + i]
    PROVE  s = SubSeq(t, p + 1, p + Len(s))
<1>1. \A i \in p + 1..p + Len(s) : t[i] \in Event
  OBVIOUS
<1> DEFINE u == SubSeq(t, p + 1, p + Len(s))
<1>2. /\ u \in Seq(Event)
      /\ Len(u) = IF p + 1 <= p + Len(s) THEN p + Len(s) - (p + 1) + 1 ELSE 0
      /\ \A i \in 1..p + Len(s) - (p + 1) + 1 : u[i] = t[p + 1 + i - 1]
  <2>1. p + 1 \in Int /\ p + Len(s) \in Int
    OBVIOUS
  <2>. QED BY <1>1, <2>1, SubSeqProperties
<1>. HIDE DEF u
<1>3. Len(u) = Len(s)
  BY <1>2
<1>4. \A i \in 1..Len(s) : s[i] = u[i]
  <2> SUFFICES ASSUME NEW i \in 1..Len(s) PROVE s[i] = u[i]
    OBVIOUS
  <2>1. p + 1 + i - 1 = p + i /\ i \in 1..p + Len(s) - (p + 1) + 1
    OBVIOUS
  <2>. QED BY <1>2, <2>1
<1>5. s = u
  BY <1>2, <1>3, <1>4, SameSeq
<1>. QED BY <1>5 DEF u

\* The replay buffer is the tail of the broadcast log, for any buffer size.
THEOREM BufferFaithful == Spec => []BufferIsTail
<1>1. IInv => BufferIsTail
  <2> SUFFICES ASSUME IInv PROVE BufferIsTail
    OBVIOUS
  <2> DEFINE p == Max2(0, Len(log) - BufferSize)
  <2>1. /\ buffer \in Seq(Event) /\ log \in Seq(Event)
        /\ Len(log) \in Nat /\ Len(buffer) \in Nat
    BY DEF IInv, TypeOK
  <2>2. p \in Nat /\ p = Len(log) - Len(buffer)
    BY <2>1, ConstAssumption DEF IInv, BufferInv, Max2
  <2>3. \A i \in 1..Len(buffer) : buffer[i] = log[p + i]
    BY <2>2 DEF IInv, BufferInv
  <2>. HIDE DEF p
  <2>4. p + Len(buffer) = Len(log)
    BY <2>1, <2>2
  <2>5. p + Len(buffer) <= Len(log)
    BY <2>1, <2>4
  <2>6. buffer = SubSeq(log, p + 1, p + Len(buffer))
    BY <2>1, <2>2, <2>3, <2>5, StretchLemma
  <2>. QED BY <2>4, <2>6 DEF BufferIsTail, p
<1>. QED BY <1>1, Invariance, PTL

\* No registered client misses, repeats or reorders a broadcast event, and a
\* dropped one still reads a gapless stretch.
THEOREM QueueFaithful == Spec => []QueueIsTail
<1>1. IInv => QueueIsTail
  <2> SUFFICES ASSUME IInv PROVE QueueIsTail
    OBVIOUS
  <2>1. ASSUME NEW c \in Clients, phase[c] # "off"
        PROVE  queue[c] = SubSeq(log, pos[c] + 1, pos[c] + Len(queue[c]))
    <3>1. queue[c] \in Seq(Event) /\ log \in Seq(Event) /\ pos[c] \in Nat
      BY DEF IInv, TypeOK
    <3>2. /\ pos[c] + Len(queue[c]) <= Len(log)
          /\ \A i \in 1..Len(queue[c]) : queue[c][i] = log[pos[c] + i]
      BY <2>1 DEF IInv, QueueInv
    <3>. QED BY <3>1, <3>2, StretchLemma
  <2>2. \A c \in Clients : c \in subscribers => pos[c] + Len(queue[c]) = Len(log)
    BY DEF IInv, QueueInv
  <2>. QED BY <2>1, <2>2 DEF QueueIsTail
<1>. QED BY <1>1, Invariance, PTL

(***************************************************************************)
(* A connection that began with a snapshot converges                       *)
(***************************************************************************)

Carries(e, k) == e.type = "cache:done" /\ k \in e.keys

\* For a key with data: the last queued cache:done of that key, if there is
\* one, carries the newest data; if there is none, the store already has it.
KeyInv(c, k) ==
    /\ \A i \in 1..Len(queue[c]) :
          Carries(queue[c][i], k)
            /\ (\A j \in 1..Len(queue[c]) : j > i => ~Carries(queue[c][j], k))
          => queue[c][i].seq = latest[k]
    /\ phase[c] \in {"live", "timeout"}
         /\ (\A i \in 1..Len(queue[c]) : ~Carries(queue[c][i], k))
       => store[c][k] = latest[k]

ConvInv ==
    \A c \in Clients, k \in Keys :
        c \in subscribers /\ needSnapshot[c] /\ latest[k] # 0 => KeyInv(c, k)

\* Publishing keeps what convergence needs.
LEMMA PublishConv ==
    ASSUME IInv, ConvInv, NEW type \in {"cache:done", "cache:bust", "other"},
           NEW ks \in SUBSET Keys, Publish(type, ks), store' = store,
           \A c \in Clients : phase'[c] \in {"live", "timeout"}
                                <=> phase[c] \in {"live", "timeout"}
    PROVE  ConvInv'
<1> DEFINE e == [seq |-> seq + 1, type |-> type, keys |-> ks]
<1>1. e.seq = seq + 1 /\ e.type = type /\ e.keys = ks
  OBVIOUS
<1>2. /\ latest' = Track(latest, e)
      /\ queue' = [c \in Clients |->
                      IF c \in subscribers /\ HasRoom(queue[c])
                      THEN Append(queue[c], e) ELSE queue[c]]
      /\ subscribers' = {c \in subscribers : HasRoom(queue[c])}
      /\ needSnapshot' = needSnapshot
  BY DEF Publish
<1>. HIDE DEF e
<1>3. SUFFICES ASSUME NEW c \in Clients, NEW k \in Keys,
                      c \in subscribers', needSnapshot'[c], latest'[k] # 0
               PROVE  KeyInv(c, k)'
  BY DEF ConvInv
<1>4. c \in subscribers /\ HasRoom(queue[c]) /\ needSnapshot[c]
  BY <1>2, <1>3
<1>5. queue[c] \in Seq(Event)
  BY DEF IInv, TypeOK
<1>6. queue'[c] = Append(queue[c], e)
  BY <1>2, <1>4
<1> DEFINE n == Len(queue[c])
<1>7. /\ n \in Nat /\ Len(queue'[c]) = n + 1
      /\ \A i \in 1..n : queue'[c][i] = queue[c][i]
      /\ queue'[c][n + 1] = e
  <2>1. Append(queue[c], e) \in Seq(Event \cup {e})
    BY <1>5
  <2>. QED BY <1>5, <1>6
<1>. HIDE DEF n
<1>8. CASE Carries(e, k)
  <2>1. latest'[k] = e.seq
    BY <1>2, <1>8 DEF Carries, Track
  <2>2. ASSUME NEW i \in 1..n + 1,
               \A j \in 1..n + 1 : j > i => ~Carries(queue'[c][j], k)
        PROVE  queue'[c][i].seq = latest'[k]
    <3>1. ~(n + 1 > i)
      BY <1>7, <1>8, <2>2
    <3>2. i = n + 1
      BY <1>7, <3>1
    <3>. QED BY <1>7, <2>1, <3>2
  <2>3. n + 1 \in 1..n + 1
    BY <1>7
  <2>4. ~\A i \in 1..n + 1 : ~Carries(queue'[c][i], k)
    BY <1>7, <1>8, <2>3
  <2>. QED BY <1>7, <2>2, <2>4 DEF KeyInv
<1>9. CASE ~Carries(e, k)
  <2>1. latest'[k] = latest[k]
    BY <1>2, <1>3, <1>9 DEF Track, Carries
  <2>2. KeyInv(c, k)
    BY <1>3, <1>4, <2>1 DEF ConvInv
  <2>3. ASSUME NEW i \in 1..n + 1, Carries(queue'[c][i], k),
               \A j \in 1..n + 1 : j > i => ~Carries(queue'[c][j], k)
        PROVE  queue'[c][i].seq = latest'[k]
    <3>1. i # n + 1
      BY <1>7, <1>9, <2>3
    <3>2. i \in 1..n
      BY <1>7, <3>1
    <3>3. \A j \in 1..n : j > i => ~Carries(queue[c][j], k)
      BY <1>7, <2>3
    <3>4. Carries(queue[c][i], k) /\ queue'[c][i] = queue[c][i]
      BY <1>7, <2>3, <3>2
    <3>. QED BY <2>1, <2>2, <3>2, <3>3, <3>4 DEF KeyInv, n
  <2>4. ASSUME phase'[c] \in {"live", "timeout"},
               \A i \in 1..n + 1 : ~Carries(queue'[c][i], k)
        PROVE  store'[c][k] = latest'[k]
    <3>1. \A i \in 1..n : ~Carries(queue[c][i], k)
      BY <1>7, <2>4
    <3>. QED BY <2>1, <2>2, <2>4, <3>1 DEF KeyInv, n
  <2>. QED BY <1>7, <2>3, <2>4 DEF KeyInv
<1>. QED BY <1>8, <1>9

\* Handing over an event keeps what convergence needs.
LEMMA DeliverConv ==
    ASSUME IInv, ConvInv, NEW d \in Clients, Deliver(d)
    PROVE  ConvInv'
<1> DEFINE e == Head(queue[d])
<1>1. /\ queue' = [queue EXCEPT ![d] = Tail(@)]
      /\ store' = [store EXCEPT ![d] =
                      IF e.type = "cache:done" THEN Track(@, e) ELSE @]
      /\ UNCHANGED <<latest, subscribers, needSnapshot, phase>>
  BY DEF Deliver, serverVars
<1>2. /\ queue[d] \in Seq(Event) /\ queue[d] # << >>
      /\ queue \in [Clients -> Seq(Event)]
      /\ store \in [Clients -> [Keys -> 0..MaxSeq]]
  BY DEF IInv, TypeOK, Deliver
<1>3. e = queue[d][1]
  BY <1>2
<1>. HIDE DEF e
<1>4. SUFFICES ASSUME NEW c \in Clients, NEW k \in Keys,
                      c \in subscribers, needSnapshot[c], latest[k] # 0
               PROVE  KeyInv(c, k)'
  BY <1>1 DEF ConvInv
<1>5. KeyInv(c, k)
  BY <1>4 DEF ConvInv
<1>6. CASE c # d
  <2>1. queue'[c] = queue[c] /\ store'[c] = store[c]
    BY <1>1, <1>2, <1>6
  <2>. QED BY <1>1, <1>5, <2>1 DEF KeyInv
<1>7. CASE c = d
  <2> DEFINE n == Len(Tail(queue[c]))
  <2>1. /\ n \in Nat /\ Len(queue[c]) = n + 1
        /\ \A i \in 1..n : Tail(queue[c])[i] = queue[c][i + 1]
    BY <1>2, <1>7, HeadTailProperties
  <2>2. queue'[c] = Tail(queue[c])
    BY <1>1, <1>2, <1>7
  <2>3. Len(queue'[c]) = n
    BY <2>2
  <2>4. store'[c][k] = IF Carries(e, k) THEN e.seq ELSE store[c][k]
    BY <1>1, <1>2, <1>7 DEF Track, Carries
  <2>. HIDE DEF n
  <2>5. ASSUME NEW i \in 1..n, Carries(queue'[c][i], k),
               \A j \in 1..n : j > i => ~Carries(queue'[c][j], k)
        PROVE  queue'[c][i].seq = latest[k]
    <3>1. i + 1 \in 1..n + 1 /\ queue'[c][i] = queue[c][i + 1]
      BY <2>1, <2>2
    <3>2. ASSUME NEW j \in 1..n + 1, j > i + 1
          PROVE  ~Carries(queue[c][j], k)
      <4>1. j - 1 \in 1..n /\ j - 1 > i /\ (j - 1) + 1 = j
        BY <2>1, <3>2
      <4>2. queue'[c][j - 1] = queue[c][j]
        BY <2>1, <2>2, <4>1
      <4>. QED BY <2>5, <4>1, <4>2
    <3>. QED BY <1>5, <2>1, <2>5, <3>1, <3>2 DEF KeyInv
  <2>6. ASSUME phase[c] \in {"live", "timeout"},
               \A i \in 1..n : ~Carries(queue'[c][i], k)
        PROVE  store'[c][k] = latest[k]
    <3>1. ASSUME NEW j \in 1..n + 1, j > 1
          PROVE  ~Carries(queue[c][j], k)
      <4>1. j - 1 \in 1..n /\ (j - 1) + 1 = j
        BY <2>1, <3>1
      <4>2. queue'[c][j - 1] = queue[c][j]
        BY <2>1, <2>2, <4>1
      <4>. QED BY <2>6, <4>1, <4>2
    <3>2. 1 \in 1..n + 1
      BY <2>1
    <3>3. CASE Carries(e, k)
      <4>1. queue[c][1].seq = latest[k]
        BY <1>3, <1>5, <1>7, <2>1, <3>1, <3>2, <3>3 DEF KeyInv
      <4>. QED BY <1>3, <1>7, <2>4, <3>3, <4>1
    <3>4. CASE ~Carries(e, k)
      <4>1. \A i \in 1..n + 1 : ~Carries(queue[c][i], k)
        <5> SUFFICES ASSUME NEW i \in 1..n + 1 PROVE ~Carries(queue[c][i], k)
          OBVIOUS
        <5>1. CASE i = 1
          BY <1>3, <1>7, <3>4, <5>1
        <5>2. CASE i > 1
          BY <3>1, <5>2
        <5>. QED BY <2>1, <5>1, <5>2
      <4>. QED BY <1>5, <2>1, <2>4, <2>6, <3>4, <4>1 DEF KeyInv
    <3>. QED BY <3>3, <3>4
  <2>. QED BY <1>1, <2>3, <2>5, <2>6 DEF KeyInv
<1>. QED BY <1>6, <1>7

\* Every action keeps what convergence needs.
LEMMA ConvStep == IInv /\ ConvInv /\ [Next]_vars => ConvInv'
<1> SUFFICES ASSUME IInv, ConvInv, [Next]_vars PROVE ConvInv'
  OBVIOUS
<1>. USE DEF IInv, TypeOK
<1>1. ASSUME NEW k \in Keys, PublishDone(k) PROVE ConvInv'
  BY <1>1, PublishConv DEF PublishDone, clientVars
<1>2. ASSUME NEW ks \in (SUBSET Keys) \ {{}}, PublishBust(ks) PROVE ConvInv'
  BY <1>2, PublishConv DEF PublishBust, clientVars
<1>3. CASE PublishOther
  BY <1>3, PublishConv DEF PublishOther, clientVars
<1>4. ASSUME NEW c \in Clients, Subscribe(c) PROVE ConvInv'
  <2>1. /\ latest' = latest /\ store' = store
        /\ subscribers' = subscribers \cup {c}
        /\ phase' = [phase EXCEPT ![c] = "subscribed"]
    BY <1>4 DEF Subscribe, serverVars, clientVars
  <2>2. /\ \A d \in Clients : d # c => /\ queue'[d] = queue[d]
                                       /\ needSnapshot'[d] = needSnapshot[d]
                                       /\ phase'[d] = phase[d]
        /\ needSnapshot'[c] => queue'[c] = << >>
        /\ phase'[c] = "subscribed"
    BY <1>4 DEF Subscribe
  <2>3. SUFFICES ASSUME NEW d \in Clients, NEW k \in Keys, d \in subscribers',
                        needSnapshot'[d], latest'[k] # 0
                 PROVE  KeyInv(d, k)'
    BY DEF ConvInv
  <2>4. CASE d = c
    BY <2>2, <2>3, <2>4 DEF KeyInv
  <2>5. CASE d # c
    <3>1. KeyInv(d, k)
      BY <2>1, <2>2, <2>3, <2>5 DEF ConvInv
    <3>2. /\ queue'[d] = queue[d] /\ phase'[d] = phase[d]
          /\ store' = store /\ latest' = latest
      BY <2>1, <2>2, <2>5
    <3>. QED BY <3>1, <3>2 DEF KeyInv
  <2>. QED BY <2>4, <2>5
<1>5. ASSUME NEW c \in Clients, Disconnect(c) PROVE ConvInv'
  BY <1>5 DEF Disconnect, ConvInv, KeyInv, serverVars, clientVars
<1>6. ASSUME NEW c \in Clients, Reload(c) PROVE ConvInv'
  <2>1. c \notin subscribers
    BY <1>6 DEF Reload, QueueInv
  <2>. QED BY <1>6, <2>1 DEF Reload, ConvInv, KeyInv, serverVars, connVars
<1>7. ASSUME NEW c \in Clients, Ready(c) PROVE ConvInv'
  BY <1>7 DEF Ready, ConvInv, KeyInv
<1>8. ASSUME NEW c \in Clients, Snapshot(c) PROVE ConvInv'
  BY <1>8 DEF Snapshot, ConvInv, KeyInv
<1>9. ASSUME NEW c \in Clients, Deliver(c) PROVE ConvInv'
  BY <1>9, DeliverConv
<1>10. ASSUME NEW c \in Clients, TimeOut(c) PROVE ConvInv'
  BY <1>10 DEF TimeOut, ConvInv, KeyInv, serverVars, clientVars
<1>11. ASSUME NEW c \in Clients, Heartbeat(c) PROVE ConvInv'
  <2>1. /\ Publish("other", {}) /\ store' = store
        /\ \A d \in Clients : phase'[d] \in {"live", "timeout"}
                                <=> phase[d] \in {"live", "timeout"}
    BY <1>11 DEF Heartbeat
  <2>. QED BY <2>1, PublishConv
<1>12. CASE Restart
  BY <1>12 DEF Restart, ConvInv
<1>13. CASE UNCHANGED vars
  BY <1>13 DEF vars, serverVars, connVars, clientVars, ConvInv, KeyInv
<1>. QED
  BY <1>1, <1>2, <1>3, <1>4, <1>5, <1>6, <1>7, <1>8, <1>9, <1>10, <1>11,
     <1>12, <1>13 DEF Next

\* Once its queue is drained, a connection that began with a snapshot shows
\* the newest data of every key, whatever was published while it started.
THEOREM Converges == Spec => []SnapshotConverges
<1>1. Init => ConvInv
  BY DEF Init, ConvInv
<1>2. IInv /\ ConvInv => SnapshotConverges
  BY DEF ConvInv, KeyInv, SnapshotConverges, Drained, Agrees
<1>. QED BY <1>1, <1>2, ConvStep, Invariance, PTL DEF Spec
(***************************************************************************)
(* The bus implements the feed                                             *)
(***************************************************************************)

\* Feed!Newest for any log.
NewestIn(s, k) ==
    {s[i].seq : i \in {j \in 1..Len(s) :
        /\ Feed!Changes(s[j], k) /\ s[j].type = "cache:done"
        /\ \A later \in 1..Len(s) : later > j => ~Feed!Changes(s[later], k)}}

\* One event more brings the newest data of a key, takes it away, or leaves it.
LEMMA NewestAppend ==
    ASSUME NEW s \in Seq(Event), NEW e \in Event, NEW k
    PROVE  NewestIn(Append(s, e), k) =
             IF ~Feed!Changes(e, k) THEN NewestIn(s, k)
             ELSE IF e.type = "cache:done" THEN {e.seq} ELSE {}
<1> DEFINE t == Append(s, e)
           n == Len(s)
           Last(u, m, j) == /\ Feed!Changes(u[j], k) /\ u[j].type = "cache:done"
                            /\ \A later \in 1..m :
                                  later > j => ~Feed!Changes(u[later], k)
<1>1. /\ n \in Nat /\ Len(t) = n + 1 /\ t[n + 1] = e
      /\ \A i \in 1..n : t[i] = s[i]
  OBVIOUS
<1>2. /\ NewestIn(s, k) = {s[i].seq : i \in {j \in 1..n : Last(s, n, j)}}
      /\ NewestIn(t, k) = {t[i].seq : i \in {j \in 1..n + 1 : Last(t, n + 1, j)}}
  BY <1>1 DEF NewestIn
<1>. HIDE DEF t, n
<1>3. Last(t, n + 1, n + 1) <=> Feed!Changes(e, k) /\ e.type = "cache:done"
  BY <1>1
<1>4. ASSUME NEW j \in 1..n
      PROVE  Last(t, n + 1, j) <=> Last(s, n, j) /\ ~Feed!Changes(e, k)
  <2>1. n + 1 > j /\ n + 1 \in 1..n + 1 /\ t[j] = s[j]
    BY <1>1
  <2>2. \A later \in 1..n + 1 : later \in 1..n \/ later = n + 1
    BY <1>1
  <2>3. \A later \in 1..n : later \in 1..n + 1
    BY <1>1
  <2>. QED BY <1>1, <2>1, <2>2, <2>3
<1>5. \A j \in 1..n + 1 : j \in 1..n \/ j = n + 1
  BY <1>1
<1>6. 1..n \subseteq 1..n + 1 /\ n + 1 \in 1..n + 1
  BY <1>1
<1>. HIDE DEF Last
<1>7. CASE ~Feed!Changes(e, k)
  <2>1. {j \in 1..n + 1 : Last(t, n + 1, j)} = {j \in 1..n : Last(s, n, j)}
    BY <1>3, <1>4, <1>5, <1>6, <1>7
  <2>. QED BY <1>1, <1>2, <1>7, <2>1 DEF t
<1>8. CASE Feed!Changes(e, k) /\ e.type = "cache:done"
  <2>1. {j \in 1..n + 1 : Last(t, n + 1, j)} = {n + 1}
    BY <1>3, <1>4, <1>5, <1>6, <1>8
  <2>. QED BY <1>1, <1>2, <1>8, <2>1 DEF t
<1>9. CASE Feed!Changes(e, k) /\ e.type # "cache:done"
  <2>1. {j \in 1..n + 1 : Last(t, n + 1, j)} = {}
    BY <1>3, <1>4, <1>5, <1>9
  <2>. QED BY <1>2, <1>9, <2>1 DEF t
<1>. QED BY <1>7, <1>8, <1>9

\* The table of the latest data holds what is newest in the log.
LatestInv ==
    \A k \in Keys : Feed!Newest(k) = IF latest[k] = 0 THEN {} ELSE {latest[k]}

\* Publishing keeps the table in step with the log.
LEMMA PublishLatest ==
    ASSUME IInv, LatestInv, NEW type \in {"cache:done", "cache:bust", "other"},
           NEW ks \in SUBSET Keys, Publish(type, ks)
    PROVE  LatestInv'
<1> DEFINE e == [seq |-> seq + 1, type |-> type, keys |-> ks]
<1>1. /\ e \in Event /\ e.seq # 0 /\ log \in Seq(Event)
      /\ e.type \in {"cache:done", "cache:bust", "other"}
  BY ConstAssumption DEF IInv, TypeOK, Publish, Event
<1>2. log' = Append(log, e) /\ latest' = Track(latest, e)
  BY DEF Publish
<1>. HIDE DEF e
<1>3. SUFFICES ASSUME NEW k \in Keys
               PROVE  NewestIn(log', k) = IF latest'[k] = 0 THEN {} ELSE {latest'[k]}
  BY DEF LatestInv, NewestIn, Feed!Newest
<1>4. NewestIn(log, k) = IF latest[k] = 0 THEN {} ELSE {latest[k]}
  BY DEF LatestInv, NewestIn, Feed!Newest
<1>5. latest'[k] = IF k \notin e.keys THEN latest[k]
                   ELSE IF e.type = "cache:done" THEN e.seq
                   ELSE IF e.type = "cache:bust" THEN 0 ELSE latest[k]
  BY <1>2 DEF Track
<1>. QED BY <1>1, <1>2, <1>4, <1>5, NewestAppend DEF Feed!Changes

\* Every step keeps the table in step with the log.
LEMMA LatestStep == IInv /\ LatestInv /\ [Next]_vars => LatestInv'
<1> SUFFICES ASSUME IInv, LatestInv, [Next]_vars PROVE LatestInv'
  OBVIOUS
<1>1. CASE UNCHANGED <<log, latest>>
  BY <1>1 DEF LatestInv, Feed!Newest
<1>2. CASE Restart
  <2>1. log' = << >> /\ Len(<< >>) = 0 /\ \A k \in Keys : latest'[k] = 0
    BY <1>2 DEF Restart, Empty
  <2>. QED BY <2>1 DEF LatestInv, Feed!Newest
<1>3. ASSUME NEW k \in Keys, PublishDone(k) PROVE LatestInv'
  BY <1>3, PublishLatest DEF PublishDone
<1>4. ASSUME NEW ks \in (SUBSET Keys) \ {{}}, PublishBust(ks) PROVE LatestInv'
  BY <1>4, PublishLatest DEF PublishBust
<1>5. CASE PublishOther
  BY <1>5, PublishLatest DEF PublishOther
<1>6. ASSUME NEW c \in Clients, Heartbeat(c) PROVE LatestInv'
  BY <1>6, PublishLatest DEF Heartbeat
<1>7. ASSUME NEW c \in Clients,
             \/ Subscribe(c) \/ Disconnect(c) \/ Reload(c) \/ Ready(c)
             \/ Snapshot(c) \/ Deliver(c) \/ TimeOut(c)
      PROVE  UNCHANGED <<log, latest>>
  BY <1>7
  DEF Subscribe, Disconnect, Reload, Ready, Snapshot, Deliver, TimeOut, serverVars
<1>8. UNCHANGED vars => UNCHANGED <<log, latest>>
  BY DEF vars, serverVars
<1>. QED
  BY <1>1, <1>2, <1>3, <1>4, <1>5, <1>6, <1>7, <1>8 DEF Next
\* How a connection stands in the feed, of one client.
LEMMA ConnOf ==
    ASSUME NEW c \in Clients
    PROVE  /\ phase[c] = "off" => FeedConn[c] = "off"
           /\ phase[c] = "subscribed" =>
                 FeedConn[c] = IF needSnapshot[c] THEN "fresh" ELSE "resumed"
           /\ phase[c] = "ready" => FeedConn[c] = "due"
           /\ phase[c] \in {"live", "timeout"} => FeedConn[c] = "live"
           /\ phase[c] \in Phases /\ phase[c] # "off" => FeedConn[c] # "off"
BY DEF FeedConn, Phases

\* A step of one client changes the feed at that client.
LEMMA ConnChange ==
    ASSUME NEW c \in Clients, NEW v,
           FeedConn'[c] = v,
           \A d \in Clients : d # c => /\ phase'[d] = phase[d]
                                       /\ needSnapshot'[d] = needSnapshot[d]
    PROVE  FeedConn' = [FeedConn EXCEPT ![c] = v]
<1>1. \A d \in Clients : d # c => FeedConn'[d] = FeedConn[d]
  BY DEF FeedConn
<1>2. /\ FeedConn = [d \in Clients |-> FeedConn[d]]
      /\ FeedConn' = [d \in Clients |-> FeedConn'[d]]
  BY DEF FeedConn
<1>. HIDE DEF FeedConn
<1>. QED BY <1>1, <1>2

\* So does a step that moves its position or its queue.
LEMMA UptoChange ==
    ASSUME NEW c \in Clients, NEW v,
           pos'[c] + Len(queue'[c]) = v,
           \A d \in Clients : d # c => pos'[d] = pos[d] /\ queue'[d] = queue[d]
    PROVE  FeedUpto' = [FeedUpto EXCEPT ![c] = v]
BY DEF FeedUpto

\* What is published is fed to the subscribers that have room.
LEMMA PublishFeeds ==
    ASSUME IInv, NEW type \in {"cache:done", "cache:bust", "other"},
           NEW ks \in SUBSET Keys, Publish(type, ks),
           FeedConn' = FeedConn, UNCHANGED <<store, seen>>
    PROVE  Feed!Extend(type, ks)
<1> DEFINE e == [seq |-> seq + 1, type |-> type, keys |-> ks]
           fed == {c \in subscribers : HasRoom(queue[c])}
<1>1. /\ seq' = seq + 1 /\ log' = Append(log, e)
      /\ UNCHANGED <<instance, pos>>
      /\ queue' = [c \in Clients |->
                      IF c \in subscribers /\ HasRoom(queue[c])
                      THEN Append(queue[c], e) ELSE queue[c]]
  BY DEF Publish
<1>2. fed \in SUBSET {c \in Clients : FeedConn[c] # "off" /\ FeedUpto[c] = Len(log)}
  <2> SUFFICES ASSUME NEW c \in fed
               PROVE  c \in Clients /\ FeedConn[c] # "off" /\ FeedUpto[c] = Len(log)
    OBVIOUS
  <2>1. c \in Clients /\ c \in subscribers
    BY DEF IInv, TypeOK
  <2>2. phase[c] # "off" /\ phase[c] \in Phases /\ pos[c] + Len(queue[c]) = Len(log)
    BY <2>1 DEF IInv, QueueInv, TypeOK
  <2>. QED BY <2>1, <2>2, ConnOf DEF FeedUpto
<1>3. FeedUpto' = [c \in Clients |-> IF c \in fed THEN Len(log) + 1 ELSE FeedUpto[c]]
  <2>1. ASSUME NEW c \in Clients
        PROVE  pos'[c] + Len(queue'[c])
                  = IF c \in fed THEN Len(log) + 1 ELSE pos[c] + Len(queue[c])
    <3>1. queue[c] \in Seq(Event) /\ pos[c] \in Nat /\ Len(queue[c]) \in Nat
      BY DEF IInv, TypeOK
    <3>2. CASE c \in fed
      <4>1. queue'[c] = Append(queue[c], e) /\ pos'[c] = pos[c]
        BY <1>1, <3>2
      <4>2. Len(queue'[c]) = Len(queue[c]) + 1
        BY <3>1, <4>1
      <4>3. pos[c] + Len(queue[c]) = Len(log)
        BY <3>2 DEF IInv, QueueInv, TypeOK
      <4>. QED BY <3>1, <3>2, <4>1, <4>2, <4>3
    <3>3. CASE c \notin fed
      BY <1>1, <3>3
    <3>. QED BY <3>2, <3>3
  <2>. HIDE DEF fed
  <2>. QED BY <2>1 DEF FeedUpto
<1>. HIDE DEF fed
<1>. QED BY <1>1, <1>2, <1>3 DEF Feed!Extend

\* A subscription continues where the tab left off, or begins at the end.
LEMMA SubscribeFeeds ==
    ASSUME IInv, NEW c \in Clients, Subscribe(c)
    PROVE  Feed!Resume(c) \/ Feed!StartAfresh(c)
<1>1. /\ phase[c] = "off" /\ phase' = [phase EXCEPT ![c] = "subscribed"]
      /\ UNCHANGED <<seq, log, instance, lastSeq, store, seen>>
      /\ lastSeq[c] \in Nat /\ log \in Seq(Event) /\ Len(log) \in Nat
  BY ConstAssumption DEF Subscribe, serverVars, clientVars, IInv, TypeOK
<1>2. FeedConn[c] = "off" /\ phase'[c] = "subscribed"
  BY <1>1, ConnOf DEF IInv, TypeOK
<1>3. CASE CanReplay(lastSeq[c])
  <2> DEFINE l == Behind(log, lastSeq[c])
             m == Missed(buffer, lastSeq[c])
  <2>1. l \in 0..Len(log) /\ m \in Seq(Event) /\ l + Len(m) = Len(log)
    BY <1>3, ReplayLemma
  <2>2. \A i \in 1..Len(log) : log[i].seq <= lastSeq[c] <=> i <= l
    BY <1>1, BufferOrdered, BehindLemma DEF IInv
  <2>3. /\ queue' = [queue EXCEPT ![c] = m]
        /\ pos' = [pos EXCEPT ![c] = l]
        /\ needSnapshot' = [needSnapshot EXCEPT ![c] = FALSE]
    BY <1>3 DEF Subscribe
  <2>. HIDE DEF l, m
  <2>4. FeedUpto' = [FeedUpto EXCEPT ![c] = Len(log)]
    <3>1. pos'[c] = l /\ queue'[c] = m
      BY <2>3 DEF IInv, TypeOK
    <3>. QED BY <2>1, <2>3, <3>1, UptoChange DEF IInv, TypeOK
  <2>5. FeedConn' = [FeedConn EXCEPT ![c] = "resumed"]
    <3>1. ~needSnapshot'[c] /\ FeedConn'[c] = "resumed"
      BY <1>2, <2>3 DEF IInv, TypeOK, FeedConn
    <3>. QED BY <1>1, <2>3, <3>1, ConnChange DEF IInv, TypeOK
  <2>. QED BY <1>1, <1>2, <2>1, <2>2, <2>3, <2>4, <2>5 DEF Feed!Resume
<1>4. CASE ~CanReplay(lastSeq[c])
  <2>1. /\ queue' = [queue EXCEPT ![c] = << >>]
        /\ pos' = [pos EXCEPT ![c] = Len(log)]
        /\ needSnapshot' = [needSnapshot EXCEPT ![c] = TRUE]
    BY <1>4 DEF Subscribe
  <2>2. FeedUpto' = [FeedUpto EXCEPT ![c] = Len(log)]
    <3>1. pos'[c] = Len(log) /\ queue'[c] = << >> /\ Len(<< >>) = 0
      BY <2>1 DEF IInv, TypeOK
    <3>. QED BY <1>1, <2>1, <3>1, UptoChange DEF IInv, TypeOK
  <2>3. FeedConn' = [FeedConn EXCEPT ![c] = "fresh"]
    <3>1. needSnapshot'[c] /\ FeedConn'[c] = "fresh"
      BY <1>2, <2>1 DEF IInv, TypeOK, FeedConn
    <3>. QED BY <1>1, <2>1, <3>1, ConnChange DEF IInv, TypeOK
  <2>. QED BY <1>1, <1>2, <2>1, <2>2, <2>3 DEF Feed!StartAfresh
<1>. QED BY <1>3, <1>4

\* sys:ready is the greeting.
LEMMA ReadyFeeds ==
    ASSUME IInv, NEW c \in Clients, Ready(c)
    PROVE  Feed!Greet(c)
<1>1. /\ phase[c] = "subscribed" /\ UNCHANGED <<log, instance, pos, needSnapshot, queue>>
      /\ phase' = [phase EXCEPT ![c] = IF needSnapshot[c] THEN "ready" ELSE "live"]
  BY DEF Ready
<1>2. FeedUpto' = FeedUpto
  BY <1>1 DEF FeedUpto
<1>3. /\ needSnapshot[c] => phase'[c] = "ready" /\ FeedConn'[c] = "due"
      /\ ~needSnapshot[c] => phase'[c] = "live" /\ FeedConn'[c] = "live"
  BY <1>1 DEF IInv, TypeOK, FeedConn
<1>4. \A d \in Clients : d # c => /\ phase'[d] = phase[d]
                                  /\ needSnapshot'[d] = needSnapshot[d]
  BY <1>1 DEF IInv, TypeOK
<1>5. \/ FeedConn[c] = "fresh" /\ FeedConn' = [FeedConn EXCEPT ![c] = "due"]
      \/ FeedConn[c] = "resumed" /\ FeedConn' = [FeedConn EXCEPT ![c] = "live"]
  BY <1>1, <1>3, <1>4, ConnOf, ConnChange DEF IInv, TypeOK
<1>6. store' = [store EXCEPT ![c] =
                   IF seen[c] \in {0, instance} THEN @ ELSE Feed!Nothing]
  BY DEF Ready, Empty, Feed!Nothing
<1>. QED BY <1>1, <1>2, <1>5, <1>6 DEF Ready, Feed!Greet, Feed!Numbered

\* state:snapshot carries what is newest in the log.
LEMMA SnapshotFeeds ==
    ASSUME IInv, LatestInv, NEW c \in Clients, Snapshot(c)
    PROVE  Feed!TakeSnapshot(c)
<1>1. /\ phase[c] = "ready" /\ phase' = [phase EXCEPT ![c] = "live"]
      /\ UNCHANGED <<log, instance, pos, needSnapshot, queue, seen>>
  BY DEF Snapshot
<1>2. FeedUpto' = FeedUpto
  BY <1>1 DEF FeedUpto
<1>3. phase'[c] = "live" /\ FeedConn[c] = "due" /\ FeedConn'[c] = "live"
  BY <1>1, ConnOf DEF IInv, TypeOK, FeedConn
<1>4. FeedConn' = [FeedConn EXCEPT ![c] = "live"]
  BY <1>1, <1>3, ConnChange DEF IInv, TypeOK
<1>5. ASSUME NEW k \in Keys, NEW old
      PROVE  (IF latest[k] # 0 THEN latest[k] ELSE old)
               = IF Feed!Newest(k) = {} THEN old
                 ELSE CHOOSE n \in Feed!Newest(k) : TRUE
  <2>1. Feed!Newest(k) = IF latest[k] = 0 THEN {} ELSE {latest[k]}
    BY DEF LatestInv
  <2>2. (CHOOSE n \in {latest[k]} : TRUE) = latest[k]
    OBVIOUS
  <2>. QED BY <2>1, <2>2
<1>6. store' = [store EXCEPT ![c] = [k \in Keys |->
                   IF Feed!Newest(k) = {} THEN @[k]
                   ELSE CHOOSE n \in Feed!Newest(k) : TRUE]]
  <2>1. store' = [store EXCEPT ![c] =
                    [k \in Keys |-> IF latest[k] # 0 THEN latest[k] ELSE store[c][k]]]
    BY DEF Snapshot, IInv, TypeOK
  <2>2. [k \in Keys |-> IF latest[k] # 0 THEN latest[k] ELSE store[c][k]]
          = [k \in Keys |-> IF Feed!Newest(k) = {} THEN store[c][k]
                            ELSE CHOOSE n \in Feed!Newest(k) : TRUE]
    BY <1>5
  <2>. QED BY <2>1, <2>2 DEF IInv, TypeOK
<1>. QED BY <1>1, <1>2, <1>3, <1>4, <1>6 DEF Snapshot, Feed!TakeSnapshot, Feed!Numbered
\* An event taken from the queue is the next one of the log.
LEMMA DeliverFeeds ==
    ASSUME IInv, NEW c \in Clients, Deliver(c)
    PROVE  Feed!Read(c)
<1> DEFINE e == log[pos[c] + 1]
<1>1. /\ phase[c] = "live" /\ queue[c] # << >> /\ queue[c] \in Seq(Event)
      /\ queue' = [queue EXCEPT ![c] = Tail(@)]
      /\ pos' = [pos EXCEPT ![c] = @ + 1]
      /\ UNCHANGED <<seq, log, instance, needSnapshot, phase, seen>>
  BY DEF Deliver, serverVars, IInv, TypeOK
<1>2. /\ Len(queue[c]) \in Nat /\ Len(queue[c]) >= 1 /\ pos[c] \in Nat
      /\ Len(Tail(queue[c])) = Len(queue[c]) - 1 /\ Head(queue[c]) = queue[c][1]
  BY <1>1, HeadTailProperties DEF IInv, TypeOK
<1>3. Head(queue[c]) = e
  <2>1. 1 \in 1..Len(queue[c])
    BY <1>2
  <2>. QED BY <1>1, <1>2, <2>1 DEF IInv, QueueInv
<1>. HIDE DEF e
<1>4. FeedConn' = FeedConn /\ FeedConn[c] = "live"
  BY <1>1, ConnOf DEF FeedConn
<1>5. FeedUpto' = FeedUpto
  <2>1. ASSUME NEW d \in Clients
        PROVE  pos'[d] + Len(queue'[d]) = pos[d] + Len(queue[d])
    <3>1. CASE d = c
      <4>1. pos'[d] = pos[c] + 1 /\ queue'[d] = Tail(queue[c])
        BY <1>1, <3>1 DEF IInv, TypeOK
      <4>. QED BY <1>2, <3>1, <4>1
    <3>2. CASE d # c
      BY <1>1, <3>2 DEF IInv, TypeOK
    <3>. QED BY <3>1, <3>2
  <2>. QED BY <2>1 DEF FeedUpto
<1>6. pos[c] < FeedUpto[c]
  BY <1>2 DEF FeedUpto
<1>7. lastSeq' = [lastSeq EXCEPT ![c] = e.seq]
  BY <1>3 DEF Deliver
<1>8. store' = [store EXCEPT ![c] = [k \in Keys |->
                   IF e.type = "cache:done" /\ k \in e.keys THEN e.seq ELSE @[k]]]
  <2>1. store' = [store EXCEPT ![c] =
                    IF e.type = "cache:done" THEN Track(store[c], e) ELSE store[c]]
    BY <1>3 DEF Deliver, IInv, TypeOK
  <2>2. store[c] = [k \in Keys |-> store[c][k]]
    BY DEF IInv, TypeOK
  <2>3. (IF e.type = "cache:done" THEN Track(store[c], e) ELSE store[c])
          = [k \in Keys |->
               IF e.type = "cache:done" /\ k \in e.keys THEN e.seq ELSE store[c][k]]
    <3>1. CASE e.type = "cache:done"
      BY <3>1 DEF Track
    <3>2. CASE e.type # "cache:done"
      BY <2>2, <3>2
    <3>. QED BY <3>1, <3>2
  <2>. QED BY <2>1, <2>3 DEF IInv, TypeOK
<1>. QED BY <1>1, <1>4, <1>5, <1>6, <1>7, <1>8 DEF Feed!Read, e

\* The end of a connection loses what was queued.
LEMMA DisconnectFeeds ==
    ASSUME IInv, NEW c \in Clients, Disconnect(c)
    PROVE  Feed!HangUp(c)
<1>1. /\ phase[c] # "off" /\ phase' = [phase EXCEPT ![c] = "off"]
      /\ queue' = [queue EXCEPT ![c] = << >>]
      /\ UNCHANGED <<seq, log, instance, needSnapshot, pos, lastSeq, store, seen>>
  BY DEF Disconnect, serverVars, clientVars
<1>2. FeedConn[c] # "off" /\ FeedConn'[c] = "off"
  BY <1>1, ConnOf DEF IInv, TypeOK, FeedConn
<1>3. FeedConn' = [FeedConn EXCEPT ![c] = "off"]
  BY <1>1, <1>2, ConnChange DEF IInv, TypeOK
<1>4. FeedUpto' = [FeedUpto EXCEPT ![c] = pos[c]]
  <2>1. queue'[c] = << >> /\ Len(<< >>) = 0 /\ pos[c] \in Nat
    BY <1>1 DEF IInv, TypeOK
  <2>2. pos'[c] + Len(queue'[c]) = pos[c]
    BY <1>1, <2>1
  <2>. QED BY <1>1, <2>2, UptoChange DEF IInv, TypeOK
<1>. QED BY <1>1, <1>2, <1>3, <1>4 DEF Feed!HangUp

\* Every step of bus and clients is a step of the feed, or none.
LEMMA StepFeeds == IInv /\ LatestInv /\ [Next]_vars => [Feed!Next]_Feed!vars
<1> SUFFICES ASSUME IInv, LatestInv, [Next]_vars
             PROVE  Feed!Next \/ UNCHANGED Feed!vars
  OBVIOUS
<1>1. ASSUME NEW type \in {"cache:done", "cache:bust", "other"},
             NEW ks \in SUBSET Keys, Publish(type, ks),
             UNCHANGED <<phase, clientVars>>
      PROVE  Feed!Broadcast
  <2>1. FeedConn' = FeedConn /\ UNCHANGED <<store, seen, lastSeq>>
    BY <1>1 DEF Publish, FeedConn, clientVars
  <2>. QED BY <1>1, <2>1, PublishFeeds DEF Feed!Broadcast
<1>2. ASSUME NEW k \in Keys, PublishDone(k) PROVE Feed!Broadcast
  BY <1>1, <1>2 DEF PublishDone
<1>3. ASSUME NEW ks \in (SUBSET Keys) \ {{}}, PublishBust(ks) PROVE Feed!Broadcast
  BY <1>1, <1>3 DEF PublishBust
<1>4. PublishOther => Feed!Broadcast
  BY <1>1 DEF PublishOther
<1>5. ASSUME NEW c \in Clients, Heartbeat(c) PROVE Feed!Heartbeat(c)
  <2>1. /\ Publish("other", {}) /\ phase[c] = "timeout"
        /\ phase' = [phase EXCEPT ![c] = "live"] /\ needSnapshot' = needSnapshot
        /\ lastSeq' = [lastSeq EXCEPT ![c] = seq + 1]
        /\ UNCHANGED <<store, seen>>
    BY <1>5 DEF Heartbeat, Publish
  <2>2. FeedConn' = FeedConn /\ FeedConn[c] = "live"
    BY <2>1, ConnOf DEF FeedConn, IInv, TypeOK
  <2>. QED BY <2>1, <2>2, PublishFeeds DEF Feed!Heartbeat
<1>6. ASSUME NEW c \in Clients, Reload(c) PROVE Feed!LoadPage(c)
  <2>1. UNCHANGED <<seq, log, instance, FeedConn, pos, FeedUpto>>
    BY <1>6 DEF Reload, serverVars, connVars, FeedConn, FeedUpto
  <2>2. FeedConn[c] = "off"
    BY <1>6, ConnOf DEF Reload
  <2>. QED BY <1>6, <2>1, <2>2 DEF Reload, Feed!LoadPage, Feed!Nothing, Empty
<1>7. ASSUME NEW c \in Clients, TimeOut(c) PROVE UNCHANGED Feed!vars
  <2>1. UNCHANGED <<seq, log, instance, pos, queue, needSnapshot, lastSeq, store, seen>>
    BY <1>7 DEF TimeOut, serverVars, clientVars
  <2>2. UNCHANGED <<FeedConn, FeedUpto>>
    BY <1>7, <2>1 DEF TimeOut, FeedConn, FeedUpto, IInv, TypeOK
  <2>. QED BY <2>1, <2>2 DEF Feed!vars
<1>8. Restart => Feed!StartServer
  <2> SUFFICES ASSUME Restart PROVE Feed!StartServer
    OBVIOUS
  <2>1. /\ FeedConn' = [c \in Clients |-> "off"]
        /\ FeedUpto' = [c \in Clients |-> 0]
    BY DEF Restart, FeedConn, FeedUpto
  <2>. QED BY <2>1 DEF Restart, clientVars, Feed!StartServer
<1>9. UNCHANGED vars => UNCHANGED Feed!vars
  BY DEF vars, serverVars, connVars, clientVars, Feed!vars, FeedConn, FeedUpto
<1>10. ASSUME NEW c \in Clients PROVE Subscribe(c) => Feed!Resume(c) \/ Feed!StartAfresh(c)
  BY SubscribeFeeds
<1>11. ASSUME NEW c \in Clients
       PROVE  /\ Ready(c) => Feed!Greet(c)
              /\ Snapshot(c) => Feed!TakeSnapshot(c)
              /\ Deliver(c) => Feed!Read(c)
              /\ Disconnect(c) => Feed!HangUp(c)
  BY ReadyFeeds, SnapshotFeeds, DeliverFeeds, DisconnectFeeds
<1>. QED
  BY <1>2, <1>3, <1>4, <1>5, <1>6, <1>7, <1>8, <1>9, <1>10, <1>11
  DEF Next, Feed!Next

\* The ring buffer, the queues and the table of the latest data implement one log
\* that every connection reads with a cursor, for any number of clients and keys
\* and any size of buffer and queues.
THEOREM ImplementsOneLog == Spec => ImplementsFeed
<1>1. Init => LatestInv /\ Feed!Init
  <2> SUFFICES ASSUME Init PROVE LatestInv /\ Feed!Init
    OBVIOUS
  <2>1. Len(<< >>) = 0
    OBVIOUS
  <2>2. LatestInv
    BY <2>1 DEF Init, Empty, LatestInv, Feed!Newest
  <2>3. /\ FeedConn = [c \in Clients |-> "off"]
        /\ FeedUpto = [c \in Clients |-> 0]
    BY <2>1 DEF Init, FeedConn, FeedUpto
  <2>. QED BY <2>2, <2>3 DEF Init, Empty, Feed!Init, Feed!Nothing
<1>. QED
  BY <1>1, LatestStep, StepFeeds, Invariance, PTL DEF Spec, ImplementsFeed, Feed!Spec

(***************************************************************************)
(* The registries of the tabs: types                                       *)
(***************************************************************************)

Message == [type : Types, id : Tabs, age : Ages]

\* What a tab sends lands in inboxes, behind what is there.
LEMMA AfterType ==
    ASSUME NEW t \in Tabs, NEW type \in Types, NEW boxes \in [Tabs -> Seq(Message)]
    PROVE  After(t, type, boxes) \in [Tabs -> Seq(Message)]
<1>1. [type |-> type, id |-> t, age |-> 0] \in Message
  BY MeshAssumption DEF Message, Ages
<1>. QED BY <1>1 DEF After

\* The type invariant with its messages named.
LEMMA MeshType == MeshTypeOK <=>
    /\ status \in [Tabs -> {"new", "open", "killed", "gone"}]
    /\ registry \in [Tabs -> [Tabs -> Ages \cup {Never}]]
    /\ inbox \in [Tabs -> Seq(Message)]
BY DEF MeshTypeOK, Message

\* The first message of an inbox, and what is left behind it.
LEMMA HeadRest ==
    ASSUME MeshTypeOK, NEW t \in Tabs, inbox[t] # << >>
    PROVE  /\ Head(inbox[t]) \in Message
           /\ Rest(t) \in [Tabs -> Seq(Message)]
           /\ Rest(t)[t] = Tail(inbox[t])
           /\ \A v \in Tabs : v # t => Rest(t)[v] = inbox[v]
<1>1. inbox[t] \in Seq(Message) /\ inbox \in [Tabs -> Seq(Message)]
  BY MeshType
<1>2. Head(inbox[t]) \in Message /\ Tail(inbox[t]) \in Seq(Message)
  BY <1>1
<1>. QED BY <1>1, <1>2 DEF Rest

\* An entry of the registry is an age.
LEMMA EnterType ==
    ASSUME MeshTypeOK, NEW t \in Tabs, NEW msg \in Message, Enter(t, msg)
    PROVE  registry' \in [Tabs -> [Tabs -> Ages \cup {Never}]]
<1>1. msg.id \in Tabs /\ msg.age \in Ages
  BY DEF Message
<1>. QED BY <1>1, MeshType DEF Enter

\* Time keeps ages within their range, and leaves type and sender of a message
\* and what is in no registry.
LEMMA TickType ==
    ASSUME MeshTypeOK, Tick
    PROVE  /\ MeshTypeOK'
           /\ \A v \in Tabs : Len(inbox'[v]) = Len(inbox[v])
           /\ \A v \in Tabs : \A i \in 1..Len(inbox[v]) :
                 /\ inbox'[v][i].type = inbox[v][i].type
                 /\ inbox'[v][i].id = inbox[v][i].id
           /\ \A v, x \in Tabs : Knows(v, x)' <=> Knows(v, x)
<1> DEFINE Older(a) == IF a \in 0..(Old - 1) THEN a + 1 ELSE a
           Aged(msg) == IF msg.type \in {"leave", "kill"} THEN msg
                        ELSE [msg EXCEPT !.age = Older(@)]
<1>1. /\ registry' = [t \in Tabs |-> [x \in Tabs |-> Older(registry[t][x])]]
      /\ inbox' = [t \in Tabs |-> [i \in DOMAIN inbox[t] |-> Aged(inbox[t][i])]]
      /\ status' = status
  BY DEF Tick
<1>2. /\ \A a \in Ages : Older(a) \in Ages /\ Older(a) # Never
      /\ Older(Never) = Never
  BY MeshAssumption DEF Ages, Never
<1>3. ASSUME NEW msg \in Message
      PROVE  Aged(msg) \in Message /\ Aged(msg).type = msg.type /\ Aged(msg).id = msg.id
  <2>1. msg.age \in Ages /\ msg.type \in Types /\ msg.id \in Tabs
    BY DEF Message
  <2>2. Older(msg.age) \in Ages
    BY <1>2, <2>1
  <2>. HIDE DEF Older
  <2>. QED BY <2>1, <2>2 DEF Message
<1>. HIDE DEF Older, Aged
<1>4. registry' \in [Tabs -> [Tabs -> Ages \cup {Never}]]
  BY <1>1, <1>2, MeshType
<1>5. ASSUME NEW v \in Tabs
      PROVE  /\ inbox'[v] \in Seq(Message) /\ Len(inbox'[v]) = Len(inbox[v])
             /\ \A i \in 1..Len(inbox[v]) : inbox'[v][i] = Aged(inbox[v][i])
  <2>1. inbox[v] \in Seq(Message) /\ DOMAIN inbox[v] = 1..Len(inbox[v])
        /\ Len(inbox[v]) \in Nat
    BY MeshType
  <2>2. inbox'[v] = [i \in 1..Len(inbox[v]) |-> Aged(inbox[v][i])]
    BY <1>1, <2>1
  <2>3. inbox'[v] \in [1..Len(inbox[v]) -> Message]
    BY <1>3, <2>1, <2>2
  <2>4. inbox'[v] \in Seq(Message)
    BY <2>1, <2>3, SeqDef
  <2>5. Len(inbox'[v]) = Len(inbox[v])
    BY <2>1, <2>2
  <2>. QED BY <2>1, <2>2, <2>4, <2>5
<1>6. inbox' \in [Tabs -> Seq(Message)]
  <2>1. inbox' = [v \in Tabs |-> inbox'[v]]
    BY <1>1
  <2>. QED BY <1>5, <2>1
<1>7. MeshTypeOK'
  BY <1>1, <1>4, <1>6 DEF MeshTypeOK, Message
<1>8. ASSUME NEW v \in Tabs, NEW i \in 1..Len(inbox[v])
      PROVE  inbox'[v][i].type = inbox[v][i].type /\ inbox'[v][i].id = inbox[v][i].id
  <2>1. inbox[v][i] \in Message
    BY MeshType
  <2>. QED BY <1>3, <1>5, <2>1
<1>9. ASSUME NEW v \in Tabs, NEW x \in Tabs PROVE Knows(v, x)' <=> Knows(v, x)
  <2>1. registry'[v][x] = Older(registry[v][x]) /\ registry[v][x] \in Ages \cup {Never}
    BY <1>1, MeshType
  <2>. QED BY <1>2, <2>1, MeshAssumption DEF Knows, Ages, Never
<1>. QED BY <1>5, <1>7, <1>8, <1>9

\* Every step of the tabs keeps the types.
LEMMA MeshTypeStep == MeshTypeOK /\ [MeshNext]_meshVars => MeshTypeOK'
<1> SUFFICES ASSUME MeshTypeOK, [MeshNext]_meshVars PROVE MeshTypeOK'
  OBVIOUS
<1>. USE DEF MeshTypeOK
<1>a. inbox \in [Tabs -> Seq(Message)] /\ << >> \in Seq(Message)
  <2>1. inbox \in [Tabs -> Seq(Message)]
    BY MeshType, Zenon
  <2>. QED BY <2>1
<1>b. ASSUME status' \in [Tabs -> {"new", "open", "killed", "gone"}],
             registry' \in [Tabs -> [Tabs -> Ages \cup {Never}]],
             inbox' \in [Tabs -> Seq(Message)]
      PROVE  MeshTypeOK'
  BY <1>b DEF Message
<1>c. ASSUME NEW t \in Tabs, NEW type \in Types, Broadcast(t, type)
      PROVE  inbox' \in [Tabs -> Seq(Message)]
  BY <1>a, <1>c, AfterType DEF Broadcast
<1>1. ASSUME NEW t \in Tabs, Open(t) PROVE MeshTypeOK'
  BY <1>1, <1>b, <1>c DEF Open, Types
<1>2. ASSUME NEW t \in Tabs, SendPing(t) PROVE MeshTypeOK'
  <2>1. inbox' \in [Tabs -> Seq(Message)]
    BY <1>2, <1>c DEF SendPing, Types
  <2>2. Pruned(t) \in [Tabs -> Ages \cup {Never}]
    BY DEF Pruned
  <2>. QED BY <1>2, <1>b, <2>1, <2>2 DEF SendPing
<1>3. ASSUME NEW t \in Tabs, SendState(t) \/ BeforeUnload(t) PROVE MeshTypeOK'
  BY <1>3, <1>b, <1>c DEF SendState, BeforeUnload, Types
<1>4. ASSUME NEW t \in Tabs, Gone(t) PROVE MeshTypeOK'
  BY <1>4, <1>a, <1>b DEF Gone
<1>5. ASSUME NEW t \in Tabs, NEW x \in Tabs, Kill(t, x) PROVE MeshTypeOK'
  <2>1. [type |-> "kill", id |-> t, age |-> 0] \in Message
    BY MeshAssumption DEF Message, Types, Ages
  <2>2. inbox' \in [Tabs -> Seq(Message)]
    BY <1>5, <1>a, <2>1 DEF Kill
  <2>. QED BY <1>5, <1>b, <2>2 DEF Kill
<1>6. ASSUME NEW t \in Tabs, HandleJoin(t) PROVE MeshTypeOK'
  <2>1. Rest(t) \in [Tabs -> Seq(Message)] /\ Head(inbox[t]) \in Message
    BY <1>6, HeadRest DEF HandleJoin, Takes
  <2>2. inbox' \in [Tabs -> Seq(Message)]
    BY <1>6, <2>1, AfterType DEF HandleJoin, Types
  <2>3. registry' \in [Tabs -> [Tabs -> Ages \cup {Never}]]
    BY <1>6, <2>1, EnterType DEF HandleJoin
  <2>. QED BY <1>6, <1>b, <2>2, <2>3 DEF HandleJoin
<1>7. ASSUME NEW t \in Tabs, HandlePresence(t) PROVE MeshTypeOK'
  <2>1. Rest(t) \in [Tabs -> Seq(Message)] /\ Head(inbox[t]) \in Message
    BY <1>7, HeadRest DEF HandlePresence, Takes
  <2>2. registry' \in [Tabs -> [Tabs -> Ages \cup {Never}]]
    BY <1>7, <2>1, EnterType DEF HandlePresence
  <2>. QED BY <1>7, <1>b, <2>1, <2>2 DEF HandlePresence
<1>8. ASSUME NEW t \in Tabs, HandleLeave(t) PROVE MeshTypeOK'
  <2>1. Rest(t) \in [Tabs -> Seq(Message)]
    BY <1>8, HeadRest DEF HandleLeave, Takes
  <2>. QED BY <1>8, <1>b, <2>1 DEF HandleLeave
<1>9. ASSUME NEW t \in Tabs, HandleKill(t) PROVE MeshTypeOK'
  <2>1. Rest(t) \in [Tabs -> Seq(Message)]
    BY <1>9, HeadRest DEF HandleKill, Takes
  <2>2. After(t, "leave", Rest(t)) \in [Tabs -> Seq(Message)]
    BY <2>1, AfterType DEF Types
  <2>3. inbox' \in [Tabs -> Seq(Message)]
    BY <1>9, <1>a, <2>2 DEF HandleKill
  <2>4. CASE UNCHANGED <<status, registry>>
    BY <1>b, <2>3, <2>4
  <2>5. CASE /\ status' = [status EXCEPT ![t] = IF Full(t) THEN "killed" ELSE "gone"]
             /\ registry' = [registry EXCEPT ![t] = [x \in Tabs |-> Never]]
    BY <1>b, <2>3, <2>5
  <2>. QED BY <1>9, <2>4, <2>5 DEF HandleKill
<1>10. CASE Tick
  BY <1>10, TickType
<1>11. CASE UNCHANGED meshVars
  BY <1>11 DEF meshVars
<1>. QED
  BY <1>1, <1>2, <1>3, <1>4, <1>5, <1>6, <1>7, <1>8, <1>9, <1>10, <1>11
  DEF MeshNext, Handle

\* Messages, registries and stages of life of the tabs are well typed, for any
\* number of tabs.
THEOREM MeshTypeCorrect == MeshSpec => []MeshTypeOK
<1>1. MeshInit => MeshTypeOK
  BY DEF MeshInit, MeshTypeOK
<1>. QED BY <1>1, MeshTypeStep, PTL DEF MeshSpec
(***************************************************************************)
(* A killed tab stays out                                                  *)
(***************************************************************************)

About(q, x) == \E i \in 1..Len(q) : q[i].id = x

\* The last message of x in q is its goodbye.
Parted(q, x) ==
    \E i \in 1..Len(q) :
        /\ q[i].type = "leave" /\ q[i].id = x
        /\ \A j \in 1..Len(q) : j > i => q[j].id # x

\* A full tab that knows a killed tab, or has any message of it to come, has the
\* goodbye to come and no message behind it.
OutFor(v, x) ==
    /\ status[x] = "killed" /\ Full(v) /\ Running(v)
    /\ Knows(v, x) \/ About(inbox[v], x)
    => Parted(inbox[v], x)

OutInv == \A v, x \in Tabs : OutFor(v, x)

\* A tab that is not open yet has heard nothing.
NewIsBlank ==
    \A t \in Tabs : status[t] = "new" =>
        inbox[t] = << >> /\ \A x \in Tabs : ~Knows(t, x)

MeshInv == MeshTypeOK /\ OutInv /\ NewIsBlank

\* A message of somebody else, behind all others, changes nothing for x.
LEMMA AppendOther ==
    ASSUME NEW q \in Seq(Message), NEW m \in Message, NEW x, m.id # x
    PROVE  /\ About(Append(q, m), x) => About(q, x)
           /\ Parted(q, x) => Parted(Append(q, m), x)
<1> DEFINE t == Append(q, m)
           n == Len(q)
<1>1. /\ n \in Nat /\ Len(t) = n + 1 /\ t[n + 1] = m
      /\ \A i \in 1..n : t[i] = q[i]
  OBVIOUS
<1>. HIDE DEF t
<1>2. \A i \in 1..n + 1 : i \in 1..n \/ i = n + 1
  BY <1>1
<1>3. About(t, x) => About(q, x)
  BY <1>1, <1>2 DEF About
<1>4. Parted(q, x) => Parted(t, x)
  <2> SUFFICES ASSUME NEW i \in 1..n, q[i].type = "leave", q[i].id = x,
                      \A j \in 1..n : j > i => q[j].id # x
               PROVE  Parted(t, x)
    BY DEF Parted
  <2>1. i \in 1..n + 1 /\ t[i] = q[i]
    BY <1>1
  <2>2. \A j \in 1..n + 1 : j > i => t[j].id # x
    BY <1>1, <1>2
  <2>. QED BY <1>1, <2>1, <2>2 DEF Parted
<1>. QED BY <1>3, <1>4 DEF t

\* A goodbye behind all other messages is the last of its tab.
LEMMA AppendLeave ==
    ASSUME NEW q \in Seq(Message), NEW m \in Message, m.type = "leave"
    PROVE  Parted(Append(q, m), m.id)
<1> DEFINE t == Append(q, m)
<1>1. Len(q) \in Nat /\ Len(t) = Len(q) + 1 /\ t[Len(q) + 1] = m
  OBVIOUS
<1>. HIDE DEF t
<1>2. Len(q) + 1 \in 1..Len(t) /\ \A j \in 1..Len(t) : ~(j > Len(q) + 1)
  BY <1>1
<1>3. Parted(t, m.id)
  BY <1>1, <1>2 DEF Parted
<1>. QED BY <1>3 DEF t

\* Handling a message brings nothing new of x, and takes its goodbye away only
\* when nothing of x is left behind it.
LEMMA TailOut ==
    ASSUME NEW q \in Seq(Message), q # << >>, NEW x
    PROVE  /\ About(Tail(q), x) => About(q, x)
           /\ Head(q).id = x => About(q, x)
           /\ Parted(q, x) => \/ Parted(Tail(q), x)
                              \/ /\ Head(q).type = "leave" /\ Head(q).id = x
                                 /\ ~About(Tail(q), x)
<1> DEFINE t == Tail(q)
           n == Len(t)
<1>1. /\ n \in Nat /\ Len(q) = n + 1 /\ Head(q) = q[1]
      /\ \A i \in 1..n : t[i] = q[i + 1]
  BY HeadTailProperties
<1>. HIDE DEF t
<1>2. /\ 1 \in 1..n + 1
      /\ \A i \in 1..n : i + 1 \in 1..n + 1
      /\ \A i \in 1..n + 1 : i = 1 \/ (i - 1 \in 1..n /\ (i - 1) + 1 = i)
  BY <1>1
<1>3. About(t, x) => About(q, x)
  BY <1>1, <1>2 DEF About
<1>4. Head(q).id = x => About(q, x)
  BY <1>1, <1>2 DEF About
<1>5. ASSUME Parted(q, x)
      PROVE  \/ Parted(t, x)
             \/ Head(q).type = "leave" /\ Head(q).id = x /\ ~About(t, x)
  <2> PICK i \in 1..n + 1 :
        /\ q[i].type = "leave" /\ q[i].id = x
        /\ \A j \in 1..n + 1 : j > i => q[j].id # x
    BY <1>1, <1>5 DEF Parted
  <2>1. CASE i = 1
    <3>1. \A j \in 1..n : t[j].id # x
      <4> SUFFICES ASSUME NEW j \in 1..n PROVE t[j].id # x
        OBVIOUS
      <4>1. j + 1 > 1 /\ j + 1 \in 1..n + 1 /\ t[j] = q[j + 1]
        BY <1>1
      <4>. QED BY <2>1, <4>1
    <3>. QED BY <1>1, <2>1, <3>1 DEF About
  <2>2. CASE i # 1
    <3>1. i - 1 \in 1..n /\ t[i - 1] = q[i]
      BY <1>1, <1>2, <2>2
    <3>2. ASSUME NEW j \in 1..n, j > i - 1 PROVE t[j].id # x
      <4>1. j + 1 > i /\ j + 1 \in 1..n + 1 /\ t[j] = q[j + 1]
        BY <1>1, <3>2
      <4>. QED BY <4>1
    <3>3. Parted(t, x)
      BY <3>1, <3>2 DEF Parted
    <3>. QED BY <3>3
  <2>. QED BY <2>1, <2>2
<1>. QED BY <1>3, <1>4, <1>5 DEF t

\* A message of a tab that is open changes nothing for a killed one.
LEMMA SentOut ==
    ASSUME MeshTypeOK, NEW v \in Tabs, NEW x \in Tabs, OutFor(v, x),
           Running(v), status[x] = "killed", NEW m \in Message, m.id # x,
           inbox'[v] \in {inbox[v], Append(inbox[v], m)},
           Knows(v, x)' => Knows(v, x)
    PROVE  OutFor(v, x)'
<1>1. inbox[v] \in Seq(Message)
  BY MeshType
<1>2. About(inbox'[v], x) => About(inbox[v], x)
  BY <1>1, AppendOther
<1>3. Parted(inbox[v], x) => Parted(inbox'[v], x)
  BY <1>1, AppendOther
<1>. QED BY <1>2, <1>3 DEF OutFor
\* Handling a message keeps a killed tab out, if only the sender of the message is
\* entered, and not by a goodbye.
LEMMA HandledOut ==
    ASSUME MeshTypeOK, NEW v \in Tabs, NEW x \in Tabs, OutFor(v, x),
           Running(v), status[x] = "killed", inbox[v] # << >>,
           inbox'[v] = Tail(inbox[v]),
           Knows(v, x)' => Knows(v, x) \/ Head(inbox[v]).id = x,
           Head(inbox[v]).type = "leave" /\ Head(inbox[v]).id = x => ~Knows(v, x)'
    PROVE  OutFor(v, x)'
<1>1. inbox[v] \in Seq(Message)
  BY MeshType
<1>2. /\ About(inbox'[v], x) => About(inbox[v], x)
      /\ Head(inbox[v]).id = x => About(inbox[v], x)
      /\ Parted(inbox[v], x) => \/ Parted(inbox'[v], x)
                                \/ /\ Head(inbox[v]).type = "leave"
                                   /\ Head(inbox[v]).id = x
                                   /\ ~About(inbox'[v], x)
  BY <1>1, TailOut
<1>. QED BY <1>2 DEF OutFor

\* Sending keeps killed tabs out: a killed tab sends nothing.
LEMMA SendStep ==
    ASSUME MeshInv, NEW t \in Tabs, NEW type \in Types, Running(t),
           Broadcast(t, type), status' = status,
           \A v, x \in Tabs : Knows(v, x)' => Knows(v, x)
    PROVE  OutInv' /\ NewIsBlank'
<1> DEFINE m == [type |-> type, id |-> t, age |-> 0]
<1>1. m \in Message /\ m.id = t
  BY MeshAssumption DEF Message, Ages
<1>2. \A v \in Tabs : inbox'[v] = IF v = t \/ ~Hears(v, type) THEN inbox[v]
                                  ELSE Append(inbox[v], m)
  BY DEF Broadcast, After
<1>. HIDE DEF m
<1>3. ASSUME NEW v \in Tabs, NEW x \in Tabs PROVE OutFor(v, x)'
  <2>1. CASE Running(v) /\ status[x] = "killed"
    <3>1. x # t
      BY <2>1 DEF Running
    <3>. QED BY <1>1, <1>2, <2>1, <3>1, SentOut DEF MeshInv, OutInv
  <2>2. CASE ~(Running(v) /\ status[x] = "killed")
    BY <2>2 DEF OutFor, Running
  <2>. QED BY <2>1, <2>2
<1>4. NewIsBlank'
  BY <1>2 DEF NewIsBlank, MeshInv, Hears, Running
<1>. QED BY <1>3, <1>4 DEF OutInv

\* A tab that opens has heard nothing of anybody.
LEMMA OpenStep ==
    ASSUME MeshInv, NEW t \in Tabs, Open(t)
    PROVE  OutInv' /\ NewIsBlank'
<1> DEFINE m == [type |-> "join", id |-> t, age |-> 0]
<1>1. m \in Message /\ m.id = t
  BY MeshAssumption DEF Message, Types, Ages
<1>2. /\ \A v \in Tabs : inbox'[v] = IF v = t \/ ~Hears(v, "join") THEN inbox[v]
                                     ELSE Append(inbox[v], m)
      /\ status[t] = "new" /\ registry' = registry
      /\ status'[t] = "open" /\ \A v \in Tabs : v # t => status'[v] = status[v]
  BY DEF Open, Broadcast, After, MeshInv, MeshTypeOK
<1>. HIDE DEF m
<1>3. ASSUME NEW v \in Tabs, NEW x \in Tabs PROVE OutFor(v, x)'
  <2>1. CASE v = t
    <3>1. inbox'[t] = << >> /\ ~Knows(t, x)' /\ Len(<< >>) = 0
      BY <1>2 DEF MeshInv, NewIsBlank, Knows
    <3>. QED BY <2>1, <3>1 DEF OutFor, About
  <2>2. CASE v # t /\ Running(v) /\ status[x] = "killed"
    <3>1. x # t /\ (Knows(v, x)' => Knows(v, x))
      BY <1>2, <2>2 DEF Knows
    <3>. QED BY <1>1, <1>2, <2>2, <3>1, SentOut DEF MeshInv, OutInv
  <2>3. CASE v # t /\ ~(Running(v) /\ status[x] = "killed")
    BY <1>2, <2>3 DEF OutFor, Running
  <2>. QED BY <2>1, <2>2, <2>3
<1>4. NewIsBlank'
  BY <1>2 DEF NewIsBlank, MeshInv, Hears, Running, Knows
<1>. QED BY <1>3, <1>4 DEF OutInv

\* A tab that goes hears of nobody, and the others hear nothing.
LEMMA GoneStep ==
    ASSUME MeshInv, NEW t \in Tabs, Gone(t)
    PROVE  OutInv' /\ NewIsBlank'
<1>1. /\ status'[t] = "gone"
      /\ \A v \in Tabs : v # t => /\ status'[v] = status[v]
                                  /\ inbox'[v] = inbox[v]
                                  /\ registry'[v] = registry[v]
  BY DEF Gone, MeshInv, MeshTypeOK
<1>. QED
  BY <1>1 DEF MeshInv, OutInv, OutFor, NewIsBlank, Running, Knows

\* A tab is told to end by one that is open.
LEMMA KillStep ==
    ASSUME MeshInv, NEW t \in Tabs, NEW y \in Tabs, Kill(t, y)
    PROVE  OutInv' /\ NewIsBlank'
<1> DEFINE m == [type |-> "kill", id |-> t, age |-> 0]
<1>1. m \in Message /\ m.id = t
  BY MeshAssumption DEF Message, Types, Ages
<1>2. /\ Running(t) /\ status' = status
      /\ \A v \in Tabs : inbox'[v] = IF v = y /\ Running(y) THEN Append(inbox[v], m)
                                     ELSE inbox[v]
      /\ \A v, x \in Tabs : Knows(v, x)' => Knows(v, x)
  BY DEF Kill, MeshInv, MeshTypeOK, Knows
<1>. HIDE DEF m
<1>3. ASSUME NEW v \in Tabs, NEW x \in Tabs PROVE OutFor(v, x)'
  <2>1. CASE Running(v) /\ status[x] = "killed"
    <3>1. x # t
      BY <1>2, <2>1 DEF Running
    <3>. QED BY <1>1, <1>2, <2>1, <3>1, SentOut DEF MeshInv, OutInv
  <2>2. CASE ~(Running(v) /\ status[x] = "killed")
    BY <1>2, <2>2 DEF OutFor, Running
  <2>. QED BY <2>1, <2>2
<1>4. NewIsBlank'
  BY <1>2 DEF NewIsBlank, MeshInv, Running
<1>. QED BY <1>3, <1>4 DEF OutInv

\* A tab handles a message other than kill, and answers a join.
LEMMA HandleStep ==
    ASSUME MeshInv, NEW t \in Tabs,
           HandleJoin(t) \/ HandlePresence(t) \/ HandleLeave(t)
    PROVE  OutInv' /\ NewIsBlank'
<1> DEFINE m == [type |-> "roster", id |-> t, age |-> 0]
           h == Head(inbox[t])
<1>1. m \in Message /\ m.id = t
  BY MeshAssumption DEF Message, Types, Ages
<1>2. Running(t) /\ inbox[t] # << >> /\ status' = status
  BY DEF HandleJoin, HandlePresence, HandleLeave, Takes
<1>3. PICK y \in Tabs : y = h.id
  BY <1>2, HeadRest DEF MeshInv, Message
<1>4. /\ inbox'[t] = Tail(inbox[t])
      /\ \A v \in Tabs : v # t => inbox'[v] \in {inbox[v], Append(inbox[v], m)}
      /\ \A v \in Tabs : ~Running(v) => inbox'[v] = inbox[v]
  <2>1. /\ Rest(t)[t] = Tail(inbox[t])
        /\ \A v \in Tabs : v # t => Rest(t)[v] = inbox[v]
    BY <1>2, HeadRest DEF MeshInv
  <2>2. CASE inbox' = Rest(t)
    BY <1>2, <2>1, <2>2
  <2>3. CASE inbox' = After(t, "roster", Rest(t))
    BY <1>2, <2>1, <2>3 DEF After, Hears
  <2>. QED BY <2>2, <2>3 DEF HandleJoin, HandlePresence, HandleLeave
<1>5. \A v, x \in Tabs : v # t \/ x # y => (Knows(v, x)' => Knows(v, x))
  <2>1. \A n : registry' = [registry EXCEPT ![t][y] = n] =>
               \A v, x \in Tabs : v # t \/ x # y => registry'[v][x] = registry[v][x]
    BY DEF MeshInv, MeshTypeOK
  <2>2. registry' = registry \/ \E n : registry' = [registry EXCEPT ![t][y] = n]
    BY <1>3 DEF HandleJoin, HandlePresence, HandleLeave, Enter
  <2>. QED BY <2>1, <2>2 DEF Knows
<1>6. h.type = "leave" => ~Knows(t, y)'
  <2> SUFFICES ASSUME h.type = "leave" PROVE ~Knows(t, y)'
    OBVIOUS
  <2>1. HandleLeave(t)
    BY DEF HandleJoin, HandlePresence, Takes
  <2>2. registry'[t][y] = Never
    BY <1>3, <2>1 DEF HandleLeave, MeshInv, MeshTypeOK
  <2>. QED BY <2>2 DEF Knows
<1>. HIDE DEF m
<1>7. ASSUME NEW v \in Tabs, NEW x \in Tabs PROVE OutFor(v, x)'
  <2>1. CASE ~(Running(v) /\ status[x] = "killed")
    BY <1>2, <2>1 DEF OutFor, Running
  <2>2. CASE Running(v) /\ status[x] = "killed" /\ v # t
    <3>1. x # t
      BY <1>2, <2>2 DEF Running
    <3>. QED BY <1>1, <1>4, <1>5, <2>2, <3>1, SentOut DEF MeshInv, OutInv
  <2>3. CASE Running(v) /\ status[x] = "killed" /\ v = t
    <3>1. Knows(v, x)' => Knows(v, x) \/ Head(inbox[v]).id = x
      BY <1>3, <1>5, <2>3
    <3>2. Head(inbox[v]).type = "leave" /\ Head(inbox[v]).id = x => ~Knows(v, x)'
      BY <1>3, <1>6, <2>3
    <3>. QED BY <1>2, <1>4, <2>3, <3>1, <3>2, HandledOut DEF MeshInv, OutInv
  <2>. QED BY <2>1, <2>2, <2>3
<1>8. NewIsBlank'
  BY <1>2, <1>4, <1>5 DEF NewIsBlank, MeshInv, Running
<1>. QED BY <1>7, <1>8 DEF OutInv

\* The killed tab says goodbye to every full tab that is open.
LEMMA HandleKillStep ==
    ASSUME MeshInv, NEW t \in Tabs, HandleKill(t)
    PROVE  OutInv' /\ NewIsBlank'
<1> DEFINE m == [type |-> "leave", id |-> t, age |-> 0]
<1>1. m \in Message /\ m.id = t /\ m.type = "leave"
  BY MeshAssumption DEF Message, Types, Ages
<1>2. /\ Running(t) /\ inbox[t] # << >>
      /\ \A v \in Tabs : v # t => status'[v] = status[v]
      /\ Full(t) => status'[t] = "killed"
      /\ status'[t] \in {"open", "killed", "gone"}
      /\ status'[t] = "killed" => Full(t)
  BY DEF HandleKill, Takes, MeshInv, MeshTypeOK, Running
<1>3. \A v \in Tabs : v # t =>
        inbox'[v] = IF Hears(v, "leave") THEN Append(inbox[v], m) ELSE inbox[v]
  <2>1. \A v \in Tabs : v # t => Rest(t)[v] = inbox[v]
    BY <1>2, HeadRest DEF MeshInv
  <2>2. \A v \in Tabs : v # t =>
          After(t, "leave", Rest(t))[v]
            = IF Hears(v, "leave") THEN Append(inbox[v], m) ELSE inbox[v]
    BY <2>1 DEF After
  <2>3. After(t, "leave", Rest(t)) \in [Tabs -> Seq(Message)]
    BY <1>2, HeadRest, AfterType DEF MeshInv, Types
  <2>4. \A v \in Tabs : v # t => inbox'[v] = After(t, "leave", Rest(t))[v]
    BY <2>3 DEF HandleKill
  <2>. QED BY <2>2, <2>4
<1>4. \A v, x \in Tabs : Knows(v, x)' => Knows(v, x)
  <2>1. CASE registry' = registry
    BY <2>1 DEF Knows
  <2>2. CASE registry' = [registry EXCEPT ![t] = [x \in Tabs |-> Never]]
    BY <2>2 DEF Knows, MeshInv, MeshTypeOK
  <2>. QED BY <2>1, <2>2 DEF HandleKill
<1>. HIDE DEF m
<1>5. ASSUME NEW v \in Tabs, NEW x \in Tabs PROVE OutFor(v, x)'
  <2>1. CASE v = t
    BY <1>2, <2>1 DEF OutFor, Running
  <2>2. CASE v # t /\ Running(v) /\ x = t
    <3>1. CASE Full(v)
      <4>1. inbox'[v] = Append(inbox[v], m) /\ inbox[v] \in Seq(Message)
        BY <1>3, <2>2, <3>1, MeshType DEF Hears, MeshInv
      <4>2. Parted(inbox'[v], x)
        BY <1>1, <2>2, <4>1, AppendLeave
      <4>. QED BY <4>2 DEF OutFor
    <3>2. CASE ~Full(v)
      BY <3>2 DEF OutFor
    <3>. QED BY <3>1, <3>2
  <2>3. CASE v # t /\ Running(v) /\ x # t /\ status[x] = "killed"
    BY <1>1, <1>3, <1>4, <2>3, SentOut DEF MeshInv, OutInv
  <2>4. CASE v # t /\ ~(Running(v) /\ (x = t \/ status[x] = "killed"))
    BY <1>2, <2>4 DEF OutFor, Running
  <2>. QED BY <2>1, <2>2, <2>3, <2>4
<1>6. NewIsBlank'
  <2>1. ASSUME NEW v \in Tabs, status'[v] = "new"
        PROVE  v # t /\ status[v] = "new" /\ inbox'[v] = inbox[v]
    BY <1>2, <1>3, <2>1 DEF Hears, Running
  <2>. QED BY <1>4, <2>1 DEF NewIsBlank, MeshInv
<1>. QED BY <1>5, <1>6 DEF OutInv

\* Time changes neither who is known nor who said what.
LEMMA TickStep == ASSUME MeshInv, Tick PROVE OutInv' /\ NewIsBlank'
<1>1. /\ \A v \in Tabs : Len(inbox'[v]) = Len(inbox[v])
      /\ \A v \in Tabs : \A i \in 1..Len(inbox[v]) :
            /\ inbox'[v][i].type = inbox[v][i].type
            /\ inbox'[v][i].id = inbox[v][i].id
      /\ \A v, x \in Tabs : Knows(v, x)' <=> Knows(v, x)
      /\ status' = status /\ MeshTypeOK'
  BY TickType DEF MeshInv, Tick
<1>2. ASSUME NEW v \in Tabs, NEW x \in Tabs
      PROVE  /\ About(inbox'[v], x) <=> About(inbox[v], x)
             /\ Parted(inbox[v], x) => Parted(inbox'[v], x)
  BY <1>1 DEF About, Parted
<1>3. OutInv'
  BY <1>1, <1>2 DEF MeshInv, OutInv, OutFor, Running
<1>4. \A v \in Tabs : inbox[v] = << >> => inbox'[v] = << >>
  <2>1. \A v \in Tabs : inbox'[v] \in Seq([type : Types, id : Tabs, age : Ages])
    BY <1>1 DEF MeshTypeOK
  <2>. QED BY <1>1, <2>1, EmptySeq
<1>5. NewIsBlank'
  BY <1>1, <1>4 DEF MeshInv, NewIsBlank
<1>. QED BY <1>3, <1>5

\* Every step of the tabs keeps the invariant.
LEMMA MeshInvStep == MeshInv /\ [MeshNext]_meshVars => MeshInv'
<1> SUFFICES ASSUME MeshInv, [MeshNext]_meshVars PROVE OutInv' /\ NewIsBlank'
  BY MeshTypeStep DEF MeshInv
<1>1. ASSUME NEW t \in Tabs, SendPing(t) PROVE OutInv' /\ NewIsBlank'
  <2>1. \A v, x \in Tabs : Knows(v, x)' => Knows(v, x)
    BY <1>1 DEF SendPing, Pruned, Knows, MeshInv, MeshTypeOK
  <2>. QED BY <1>1, <2>1, SendStep DEF SendPing, Types
<1>2. ASSUME NEW t \in Tabs, SendState(t) \/ BeforeUnload(t)
      PROVE  OutInv' /\ NewIsBlank'
  <2>1. \A v, x \in Tabs : Knows(v, x)' => Knows(v, x)
    BY <1>2 DEF SendState, BeforeUnload, Knows
  <2>. QED BY <1>2, <2>1, SendStep DEF SendState, BeforeUnload, Types
<1>3. CASE UNCHANGED meshVars
  BY <1>3 DEF meshVars, MeshInv, OutInv, OutFor, NewIsBlank, Running, Knows
<1>. QED
  BY <1>1, <1>2, <1>3, OpenStep, GoneStep, KillStep, HandleStep, HandleKillStep,
     TickStep DEF MeshNext, Handle

\* A killed tab stays out of every full registry, but for one that is about to
\* hear its goodbye: for any number of tabs, any delay and any order in which
\* tabs handle their messages.
THEOREM KilledStaysOut == MeshSpec => []KilledIsOut
<1>1. MeshInit => MeshInv
  <2> SUFFICES ASSUME MeshInit PROVE MeshTypeOK /\ OutInv /\ NewIsBlank
    BY DEF MeshInv
  <2>1. MeshTypeOK
    BY DEF MeshInit, MeshTypeOK
  <2>. QED BY <2>1 DEF MeshInit, OutInv, OutFor, NewIsBlank, Running, Knows
<1>2. MeshInv => KilledIsOut
  <2> SUFFICES ASSUME MeshInv, NEW v \in Tabs, NEW x \in Tabs, status[x] = "killed",
                      Full(v), Running(v), Knows(v, x)
               PROVE  \E i \in DOMAIN inbox[v] :
                          inbox[v][i].type = "leave" /\ inbox[v][i].id = x
    BY DEF KilledIsOut
  <2>1. Parted(inbox[v], x)
    BY DEF MeshInv, OutInv, OutFor
  <2>2. DOMAIN inbox[v] = 1..Len(inbox[v])
    BY MeshType DEF MeshInv
  <2>. QED BY <2>1, <2>2 DEF Parted
<1>. QED BY <1>1, <1>2, MeshInvStep, PTL DEF MeshSpec
(***************************************************************************)
(* Who is forgotten stays forgotten                                        *)
(***************************************************************************)

\* x has ended, v does not know it, and nothing of it is on its way to v.
Forgotten(v, x) ==
    /\ status[x] \in {"killed", "gone"}
    /\ ~Knows(v, x) /\ ~About(inbox[v], x)

\* Sending by an open tab brings nothing of one that has ended.
LEMMA SentForgotten ==
    ASSUME MeshTypeOK, NEW t \in Tabs, NEW type \in Types,
           NEW boxes \in [Tabs -> Seq(Message)], NEW v \in Tabs, NEW x \in Tabs, x # t,
           ~About(boxes[v], x)
    PROVE  ~About(After(t, type, boxes)[v], x)
<1> DEFINE m == [type |-> type, id |-> t, age |-> 0]
<1>1. m \in Message /\ m.id = t
  BY MeshAssumption DEF Message, Ages
<1>2. After(t, type, boxes)[v] \in {boxes[v], Append(boxes[v], m)}
  BY DEF After
<1>. HIDE DEF m
<1>. QED BY <1>1, <1>2, AppendOther

\* No step lets a tab hear again of one it has forgotten.
LEMMA ForgottenStep ==
    ASSUME MeshTypeOK, MeshTypeOK', [MeshNext]_meshVars,
           NEW v \in Tabs, NEW x \in Tabs, Forgotten(v, x)
    PROVE  Forgotten(v, x)'
<1>. USE DEF Forgotten
<1>0. /\ status[x] \in {"killed", "gone"} /\ ~Running(x)
      /\ inbox \in [Tabs -> Seq(Message)] /\ ~About(<< >>, x)
      /\ registry \in [Tabs -> [Tabs -> Ages \cup {Never}]]
  BY MeshType DEF Running, About
<1>1. ASSUME NEW t \in Tabs, NEW type \in Types, Broadcast(t, type), status' = status,
             Running(t), Knows(v, x)' => Knows(v, x)
      PROVE  Forgotten(v, x)'
  <2>1. ~About(inbox'[v], x)
    BY <1>0, <1>1, SentForgotten DEF Broadcast
  <2>. QED BY <1>1, <2>1
<1>2. ASSUME NEW t \in Tabs, Open(t) PROVE Forgotten(v, x)'
  <2>1. x # t /\ status'[x] = status[x] /\ registry' = registry
    BY <1>2 DEF Open, MeshTypeOK
  <2>2. ~About(inbox'[v], x)
    BY <1>0, <1>2, <2>1, SentForgotten DEF Open, Broadcast, Types
  <2>. QED BY <2>1, <2>2 DEF Knows
<1>3. ASSUME NEW t \in Tabs, SendPing(t) PROVE Forgotten(v, x)'
  <2>1. Knows(v, x)' => Knows(v, x)
    BY <1>3 DEF SendPing, Pruned, Knows, MeshTypeOK
  <2>. QED BY <1>1, <1>3, <2>1 DEF SendPing, Types
<1>4. ASSUME NEW t \in Tabs, SendState(t) \/ BeforeUnload(t) PROVE Forgotten(v, x)'
  <2>1. Knows(v, x)' => Knows(v, x)
    BY <1>4 DEF SendState, BeforeUnload, Knows
  <2>. QED BY <1>1, <1>4, <2>1 DEF SendState, BeforeUnload, Types
<1>5. ASSUME NEW t \in Tabs, Gone(t) PROVE Forgotten(v, x)'
  <2>1. /\ status'[x] \in {"killed", "gone"}
        /\ inbox'[v] \in {inbox[v], << >>}
        /\ Knows(v, x)' => Knows(v, x)
    BY <1>5 DEF Gone, Knows, MeshTypeOK
  <2>. QED BY <1>0, <2>1
<1>6. ASSUME NEW t \in Tabs, NEW y \in Tabs, Kill(t, y) PROVE Forgotten(v, x)'
  <2> DEFINE m == [type |-> "kill", id |-> t, age |-> 0]
  <2>1. m \in Message /\ m.id = t /\ t # x
    BY <1>0, <1>6, MeshAssumption DEF Message, Types, Ages, Kill
  <2>2. inbox'[v] \in {inbox[v], Append(inbox[v], m)} /\ status' = status
    BY <1>6 DEF Kill, MeshTypeOK
  <2>3. Knows(v, x)' => Knows(v, x)
    BY <1>6 DEF Kill, Knows, MeshTypeOK
  <2>. HIDE DEF m
  <2>4. ~About(inbox'[v], x)
    BY <1>0, <2>1, <2>2, AppendOther
  <2>. QED BY <2>2, <2>3, <2>4
<1>7. ASSUME NEW t \in Tabs, inbox[t] # << >>
      PROVE  /\ Rest(t) \in [Tabs -> Seq(Message)] /\ ~About(Rest(t)[v], x)
             /\ v = t => Head(inbox[t]).id # x
             /\ Head(inbox[t]).id \in Tabs
  <2>1. /\ Head(inbox[t]) \in Message /\ Rest(t) \in [Tabs -> Seq(Message)]
        /\ Rest(t)[t] = Tail(inbox[t])
        /\ \A u \in Tabs : u # t => Rest(t)[u] = inbox[u]
    BY <1>7, HeadRest
  <2>2. Head(inbox[t]).id \in Tabs
    BY <2>1 DEF Message
  <2>3. inbox[t] \in Seq(Message)
    BY MeshType
  <2>4. ~About(inbox[t], x) =>
            ~About(Tail(inbox[t]), x) /\ Head(inbox[t]).id # x
    BY <1>7, <2>3, TailOut
  <2>5. CASE v = t
    BY <1>0, <2>1, <2>2, <2>4, <2>5
  <2>6. CASE v # t
    BY <1>0, <2>1, <2>2, <2>6
  <2>. QED BY <2>5, <2>6
<1>8. ASSUME NEW t \in Tabs, HandleJoin(t) \/ HandlePresence(t) \/ HandleLeave(t)
      PROVE  Forgotten(v, x)'
  <2>1. /\ inbox[t] # << >> /\ t # x /\ status' = status
        /\ inbox' \in {Rest(t), After(t, "roster", Rest(t))}
    BY <1>0, <1>8 DEF HandleJoin, HandlePresence, HandleLeave, Takes
  <2>2. ~About(inbox'[v], x)
    BY <1>7, <2>1, SentForgotten DEF Types
  <2>3. registry'[v][x] = registry[v][x] \/ registry'[v][x] = Never
    <3>1. PICK y \in Tabs : y = Head(inbox[t]).id
      BY <1>7, <2>1
    <3>2. registry' = registry \/ \E n : registry' = [registry EXCEPT ![t][y] = n]
      BY <1>8, <3>1 DEF HandleJoin, HandlePresence, HandleLeave, Enter
    <3>3. v # t \/ x # y
      BY <1>7, <2>1, <3>1
    <3>. QED BY <1>0, <3>2, <3>3
  <2>. QED BY <2>1, <2>2, <2>3 DEF Knows
<1>9. ASSUME NEW t \in Tabs, HandleKill(t) PROVE Forgotten(v, x)'
  <2>1. inbox[t] # << >> /\ t # x
    BY <1>0, <1>9 DEF HandleKill, Takes
  <2> DEFINE sent == After(t, "leave", Rest(t))
  <2>2. ~About(sent[v], x) /\ sent \in [Tabs -> Seq(Message)]
    BY <1>7, <2>1, SentForgotten, AfterType DEF Types
  <2>3. inbox' \in {sent, [sent EXCEPT ![t] = << >>]}
    BY <1>9 DEF HandleKill
  <2>. HIDE DEF sent
  <2>4. ~About(inbox'[v], x)
    BY <1>0, <2>2, <2>3
  <2>5. Knows(v, x)' => Knows(v, x)
    <3>1. registry' \in {registry, [registry EXCEPT ![t] = [z \in Tabs |-> Never]]}
      BY <1>9 DEF HandleKill
    <3>. QED BY <1>0, <3>1 DEF Knows
  <2>6. status'[x] = status[x]
    BY <1>9, <2>1 DEF HandleKill, MeshTypeOK
  <2>. QED BY <2>4, <2>5, <2>6
<1>10. CASE Tick
  <2>1. Len(inbox'[v]) = Len(inbox[v]) /\ status' = status
    BY <1>10, TickType DEF Tick
  <2>2. ~About(inbox'[v], x)
    BY <1>10, <2>1, TickType DEF About
  <2>. QED BY <1>10, <2>1, <2>2, TickType
<1>11. CASE UNCHANGED meshVars
  BY <1>11 DEF meshVars, Knows
<1>. QED
  BY <1>2, <1>3, <1>4, <1>5, <1>6, <1>8, <1>9, <1>10, <1>11 DEF MeshNext, Handle

\* A tab that has ended and was forgotten is forgotten for good: no tab ever
\* enters it again, whatever it hears from the others.  This is the half of
\* GoneIsForgotten that needs no fairness.
THEOREM ForgottenForGood ==
    MeshSpec => [][\A v, x \in Tabs : Forgotten(v, x) => Forgotten(v, x)']_meshVars
<1>1. MeshTypeOK /\ MeshTypeOK' /\ [MeshNext]_meshVars
        => [\A v, x \in Tabs : Forgotten(v, x) => Forgotten(v, x)']_meshVars
  BY ForgottenStep
<1>. QED BY <1>1, MeshTypeCorrect, PTL DEF MeshSpec
=============================================================================
