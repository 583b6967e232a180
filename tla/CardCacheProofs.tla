-------------------------- MODULE CardCacheProofs ---------------------------
(* Theorems about CardCache, for any keys, files and threads. *)
EXTENDS CardCache, TLAPS

(***************************************************************************)
(* Types                                                                   *)
(***************************************************************************)

\* In get_cached a thread has a key.
HasKey ==
    \A t \in Threads :
        pc[t] \in {"lock", "load", "stat", "compute", "stamp", "announce"} => key[t] \in Keys

TypeInv == TypeOK /\ HasKey

LEMMA Constants ==
    /\ 0 \in Mtimes /\ 1 \in 1..MaxTime
    /\ NoData \in [Files -> Mtimes]
    /\ NoEntry \in Entry
    /\ EmptyCache \in [Keys -> Entry]
    /\ NoOne \notin Keys /\ NoOne \notin Threads /\ Worker \in Threads
    /\ 1..MaxTime \subseteq Mtimes
<1>1. 0 \in Mtimes /\ 1 \in 1..MaxTime /\ 1..MaxTime \subseteq Mtimes
  BY CacheAssumption DEF Mtimes
<1>2. NoData \in [Files -> Mtimes]
  BY <1>1 DEF NoData
<1>3. NoEntry \in Entry
  BY <1>1, <1>2 DEF NoEntry, Entry
<1> QED
  BY <1>1, <1>2, <1>3, CacheAssumption DEF EmptyCache, Threads

LEMMA TypesOfFiles ==
    ASSUME TypeOK
    PROVE  /\ Disk \in [Keys -> Entry]
           /\ \A k \in Keys : View(k) \in [Files -> Mtimes]
BY Constants DEF TypeOK, Disk, View

LEMMA InitTypes == Init => TypeInv
<1> SUFFICES ASSUME Init PROVE TypeInv
  OBVIOUS
<1>1. files \in [Files -> Mtimes]
  BY CacheAssumption DEF Init, Mtimes
<1>2. /\ clock \in 1..MaxTime /\ restarts \in 0..MaxRestarts
      /\ entry \in [Keys -> Entry] /\ torn \in BOOLEAN
      /\ fileLock \in Threads \cup {NoOne} /\ fresh \in [Keys -> Entry]
      /\ keyLock \in [Keys -> Threads \cup {NoOne}]
  <2>1. 0 \in 0..MaxRestarts
    BY CacheAssumption
  <2>2. clock = 1 /\ restarts = 0 /\ entry = EmptyCache /\ torn = FALSE /\ fileLock = NoOne
        /\ fresh = EmptyCache /\ keyLock = [k \in Keys |-> NoOne]
    BY DEF Init
  <2> QED
    BY <2>1, <2>2, Constants
<1>3. /\ pc \in [Threads -> PCs] /\ key \in [Threads -> Keys \cup {NoOne}]
      /\ force \in [Threads -> BOOLEAN] /\ bust \in [Threads -> SUBSET Keys]
      /\ rewarm \in [Threads -> BOOLEAN]
  BY DEF Init, PCs
<1>4. /\ loaded \in [Threads -> Entry] /\ stat \in [Threads -> Mtimes]
      /\ seen \in [Threads -> [Files -> Mtimes]] /\ now \in [Threads -> Mtimes]
  BY Constants DEF Init
<1>5. /\ todo \subseteq Keys /\ polled \in [Keys -> Entry] /\ unpolled \subseteq Keys
      /\ lastStale \in [Keys -> Mtimes] /\ badge \in [Keys -> BOOLEAN]
      /\ overtaken \in [Keys -> BOOLEAN] /\ guessed \subseteq Keys
  BY Constants DEF Init
<1>6. TypeOK
  BY <1>1, <1>2, <1>3, <1>4, <1>5 DEF TypeOK
<1> QED
  BY <1>6 DEF Init, TypeInv, HasKey

\* Whoever comes back, with the file as it was or not, leaves the types alone.
LEMMA ReturnTypes ==
    ASSUME TypeInv, NEW t \in Threads, Return(t),
           badge' \in [Keys -> BOOLEAN], overtaken' \in [Keys -> BOOLEAN],
           entry' \in [Keys -> Entry], torn' \in BOOLEAN,
           fileLock' \in Threads \cup {NoOne}, fresh' \in [Keys -> Entry],
           guessed' \subseteq Keys
    PROVE  TypeInv'
<1>1. pc' = [pc EXCEPT ![t] = pc'[t]] /\ pc'[t] \in {"next", "done"}
  BY DEF Return, TypeInv, TypeOK
<1>2. key' = [key EXCEPT ![t] = NoOne]
  BY DEF Return
<1>3. TypeOK'
  <2>1. /\ keyLock' \in [Keys -> Threads \cup {NoOne}]
        /\ pc' \in [Threads -> PCs]
        /\ key' \in [Threads -> Keys \cup {NoOne}]
        /\ force' \in [Threads -> BOOLEAN]
        /\ bust' \in [Threads -> SUBSET Keys] /\ rewarm' \in [Threads -> BOOLEAN]
        /\ loaded' \in [Threads -> Entry]
        /\ stat' \in [Threads -> Mtimes] /\ now' \in [Threads -> Mtimes]
        /\ seen' \in [Threads -> [Files -> Mtimes]]
    BY <1>1, <1>2, Constants DEF Return, TypeInv, TypeOK, PCs
  <2> QED
    BY <2>1 DEF Return, TypeInv, TypeOK, watcher
<1>4. HasKey'
  BY <1>1, <1>2 DEF TypeInv, TypeOK, HasKey
<1> QED
  BY <1>3, <1>4 DEF TypeInv

LEMMA LeaveTypes ==
    ASSUME TypeInv, NEW t \in Threads, Leave(t),
           badge' \in [Keys -> BOOLEAN], overtaken' \in [Keys -> BOOLEAN]
    PROVE  TypeInv'
<1>1. /\ entry' \in [Keys -> Entry] /\ torn' \in BOOLEAN
      /\ fileLock' \in Threads \cup {NoOne} /\ fresh' \in [Keys -> Entry]
      /\ guessed' \subseteq Keys
  BY DEF Leave, TypeInv, TypeOK, disk
<1> QED
  BY <1>1, ReturnTypes DEF Leave

\* A step of a thread that moves its pc from one place to another.
LEMMA MoveKeepsKey ==
    ASSUME TypeInv, NEW t \in Threads, NEW p, pc' = [pc EXCEPT ![t] = p], key' = key,
           p \in {"lock", "load", "stat", "compute", "stamp", "announce"} => key[t] \in Keys
    PROVE  HasKey'
BY DEF TypeInv, TypeOK, HasKey

LEMMA LookupTypes ==
    ASSUME TypeInv, NEW t \in Threads,
           Lock(t) \/ Load(t) \/ Hit(t) \/ Miss(t) \/ Compute(t) \/ ComputeFails(t) \/ Stamp(t)
    PROVE  TypeInv'
<1>types. TypeOK
  BY DEF TypeInv
<1>1. CASE Lock(t)
  <2>1. key[t] \in Keys
    BY <1>1 DEF Lock, TypeInv, HasKey
  <2>2. TypeOK'
    BY <1>1, <1>types DEF Lock, TypeOK, PCs, disk, task, local, watcher, ghost
  <2>3. HasKey'
    BY <1>1, <2>1, MoveKeepsKey DEF Lock, task
  <2> QED
    BY <2>2, <2>3 DEF TypeInv
<1>2. CASE Load(t)
  <2>1. key[t] \in Keys
    BY <1>2 DEF Load, TypeInv, HasKey
  <2>2. TypeOK'
    <3>1. loaded' \in [Threads -> Entry]
      BY <1>2, <1>types, <2>1, TypesOfFiles DEF Load, TypeOK
    <3> QED
      BY <1>2, <1>types, <3>1 DEF Load, TypeOK, PCs, disk, task, watcher, ghost
  <2>3. HasKey'
    BY <1>2, <2>1, MoveKeepsKey DEF Load, task
  <2> QED
    BY <2>2, <2>3 DEF TypeInv
<1>3. CASE Hit(t)
  <2>1. Leave(t) /\ badge' \in [Keys -> BOOLEAN] /\ overtaken' \in [Keys -> BOOLEAN]
    BY <1>3, <1>types DEF Hit, TypeOK
  <2> QED
    BY <2>1, LeaveTypes
<1>4. CASE Miss(t)
  <2>1. key[t] \in Keys
    BY <1>4 DEF Miss, TypeInv, HasKey
  <2>2. PICK m \in Mtimes : stat' = [stat EXCEPT ![t] = m]
    BY <1>4 DEF Miss
  <2>3. TypeOK'
    BY <1>4, <1>types, <2>2 DEF Miss, TypeOK, PCs, disk, task, watcher, ghost
  <2>4. HasKey'
    BY <1>4, <2>1, MoveKeepsKey DEF Miss, task
  <2> QED
    BY <2>3, <2>4 DEF TypeInv
<1>5. CASE Compute(t)
  <2>1. key[t] \in Keys
    BY <1>5 DEF Compute, TypeInv, HasKey
  <2>2. TypeOK'
    <3>1. seen' \in [Threads -> [Files -> Mtimes]]
      BY <1>5, <1>types, <2>1, TypesOfFiles DEF Compute, TypeOK
    <3> QED
      BY <1>5, <1>types, <3>1 DEF Compute, TypeOK, PCs, disk, task, watcher, ghost
  <2>3. HasKey'
    BY <1>5, <2>1, MoveKeepsKey DEF Compute, task
  <2> QED
    BY <2>2, <2>3 DEF TypeInv
<1>6. CASE ComputeFails(t)
  <2>1. Leave(t) /\ badge' \in [Keys -> BOOLEAN] /\ overtaken' \in [Keys -> BOOLEAN]
    BY <1>6, <1>types DEF ComputeFails, TypeOK
  <2> QED
    BY <2>1, LeaveTypes
<1>7. CASE Stamp(t)
  <2>1. now' \in [Threads -> Mtimes]
    BY <1>7, <1>types, Constants DEF Stamp, TypeOK
  <2>2. TypeOK'
    BY <1>7, <1>types, <2>1 DEF Stamp, TypeOK, PCs, disk, task, watcher, ghost
  <2>3. HasKey'
    BY <1>7, MoveKeepsKey DEF Stamp, task
  <2> QED
    BY <2>2, <2>3 DEF TypeInv
<1> QED
  BY <1>1, <1>2, <1>3, <1>4, <1>5, <1>6, <1>7

LEMMA WriteTypes ==
    ASSUME TypeInv, NEW t \in Threads,
           \/ BeginWrite(t) \/ EndWrite(t) \/ SaveFails(t) \/ Announce(t)
           \/ NothingToBust(t) \/ Recompute(t)
    PROVE  TypeInv'
<1>types. TypeOK
  BY DEF TypeInv
<1>1. CASE BeginWrite(t)
  <2>1. TypeOK'
    BY <1>1, <1>types, TypesOfFiles DEF BeginWrite, TypeOK, PCs, task, local, watcher, ghost
  <2>2. HasKey'
    BY <1>1, MoveKeepsKey DEF BeginWrite, task
  <2> QED
    BY <2>1, <2>2 DEF TypeInv
<1>2. CASE EndWrite(t)
  <2>1. SavedMtime(t) \in Mtimes
    BY <1>types DEF TypeOK, SavedMtime
  <2>2. Updated(t) \in [Keys -> Entry]
    BY <1>types, <2>1, Constants DEF TypeOK, Updated, Entry
  <2>4. PICK p \in {"announce", "recompute"} :
           pc' = [pc EXCEPT ![t] = p] /\ (p = "announce" => key[t] # NoOne)
    BY <1>2 DEF EndWrite
  <2>5. entry' \in [Keys -> Entry] /\ fresh' \in [Keys -> Entry] /\ guessed' \subseteq Keys
        /\ torn' \in BOOLEAN /\ fileLock' \in Threads \cup {NoOne} /\ pc' \in [Threads -> PCs]
    BY <1>2, <1>types, <2>2, <2>4, Constants DEF EndWrite, TypeOK, PCs
  <2>6. TypeOK'
    BY <1>2, <1>types, <2>5 DEF EndWrite, TypeOK, task, local, watcher
  <2>7. key[t] # NoOne => key[t] \in Keys
    BY <1>types DEF TypeOK
  <2>8. HasKey'
    BY <1>2, <2>4, <2>7, MoveKeepsKey DEF EndWrite, task
  <2> QED
    BY <2>6, <2>8 DEF TypeInv
<1>3. CASE Announce(t)
  <2>1. Leave(t) /\ badge' \in [Keys -> BOOLEAN] /\ overtaken' \in [Keys -> BOOLEAN]
    BY <1>3, <1>types DEF Announce, TypeOK
  <2> QED
    BY <2>1, LeaveTypes
<1>4. CASE NothingToBust(t)
  <2>2. TypeOK'
    BY <1>4, <1>types DEF NothingToBust, TypeOK, PCs, disk, task, local, watcher
  <2>3. HasKey'
    BY <1>4, MoveKeepsKey DEF NothingToBust, task
  <2> QED
    BY <2>2, <2>3 DEF TypeInv
<1>5. CASE Recompute(t)
  <2>1. /\ pc' \in [Threads -> PCs] /\ todo' \subseteq Keys
        /\ bust' \in [Threads -> SUBSET Keys] /\ rewarm' \in [Threads -> BOOLEAN]
        /\ \A u \in Threads : pc'[u] \in {pc[u], "done", "next"}
    <3>1. /\ todo' \in {todo, bust[t]}
          /\ \/ pc' = [pc EXCEPT ![t] = "done"]
             \/ pc' = [pc EXCEPT ![t] = "done", ![Worker] = "next"]
      BY <1>5 DEF Recompute
    <3>2. pc' \in [Threads -> PCs] /\ \A u \in Threads : pc'[u] \in {pc[u], "done", "next"}
      BY <1>types, <3>1 DEF TypeOK, PCs
    <3>3. bust' \in [Threads -> SUBSET Keys] /\ rewarm' \in [Threads -> BOOLEAN]
      BY <1>5, <1>types DEF Recompute, TypeOK
    <3> QED
      BY <1>types, <3>1, <3>2, <3>3 DEF TypeOK
  <2>2. TypeOK'
    BY <1>5, <1>types, <2>1 DEF Recompute, TypeOK, disk, local, watcher, ghost
  <2>3. HasKey'
    BY <1>5, <2>1 DEF Recompute, TypeInv, HasKey
  <2> QED
    BY <2>2, <2>3 DEF TypeInv
<1>6. CASE SaveFails(t)
  <2>1. /\ entry' \in [Keys -> Entry] /\ torn' \in BOOLEAN
        /\ fileLock' \in Threads \cup {NoOne} /\ fresh' \in [Keys -> Entry]
        /\ guessed' \subseteq Keys
    BY <1>6, <1>types, Constants DEF SaveFails, TypeOK, disk
  <2>2. Return(t) /\ badge' \in [Keys -> BOOLEAN] /\ overtaken' \in [Keys -> BOOLEAN]
    BY <1>6, <1>types DEF SaveFails, TypeOK
  <2> QED
    BY <2>1, <2>2, ReturnTypes
<1> QED
  BY <1>1, <1>2, <1>3, <1>4, <1>5, <1>6

LEMMA NextTypes == TypeInv /\ [Next]_vars => TypeInv'
<1> SUFFICES ASSUME TypeInv, [Next]_vars PROVE TypeInv'
  OBVIOUS
<1>types. TypeOK /\ HasKey
  BY DEF TypeInv
<1>1. ASSUME NEW f \in Files, Touch(f) PROVE TypeInv'
  <2>1. clock' \in 1..MaxTime /\ clock' \in Mtimes
    BY <1>1, <1>types, CacheAssumption DEF Touch, TypeOK, Mtimes
  <2>2. files' \in [Files -> Mtimes]
    BY <1>1, <1>types, <2>1 DEF Touch, TypeOK
  <2> QED
    BY <1>1, <1>types, <2>1, <2>2
    DEF Touch, TypeInv, TypeOK, HasKey, disk, task, local, watcher, ghost
<1>2. ASSUME NEW f \in Files, Remove(f) PROVE TypeInv'
  BY <1>2, <1>types, Constants
  DEF Remove, TypeInv, TypeOK, HasKey, disk, task, local, watcher, ghost
<1>3. ASSUME NEW t \in Threads, NEW k \in Keys, Ask(t, k) PROVE TypeInv'
  <2>1. PICK b \in BOOLEAN : force' = [force EXCEPT ![t] = b]
    BY <1>3 DEF Ask
  <2>2. TypeOK'
    BY <1>3, <1>types, <2>1 DEF Ask, TypeOK, PCs, disk, local, watcher, ghost
  <2>3. HasKey'
    BY <1>3, <1>types DEF Ask, TypeOK, HasKey
  <2> QED
    BY <2>2, <2>3 DEF TypeInv
<1>4. ASSUME NEW t \in Threads, NEW ks \in SUBSET Keys, AskBust(t, ks) PROVE TypeInv'
  <2>1. PICK b \in BOOLEAN : rewarm' = [rewarm EXCEPT ![t] = b]
    BY <1>4 DEF AskBust
  <2>2. TypeOK'
    BY <1>4, <1>types, <2>1 DEF AskBust, TypeOK, PCs, disk, local, watcher, ghost
  <2>3. HasKey'
    BY <1>4, MoveKeepsKey DEF AskBust
  <2> QED
    BY <2>2, <2>3 DEF TypeInv
<1>5. ASSUME NEW t \in Threads, ThreadStep(t) PROVE TypeInv'
  BY <1>5, LookupTypes, WriteTypes DEF ThreadStep
<1>6. CASE WorkerNext
  <2>1. CASE todo = {}
    <3>1. pc' = [pc EXCEPT ![Worker] = "done"] /\ UNCHANGED <<key, todo>>
      BY <1>6, <2>1 DEF WorkerNext
    <3>2. TypeOK'
      BY <1>6, <1>types, <3>1, Constants DEF WorkerNext, TypeOK, PCs, disk, local, watcher, ghost
    <3>3. HasKey'
      BY <3>1, MoveKeepsKey, Constants
    <3> QED
      BY <3>2, <3>3 DEF TypeInv
  <2>2. CASE todo # {}
    <3>1. PICK k \in todo : /\ key' = [key EXCEPT ![Worker] = k]
                            /\ todo' = todo \ {k}
                            /\ pc' = [pc EXCEPT ![Worker] = "lock"]
      BY <1>6, <2>2 DEF WorkerNext
    <3>2. k \in Keys
      BY <1>types DEF TypeOK
    <3>3. TypeOK'
      BY <1>6, <1>types, <3>1, <3>2, Constants
      DEF WorkerNext, TypeOK, PCs, disk, local, watcher, ghost
    <3>4. HasKey'
      BY <1>types, <3>1, <3>2 DEF TypeOK, HasKey
    <3> QED
      BY <3>3, <3>4 DEF TypeInv
  <2> QED
    BY <2>1, <2>2
<1>7. CASE PollLoad
  BY <1>7, <1>types, TypesOfFiles
  DEF PollLoad, TypeInv, TypeOK, HasKey, disk, task, local, ghost
<1>8. ASSUME NEW k \in Keys, PollKey(k) PROVE TypeInv'
  <2>1. lastStale' \in [Keys -> Mtimes] /\ badge' \in [Keys -> BOOLEAN]
    <3>1. PICK m \in Mtimes :
             \/ UNCHANGED <<lastStale, badge>>
             \/ lastStale' = [lastStale EXCEPT ![k] = 0] /\ UNCHANGED badge
             \/ /\ lastStale' = [lastStale EXCEPT ![k] = m]
                /\ badge' = [badge EXCEPT ![k] = badge[k] \/ lastStale[k] # m]
      BY <1>8 DEF PollKey
    <3>2. /\ 0 \in Mtimes /\ lastStale \in [Keys -> Mtimes] /\ badge \in [Keys -> BOOLEAN]
          /\ (badge[k] \/ lastStale[k] # m) \in BOOLEAN
      BY <1>types, Constants DEF TypeOK
    <3>3. lastStale' \in [Keys -> Mtimes]
      BY <3>1, <3>2
    <3>4. badge' \in [Keys -> BOOLEAN]
      BY <3>1, <3>2, Zenon
    <3> QED
      BY <3>3, <3>4
  <2> QED
    BY <1>8, <1>types, <2>1
    DEF PollKey, TypeInv, TypeOK, HasKey, disk, task, local, ghost
<1>9. CASE Restart
  <2>1. pc' \in [Threads -> PCs] /\ \A t \in Threads : pc'[t] \in {"new", "done"}
    BY <1>9 DEF Restart, PCs
  <2>2. restarts' \in 0..MaxRestarts
    BY <1>9, <1>types, CacheAssumption DEF Restart, TypeOK
  <2>3. /\ entry' \in [Keys -> Entry] /\ torn' \in BOOLEAN
        /\ fileLock' \in Threads \cup {NoOne} /\ fresh' \in [Keys -> Entry]
        /\ keyLock' \in [Keys -> Threads \cup {NoOne}]
    BY <1>9, <1>types, Constants, TypesOfFiles DEF Restart
  <2>4. /\ key' \in [Threads -> Keys \cup {NoOne}]
        /\ force' \in [Threads -> BOOLEAN] /\ bust' \in [Threads -> SUBSET Keys]
        /\ rewarm' \in [Threads -> BOOLEAN]
    BY <1>9 DEF Restart
  <2>5. /\ loaded' \in [Threads -> Entry] /\ stat' \in [Threads -> Mtimes]
        /\ seen' \in [Threads -> [Files -> Mtimes]] /\ now' \in [Threads -> Mtimes]
    BY <1>9, Constants DEF Restart
  <2>6. /\ todo' \subseteq Keys /\ polled' \in [Keys -> Entry] /\ unpolled' \subseteq Keys
        /\ lastStale' \in [Keys -> Mtimes] /\ badge' \in [Keys -> BOOLEAN]
        /\ overtaken' \in [Keys -> BOOLEAN]
    BY <1>9, Constants DEF Restart
  <2>7. UNCHANGED <<clock, files, guessed>>
    BY <1>9 DEF Restart
  <2>8. TypeOK'
    BY <1>types, <2>1, <2>2, <2>3, <2>4, <2>5, <2>6, <2>7 DEF TypeOK
  <2>9. HasKey'
    BY <2>1 DEF HasKey
  <2> QED
    BY <2>8, <2>9 DEF TypeInv
<1>10. CASE UNCHANGED vars
  BY <1>10, <1>types DEF vars, TypeInv, TypeOK, HasKey, disk, task, local, watcher, ghost
<1> QED
  BY <1>1, <1>2, <1>3, <1>4, <1>5, <1>6, <1>7, <1>8, <1>9, <1>10 DEF Next, Poll

LEMMA TypesHold == Spec => []TypeInv
BY InitTypes, NextTypes, PTL DEF Spec

\* Every variable keeps its type: mtimes never exceed the clock's bound, and a
\* thread in get_cached has a key.
THEOREM TypeCorrect == Spec => []TypeOK
<1>1. TypeInv => TypeOK
  BY DEF TypeInv
<1> QED
  BY <1>1, TypesHold, PTL

(***************************************************************************)
(* The file is written by one thread at a time                             *)
(***************************************************************************)

\* Who writes holds the lock, and has loaded what the file held.
WriteInv ==
    /\ \A t \in Threads : pc[t] = "writing" <=> fileLock = t
    /\ torn <=> fileLock # NoOne
    /\ torn => fresh = entry

OneWriter == WriteInv /\ TypeInv

LEMMA WriteStep == OneWriter /\ [Next]_vars => WriteInv'
<1> SUFFICES ASSUME OneWriter, [Next]_vars PROVE WriteInv'
  OBVIOUS
<1>types. TypeOK /\ WriteInv /\ NoOne \notin Threads
  BY Constants DEF OneWriter, TypeInv
<1> DEFINE Quiet == UNCHANGED disk /\ \A t \in Threads : pc'[t] = "writing" <=> pc[t] = "writing"
<1>quiet. Quiet => WriteInv'
  BY <1>types DEF disk, WriteInv
<1>1. ASSUME NEW f \in Files, Touch(f) \/ Remove(f) PROVE Quiet
  BY <1>1 DEF Touch, Remove
<1>2. ASSUME NEW t \in Threads, NEW k \in Keys, Ask(t, k) PROVE Quiet
  BY <1>2, <1>types DEF Ask, TypeOK
<1>3. ASSUME NEW t \in Threads, NEW ks \in SUBSET Keys, AskBust(t, ks) PROVE Quiet
  BY <1>3, <1>types DEF AskBust, TypeOK
<1>4. ASSUME NEW t \in Threads, Lock(t) \/ Load(t) \/ Miss(t) \/ Compute(t) \/ Stamp(t) PROVE Quiet
  BY <1>4, <1>types DEF Lock, Load, Miss, Compute, Stamp, TypeOK
<1>5. ASSUME NEW t \in Threads, Hit(t) \/ ComputeFails(t) \/ Announce(t) PROVE Quiet
  <2>1. /\ pc[t] # "writing" /\ UNCHANGED disk
        /\ pc' = [pc EXCEPT ![t] = IF t = Worker THEN "next" ELSE "done"]
    BY <1>5 DEF Hit, ComputeFails, Announce, Leave, Return
  <2> QED
    BY <1>types, <2>1 DEF TypeOK
<1>6. ASSUME NEW t \in Threads, NothingToBust(t) PROVE Quiet
  BY <1>6, <1>types DEF NothingToBust, TypeOK
<1>7. ASSUME NEW t \in Threads, Recompute(t) PROVE Quiet
  <2>1. /\ pc[t] = "recompute" /\ UNCHANGED disk
        /\ \/ pc' = [pc EXCEPT ![t] = "done"]
           \/ pc[Worker] = "done" /\ pc' = [pc EXCEPT ![t] = "done", ![Worker] = "next"]
    BY <1>7 DEF Recompute
  <2> QED
    BY <1>types, <2>1 DEF TypeOK
<1>8. CASE WorkerNext
  <2>1. /\ pc[Worker] = "next" /\ UNCHANGED disk
        /\ \/ pc' = [pc EXCEPT ![Worker] = "done"]
           \/ pc' = [pc EXCEPT ![Worker] = "lock"]
    BY <1>8 DEF WorkerNext
  <2>2. Quiet
    BY <1>types, <2>1 DEF TypeOK
  <2> QED
    BY <1>quiet, <2>2
<1>9. CASE Poll
  BY <1>9, <1>quiet DEF Poll, PollLoad, PollKey
<1>10. ASSUME NEW t \in Threads, BeginWrite(t) PROVE WriteInv'
  <2>1. fileLock = NoOne /\ ~torn
    BY <1>10, <1>types DEF BeginWrite, WriteInv
  <2>2. fresh' = entry /\ entry' = entry /\ torn' = TRUE /\ fileLock' = t
    BY <1>10, <2>1 DEF BeginWrite, Disk
  <2>3. \A u \in Threads : pc'[u] = "writing" <=> u = t
    BY <1>10, <1>types, <2>1 DEF BeginWrite, TypeOK, WriteInv
  <2> QED
    BY <1>types, <2>2, <2>3 DEF WriteInv
<1>11. ASSUME NEW t \in Threads, EndWrite(t) PROVE WriteInv'
  <2>1. fileLock = t /\ torn' = FALSE /\ fileLock' = NoOne
    BY <1>11, <1>types DEF EndWrite, WriteInv
  <2>2. PICK p \in {"announce", "recompute"} : pc' = [pc EXCEPT ![t] = p]
    BY <1>11 DEF EndWrite
  <2>3. \A u \in Threads : pc'[u] # "writing"
    BY <1>types, <2>1, <2>2 DEF TypeOK, WriteInv
  <2> QED
    BY <1>types, <2>1, <2>3 DEF WriteInv
<1>12. CASE Restart
  <2>1. torn' = FALSE /\ fileLock' = NoOne
    BY <1>12 DEF Restart
  <2>2. \A t \in Threads : pc'[t] # "writing"
    BY <1>12 DEF Restart
  <2> QED
    BY <1>types, <2>1, <2>2 DEF WriteInv
<1>13. CASE UNCHANGED vars
  BY <1>13, <1>quiet DEF vars
<1>14. ASSUME NEW t \in Threads, SaveFails(t) PROVE WriteInv'
  <2>1. /\ pc' = [pc EXCEPT ![t] = IF t = Worker THEN "next" ELSE "done"]
        /\ \/ pc[t] = "save" /\ UNCHANGED disk
           \/ pc[t] = "writing" /\ torn' = FALSE /\ fileLock' = NoOne
    BY <1>14 DEF SaveFails, Return
  <2>2. CASE pc[t] = "save" /\ UNCHANGED disk
    <3>1. Quiet
      BY <1>types, <2>1, <2>2 DEF TypeOK
    <3> QED
      BY <1>quiet, <3>1
  <2>3. CASE pc[t] = "writing" /\ torn' = FALSE /\ fileLock' = NoOne
    <3>1. fileLock = t
      BY <1>types, <2>3 DEF WriteInv
    <3>2. \A u \in Threads : pc'[u] # "writing"
      BY <1>types, <2>1, <3>1 DEF TypeOK, WriteInv
    <3> QED
      BY <1>types, <2>3, <3>2 DEF WriteInv
  <2> QED
    BY <2>1, <2>2, <2>3
<1> HIDE DEF Quiet
<1> QED
  BY <1>quiet, <1>1, <1>2, <1>3, <1>4, <1>5, <1>6, <1>7, <1>8, <1>9, <1>10, <1>11, <1>12, <1>13,
     <1>14
  DEF Next, ThreadStep

LEMMA WritersHold == Spec => []OneWriter
<1>1. Init => WriteInv
  BY Constants DEF Init, WriteInv
<1>2. Spec => []WriteInv
  BY <1>1, WriteStep, TypesHold, PTL DEF Spec, OneWriter
<1> QED
  BY <1>2, TypesHold, PTL DEF OneWriter

(***************************************************************************)
(* Entries change on their own account only                                *)
(***************************************************************************)

\* Only the end of a write, a failing one and a restart touch the entries.
LEMMA EntryChanges ==
    ASSUME [Next]_vars
    PROVE  \/ entry' = entry
           \/ \E t \in Threads : EndWrite(t) \/ SaveFails(t)
           \/ Restart
BY DEF Next, ThreadStep, Poll, vars, disk, Touch, Remove, Ask, AskBust, Lock, Load, Hit, Miss,
   Compute, ComputeFails, Stamp, BeginWrite, Announce, Leave, Return, NothingToBust, Recompute,
   WorkerNext, PollLoad, PollKey

LEMMA EntryStep == OneWriter /\ [Next]_vars => KeepsOthers
<1> SUFFICES ASSUME OneWriter, [Next]_vars PROVE KeepsOthers
  OBVIOUS
<1>types. TypeOK /\ WriteInv /\ NoOne \notin Threads
  BY Constants DEF OneWriter, TypeInv
<1>1. CASE entry' = entry
  BY <1>1 DEF KeepsOthers
<1>2. ASSUME NEW t \in Threads, EndWrite(t) PROVE KeepsOthers
  <2>1. pc[t] = "writing" /\ fresh = entry /\ entry' = Updated(t)
    BY <1>2, <1>types DEF EndWrite, WriteInv
  <2>2. ASSUME NEW k \in Keys, key[t] # k, k \notin bust[t] PROVE entry'[k] = entry[k]
    BY <2>1, <2>2 DEF Updated
  <2> QED
    BY <2>1, <2>2 DEF KeepsOthers
<1>3. ASSUME NEW t \in Threads, SaveFails(t) PROVE KeepsOthers
  <2>1. pc'[t] \in {"next", "done"}
    BY <1>3, <1>types DEF SaveFails, Return, TypeOK
  <2>2. entry' = entry \/ (pc[t] = "writing" /\ entry' = EmptyCache)
    BY <1>3 DEF SaveFails, disk
  <2> QED
    BY <2>1, <2>2 DEF KeepsOthers
<1>4. CASE Restart
  <2>1. CASE torn
    <3>1. PICK t \in Threads : fileLock = t
      BY <1>types, <2>1 DEF TypeOK, WriteInv
    <3>2. pc[t] = "writing" /\ pc'[t] = "done"
      BY <1>4, <1>types, <3>1 DEF Restart, WriteInv
    <3>3. entry' = EmptyCache
      BY <1>4, <2>1 DEF Restart, Disk
    <3> QED
      BY <3>2, <3>3 DEF KeepsOthers
  <2>2. CASE ~torn
    BY <1>4, <2>2 DEF Restart, Disk, KeepsOthers
  <2> QED
    BY <2>1, <2>2
<1> QED
  BY <1>1, <1>2, <1>3, <1>4, EntryChanges

\* Saves and invalidations that overlap keep each other's entries, for any
\* number of keys and threads; only a rewrite that breaks off behind the
\* truncation, in a crash or for an error, loses the entries of others.
THEOREM IndependentEntries == Spec => EntriesIndependent
<1>1. OneWriter /\ [Next]_vars => [KeepsOthers]_vars
  BY EntryStep
<1>2. Spec => [][KeepsOthers]_vars
  BY <1>1, WritersHold, PTL DEF Spec
<1> QED
  BY <1>2 DEF EntriesIndependent

(***************************************************************************)
(* Hits are current                                                        *)
(***************************************************************************)

\* A file that is not newer than m is in data d as it is, or is gone.
Knows(k, m, d) == \A f \in Reads[k] : files[f] <= m => d[f] = files[f] \/ files[f] = 0

\* Nothing has an mtime of the future, so that an edit is newer than all that
\* was read before it; what is saved, and what is about to be, knows the files
\* up to its mtime.
HitInv ==
    /\ \A f \in Files : files[f] <= clock
    /\ \A k \in Keys : entry[k].mtime <= clock
    /\ \A t \in Threads : stat[t] <= clock /\ now[t] <= clock
    /\ \A k \in Keys \ guessed :
          entry[k].mtime # 0 => Knows(k, entry[k].mtime, entry[k].data)
    /\ \A t \in Threads :
          pc[t] \in {"stamp", "save", "writing"} /\ key[t] # NoOne
              => Knows(key[t], stat[t], seen[t])
    /\ \A t \in Threads : pc[t] = "new" => key[t] = NoOne

\* Edits and removals take away nothing that was known.
LEMMA FilesChange ==
    ASSUME TypeOK, NEW f \in Files, Touch(f) \/ Remove(f), NEW k \in Keys, NEW m \in Mtimes,
           NEW d, m <= clock, Knows(k, m, d)
    PROVE  Knows(k, m, d)'
<1>1. ASSUME NEW g \in Reads[k] PROVE g \in Files
  BY CacheAssumption
<1>2. m \in Int /\ clock \in Int
  BY DEF TypeOK, Mtimes
<1>3. CASE Touch(f)
  <2>1. \A g \in Files : files'[g] = IF g = f THEN clock + 1 ELSE files[g]
    BY <1>3 DEF Touch, TypeOK
  <2> QED
    BY <1>1, <1>2, <2>1 DEF Knows
<1>4. CASE Remove(f)
  <2>1. \A g \in Files : files'[g] = IF g = f THEN 0 ELSE files[g]
    BY <1>4 DEF Remove, TypeOK
  <2> QED
    BY <1>1, <2>1 DEF Knows
<1> QED
  BY <1>3, <1>4

\* What HitInv says of a thread.
Fine(t) ==
    /\ stat[t] <= clock /\ now[t] <= clock
    /\ pc[t] \in {"stamp", "save", "writing"} /\ key[t] # NoOne => Knows(key[t], stat[t], seen[t])
    /\ pc[t] = "new" => key[t] = NoOne

LEMMA HitStep == HitInv /\ OneWriter /\ [Next]_vars => HitInv'
<1> SUFFICES ASSUME HitInv, OneWriter, [Next]_vars PROVE HitInv'
  OBVIOUS
<1>types. /\ TypeOK /\ HasKey /\ WriteInv /\ NoOne \notin Threads /\ NoOne \notin Keys
          /\ clock \in Int /\ Mtimes \subseteq Int /\ 0 <= clock
  BY Constants DEF OneWriter, TypeInv, TypeOK, Mtimes
<1>fine. \A t \in Threads : Fine(t)
  BY DEF HitInv, Fine
<1> DEFINE Same == UNCHANGED <<clock, files, entry, guessed>>
           Unmoved(t) == /\ pc'[t] = pc[t] /\ key'[t] = key[t] /\ stat'[t] = stat[t]
                         /\ seen'[t] = seen[t] /\ now'[t] = now[t]
<1>same. ASSUME Same, \A t \in Threads : Fine(t)' PROVE HitInv'
  BY <1>same DEF HitInv, Fine, Knows
<1>unmoved. ASSUME NEW t \in Threads, Same, Unmoved(t) PROVE Fine(t)'
  BY <1>fine, <1>unmoved DEF Fine, Knows
<1>1. ASSUME NEW f \in Files, Touch(f) \/ Remove(f) PROVE HitInv'
  <2>1. /\ UNCHANGED <<entry, pc, key, stat, seen, now, guessed>>
        /\ clock' \in Int /\ clock <= clock'
        /\ \A g \in Files : files'[g] \in {files[g], 0, clock'}
    <3>1. CASE Touch(f)
      <4>1. clock' = clock + 1 /\ files' = [files EXCEPT ![f] = clock']
        BY <3>1 DEF Touch
      <4>2. \A g \in Files : files'[g] \in {files[g], 0, clock'}
        BY <1>types, <4>1 DEF TypeOK
      <4>3. clock' \in Int /\ clock <= clock'
        BY <1>types, <4>1
      <4> QED
        BY <3>1, <4>2, <4>3 DEF Touch, disk, task, local, ghost
    <3>2. CASE Remove(f)
      <4>1. clock' = clock /\ files' = [files EXCEPT ![f] = 0]
        BY <3>2 DEF Remove
      <4>2. \A g \in Files : files'[g] \in {files[g], 0, clock'}
        BY <1>types, <4>1 DEF TypeOK
      <4> QED
        BY <1>types, <3>2, <4>1, <4>2 DEF Remove, disk, task, local, ghost
    <3> QED
      BY <1>1, <3>1, <3>2
  <2>2. \A g \in Files : files'[g] <= clock'
    <3>1. ASSUME NEW g \in Files PROVE files'[g] <= clock'
      <4>1. files[g] \in Int /\ files[g] <= clock
        BY <1>types DEF HitInv, TypeOK
      <4>2. files'[g] \in {files[g], 0, clock'}
        BY <2>1
      <4>3. clock \in Int /\ clock' \in Int /\ clock <= clock' /\ 0 <= clock
        BY <1>types, <2>1
      <4> QED
        BY <4>1, <4>2, <4>3
    <3> QED
      BY <3>1
  <2>3. ASSUME NEW k \in Keys PROVE entry[k].mtime \in Mtimes /\ entry[k].mtime <= clock
    BY <1>types DEF TypeOK, Entry, HitInv
  <2>4. \A k \in Keys : entry'[k].mtime <= clock'
    <3>1. ASSUME NEW k \in Keys PROVE entry[k].mtime <= clock'
      <4>1. entry[k].mtime \in Int /\ entry[k].mtime <= clock
        BY <1>types, <2>3
      <4>2. clock \in Int /\ clock' \in Int /\ clock <= clock'
        BY <1>types, <2>1
      <4> QED
        BY <4>1, <4>2
    <3> QED
      BY <2>1, <3>1
  <2>5. ASSUME NEW t \in Threads PROVE stat[t] \in Mtimes /\ now[t] \in Mtimes
    BY <1>types DEF TypeOK
  <2>6. \A t \in Threads : stat'[t] <= clock' /\ now'[t] <= clock'
    <3>1. ASSUME NEW t \in Threads PROVE stat[t] <= clock' /\ now[t] <= clock'
      <4>1. stat[t] \in Int /\ now[t] \in Int /\ stat[t] <= clock /\ now[t] <= clock
        BY <1>types, <1>fine, <2>5 DEF Fine
      <4> QED
        BY <1>types, <2>1, <4>1
    <3> QED
      BY <2>1, <3>1
  <2>7. ASSUME NEW k \in Keys \ guessed', entry'[k].mtime # 0
        PROVE  Knows(k, entry[k].mtime, entry[k].data)'
    <3>1. Knows(k, entry[k].mtime, entry[k].data)
      BY <2>1, <2>7 DEF HitInv
    <3>2. \A g \in Reads[k] :
             files'[g] <= entry[k].mtime => entry[k].data[g] = files'[g] \/ files'[g] = 0
      BY <1>1, <1>types, <2>3, <3>1, FilesChange DEF Knows
    <3> QED
      BY <2>1, <3>2 DEF Knows
  <2>8. ASSUME NEW t \in Threads, pc'[t] \in {"stamp", "save", "writing"}, key'[t] # NoOne
        PROVE  Knows(key[t], stat[t], seen[t])'
    <3>1. Knows(key[t], stat[t], seen[t]) /\ key[t] \in Keys /\ stat[t] <= clock
      BY <1>fine, <1>types, <2>1, <2>8 DEF Fine, TypeOK
    <3>2. \A g \in Reads[key[t]] :
             files'[g] <= stat[t] => seen[t][g] = files'[g] \/ files'[g] = 0
      BY <1>1, <1>types, <2>5, <3>1, FilesChange DEF Knows
    <3> QED
      BY <2>1, <3>2 DEF Knows
  <2> QED
    BY <1>fine, <2>1, <2>2, <2>4, <2>6, <2>7, <2>8 DEF HitInv, Fine
<1>2. ASSUME NEW t \in Threads, NEW k \in Keys, Ask(t, k) PROVE HitInv'
  <2>1. Same /\ \A u \in Threads \ {t} : Unmoved(u)
    BY <1>2, <1>types DEF Ask, TypeOK, disk, local, ghost
  <2>2. Fine(t)'
    BY <1>2, <1>types, <1>fine DEF Ask, TypeOK, local, Fine
  <2> QED
    BY <1>same, <1>unmoved, <2>1, <2>2
<1>3. ASSUME NEW t \in Threads, NEW ks \in SUBSET Keys, AskBust(t, ks) PROVE HitInv'
  <2>1. Same /\ \A u \in Threads \ {t} : Unmoved(u)
    BY <1>3, <1>types DEF AskBust, TypeOK, disk, local, ghost
  <2>2. Fine(t)'
    BY <1>3, <1>types, <1>fine DEF AskBust, TypeOK, local, Fine
  <2> QED
    BY <1>same, <1>unmoved, <2>1, <2>2
<1>4. ASSUME NEW t \in Threads, Lock(t) \/ Load(t) PROVE HitInv'
  <2>1. Same /\ \A u \in Threads \ {t} : Unmoved(u)
    BY <1>4, <1>types DEF Lock, Load, TypeOK, disk, task, local, ghost
  <2>2. Fine(t)'
    BY <1>4, <1>types, <1>fine DEF Lock, Load, TypeOK, local, Fine
  <2> QED
    BY <1>same, <1>unmoved, <2>1, <2>2
<1>5. ASSUME NEW t \in Threads, Hit(t) \/ ComputeFails(t) \/ Announce(t) PROVE HitInv'
  <2>1. Leave(t)
    BY <1>5 DEF Hit, ComputeFails, Announce
  <2>2. Same /\ \A u \in Threads \ {t} : Unmoved(u)
    <3>1. UNCHANGED <<clock, files, disk, guessed>>
      BY <2>1 DEF Leave, Return
    <3>2. \A u \in Threads \ {t} : Unmoved(u)
      BY <2>1, <1>types DEF Leave, Return, TypeOK
    <3> QED
      BY <3>1, <3>2 DEF disk
  <2>3. Fine(t)'
    BY <2>1, <1>types DEF Leave, Return, TypeOK, Fine
  <2> QED
    BY <1>same, <1>unmoved, <2>2, <2>3
<1>6. ASSUME NEW t \in Threads, Miss(t) PROVE HitInv'
  <2>1. PICK m \in Mtimes : stat' = [stat EXCEPT ![t] = m] /\ MaxMtime(key[t], m)
    BY <1>6 DEF Miss
  <2>2. key[t] \in Keys
    BY <1>6, <1>types DEF Miss, HasKey
  <2>3. m <= clock
    BY <1>types, <2>1, <2>2, CacheAssumption DEF MaxMtime, HitInv
  <2>4. Same /\ \A u \in Threads \ {t} : Unmoved(u)
    BY <1>6, <1>types, <2>1 DEF Miss, TypeOK, disk, task, ghost
  <2>5. Fine(t)'
    BY <1>6, <1>types, <1>fine, <2>1, <2>3 DEF Miss, TypeOK, Fine
  <2> QED
    BY <1>same, <1>unmoved, <2>4, <2>5
<1>7. ASSUME NEW t \in Threads, Compute(t) PROVE HitInv'
  <2>1. key[t] \in Keys
    BY <1>7, <1>types DEF Compute, HasKey
  <2>2. Same /\ \A u \in Threads \ {t} : Unmoved(u)
    BY <1>7, <1>types DEF Compute, TypeOK, disk, task, ghost
  <2>3. /\ seen'[t] = View(key[t]) /\ pc'[t] = "stamp"
        /\ UNCHANGED <<clock, files, key, stat, now>>
    BY <1>7, <1>types DEF Compute, TypeOK, task
  <2>4. \A f \in Reads[key[t]] : View(key[t])[f] = files[f]
    BY <2>1, CacheAssumption DEF View
  <2>5. Fine(t)'
    BY <1>fine, <2>3, <2>4 DEF Fine, Knows
  <2> QED
    BY <1>same, <1>unmoved, <2>2, <2>5
<1>8. ASSUME NEW t \in Threads, Stamp(t) PROVE HitInv'
  <2>1. Same /\ \A u \in Threads \ {t} : Unmoved(u)
    BY <1>8, <1>types DEF Stamp, TypeOK, disk, task, ghost
  <2>2. /\ now'[t] \in {0, clock} /\ pc[t] = "stamp" /\ pc'[t] = "save"
        /\ UNCHANGED <<clock, files, key, stat, seen>>
    BY <1>8, <1>types DEF Stamp, TypeOK, task
  <2>3. Fine(t)'
    BY <1>types, <1>fine, <2>2 DEF Fine, Knows
  <2> QED
    BY <1>same, <1>unmoved, <2>1, <2>3
<1>9. ASSUME NEW t \in Threads, BeginWrite(t) PROVE HitInv'
  <2>1. Same /\ \A u \in Threads \ {t} : Unmoved(u)
    BY <1>9, <1>types DEF BeginWrite, TypeOK, task, local, ghost
  <2>2. /\ pc[t] = "save" /\ pc'[t] = "writing"
        /\ UNCHANGED <<clock, files, key, stat, seen, now>>
    BY <1>9, <1>types DEF BeginWrite, TypeOK, task, local
  <2>3. Fine(t)'
    BY <1>fine, <2>2 DEF Fine, Knows
  <2> QED
    BY <1>same, <1>unmoved, <2>1, <2>3
<1>10. ASSUME NEW t \in Threads, EndWrite(t) PROVE HitInv'
  <2>1. pc[t] = "writing" /\ fresh = entry /\ entry' = Updated(t)
    BY <1>10, <1>types DEF EndWrite, WriteInv
  <2>2. /\ guessed' = {k \in Keys : IF k = key[t] THEN stat[t] = 0 ELSE k \in guessed \ bust[t]}
        /\ UNCHANGED <<clock, files, key, stat, seen, now>>
    BY <1>10 DEF EndWrite, task, local
  <2>3. PICK p \in {"announce", "recompute"} : pc' = [pc EXCEPT ![t] = p]
    BY <1>10 DEF EndWrite
  <2>4. \A u \in Threads : Fine(u)'
    <3>1. \A u \in Threads : pc'[u] = IF u = t THEN p ELSE pc[u]
      BY <1>types, <2>3 DEF TypeOK
    <3> QED
      BY <1>fine, <2>2, <3>1 DEF Fine, Knows
  <2>5. Fine(t) /\ stat[t] \in Int /\ now[t] \in Int /\ 0 <= stat[t]
    BY <1>types, <1>fine DEF TypeOK, Mtimes
  <2>6. ASSUME NEW k \in Keys
        PROVE  /\ entry'[k].mtime <= clock'
               /\ k \notin guessed' /\ entry'[k].mtime # 0
                    => Knows(k, entry'[k].mtime, entry'[k].data)
    <3>1. CASE k = key[t]
      <4>1. entry'[k] = [mtime |-> SavedMtime(t), data |-> seen[t]]
        BY <2>1, <3>1 DEF Updated
      <4>2. SavedMtime(t) <= clock /\ (k \notin guessed' => SavedMtime(t) = stat[t])
        BY <2>2, <2>5, <3>1 DEF SavedMtime, Fine
      <4>3. key[t] # NoOne
        BY <1>types, <3>1
      <4>4. Knows(k, stat[t], seen[t])
        BY <2>1, <2>5, <3>1, <4>3 DEF Fine
      <4>5. entry'[k].mtime = SavedMtime(t) /\ entry'[k].data = seen[t]
        BY <4>1
      <4> QED
        BY <2>2, <4>2, <4>4, <4>5
    <3>2. CASE k # key[t] /\ k \in bust[t]
      <4>1. entry'[k].mtime = 0
        BY <2>1, <3>2 DEF Updated, NoEntry
      <4> QED
        BY <1>types, <2>2, <4>1
    <3>3. CASE k # key[t] /\ k \notin bust[t]
      <4>1. entry'[k] = entry[k]
        BY <2>1, <3>3 DEF Updated
      <4>2. k \notin guessed' => k \notin guessed
        BY <2>2, <3>3
      <4> QED
        BY <2>2, <4>1, <4>2 DEF HitInv
    <3> QED
      BY <3>1, <3>2, <3>3
  <2>7. \A k \in Keys \ guessed' :
           entry'[k].mtime # 0 => Knows(k, entry[k].mtime, entry[k].data)'
    BY <2>2, <2>6 DEF Knows
  <2>8. \A k \in Keys : entry'[k].mtime <= clock'
    BY <2>6
  <2>9. \A f \in Files : files'[f] <= clock'
    BY <2>2 DEF HitInv
  <2> QED
    BY <2>4, <2>7, <2>8, <2>9 DEF HitInv, Fine
<1>11. ASSUME NEW t \in Threads, NothingToBust(t) PROVE HitInv'
  <2>1. Same /\ \A u \in Threads \ {t} : Unmoved(u)
    BY <1>11, <1>types DEF NothingToBust, TypeOK, disk, task, local
  <2>2. pc'[t] = "recompute" /\ UNCHANGED <<clock, stat, now>>
    BY <1>11, <1>types DEF NothingToBust, TypeOK, local
  <2>3. Fine(t)'
    BY <1>fine, <2>2 DEF Fine
  <2> QED
    BY <1>same, <1>unmoved, <2>1, <2>3
<1>12. ASSUME NEW t \in Threads, Recompute(t) PROVE HitInv'
  <2>1. /\ Same /\ UNCHANGED <<key, stat, seen, now>>
        /\ \/ pc' = [pc EXCEPT ![t] = "done"]
           \/ pc' = [pc EXCEPT ![t] = "done", ![Worker] = "next"]
    BY <1>12 DEF Recompute, disk, local, ghost
  <2>2. \A u \in Threads : pc'[u] \in {pc[u], "done", "next"}
    BY <1>types, <2>1 DEF TypeOK
  <2>3. \A u \in Threads : Fine(u)'
    BY <1>fine, <2>1, <2>2 DEF Fine, Knows
  <2> QED
    BY <1>same, <2>1, <2>3
<1>13. CASE WorkerNext
  <2>1. /\ Same /\ UNCHANGED <<stat, seen, now>>
        /\ \/ pc' = [pc EXCEPT ![Worker] = "done"] /\ key' = key
           \/ \E k \in todo : /\ pc' = [pc EXCEPT ![Worker] = "lock"]
                              /\ key' = [key EXCEPT ![Worker] = k]
    BY <1>13 DEF WorkerNext, disk, local, ghost
  <2>2. \A u \in Threads : \/ pc'[u] = pc[u] /\ key'[u] = key[u]
                           \/ pc'[u] \in {"done", "lock"}
    BY <1>types, <2>1 DEF TypeOK
  <2>3. \A u \in Threads : Fine(u)'
    BY <1>fine, <2>1, <2>2 DEF Fine, Knows
  <2> QED
    BY <1>same, <2>1, <2>3
<1>14. CASE Poll
  <2>1. Same /\ \A u \in Threads : Unmoved(u)
    BY <1>14 DEF Poll, PollLoad, PollKey, disk, task, local, ghost
  <2> QED
    BY <1>same, <1>unmoved, <2>1
<1>15. CASE Restart
  <2>1. /\ UNCHANGED <<clock, files, guessed>> /\ entry' \in {entry, EmptyCache}
        /\ \A t \in Threads : /\ stat'[t] = 0 /\ now'[t] = 0 /\ key'[t] = NoOne
    BY <1>15 DEF Restart, Disk
  <2>2. ASSUME NEW k \in Keys
        PROVE  /\ entry'[k].mtime <= clock'
               /\ k \notin guessed' /\ entry'[k].mtime # 0
                    => Knows(k, entry'[k].mtime, entry'[k].data)
    <3>1. CASE entry' = entry
      BY <2>1, <3>1 DEF HitInv
    <3>2. CASE entry' = EmptyCache
      <4>1. entry'[k].mtime = 0
        BY <3>2 DEF EmptyCache, NoEntry
      <4> QED
        BY <1>types, <2>1, <4>1
    <3> QED
      BY <2>1, <3>1, <3>2
  <2>3. \A k \in Keys \ guessed' :
           entry'[k].mtime # 0 => Knows(k, entry[k].mtime, entry[k].data)'
    BY <2>1, <2>2 DEF Knows
  <2>4. \A k \in Keys : entry'[k].mtime <= clock'
    BY <2>2
  <2>5. /\ \A f \in Files : files'[f] <= clock'
        /\ \A t \in Threads : stat'[t] <= clock' /\ now'[t] <= clock'
    BY <1>types, <2>1 DEF HitInv
  <2> QED
    BY <2>1, <2>3, <2>4, <2>5 DEF HitInv
<1>16. CASE UNCHANGED vars
  <2>1. Same /\ \A u \in Threads : Unmoved(u)
    BY <1>16 DEF vars, disk, task, local, ghost
  <2> QED
    BY <1>same, <1>unmoved, <2>1
<1>17. ASSUME NEW t \in Threads, SaveFails(t) PROVE HitInv'
  <2>1. Return(t)
    BY <1>17 DEF SaveFails
  <2>2. /\ UNCHANGED <<clock, files>>
        /\ \A u \in Threads \ {t} : Unmoved(u)
        /\ stat'[t] = 0 /\ now'[t] = 0 /\ pc'[t] \in {"next", "done"}
    BY <2>1, <1>types DEF Return, TypeOK
  <2>3. CASE UNCHANGED <<disk, guessed>>
    <3>1. Same
      BY <2>2, <2>3 DEF disk
    <3>2. Fine(t)'
      BY <2>2, <1>types DEF Fine
    <3> QED
      BY <1>same, <1>unmoved, <2>2, <3>1, <3>2
  <2>4. CASE entry' = EmptyCache
    <3>1. \A k \in Keys : entry'[k].mtime = 0
      BY <2>4 DEF EmptyCache, NoEntry
    <3>2. \A u \in Threads : Fine(u)'
      BY <1>fine, <1>types, <2>2 DEF Fine, Knows
    <3> QED
      BY <1>types, <2>2, <3>1, <3>2 DEF HitInv, Fine
  <2> QED
    BY <1>17, <2>3, <2>4 DEF SaveFails
<1> HIDE DEF Same, Unmoved
<1> QED
  BY <1>1, <1>2, <1>3, <1>4, <1>5, <1>6, <1>7, <1>8, <1>9, <1>10, <1>11, <1>12, <1>13, <1>14,
     <1>15, <1>16, <1>17
  DEF Next, ThreadStep

LEMMA InitHits == Init => HitInv
<1> SUFFICES ASSUME Init PROVE HitInv
  OBVIOUS
<1>1. /\ clock = 1 /\ \A f \in Files : files[f] \in {0, 1}
      /\ \A k \in Keys : entry[k].mtime = 0
      /\ \A t \in Threads : /\ stat[t] = 0 /\ now[t] = 0 /\ key[t] = NoOne
                            /\ pc[t] \in {"new", "done"}
  BY DEF Init, EmptyCache, NoEntry
<1> QED
  BY <1>1 DEF HitInv

\* What a request is served from the cache is what the compute function would
\* find now in the files the card watches, whatever it reads besides, for any
\* keys, files, threads, edits, failing saves and restarts.
THEOREM CurrentHits == Spec => []HitsAreCurrent
<1>1. HitInv /\ TypeOK => HitsAreCurrent
  <2> SUFFICES ASSUME HitInv, TypeOK, NEW k \in Keys \ guessed, entry[k].mtime # 0,
                      ~NewerThan(k, entry[k].mtime), NEW f \in Reads[k] \cap Watch[k]
               PROVE  entry[k].data[f] = files[f] \/ files[f] = 0
    BY DEF HitsAreCurrent
  <2>1. f \in Watch[k] /\ f \in Files
    BY CacheAssumption
  <2>2. entry[k].mtime \in Int /\ files[f] \in Int
    BY <2>1 DEF TypeOK, Entry, Mtimes
  <2>3. files[f] <= entry[k].mtime
    BY <2>1, <2>2 DEF NewerThan
  <2> QED
    BY <2>3 DEF HitInv, Knows
<1>2. Spec => []HitInv
  BY InitHits, HitStep, WritersHold, PTL DEF Spec
<1> QED
  BY <1>1, <1>2, TypeCorrect, PTL
(***************************************************************************)
(* The locks of the keys                                                   *)
(***************************************************************************)

\* A thread is asked for a card or for an invalidation, not both, and is free
\* of either when it is through; the lock of a key is held by the thread that
\* is past taking it, and by no other.
LockInv ==
    /\ \A t \in Threads :
          /\ pc[t] \in {"new", "recompute", "next", "done"} => key[t] = NoOne
          /\ bust[t] # {} => pc[t] \in {"save", "writing", "recompute"} /\ key[t] = NoOne
    /\ \A k \in Keys : \A t \in Threads :
          keyLock[k] = t <=> key[t] = k /\ pc[t] # "lock"

\* A step of one thread, inside get_cached or out of it, that leaves the locks
\* alone.
LEMMA MoveLocks ==
    ASSUME LockInv, TypeOK, NEW t \in Threads, NEW p, keyLock' = keyLock,
           pc' = [pc EXCEPT ![t] = p], key' = key, bust' = bust,
           pc[t] # "lock", p # "lock",
           p \in {"new", "recompute", "next", "done"} => key[t] = NoOne,
           bust[t] # {} => p \in {"save", "writing", "recompute"}
    PROVE  LockInv'
<1>1. \A u \in Threads : pc'[u] = IF u = t THEN p ELSE pc[u]
  BY DEF TypeOK
<1>. QED BY <1>1 DEF LockInv

\* Whoever comes back gives the lock back.
LEMMA ReturnLocks ==
    ASSUME LockInv, TypeInv, NEW t \in Threads, Return(t), pc[t] # "lock"
    PROVE  LockInv'
<1>1. NoOne \notin Keys /\ NoOne \notin Threads
  BY Constants
<1>2. PICK p \in {"next", "done"} : pc' = [pc EXCEPT ![t] = p]
  BY DEF Return
<1>3. \A u \in Threads : /\ pc'[u] = IF u = t THEN p ELSE pc[u]
                         /\ key'[u] = IF u = t THEN NoOne ELSE key[u]
                         /\ bust'[u] = IF u = t THEN {} ELSE bust[u]
  BY <1>2 DEF Return, TypeInv, TypeOK
<1>4. \A k \in Keys : keyLock'[k] = IF k = key[t] THEN NoOne ELSE keyLock[k]
  BY DEF Return
<1>5. \A k \in Keys : k = key[t] => keyLock[k] = t
  BY DEF LockInv
<1>7. ASSUME NEW k \in Keys, NEW u \in Threads
      PROVE  keyLock'[k] = u <=> key'[u] = k /\ pc'[u] # "lock"
  <2>1. /\ keyLock[k] = u <=> key[u] = k /\ pc[u] # "lock"
        /\ keyLock[k] = t <=> key[t] = k
    BY DEF LockInv
  <2>. QED BY <1>1, <1>3, <1>4, <1>5, <2>1
<1>8. ASSUME NEW u \in Threads
      PROVE  /\ pc'[u] \in {"new", "recompute", "next", "done"} => key'[u] = NoOne
             /\ bust'[u] # {} =>
                   pc'[u] \in {"save", "writing", "recompute"} /\ key'[u] = NoOne
  BY <1>1, <1>3 DEF LockInv
<1>. QED BY <1>7, <1>8 DEF LockInv

\* Every action keeps the discipline of the locks.
LEMMA LockStep == LockInv /\ TypeInv /\ [Next]_vars => LockInv'
<1> SUFFICES ASSUME LockInv, TypeInv, [Next]_vars PROVE LockInv'
  OBVIOUS
<1>types. TypeOK /\ HasKey /\ NoOne \notin Threads /\ NoOne \notin Keys /\ Worker \in Threads
  BY Constants DEF TypeInv
<1>quiet. UNCHANGED <<keyLock, pc, key, bust>> => LockInv'
  BY DEF LockInv
<1>1. ASSUME NEW f \in Files, Touch(f) \/ Remove(f) PROVE LockInv'
  BY <1>1, <1>quiet DEF Touch, Remove, task
<1>2. ASSUME NEW t \in Threads, NEW k \in Keys, Ask(t, k) PROVE LockInv'
  <2>1. /\ pc[t] = "new" /\ keyLock' = keyLock /\ bust' = bust
        /\ \A u \in Threads : /\ pc'[u] = IF u = t THEN "lock" ELSE pc[u]
                              /\ key'[u] = IF u = t THEN k ELSE key[u]
    BY <1>2, <1>types DEF Ask, TypeOK
  <2>2. key[t] = NoOne /\ bust[t] = {}
    BY <2>1 DEF LockInv
  <2>. QED BY <1>types, <2>1, <2>2 DEF LockInv
<1>3. ASSUME NEW t \in Threads, NEW ks \in SUBSET Keys, AskBust(t, ks) PROVE LockInv'
  <2>1. /\ pc[t] = "new" /\ keyLock' = keyLock /\ key' = key
        /\ \A u \in Threads : /\ pc'[u] = IF u = t THEN "save" ELSE pc[u]
                              /\ bust'[u] = IF u = t THEN ks ELSE bust[u]
    BY <1>3, <1>types DEF AskBust, TypeOK
  <2>. QED BY <1>types, <2>1 DEF LockInv
<1>4. ASSUME NEW t \in Threads, Lock(t) PROVE LockInv'
  <2>1. /\ pc[t] = "lock" /\ keyLock[key[t]] = NoOne /\ key' = key /\ bust' = bust
        /\ \A u \in Threads : pc'[u] = IF u = t THEN "load" ELSE pc[u]
    BY <1>4, <1>types DEF Lock, TypeOK, task
  <2>2. \A k \in Keys : keyLock'[k] = IF k = key[t] THEN t ELSE keyLock[k]
    BY <1>4, <1>types DEF Lock, TypeOK
  <2>3. bust[t] = {}
    BY <2>1 DEF LockInv
  <2>4. ASSUME NEW k \in Keys, NEW u \in Threads
        PROVE  keyLock'[k] = u <=> key'[u] = k /\ pc'[u] # "lock"
    <3>1. /\ keyLock[k] = u <=> key[u] = k /\ pc[u] # "lock"
          /\ keyLock[key[t]] # u
      BY <1>types, <2>1 DEF LockInv
    <3>. QED BY <2>1, <2>2, <3>1
  <2>5. ASSUME NEW u \in Threads
        PROVE  /\ pc'[u] \in {"new", "recompute", "next", "done"} => key'[u] = NoOne
               /\ bust'[u] # {} =>
                     pc'[u] \in {"save", "writing", "recompute"} /\ key'[u] = NoOne
    BY <2>1, <2>3 DEF LockInv
  <2>. QED BY <2>4, <2>5 DEF LockInv
<1>5. ASSUME NEW t \in Threads, Load(t) \/ Miss(t) \/ Compute(t) \/ Stamp(t) PROVE LockInv'
  <2>1. PICK p \in {"stat", "compute", "stamp", "save"} :
            /\ pc' = [pc EXCEPT ![t] = p] /\ UNCHANGED <<keyLock, key, bust>>
            /\ pc[t] \in {"load", "stat", "compute", "stamp"}
    BY <1>5 DEF Load, Miss, Compute, Stamp, task
  <2>2. bust[t] = {}
    BY <2>1 DEF LockInv
  <2>. QED BY <1>types, <2>1, <2>2, MoveLocks
<1>6. ASSUME NEW t \in Threads, Hit(t) \/ ComputeFails(t) \/ SaveFails(t) \/ Announce(t)
      PROVE  LockInv'
  <2>1. Return(t) /\ pc[t] # "lock"
    BY <1>6 DEF Hit, ComputeFails, SaveFails, Announce, Leave
  <2>. QED BY <2>1, ReturnLocks
<1>7. ASSUME NEW t \in Threads, BeginWrite(t) PROVE LockInv'
  BY <1>7, <1>types, MoveLocks DEF BeginWrite, task
<1>8. ASSUME NEW t \in Threads, EndWrite(t) PROVE LockInv'
  <2>1. /\ pc[t] = "writing" /\ UNCHANGED <<keyLock, key, bust>>
        /\ pc' = [pc EXCEPT ![t] = IF key[t] # NoOne THEN "announce" ELSE "recompute"]
    BY <1>8 DEF EndWrite, task
  <2>2. key[t] # NoOne => bust[t] = {}
    BY DEF LockInv
  <2>3. CASE key[t] # NoOne
    BY <1>types, <2>1, <2>2, <2>3, MoveLocks
  <2>4. CASE key[t] = NoOne
    BY <1>types, <2>1, <2>4, MoveLocks
  <2>. QED BY <2>3, <2>4
<1>9. ASSUME NEW t \in Threads, NothingToBust(t) PROVE LockInv'
  <2>1. key[t] = NoOne
    BY <1>9 DEF NothingToBust, LockInv
  <2>. QED BY <1>9, <1>types, <2>1, MoveLocks DEF NothingToBust, task
<1>10. ASSUME NEW t \in Threads, Recompute(t) PROVE LockInv'
  <2>1. /\ pc[t] = "recompute" /\ keyLock' = keyLock /\ key' = key
        /\ \A u \in Threads : bust'[u] = IF u = t THEN {} ELSE bust[u]
    BY <1>10, <1>types DEF Recompute, TypeOK
  <2>2. \A u \in Threads :
            \/ pc'[u] = pc[u]
            \/ pc'[u] \in {"done", "next"} /\ pc[u] \in {"recompute", "done"}
    <3>1. \/ pc' = [pc EXCEPT ![t] = "done"]
          \/ pc[Worker] = "done" /\ pc' = [pc EXCEPT ![t] = "done", ![Worker] = "next"]
      BY <1>10 DEF Recompute
    <3>2. CASE pc' = [pc EXCEPT ![t] = "done"]
      BY <1>types, <2>1, <3>2 DEF TypeOK
    <3>3. CASE pc[Worker] = "done" /\ pc' = [pc EXCEPT ![t] = "done", ![Worker] = "next"]
      <4>1. t # Worker
        BY <2>1, <3>3
      <4>2. \A u \in Threads : pc'[u] = IF u = t THEN "done"
                                      ELSE IF u = Worker THEN "next" ELSE pc[u]
        BY <1>types, <3>3, <4>1 DEF TypeOK
      <4>. QED BY <2>1, <3>3, <4>2
    <3>. QED BY <3>1, <3>2, <3>3
  <2>3. \A u \in Threads : pc'[u] # pc[u] =>
            key[u] = NoOne /\ (u # t => bust[u] = {})
    <3>1. \A u \in Threads : u # t => pc'[u] = pc[u] \/ pc[u] = "done"
      BY <1>10, <1>types DEF Recompute, TypeOK
    <3>. QED BY <2>2, <3>1 DEF LockInv
  <2>4. ASSUME NEW u \in Threads
        PROVE  /\ pc'[u] \in {"new", "recompute", "next", "done"} => key'[u] = NoOne
               /\ bust'[u] # {} =>
                     pc'[u] \in {"save", "writing", "recompute"} /\ key'[u] = NoOne
    BY <2>1, <2>3 DEF LockInv
  <2>5. ASSUME NEW k \in Keys, NEW u \in Threads
        PROVE  keyLock'[k] = u <=> key'[u] = k /\ pc'[u] # "lock"
    BY <1>types, <2>1, <2>2, <2>3 DEF LockInv
  <2>. QED BY <2>4, <2>5 DEF LockInv
<1>11. CASE WorkerNext
  <2>1. pc[Worker] = "next" /\ keyLock' = keyLock /\ bust' = bust
    BY <1>11 DEF WorkerNext
  <2>2. key[Worker] = NoOne /\ bust[Worker] = {}
    BY <1>types, <2>1 DEF LockInv
  <2>3. CASE pc' = [pc EXCEPT ![Worker] = "done"] /\ key' = key
    BY <1>types, <2>1, <2>2, <2>3, MoveLocks
  <2>4. CASE /\ pc' = [pc EXCEPT ![Worker] = "lock"]
             /\ \E k \in Keys : key' = [key EXCEPT ![Worker] = k]
    <3>1. PICK k \in Keys : key' = [key EXCEPT ![Worker] = k]
      BY <2>4
    <3>2. \A u \in Threads : /\ pc'[u] = IF u = Worker THEN "lock" ELSE pc[u]
                             /\ key'[u] = IF u = Worker THEN k ELSE key[u]
      BY <1>types, <2>4, <3>1 DEF TypeOK
    <3>. QED BY <1>types, <2>1, <2>2, <3>2 DEF LockInv
  <2>. QED BY <1>11, <1>types, <2>3, <2>4 DEF WorkerNext, TypeOK
<1>12. CASE Poll
  BY <1>12, <1>quiet DEF Poll, PollLoad, PollKey, task
<1>13. CASE Restart
  <2>1. /\ \A k \in Keys : keyLock'[k] = NoOne
        /\ \A t \in Threads : key'[t] = NoOne /\ bust'[t] = {}
    BY <1>13 DEF Restart
  <2>. QED BY <1>types, <2>1 DEF LockInv
<1>14. CASE UNCHANGED vars
  BY <1>14, <1>quiet DEF vars, task
<1>. QED
  BY <1>1, <1>2, <1>3, <1>4, <1>5, <1>6, <1>7, <1>8, <1>9, <1>10, <1>11, <1>12, <1>13, <1>14
  DEF Next, ThreadStep

\* The discipline holds in every reachable state.
LEMMA LocksHold == Spec => []LockInv
<1>1. Init => LockInv
  BY Constants DEF Init, LockInv
<1>. QED BY <1>1, LockStep, NextTypes, InitTypes, PTL DEF Spec

\* Between the lock of a key and its release.
Served == {"load", "stat", "compute", "stamp", "save", "writing", "announce"}

\* For any number of threads and cards: two threads are never at the same card
\* at the same time, so that no card is computed twice over (cache.py:29).
THEOREM OneThreadPerCard ==
    Spec => [](\A t, u \in Threads :
                  /\ pc[t] \in Served /\ pc[u] \in Served
                  /\ key[t] \in Keys /\ key[t] = key[u]
                  => t = u)
<1>1. LockInv => \A t, u \in Threads :
                    /\ pc[t] \in Served /\ pc[u] \in Served
                    /\ key[t] \in Keys /\ key[t] = key[u]
                    => t = u
  BY DEF LockInv, Served
<1>. QED BY <1>1, LocksHold, PTL

\* Who a thread can be waiting for: for the lock of a card, one that is at work
\* on it; for the file, one that is about to close it.
WaitsEnd ==
    /\ \A t \in Threads : pc[t] = "lock" /\ keyLock[key[t]] # NoOne =>
          \E h \in Threads : keyLock[key[t]] = h /\ pc[h] \in Served
    /\ fileLock # NoOne => \E h \in Threads : fileLock = h /\ pc[h] = "writing"

\* For any number of threads and cards: nobody waits in a circle.  Who waits
\* for a card waits for a thread that has its lock and waits for the file at
\* most, and who has the file waits for nobody (cache.py:337, 384).
THEOREM NoCircularWait == Spec => []WaitsEnd
<1>1. LockInv /\ OneWriter => WaitsEnd
  <2> SUFFICES ASSUME LockInv, OneWriter PROVE WaitsEnd
    OBVIOUS
  <2>0. TypeOK /\ HasKey /\ WriteInv
    BY DEF OneWriter, TypeInv
  <2>1. ASSUME NEW t \in Threads, pc[t] = "lock", keyLock[key[t]] # NoOne
        PROVE  \E h \in Threads : keyLock[key[t]] = h /\ pc[h] \in Served
    <3>1. key[t] \in Keys
      BY <2>0, <2>1 DEF HasKey
    <3>2. PICK h \in Threads : keyLock[key[t]] = h
      BY <2>0, <2>1, <3>1 DEF TypeOK
    <3>3. key[h] = key[t] /\ pc[h] # "lock" /\ key[h] # NoOne
      BY <3>1, <3>2, Constants DEF LockInv
    <3>4. pc[h] \in Served
      BY <2>0, <3>3 DEF LockInv, TypeOK, PCs, Served
    <3>. QED BY <3>2, <3>4
  <2>2. fileLock # NoOne => \E h \in Threads : fileLock = h /\ pc[h] = "writing"
    BY <2>0 DEF TypeOK, WriteInv
  <2>. QED BY <2>1, <2>2 DEF WaitsEnd
<1>. QED BY <1>1, LocksHold, WritersHold, PTL
(***************************************************************************)
(* What the watcher owes to the browsers                                   *)
(***************************************************************************)

\* A file of that mtime has been announced for k, and no browser shows it.
Announced(k, m) == m = lastStale[k] /\ m # 0 /\ ~badge[k]

\* What was announced and taken back by cache:done is in the entry, unless the
\* entry was overtaken.
Settled(k) ==
    /\ lastStale[k] <= clock
    /\ \A f \in Watch[k] :
          Announced(k, files[f]) /\ ~overtaken[k]
              => entry[k].mtime = 0 \/ entry[k].mtime >= files[f]

Making == {"compute", "stamp", "save", "writing"}

\* So is what a thread is about to save; what it is about to announce is what
\* it has saved, or has been invalidated since.
SettledBy(t) ==
    /\ pc[t] \in Making /\ key[t] # NoOne =>
          \A f \in Watch[key[t]] : Announced(key[t], files[f]) => files[f] <= stat[t]
    /\ pc[t] = "announce" => entry[key[t]].mtime \in {0, SavedMtime(t)}

DueInv ==
    /\ \A k \in Keys : Settled(k)
    /\ \A t \in Threads : SettledBy(t)

\* Who is at a card now was at it before.
GoesOn(t) ==
    /\ pc'[t] \in Making /\ key'[t] # NoOne =>
          pc[t] \in Making /\ key'[t] = key[t] /\ stat'[t] = stat[t]
    /\ pc'[t] = "announce" =>
          pc[t] = "announce" /\ key'[t] = key[t] /\ stat'[t] = stat[t] /\ now'[t] = now[t]

\* Nothing becomes unsettled by steps that write no entry and take no mark back.
LEMMA NothingNew ==
    ASSUME DueInv, TypeOK, HasKey, NEW t \in Threads, GoesOn(t), UNCHANGED entry,
           \A k \in Keys : \A f \in Watch[k] :
              Announced(k, files[f])' => Announced(k, files[f]) /\ files'[f] = files[f]
    PROVE  SettledBy(t)'
<1>1. SettledBy(t) /\ key[t] \in Keys \cup {NoOne}
  BY DEF DueInv, TypeOK
<1>2. ASSUME pc'[t] \in Making, key'[t] # NoOne
      PROVE  (\A f \in Watch[key[t]] :
                 Announced(key[t], files[f]) => files[f] <= stat[t])'
  <2>1. pc[t] \in Making /\ stat'[t] = stat[t] /\ key'[t] = key[t] /\ key[t] \in Keys
    BY <1>1, <1>2 DEF GoesOn
  <2>2. PICK k \in Keys : k = key[t]
    BY <2>1
  <2>3. \A f \in Watch[k] : Announced(k, files[f]) => files[f] <= stat[t]
    BY <1>1, <1>2, <2>1, <2>2 DEF SettledBy
  <2>4. \A f \in Watch[k] : Announced(k, files[f])' => files'[f] <= stat'[t]
    BY <2>1, <2>3
  <2>. QED BY <2>1, <2>2, <2>4 DEF Announced
<1>3. ASSUME pc'[t] = "announce"
      PROVE  entry'[key'[t]].mtime \in {0, SavedMtime(t)'}
  BY <1>1, <1>3 DEF GoesOn, SettledBy, SavedMtime
<1>. QED BY <1>2, <1>3 DEF SettledBy

\* A step that touches neither entries nor marks keeps all settled.
LEMMA ThreadGoesOn ==
    ASSUME DueInv, TypeOK, HasKey, \A t \in Threads : GoesOn(t),
           UNCHANGED <<clock, files, entry, lastStale, badge, overtaken>>
    PROVE  DueInv'
<1>1. \A k \in Keys : Settled(k)'
  BY DEF DueInv, Settled, Announced
<1>2. \A k \in Keys : \A f \in Watch[k] :
         Announced(k, files[f])' => Announced(k, files[f]) /\ files'[f] = files[f]
  BY DEF Announced
<1>3. \A t \in Threads : SettledBy(t)'
  BY <1>2, NothingNew
<1>. QED BY <1>1, <1>3 DEF DueInv
\* The files change, or the watcher looks: nothing is announced that was not,
\* but with a mark.
LEMMA WatchedChange ==
    ASSUME DueInv, TypeOK, HasKey, HitInv,
           (\E f \in Files : Touch(f) \/ Remove(f)) \/ (\E k \in Keys : PollKey(k))
    PROVE  DueInv'
<1>types. /\ clock \in Int /\ Mtimes \subseteq Int
          /\ lastStale \in [Keys -> Mtimes] /\ files \in [Files -> Mtimes]
          /\ badge \in [Keys -> BOOLEAN]
          /\ \A k \in Keys : Watch[k] \subseteq Files /\ lastStale[k] <= clock
          /\ \A f \in Files : files[f] <= clock
  BY CacheAssumption DEF TypeOK, Mtimes, HitInv, DueInv, Settled
<1>0. UNCHANGED <<entry, pc, key, stat, now, overtaken>>
  BY DEF Touch, Remove, PollKey, disk, task, local, ghost
<1>1. ASSUME NEW f \in Files, Touch(f) \/ Remove(f)
      PROVE  /\ UNCHANGED <<lastStale, badge>> /\ clock' \in Int /\ clock' >= clock
             /\ \A g \in Files : files'[g] \in {files[g], 0, clock + 1}
  BY <1>1, <1>types DEF Touch, Remove, watcher
<1>2. ASSUME NEW k \in Keys, PollKey(k)
      PROVE  /\ UNCHANGED <<clock, files>>
             /\ \A i \in Keys :
                   /\ \/ lastStale'[i] = lastStale[i] \/ lastStale'[i] = 0
                      \/ badge'[i] /\ lastStale'[i] <= clock
                   /\ badge[i] => badge'[i]
  <2>1. PICK m \in Mtimes :
            /\ MaxMtime(k, m)
            /\ \/ UNCHANGED <<lastStale, badge>>
               \/ lastStale' = [lastStale EXCEPT ![k] = 0] /\ UNCHANGED badge
               \/ /\ lastStale' = [lastStale EXCEPT ![k] = m]
                  /\ badge' = [badge EXCEPT ![k] = badge[k] \/ lastStale[k] # m]
    BY <1>2 DEF PollKey
  <2>2. m <= clock
    <3>1. 0 <= clock
      BY <1>types DEF TypeOK
    <3>. QED BY <1>types, <2>1, <3>1 DEF MaxMtime
  <2>3. CASE /\ lastStale' = [lastStale EXCEPT ![k] = m]
             /\ badge' = [badge EXCEPT ![k] = badge[k] \/ lastStale[k] # m]
    <3>1. \A i \in Keys : i # k => lastStale'[i] = lastStale[i] /\ badge'[i] = badge[i]
      BY <1>types, <2>3
    <3>2. lastStale'[k] = m
      BY <1>types, <2>3
    <3>3. badge'[k] = (badge[k] \/ lastStale[k] # m)
      BY <1>types, <2>3, Zenon
    <3>. QED BY <1>2, <2>2, <3>1, <3>2, <3>3 DEF PollKey
  <2>4. CASE \/ UNCHANGED <<lastStale, badge>>
             \/ lastStale' = [lastStale EXCEPT ![k] = 0] /\ UNCHANGED badge
    BY <1>2, <1>types, <2>4 DEF PollKey
  <2>. QED BY <2>1, <2>3, <2>4
<1>3. \A k \in Keys : \A f \in Watch[k] :
         Announced(k, files[f])' => Announced(k, files[f]) /\ files'[f] = files[f]
  <2> SUFFICES ASSUME NEW k \in Keys, NEW f \in Files, Announced(k, files[f])'
               PROVE  Announced(k, files[f]) /\ files'[f] = files[f]
    BY <1>types
  <2>1. CASE \E g \in Files : Touch(g) \/ Remove(g)
    <3>1. /\ UNCHANGED <<lastStale, badge>> /\ lastStale[k] <= clock /\ lastStale[k] \in Int
          /\ files'[f] \in {files[f], 0, clock + 1}
      BY <1>1, <1>types, <2>1
    <3>2. files'[f] = lastStale[k] /\ files'[f] # 0 /\ ~badge[k]
      BY <3>1 DEF Announced
    <3>. QED BY <1>types, <3>1, <3>2 DEF Announced
  <2>2. CASE \E i \in Keys : PollKey(i)
    BY <1>2, <2>2 DEF Announced
  <2>. QED BY <2>1, <2>2
<1>4. \A k \in Keys : Settled(k)'
  <2> SUFFICES ASSUME NEW k \in Keys PROVE Settled(k)'
    OBVIOUS
  <2>1. lastStale'[k] <= clock'
    <3>1. CASE \E g \in Files : Touch(g) \/ Remove(g)
      <4>1. lastStale'[k] = lastStale[k] /\ clock' \in Int /\ clock' >= clock
        BY <1>1, <3>1
      <4>2. lastStale[k] \in Int /\ lastStale[k] <= clock
        BY <1>types
      <4>. QED BY <1>types, <4>1, <4>2
    <3>2. CASE \E i \in Keys : PollKey(i)
      <4>1. 0 <= clock
        BY <1>types DEF TypeOK
      <4>. QED BY <1>2, <1>types, <3>2, <4>1
    <3>. QED BY <3>1, <3>2
  <2>2. \A f \in Watch[k] : Announced(k, files[f])' /\ ~overtaken'[k]
            => entry'[k].mtime = 0 \/ entry'[k].mtime >= files'[f]
    BY <1>0, <1>3 DEF DueInv, Settled
  <2>. QED BY <2>1, <2>2 DEF Settled
<1>5. \A t \in Threads : SettledBy(t)'
  <2> SUFFICES ASSUME NEW t \in Threads PROVE SettledBy(t)'
    OBVIOUS
  <2>1. GoesOn(t)
    BY <1>0 DEF GoesOn
  <2>. QED BY <1>0, <1>3, <2>1, NothingNew
<1>. QED BY <1>4, <1>5 DEF DueInv

\* A save writes what is settled; nobody else is at that card.
LEMMA SaveSettles ==
    ASSUME DueInv, OneWriter, LockInv, NEW t \in Threads, EndWrite(t)
    PROVE  DueInv'
<1>types. TypeOK /\ HasKey /\ WriteInv /\ NoOne \notin Threads /\ NoOne \notin Keys
  BY Constants DEF OneWriter, TypeInv
<1>1. /\ pc[t] = "writing" /\ fresh = entry
      /\ UNCHANGED <<clock, files, key, stat, now, lastStale, badge, overtaken>>
      /\ \A u \in Threads : u # t => pc'[u] = pc[u]
      /\ pc'[t] \notin Making /\ (pc'[t] = "announce" => key[t] # NoOne)
  BY <1>types DEF EndWrite, TypeOK, WriteInv, task, local, watcher, Making
<1>2. \A k \in Keys : entry'[k].mtime =
          IF k = key[t] THEN SavedMtime(t)
          ELSE IF k \in bust[t] THEN 0 ELSE entry[k].mtime
  BY <1>1 DEF EndWrite, Updated, NoEntry
<1>3. ASSUME NEW k \in Keys PROVE Settled(k)'
  <2>1. CASE k = key[t]
    <3>1. ASSUME NEW f \in Watch[k], Announced(k, files[f])
          PROVE  SavedMtime(t) >= files[f]
      <4>1. files[f] <= stat[t] /\ files[f] # 0
        BY <1>types, <1>1, <2>1, <3>1 DEF DueInv, SettledBy, Making, Announced
      <4>2. files[f] \in Nat /\ stat[t] \in Nat
        BY <1>types, CacheAssumption DEF TypeOK, Mtimes
      <4>. QED BY <4>1, <4>2 DEF SavedMtime
    <3>2. entry'[k].mtime = SavedMtime(t)
      BY <1>2, <2>1
    <3>. QED BY <1>1, <3>1, <3>2 DEF DueInv, Settled, Announced
  <2>2. CASE k # key[t]
    BY <1>1, <1>2, <2>2 DEF DueInv, Settled, Announced
  <2>. QED BY <2>1, <2>2
<1>4. ASSUME NEW u \in Threads PROVE SettledBy(u)'
  <2>1. CASE u = t
    <3>1. pc'[t] = "announce" => entry'[key'[t]].mtime = SavedMtime(t)'
      <4>1. key[t] \in Keys \cup {NoOne}
        BY <1>types DEF TypeOK
      <4>. QED BY <1>1, <1>2, <4>1 DEF SavedMtime
    <3>. QED BY <1>1, <2>1, <3>1 DEF SettledBy
  <2>2. CASE u # t
    <3>1. SettledBy(u) /\ pc'[u] = pc[u]
      BY <1>1, <2>2 DEF DueInv
    <3>2. ASSUME pc[u] = "announce"
          PROVE  entry'[key[u]].mtime \in {0, SavedMtime(u)}
      <4>1. key[u] \in Keys
        BY <1>types, <3>2 DEF HasKey
      <4>2. key[u] # key[t]
        BY <1>1, <2>2, <3>2, <4>1 DEF LockInv
      <4>3. entry[key[u]].mtime \in {0, SavedMtime(u)}
        BY <3>1, <3>2 DEF SettledBy
      <4>. QED BY <1>2, <4>1, <4>2, <4>3
    <3>. QED BY <1>1, <3>1, <3>2 DEF SettledBy, Announced, SavedMtime
  <2>. QED BY <2>1, <2>2
<1>. QED BY <1>3, <1>4 DEF DueInv

\* What is announced as done is what was saved, or is marked as overtaken.
LEMMA DoneSettles ==
    ASSUME DueInv, TypeInv, LockInv, NEW t \in Threads, Announce(t)
    PROVE  DueInv'
<1>types. TypeOK /\ HasKey /\ NoOne \notin Threads /\ NoOne \notin Keys
  BY Constants DEF TypeInv
<1>1. PICK c \in Keys : c = key[t] /\ pc[t] = "announce"
  BY <1>types DEF Announce, HasKey
<1>2. /\ UNCHANGED <<clock, files, entry, lastStale>>
      /\ \A u \in Threads : u # t =>
            pc'[u] = pc[u] /\ key'[u] = key[u] /\ stat'[u] = stat[u] /\ now'[u] = now[u]
      /\ key'[t] = NoOne /\ pc'[t] # "announce"
  BY <1>types DEF Announce, Leave, Return, SaveFails, TypeOK, disk, watcher
<1>3. /\ \A k \in Keys : k # c => badge'[k] = badge[k] /\ overtaken'[k] = overtaken[k]
      /\ overtaken'[c] = \E f \in Watch[c] : files[f] > SavedMtime(t)
  BY <1>types, <1>1 DEF Announce, TypeOK
<1>4. ASSUME NEW k \in Keys PROVE Settled(k)'
  <2>1. CASE k = c
    <3>1. entry[c].mtime \in {0, SavedMtime(t)}
      BY <1>1 DEF DueInv, SettledBy
    <3>2. ASSUME NEW f \in Watch[c], ~overtaken'[c]
          PROVE  entry[c].mtime = 0 \/ entry[c].mtime >= files[f]
      <4>1. ~(files[f] > SavedMtime(t))
        BY <1>3, <3>2
      <4>2. files[f] \in Int /\ SavedMtime(t) \in Int
        BY <1>types, CacheAssumption DEF TypeOK, Mtimes, SavedMtime
      <4>. QED BY <3>1, <4>1, <4>2
    <3>3. lastStale[c] <= clock
      BY DEF DueInv, Settled
    <3>. QED BY <1>2, <2>1, <3>2, <3>3 DEF Settled
  <2>2. CASE k # c
    BY <1>2, <1>3, <2>2 DEF DueInv, Settled, Announced
  <2>. QED BY <2>1, <2>2
<1>5. ASSUME NEW u \in Threads PROVE SettledBy(u)'
  <2>1. CASE u = t
    BY <1>2, <2>1 DEF SettledBy
  <2>2. CASE u # t
    <3>1. /\ SettledBy(u) /\ pc'[u] = pc[u] /\ key'[u] = key[u]
          /\ stat'[u] = stat[u] /\ now'[u] = now[u]
      BY <1>2, <2>2 DEF DueInv
    <3>2. pc[u] \in Making /\ key[u] # NoOne => key[u] \in Keys /\ key[u] # c
      <4>1. keyLock[c] = t
        BY <1>1 DEF LockInv
      <4>2. pc[u] \in Making /\ key[u] = c => keyLock[c] = u
        BY DEF LockInv, Making
      <4>3. key[u] \in Keys \cup {NoOne}
        BY <1>types DEF TypeOK
      <4>. QED BY <2>2, <4>1, <4>2, <4>3
    <3>. QED BY <1>2, <1>3, <3>1, <3>2 DEF SettledBy, Announced, SavedMtime
  <2>. QED BY <2>1, <2>2
<1>. QED BY <1>4, <1>5 DEF DueInv
\* Every action keeps what the watcher owes.
LEMMA DueStep ==
    DueInv /\ HitInv /\ LockInv /\ OneWriter /\ [Next]_vars => DueInv'
<1> SUFFICES ASSUME DueInv, HitInv, LockInv, OneWriter, [Next]_vars PROVE DueInv'
  OBVIOUS
<1>types. TypeInv /\ TypeOK /\ HasKey /\ NoOne \notin Threads /\ NoOne \notin Keys
          /\ Worker \in Threads
  BY Constants DEF OneWriter, TypeInv
<1> DEFINE Calm == /\ \A t \in Threads : GoesOn(t)
                   /\ UNCHANGED <<clock, files, entry, lastStale, badge, overtaken>>
<1>calm. Calm => DueInv'
  BY <1>types, ThreadGoesOn
<1>1. CASE (\E f \in Files : Touch(f) \/ Remove(f)) \/ (\E k \in Keys : PollKey(k))
  BY <1>1, <1>types, WatchedChange
<1>2. ASSUME NEW t \in Threads, NEW k \in Keys, Ask(t, k) PROVE Calm
  BY <1>2, <1>types DEF Ask, TypeOK, GoesOn, Making, disk, local, watcher, ghost
<1>3. ASSUME NEW t \in Threads, NEW ks \in SUBSET Keys, AskBust(t, ks) PROVE Calm
  <2>1. key[t] = NoOne
    BY <1>3 DEF AskBust, LockInv
  <2>. QED
    BY <1>3, <1>types, <2>1 DEF AskBust, TypeOK, GoesOn, Making, disk, local, watcher, ghost
<1>4. ASSUME NEW t \in Threads,
             Lock(t) \/ Load(t) \/ Compute(t) \/ Stamp(t) \/ BeginWrite(t) \/ NothingToBust(t)
      PROVE  Calm
  <2>1. PICK p \in {"load", "stat", "stamp", "save", "writing", "recompute"} :
            /\ pc' = [pc EXCEPT ![t] = p]
            /\ p \in Making => pc[t] \in Making
            /\ UNCHANGED <<clock, files, entry, key, stat, lastStale, badge, overtaken>>
            /\ now' = now \/ pc[t] = "stamp"
            /\ \A u \in Threads : u # t => now'[u] = now[u]
    BY <1>4, <1>types
    DEF Lock, Load, Compute, Stamp, BeginWrite, NothingToBust, TypeOK, Making, disk, task,
        local, watcher, ghost
  <2>2. \A u \in Threads : pc'[u] = IF u = t THEN p ELSE pc[u]
    BY <1>types, <2>1 DEF TypeOK
  <2>. QED BY <2>1, <2>2 DEF GoesOn, Making
<1>5. ASSUME NEW t \in Threads, Hit(t) \/ ComputeFails(t) PROVE Calm
  <2>1. Leave(t) /\ UNCHANGED <<badge, overtaken>>
    BY <1>5 DEF Hit, ComputeFails
  <2>2. \A u \in Threads :
            IF u = t THEN key'[u] = NoOne /\ pc'[u] # "announce"
            ELSE /\ pc'[u] = pc[u] /\ key'[u] = key[u]
                 /\ stat'[u] = stat[u] /\ now'[u] = now[u]
    BY <1>types, <2>1 DEF Leave, Return, TypeOK
  <2>. QED BY <2>1, <2>2 DEF Leave, Return, GoesOn, disk, watcher
<1>6. ASSUME NEW t \in Threads, Recompute(t) PROVE Calm
  <2>1. \A u \in Threads : pc'[u] = pc[u] \/ pc'[u] \in {"done", "next"}
    BY <1>6, <1>types DEF Recompute, TypeOK
  <2>. QED BY <1>6, <2>1 DEF Recompute, GoesOn, Making, disk, local, watcher, ghost
<1>7. CASE WorkerNext
  <2>1. \A u \in Threads :
            IF u = Worker THEN pc'[u] \in {"done", "lock"}
            ELSE pc'[u] = pc[u] /\ key'[u] = key[u]
    BY <1>7, <1>types DEF WorkerNext, TypeOK
  <2>2. UNCHANGED <<clock, files, disk, local, watcher, badge, ghost>>
    BY <1>7 DEF WorkerNext
  <2>3. ASSUME NEW u \in Threads PROVE GoesOn(u)
    <3>1. CASE u = Worker
      BY <2>1, <3>1 DEF GoesOn, Making
    <3>2. CASE u # Worker
      BY <2>1, <2>2, <3>2 DEF GoesOn, local
    <3>. QED BY <3>1, <3>2
  <2>4. UNCHANGED <<clock, files, entry, lastStale, badge, overtaken>>
    BY <2>2 DEF disk, watcher, ghost
  <2>. QED BY <1>calm, <2>3, <2>4
<1>8. CASE PollLoad \/ UNCHANGED vars
  <2>1. UNCHANGED <<pc, key, stat, now>>
    BY <1>8 DEF PollLoad, vars, task, local
  <2>. QED BY <1>8, <1>calm, <2>1 DEF PollLoad, vars, GoesOn, disk, watcher, ghost
<1>9. ASSUME NEW t \in Threads, Miss(t) PROVE DueInv'
  <2>1. /\ UNCHANGED <<clock, files, entry, key, now, lastStale, badge, overtaken>>
        /\ \A u \in Threads : u # t => pc'[u] = pc[u] /\ stat'[u] = stat[u]
        /\ pc'[t] = "compute" /\ key[t] \in Keys
        /\ MaxMtime(key[t], stat'[t])
    BY <1>9, <1>types DEF Miss, TypeOK, HasKey, disk, task, watcher, ghost
  <2>2. SettledBy(t)'
    BY <2>1 DEF SettledBy, MaxMtime
  <2>3. ASSUME NEW u \in Threads \ {t} PROVE SettledBy(u)'
    BY <2>1 DEF DueInv, SettledBy, Announced, SavedMtime
  <2>4. \A k \in Keys : Settled(k)'
    BY <2>1 DEF DueInv, Settled, Announced
  <2>. QED BY <2>2, <2>3, <2>4 DEF DueInv
<1>10. ASSUME NEW t \in Threads, EndWrite(t) PROVE DueInv'
  BY <1>10, SaveSettles
<1>11. ASSUME NEW t \in Threads, Announce(t) PROVE DueInv'
  BY <1>11, <1>types, DoneSettles
<1>12. CASE Restart
  <2>1. /\ \A k \in Keys : lastStale'[k] = 0
        /\ \A t \in Threads : key'[t] = NoOne /\ pc'[t] # "announce"
        /\ clock' = clock
    BY <1>12 DEF Restart
  <2>2. 0 <= clock
    BY <1>types DEF TypeOK
  <2>. QED BY <2>1, <2>2 DEF DueInv, Settled, SettledBy, Announced
<1>13. ASSUME NEW t \in Threads, SaveFails(t) PROVE DueInv'
  <2>1. Return(t) /\ UNCHANGED <<clock, files, lastStale, badge, overtaken>>
    BY <1>13 DEF SaveFails, Return, watcher
  <2>2. \A u \in Threads :
            IF u = t THEN key'[u] = NoOne /\ pc'[u] # "announce"
            ELSE /\ pc'[u] = pc[u] /\ key'[u] = key[u]
                 /\ stat'[u] = stat[u] /\ now'[u] = now[u]
    BY <1>types, <2>1 DEF Return, TypeOK
  <2>3. entry' = entry \/ \A k \in Keys : entry'[k].mtime = 0
    BY <1>13 DEF SaveFails, disk, EmptyCache, NoEntry
  <2>4. CASE entry' = entry
    BY <1>calm, <2>1, <2>2, <2>4 DEF GoesOn
  <2>5. CASE \A k \in Keys : entry'[k].mtime = 0
    <3>1. \A k \in Keys : Settled(k)'
      BY <2>1, <2>5 DEF DueInv, Settled
    <3>2. ASSUME NEW u \in Threads PROVE SettledBy(u)'
      BY <1>types, <2>1, <2>2, <2>5 DEF DueInv, SettledBy, Announced, HasKey
    <3>. QED BY <3>1, <3>2 DEF DueInv
  <2>. QED BY <2>3, <2>4, <2>5
<1>. HIDE DEF Calm
<1>. QED
  BY <1>calm, <1>1, <1>2, <1>3, <1>4, <1>5, <1>6, <1>7, <1>8, <1>9, <1>10, <1>11, <1>12, <1>13
  DEF Next, ThreadStep, Poll

\* What is due at the next look of the watcher at k.
StaysDue(k) ==
    entry[k].mtime # 0 /\ NewerThan(k, entry[k].mtime) /\ ~overtaken[k] /\ ~badge[k]
        => ~MaxMtime(k, lastStale[k])

\* For any number of cards, files, threads and edits: the debounce of the
\* watcher swallows no announcement (staleness_watcher.py:84-87).  When a card
\* is outdated and no browser shows it, its newest file has not been announced
\* yet, unless the entry was overtaken while it was being computed: the half
\* of OutdatedIsMarked that needs no fairness.
THEOREM AnnouncementStaysDue == Spec => [](\A k \in Keys : StaysDue(k))
<1>1. Init => DueInv
  <2> SUFFICES ASSUME Init PROVE DueInv
    OBVIOUS
  <2>1. /\ \A k \in Keys : lastStale[k] = 0
        /\ \A t \in Threads : key[t] = NoOne /\ pc[t] # "announce"
        /\ clock = 1
    BY DEF Init
  <2>. QED BY <2>1 DEF DueInv, Settled, SettledBy, Announced
<1>2. DueInv /\ OneWriter => \A k \in Keys : StaysDue(k)
  <2> SUFFICES ASSUME DueInv, OneWriter, NEW k \in Keys, entry[k].mtime # 0,
                      NEW f \in Watch[k], files[f] > entry[k].mtime,
                      ~overtaken[k], ~badge[k], MaxMtime(k, lastStale[k])
               PROVE  FALSE
    BY DEF StaysDue, NewerThan
  <2>1. /\ entry[k].mtime \in Nat /\ lastStale[k] \in Nat
        /\ \A g \in Watch[k] : files[g] \in Nat
    BY CacheAssumption DEF OneWriter, TypeInv, TypeOK, Entry, Mtimes
  <2>2. lastStale[k] # 0 /\ files[f] <= lastStale[k]
    BY <2>1 DEF MaxMtime
  <2>3. PICK g \in Watch[k] : files[g] = lastStale[k]
    BY <2>2 DEF MaxMtime
  <2>4. entry[k].mtime >= files[g]
    BY <2>2, <2>3 DEF DueInv, Settled, Announced
  <2>. QED BY <2>1, <2>2, <2>3, <2>4
<1>3. Spec => []HitInv
  BY InitHits, HitStep, WritersHold, PTL DEF Spec
<1>. QED BY <1>1, <1>2, <1>3, DueStep, LocksHold, WritersHold, PTL DEF Spec
=============================================================================
