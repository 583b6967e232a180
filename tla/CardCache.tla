----------------------------- MODULE CardCache ------------------------------
(***************************************************************************)
(* The server-side card cache, core/services/devops/cache.py, with the     *)
(* staleness watcher, core/services/staleness_watcher.py.                  *)
(*                                                                         *)
(* Request threads and the recompute worker run get_cached and the         *)
(* invalidations against one JSON file on disk.  A lock per key covers a   *)
(* whole get_cached, one file lock covers each rewrite of the file; the    *)
(* lookup in get_cached and the watcher read the file with neither.  Files *)
(* change under all of them.  A file is its mtime, 0 when it is absent;    *)
(* data computed for a key is the mtimes of the files it was made from.    *)
(***************************************************************************)
EXTENDS Integers

CONSTANTS
    Keys,       \* card keys
    Files,      \* files and directories that cards are about
    Watch,      \* _WATCH_PATHS: the files whose mtime counts for a key
    Reads,      \* the files the compute function of a key reads
    Optional,   \* files that may be absent when the server starts
    Removable,  \* files that may be deleted
    Calls,      \* request threads, each good for one request
    Worker,     \* the cache-recompute thread
    NoOne,
    MaxTime,    \* bound on the clock
    MayFail,    \* compute functions may raise, and a save fail for want of space
    MaxRestarts, \* how often the server may be killed and started again
    Watching    \* the staleness watcher runs (it does under the web server)

Threads == Calls \cup {Worker}
Mtimes == 0..MaxTime

ASSUME CacheAssumption ==
    /\ NoOne \notin Keys
    /\ Watch \in [Keys -> SUBSET Files]
    /\ Reads \in [Keys -> SUBSET Files]
    /\ MaxTime \in Nat \ {0}
    /\ Worker \notin Calls
    /\ NoOne \notin Threads
    /\ MaxRestarts \in Nat
    /\ {MayFail, Watching} \subseteq BOOLEAN

VARIABLES
    clock,
    restarts,
    files,      \* mtime of every file
    entry,      \* the cache entries last written to the file
    torn,       \* the file is truncated: every read of it gives {}
    fileLock,   \* holder of _file_lock
    fresh,      \* what the holder of _file_lock loaded
    keyLock,    \* holder of each key's lock
    pc, key, force, bust, rewarm,  \* every thread: where it is, what it is asked
    loaded, stat, seen,     \* its entry, current_mtime, data
    now,        \* when it was done computing, if no watched file was there
    todo,       \* keys the worker still has to go through
    polled, unpolled,       \* watcher: cache it loaded, keys left in this cycle
    lastStale,  \* watcher: last_stale, 0 for a key that is not in it
    badge,      \* browsers show the key as outdated
    overtaken,  \* files were newer than the entry when it was announced
    guessed     \* history: entries with now for want of an mtime

disk == <<entry, torn, fileLock, fresh>>
task == <<key, force, bust, rewarm>>
local == <<loaded, stat, seen, now>>
watcher == <<polled, unpolled, lastStale>>
ghost == <<overtaken, guessed>>
vars == <<clock, restarts, files, disk, keyLock, pc, task, local, todo, watcher, badge,
          ghost>>

NoData == [f \in Files |-> 0]

\* An entry is its mtime and data; its mtime is never 0.
Entry == [mtime : Mtimes, data : [Files -> Mtimes]]
NoEntry == [mtime |-> 0, data |-> NoData]
EmptyCache == [k \in Keys |-> NoEntry]

PCs == {"new", "lock", "load", "stat", "compute", "stamp", "save", "writing",
        "announce", "recompute", "next", "done"}

TypeOK ==
    /\ clock \in 1..MaxTime
    /\ restarts \in 0..MaxRestarts
    /\ files \in [Files -> Mtimes]
    /\ entry \in [Keys -> Entry]
    /\ torn \in BOOLEAN
    /\ fileLock \in Threads \cup {NoOne}
    /\ fresh \in [Keys -> Entry]
    /\ keyLock \in [Keys -> Threads \cup {NoOne}]
    /\ pc \in [Threads -> PCs]
    /\ key \in [Threads -> Keys \cup {NoOne}]
    /\ force \in [Threads -> BOOLEAN]
    /\ bust \in [Threads -> SUBSET Keys]
    /\ rewarm \in [Threads -> BOOLEAN]
    /\ loaded \in [Threads -> Entry]
    /\ stat \in [Threads -> Mtimes]
    /\ seen \in [Threads -> [Files -> Mtimes]]
    /\ now \in [Threads -> Mtimes]
    /\ todo \subseteq Keys
    /\ polled \in [Keys -> Entry]
    /\ unpolled \subseteq Keys
    /\ lastStale \in [Keys -> Mtimes]
    /\ badge \in [Keys -> BOOLEAN]
    /\ overtaken \in [Keys -> BOOLEAN]
    /\ guessed \subseteq Keys

Init ==
    /\ clock = 1 /\ restarts = 0
    /\ files \in [Files -> {0, 1}]
    /\ \A f \in Files \ Optional : files[f] = 1
    /\ entry = EmptyCache /\ torn = FALSE
    /\ fileLock = NoOne /\ fresh = EmptyCache
    /\ keyLock = [k \in Keys |-> NoOne]
    /\ pc = [t \in Threads |-> IF t = Worker THEN "done" ELSE "new"]
    /\ key = [t \in Threads |-> NoOne]
    /\ force = [t \in Threads |-> FALSE]
    /\ bust = [t \in Threads |-> {}]
    /\ rewarm = [t \in Threads |-> FALSE]
    /\ loaded = [t \in Threads |-> NoEntry]
    /\ stat = [t \in Threads |-> 0]
    /\ seen = [t \in Threads |-> NoData]
    /\ now = [t \in Threads |-> 0]
    /\ todo = {}
    /\ polled = EmptyCache /\ unpolled = {}
    /\ lastStale = [k \in Keys |-> 0]
    /\ badge = [k \in Keys |-> FALSE]
    /\ overtaken = [k \in Keys |-> FALSE]
    /\ guessed = {}

\* _load_cache: an unreadable file is an empty cache.
Disk == IF torn THEN EmptyCache ELSE entry

\* _max_mtime returns m for the watch paths of k.
MaxMtime(k, m) ==
    /\ m = 0 \/ \E f \in Watch[k] : files[f] = m
    /\ \A f \in Watch[k] : files[f] <= m

(***************************************************************************)
(* The files change                                                        *)
(***************************************************************************)

Touch(f) ==
    /\ clock < MaxTime
    /\ clock' = clock + 1
    /\ files' = [files EXCEPT ![f] = clock + 1]
    /\ UNCHANGED <<restarts, disk, keyLock, pc, task, local, todo, watcher, badge,
                   ghost>>

Remove(f) ==
    /\ f \in Removable
    /\ files[f] # 0
    /\ files' = [files EXCEPT ![f] = 0]
    /\ UNCHANGED <<clock, restarts, disk, keyLock, pc, task, local, todo, watcher,
                   badge, ghost>>

(***************************************************************************)
(* get_cached                                                              *)
(***************************************************************************)

Ask(t, k) ==
    /\ t \in Calls
    /\ pc[t] = "new"
    /\ key' = [key EXCEPT ![t] = k]
    /\ \E b \in BOOLEAN : force' = [force EXCEPT ![t] = b]
    /\ pc' = [pc EXCEPT ![t] = "lock"]
    /\ UNCHANGED <<clock, restarts, files, disk, keyLock, bust, rewarm, local, todo,
                   watcher, badge, ghost>>

Lock(t) ==
    /\ pc[t] = "lock"
    /\ keyLock[key[t]] = NoOne
    /\ keyLock' = [keyLock EXCEPT ![key[t]] = t]
    /\ pc' = [pc EXCEPT ![t] = "load"]
    /\ UNCHANGED <<clock, restarts, files, disk, task, local, todo, watcher, badge, ghost>>

\* The file is read without _file_lock.
Load(t) ==
    /\ pc[t] = "load"
    /\ loaded' = [loaded EXCEPT ![t] = Disk[key[t]]]
    /\ pc' = [pc EXCEPT ![t] = "stat"]
    /\ UNCHANGED <<clock, restarts, files, disk, keyLock, task, stat, seen, now, todo,
                   watcher, badge, ghost>>

IsHit(t, m) == ~force[t] /\ loaded[t].mtime # 0 /\ m <= loaded[t].mtime

\* A request is answered or raises, and its locks are released; the worker
\* goes on with its next key.
Return(t) ==
    /\ keyLock' = [k \in Keys |-> IF k = key[t] THEN NoOne ELSE keyLock[k]]
    /\ pc' = [pc EXCEPT ![t] = IF t = Worker THEN "next" ELSE "done"]
    /\ key' = [key EXCEPT ![t] = NoOne]
    /\ force' = [force EXCEPT ![t] = FALSE]
    /\ bust' = [bust EXCEPT ![t] = {}]
    /\ rewarm' = [rewarm EXCEPT ![t] = FALSE]
    /\ loaded' = [loaded EXCEPT ![t] = NoEntry]
    /\ stat' = [stat EXCEPT ![t] = 0]
    /\ seen' = [seen EXCEPT ![t] = NoData]
    /\ now' = [now EXCEPT ![t] = 0]
    /\ UNCHANGED <<clock, restarts, files, todo, watcher>>

\* get_cached comes to its end and has left the file as it is.
Leave(t) == Return(t) /\ UNCHANGED <<disk, guessed>>

Hit(t) ==
    /\ pc[t] = "stat"
    /\ \E m \in Mtimes : MaxMtime(key[t], m) /\ IsHit(t, m)
    /\ Leave(t)
    /\ UNCHANGED <<badge, overtaken>>

Miss(t) ==
    /\ pc[t] = "stat"
    /\ \E m \in Mtimes :
        /\ MaxMtime(key[t], m)
        /\ ~IsHit(t, m)
        /\ stat' = [stat EXCEPT ![t] = m]
    /\ pc' = [pc EXCEPT ![t] = "compute"]
    /\ UNCHANGED <<clock, restarts, files, disk, keyLock, task, loaded, seen, now,
                   todo, watcher, badge, ghost>>

View(k) == [f \in Files |-> IF f \in Reads[k] THEN files[f] ELSE 0]

Compute(t) ==
    /\ pc[t] = "compute"
    /\ seen' = [seen EXCEPT ![t] = View(key[t])]
    /\ pc' = [pc EXCEPT ![t] = "stamp"]
    /\ UNCHANGED <<clock, restarts, files, disk, keyLock, task, loaded, stat, now, todo,
                   watcher, badge, ghost>>

\* Mutant: the error path returns without releasing the key.
ComputeFailsLocked(t) ==
    /\ MayFail
    /\ pc[t] = "compute"
    /\ pc' = [pc EXCEPT ![t] = IF t = Worker THEN "next" ELSE "done"]
    /\ UNCHANGED <<clock, restarts, files, disk, keyLock, task, local, todo, watcher,
                   badge, ghost>>

\* The compute function raises: nothing is saved, cache:error is published.
ComputeFails(t) ==
    /\ MayFail
    /\ pc[t] = "compute"
    /\ Leave(t)
    /\ UNCHANGED <<badge, overtaken>>

\* Mutant: the entry gets the mtime of the files as they are after computing.
StampLate(t) ==
    /\ pc[t] = "stamp"
    /\ \E m \in Mtimes : MaxMtime(key[t], m) /\ stat' = [stat EXCEPT ![t] = m]
    /\ now' = [now EXCEPT ![t] = clock]
    /\ pc' = [pc EXCEPT ![t] = "save"]
    /\ UNCHANGED <<clock, restarts, files, disk, keyLock, task, loaded, seen, todo,
                   watcher, badge, ghost>>

\* Mutant: the mtime is rounded up.
StampRounded(t) ==
    /\ pc[t] = "stamp"
    /\ stat' = [stat EXCEPT ![t] = stat[t] + 1]
    /\ pc' = [pc EXCEPT ![t] = "save"]
    /\ UNCHANGED <<clock, restarts, files, disk, keyLock, task, loaded, seen, now, todo,
                   watcher, badge, ghost>>

\* now is taken behind the computation.
Stamp(t) ==
    /\ pc[t] = "stamp"
    /\ now' = [now EXCEPT ![t] = IF stat[t] = 0 THEN clock ELSE 0]
    /\ pc' = [pc EXCEPT ![t] = "save"]
    /\ UNCHANGED <<clock, restarts, files, disk, keyLock, task, loaded, stat, seen, todo,
                   watcher, badge, ghost>>

\* now stands in for a missing mtime.
SavedMtime(t) == IF stat[t] > 0 THEN stat[t] ELSE now[t]

(***************************************************************************)
(* A read-modify-write of the file under _file_lock                        *)
(***************************************************************************)

\* Mutant: the file lock is not taken.
BeginWriteUnlocked(t) ==
    /\ pc[t] = "save"
    /\ fileLock' = t
    /\ fresh' = Disk
    /\ torn' = TRUE
    /\ pc' = [pc EXCEPT ![t] = "writing"]
    /\ UNCHANGED <<clock, restarts, files, entry, keyLock, task, local, todo, watcher,
                   badge, ghost>>

\* write_text truncates the file before it writes.
BeginWrite(t) ==
    /\ pc[t] = "save"
    /\ fileLock = NoOne
    /\ fileLock' = t
    /\ fresh' = Disk
    /\ torn' = TRUE
    /\ pc' = [pc EXCEPT ![t] = "writing"]
    /\ UNCHANGED <<clock, restarts, files, entry, keyLock, task, local, todo, watcher,
                   badge, ghost>>

\* What the thread puts into the cache that it loaded under the lock: its
\* result, or nothing for the keys to invalidate.
Updated(t) ==
    [k \in Keys |->
        IF k = key[t] THEN [mtime |-> SavedMtime(t), data |-> seen[t]]
        ELSE IF k \in bust[t] THEN NoEntry
        ELSE fresh[k]]

EndWrite(t) ==
    /\ pc[t] = "writing"
    /\ entry' = Updated(t)
    /\ torn' = FALSE
    /\ fileLock' = NoOne
    /\ fresh' = EmptyCache
    /\ guessed' = {k \in Keys :
            IF k = key[t] THEN stat[t] = 0 ELSE k \in guessed \ bust[t]}
    /\ pc' = [pc EXCEPT ![t] =
                IF key[t] # NoOne THEN "announce" ELSE "recompute"]
    /\ UNCHANGED <<clock, restarts, files, keyLock, task, local, todo, watcher, badge,
                   overtaken>>

\* write_text raises, out of get_cached or out of the invalidation: the file
\* could not be opened, or it was truncated and stays so, and whoever loads it
\* next, to look up a card or to save one, has an empty cache.
SaveFails(t) ==
    /\ MayFail
    /\ \/ pc[t] = "save" /\ fileLock = NoOne /\ UNCHANGED <<disk, guessed>>
       \/ /\ pc[t] = "writing"
          /\ entry' = EmptyCache /\ torn' = FALSE
          /\ fileLock' = NoOne /\ fresh' = EmptyCache
          /\ guessed' = {}
    /\ Return(t)
    /\ UNCHANGED <<badge, overtaken>>

\* cache:done reaches the browsers, which take the card for up to date.
Announce(t) ==
    /\ pc[t] = "announce"
    /\ badge' = [badge EXCEPT ![key[t]] = FALSE]
    /\ overtaken' = [overtaken EXCEPT ![key[t]] =
                        \E f \in Watch[key[t]] : files[f] > SavedMtime(t)]
    /\ Leave(t)
-----------------------------------------------------------------------------
(***************************************************************************)
(* Invalidation and the recompute worker                                   *)
(***************************************************************************)

\* invalidate, invalidate_with_cascade, invalidate_scope, invalidate_all.  The
\* bust route follows up a scope with a recompute, nothing else does.
AskBust(t, ks) ==
    /\ t \in Calls
    /\ pc[t] = "new"
    /\ ks # {}
    /\ bust' = [bust EXCEPT ![t] = ks]
    /\ \E b \in BOOLEAN : rewarm' = [rewarm EXCEPT ![t] = b]
    /\ pc' = [pc EXCEPT ![t] = "save"]
    /\ UNCHANGED <<clock, restarts, files, disk, keyLock, key, force, local, todo,
                   watcher, badge, ghost>>

\* A card or cascade of which nothing is cached: the file is not rewritten.
NothingToBust(t) ==
    /\ pc[t] = "save"
    /\ bust[t] # {} /\ ~rewarm[t]
    /\ fileLock = NoOne
    /\ \A k \in bust[t] : Disk[k].mtime = 0
    /\ pc' = [pc EXCEPT ![t] = "recompute"]
    /\ UNCHANGED <<clock, restarts, files, disk, keyLock, task, local, todo, watcher, badge,
                   overtaken, guessed>>

\* recompute_all: no second worker while one is alive.
Recompute(t) ==
    /\ pc[t] = "recompute"
    /\ IF rewarm[t] /\ pc[Worker] = "done"
       THEN /\ pc' = [pc EXCEPT ![t] = "done", ![Worker] = "next"]
            /\ todo' = bust[t]
       ELSE /\ pc' = [pc EXCEPT ![t] = "done"]
            /\ todo' = todo
    /\ bust' = [bust EXCEPT ![t] = {}]
    /\ rewarm' = [rewarm EXCEPT ![t] = FALSE]
    /\ UNCHANGED <<clock, restarts, files, disk, keyLock, key, force, local, watcher,
                   badge, ghost>>

WorkerNext ==
    /\ pc[Worker] = "next"
    /\ IF todo = {}
       THEN pc' = [pc EXCEPT ![Worker] = "done"] /\ UNCHANGED <<key, todo>>
       ELSE \E k \in todo :
                /\ key' = [key EXCEPT ![Worker] = k]
                /\ todo' = todo \ {k}
                /\ pc' = [pc EXCEPT ![Worker] = "lock"]
    /\ UNCHANGED <<clock, restarts, files, disk, keyLock, force, bust, rewarm, local,
                   watcher, badge, ghost>>

(***************************************************************************)
(* The watcher's poll cycle                                                *)
(***************************************************************************)

PollLoad ==
    /\ Watching
    /\ unpolled = {}
    /\ polled' = Disk
    /\ unpolled' = Keys
    /\ UNCHANGED <<clock, restarts, files, disk, keyLock, pc, task, local, todo, lastStale,
                   badge, ghost>>

\* Mutant: the debounce tracker is never cleared and compares keys only.
PollKeyOnce(k) ==
    /\ k \in unpolled
    /\ \E m \in Mtimes :
        /\ MaxMtime(k, m)
        /\ IF polled[k].mtime # 0 /\ m > polled[k].mtime /\ lastStale[k] = 0
           THEN /\ lastStale' = [lastStale EXCEPT ![k] = m]
                /\ badge' = [badge EXCEPT ![k] = TRUE]
           ELSE UNCHANGED <<lastStale, badge>>
    /\ unpolled' = unpolled \ {k}
    /\ UNCHANGED <<clock, restarts, files, disk, keyLock, pc, task, local, todo, polled,
                   ghost>>

\* A newer file is announced once per mtime; an entry that is up to date
\* clears the debounce tracker.
PollKey(k) ==
    /\ k \in unpolled
    /\ \E m \in Mtimes :
        /\ MaxMtime(k, m)
        /\ IF m = 0 \/ polled[k].mtime = 0 THEN UNCHANGED <<lastStale, badge>>
           ELSE IF m <= polled[k].mtime
           THEN lastStale' = [lastStale EXCEPT ![k] = 0] /\ UNCHANGED badge
           ELSE /\ lastStale' = [lastStale EXCEPT ![k] = m]
                /\ badge' = [badge EXCEPT ![k] = badge[k] \/ lastStale[k] # m]
    /\ unpolled' = unpolled \ {k}
    /\ UNCHANGED <<clock, restarts, files, disk, keyLock, pc, task, local, todo, polled,
                   ghost>>

(***************************************************************************)
(* The server is killed and started again; requests under way are gone,    *)
(* a file left truncated is empty, the browsers start over.                  *)
(***************************************************************************)
Restart ==
    /\ restarts < MaxRestarts
    /\ restarts' = restarts + 1
    /\ entry' = Disk /\ torn' = FALSE
    /\ fileLock' = NoOne /\ fresh' = EmptyCache
    /\ keyLock' = [k \in Keys |-> NoOne]
    /\ pc' = [t \in Threads |-> IF pc[t] = "new" THEN "new" ELSE "done"]
    /\ key' = [t \in Threads |-> NoOne]
    /\ force' = [t \in Threads |-> FALSE]
    /\ bust' = [t \in Threads |-> {}]
    /\ rewarm' = [t \in Threads |-> FALSE]
    /\ loaded' = [t \in Threads |-> NoEntry]
    /\ stat' = [t \in Threads |-> 0]
    /\ seen' = [t \in Threads |-> NoData]
    /\ now' = [t \in Threads |-> 0]
    /\ todo' = {}
    /\ polled' = EmptyCache /\ unpolled' = {}
    /\ lastStale' = [k \in Keys |-> 0]
    /\ badge' = [k \in Keys |-> FALSE]
    /\ overtaken' = [k \in Keys |-> FALSE]
    /\ UNCHANGED <<clock, files, guessed>>

ThreadStep(t) ==
    \/ Lock(t) \/ Load(t) \/ Hit(t) \/ Miss(t)
    \/ Compute(t) \/ ComputeFails(t) \/ Stamp(t)
    \/ BeginWrite(t) \/ EndWrite(t) \/ SaveFails(t) \/ Announce(t)
    \/ NothingToBust(t) \/ Recompute(t)

Poll == PollLoad \/ \E k \in Keys : PollKey(k)

Next ==
    \/ \E f \in Files : Touch(f) \/ Remove(f)
    \/ \E t \in Threads :
        \/ \E k \in Keys : Ask(t, k)
        \/ \E ks \in SUBSET Keys : AskBust(t, ks)
        \/ ThreadStep(t)
    \/ WorkerNext
    \/ Poll
    \/ Restart

Spec == Init /\ [][Next]_vars

\* Request threads, worker and watcher are scheduled; nothing has to be asked,
\* edited or killed.
FairSpec ==
    /\ Spec
    /\ \A t \in Threads : WF_vars(ThreadStep(t))
    /\ WF_vars(WorkerNext)
    /\ WF_vars(Poll)

(***************************************************************************)
(* Safety                                                                  *)
(***************************************************************************)

NewerThan(k, m) == \E f \in Watch[k] : files[f] > m

\* An entry that a request would be served without recomputing holds what the
\* compute function would read now in the files that count for the card, in
\* whatever way edits fell into the lookup, the computation and the save.  All
\* it can miss of them is that one is gone: the mtimes that are left do not
\* tell (cache.py:342-390).  An entry for which no watched file was there can
\* miss one made while it was computed (guessed).  What a card reads without
\* watching it, be it a file too deep, a hidden one or data off the network,
\* may be of any age: the watch paths are a proxy (cache.py:195-197).
HitsAreCurrent ==
    \A k \in Keys \ guessed :
        entry[k].mtime # 0 /\ ~NewerThan(k, entry[k].mtime)
            => \A f \in Reads[k] \cap Watch[k] :
                    entry[k].data[f] = files[f] \/ files[f] = 0

KeepsOthers ==
    \A k \in Keys :
        entry'[k] # entry[k] =>
            \/ \E t \in Threads : pc[t] = "writing" /\ (key[t] = k \/ k \in bust[t])
            \/ \E t \in Threads : /\ pc[t] = "writing" /\ pc'[t] \in {"next", "done"}
                                  /\ entry' = EmptyCache

\* Saves and invalidations that run at the same time keep each other's
\* entries: an entry changes only when its own key is saved or invalidated
\* (cache.py:379-390).  Only a rewrite that breaks off behind the truncation,
\* as the server is killed or the write fails, loses others: it loses all.
EntriesIndependent == [][KeepsOthers]_vars

(***************************************************************************)
(* Liveness                                                                *)
(***************************************************************************)

\* Every get_cached comes back, whoever else wants the key or the file.
RequestsAnswered == \A t \in Threads : pc[t] = "lock" ~> pc[t] \in {"next", "done"}

\* The watcher gets a card that stays outdated marked in the browsers, unless
\* the files were edited while its entry was being computed.
OutdatedIsMarked ==
    \A k \in Keys :
        <>[](entry[k].mtime # 0 /\ ~torn /\ NewerThan(k, entry[k].mtime) /\ ~overtaken[k])
            => <>[]badge[k]
=============================================================================
