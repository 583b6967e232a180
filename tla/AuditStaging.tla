---------------------------- MODULE AuditStaging ----------------------------
(***************************************************************************)
(* Pending audit snapshots, core/services/audit_staging.py, as far as the  *)
(* ledger: scans put them into the pending file, users discard them, and   *)
(* requests take them out of it and hand them to save_audit_snapshot.      *)
(*                                                                         *)
(* pending_audits.json is changed under _file_lock only, so that each      *)
(* read-modify-write is one action; save_audit_snapshot is called outside  *)
(* of the lock, by several requests at once.  It is a call that may raise  *)
(* before it has the snapshot's file in the ledger's worktree, and behind  *)
(* it.  What git does with that file is in LedgerSync.                     *)
(***************************************************************************)
EXTENDS Naturals

CONSTANTS
    Cards,      \* the cards that are scanned
    Threads,    \* requests that save snapshots
    MaxScans,   \* bound on the scans
    MaxFaults,  \* bound on crashes and failed writes of the pending file
    NoSnap

ASSUME MaxScansAssumption == MaxScans \in Nat
ASSUME MaxFaultsAssumption == MaxFaults \in Nat
ASSUME NoSnapAssumption == NoSnap \notin [card : Cards, n : Nat]

\* A snapshot: its card and which scan it comes from.
Snaps == [card : Cards, n : 1..MaxScans]

VARIABLES
    scans,      \* number of scans so far
    pending,    \* the pending file, at most one snapshot per card
    taken,      \* what a save request has taken out of it and not settled yet
    cur,        \* the snapshot that a request is at
    mode,       \* "one" for save_audit, "all" for save_all_pending and when idle
    pc,         \* where a request is
    written,    \* snapshots that were written into the ledger's worktree
    discarded,  \* snapshots the user has discarded
    faults      \* number of faults so far

staging == <<scans, pending>>
requests == <<taken, cur, mode, pc>>
history == <<discarded, faults>>
vars == <<staging, requests, written, history>>

Locations == {"idle", "next", "write", "written", "putback"}

TypeOK ==
    /\ scans \in 0..MaxScans
    /\ pending \subseteq Snaps
    /\ \A s, x \in pending : s.card = x.card => s = x
    /\ taken \in [Threads -> SUBSET Snaps]
    /\ cur \in [Threads -> Snaps \cup {NoSnap}]
    /\ mode \in [Threads -> {"one", "all"}]
    /\ pc \in [Threads -> Locations]
    /\ written \subseteq Snaps
    /\ discarded \subseteq Snaps
    /\ faults \in 0..MaxFaults

Init ==
    /\ scans = 0
    /\ pending = {}
    /\ taken = [t \in Threads |-> {}]
    /\ cur = [t \in Threads |-> NoSnap]
    /\ mode = [t \in Threads |-> "all"]
    /\ pc = [t \in Threads |-> "idle"]
    /\ written = {}
    /\ discarded = {}
    /\ faults = 0

Goto(t, label) == pc' = [pc EXCEPT ![t] = label]

(***************************************************************************)
(* The pending file                                                        *)
(***************************************************************************)

\* One snapshot per card: s replaces the one that is there.
Put(s) == {x \in pending : x.card # s.card} \cup {s}

\* stage_audit, at the end of a computation in the card cache.
Stage(c) ==
    /\ scans < MaxScans
    /\ scans' = scans + 1
    /\ pending' = Put([card |-> c, n |-> scans + 1])
    /\ UNCHANGED <<requests, written, history>>

\* discard_audit, discard_all_pending
Discard ==
    /\ \E gone \in {{s} : s \in pending} \cup {pending} :
          /\ gone # {}
          /\ pending' = pending \ gone
          /\ discarded' = discarded \cup gone
    /\ UNCHANGED <<scans, requests, written, faults>>

\* A write of the file fails half way: it is read as empty from then on.
TornWrite ==
    /\ faults < MaxFaults
    /\ faults' = faults + 1
    /\ pending' = {}
    /\ UNCHANGED <<scans, requests, written, discarded>>

\* The server dies, possibly in such a write; requests in progress are lost.
Crash ==
    /\ faults < MaxFaults
    /\ faults' = faults + 1
    /\ pending' \in {pending, {}}
    /\ taken' = [t \in Threads |-> {}]
    /\ cur' = [t \in Threads |-> NoSnap]
    /\ pc' = [t \in Threads |-> "idle"]
    /\ mode' = [t \in Threads |-> "all"]
    /\ UNCHANGED <<scans, written, discarded>>

(***************************************************************************)
(* save_audit and save_all_pending                                         *)
(***************************************************************************)

\* Mutant: the snapshot is taken out of the file after it was written to
\* the ledger, in the order of save_audit's docstring.
TakeOneLate(t) ==
    /\ pc[t] = "idle"
    /\ \E s \in pending :
          /\ taken' = [taken EXCEPT ![t] = {s}]
          /\ cur' = [cur EXCEPT ![t] = s]
    /\ mode' = [mode EXCEPT ![t] = "one"]
    /\ Goto(t, "write")
    /\ UNCHANGED <<staging, written, history>>

TakeOne(t) ==
    /\ pc[t] = "idle"
    /\ \E s \in pending :
          /\ pending' = pending \ {s}
          /\ taken' = [taken EXCEPT ![t] = {s}]
          /\ cur' = [cur EXCEPT ![t] = s]
    /\ mode' = [mode EXCEPT ![t] = "one"]
    /\ Goto(t, "write")
    /\ UNCHANGED <<scans, written, history>>

TakeAll(t) ==
    /\ pc[t] = "idle"
    /\ pending # {}
    /\ taken' = [taken EXCEPT ![t] = pending]
    /\ pending' = {}
    /\ mode' = [mode EXCEPT ![t] = "all"]
    /\ Goto(t, "next")
    /\ UNCHANGED <<scans, cur, written, history>>

\* The next snapshot of the loop in save_all_pending, or its end.
NextSnap(t) ==
    /\ pc[t] = "next"
    /\ \/ \E s \in taken[t] :
             /\ cur' = [cur EXCEPT ![t] = s]
             /\ Goto(t, "write")
       \/ /\ taken[t] = {}
          /\ cur' = [cur EXCEPT ![t] = NoSnap]
          /\ Goto(t, "idle")
    /\ UNCHANGED <<staging, taken, mode, written, history>>

\* save_audit_snapshot has got the ledger ready and has written the file.
Write(t) ==
    /\ pc[t] = "write"
    /\ written' = written \cup {cur[t]}
    /\ Goto(t, "written")
    /\ UNCHANGED <<staging, taken, cur, mode, history>>

\* It returns: an add or a commit that git refuses is logged and no more.
Return(t) ==
    /\ pc[t] = "written"
    /\ taken' = [taken EXCEPT ![t] = @ \ {cur[t]}]
    /\ cur' = [cur EXCEPT ![t] = NoSnap]
    /\ Goto(t, IF mode[t] = "all" THEN "next" ELSE "idle")
    /\ mode' = [mode EXCEPT ![t] = "all"]
    /\ UNCHANGED <<staging, written, history>>

\* It raises, before the file is there or behind it: the disk, a git that
\* times out, a worktree that cannot be made.  save_audit passes the
\* exception on, with the snapshot gone from the pending file.
Raise(t) ==
    /\ pc[t] \in {"write", "written"}
    /\ \/ /\ mode[t] = "all"
          /\ Goto(t, "putback")
          /\ UNCHANGED <<taken, cur, mode>>
       \/ /\ mode[t] = "one"
          /\ Goto(t, "idle")
          /\ taken' = [taken EXCEPT ![t] = {}]
          /\ cur' = [cur EXCEPT ![t] = NoSnap]
          /\ mode' = [mode EXCEPT ![t] = "all"]
    /\ UNCHANGED <<staging, written, history>>

\* Mutant: the file is written as it was when the snapshots were taken.
PutBackStale(t) ==
    /\ pc[t] = "putback"
    /\ pending' = {cur[t]}
    /\ taken' = [taken EXCEPT ![t] = @ \ {cur[t]}]
    /\ cur' = [cur EXCEPT ![t] = NoSnap]
    /\ Goto(t, "next")
    /\ UNCHANGED <<scans, mode, written, history>>

\* save_all_pending puts it back, over what was staged for the card since.
PutBack(t) ==
    /\ pc[t] = "putback"
    /\ pending' = Put(cur[t])
    /\ taken' = [taken EXCEPT ![t] = @ \ {cur[t]}]
    /\ cur' = [cur EXCEPT ![t] = NoSnap]
    /\ Goto(t, "next")
    /\ UNCHANGED <<scans, mode, written, history>>

\* This write fails too, which ends the loop.
PutBackFails(t) ==
    /\ pc[t] = "putback"
    /\ faults < MaxFaults
    /\ faults' = faults + 1
    /\ pending' \in {pending, {}}
    /\ taken' = [taken EXCEPT ![t] = {}]
    /\ cur' = [cur EXCEPT ![t] = NoSnap]
    /\ Goto(t, "idle")
    /\ UNCHANGED <<scans, mode, written, discarded>>

Save(t) ==
    \/ TakeOne(t) \/ TakeAll(t)
    \/ NextSnap(t) \/ Write(t) \/ Return(t)
    \/ Raise(t) \/ PutBack(t) \/ PutBackFails(t)

Next ==
    \/ \E c \in Cards : Stage(c)
    \/ Discard \/ TornWrite \/ Crash
    \/ \E t \in Threads : Save(t)

Spec == Init /\ [][Next]_vars

(***************************************************************************)
(* Properties                                                              *)
(***************************************************************************)

\* A snapshot is in the pending file or in the hands of one request, never
\* both: two requests do not save it at the same time, and it is not put back
\* next to itself.  This is what _file_lock is for ("serialises all mutations").
OneOwner ==
    \A s \in Snaps :
        /\ \A t, u \in Threads : s \in taken[t] /\ s \in taken[u] => t = u
        /\ \A t \in Threads : s \in taken[t] => s \notin pending

Held == pending \cup written \cup UNION {taken[t] : t \in Threads}

MayGo(s) ==
    \/ s \in discarded'
    \/ \E x \in pending' :
          /\ x.card = s.card
          /\ x.n > s.n \/ \E t \in Threads : pc[t] = "putback" /\ x = cur[t]
    \/ \E t \in Threads : mode[t] = "one" /\ cur[t] = s /\ pc[t] = "write" /\ pc'[t] = "idle"
    \/ faults' > faults

\* A snapshot does not vanish on its way to the ledger: what is pending or
\* being saved stays so until its file is written, unless the user discards
\* it, a snapshot of its card takes its place (a newer one, or one that is put
\* back), a single save of it raises, or a fault occurs.
NothingVanishes == [][\A s \in Held : s \in Held' \/ MayGo(s)]_vars
=============================================================================
