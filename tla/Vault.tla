------------------------------- MODULE Vault --------------------------------
(***************************************************************************)
(* The secrets vault, core/services/vault/core.py: locking and unlocking   *)
(* of secret files, the passphrases of the session and the auto-lock       *)
(* timer.  Requests run in threads of the server, an auto-lock in the      *)
(* thread of its timer, and nothing keeps them apart: _lock guards single  *)
(* accesses to the passphrases only.  Every access to a file, to the       *)
(* passphrases or to the timer is a step of its own.                       *)
(***************************************************************************)
EXTENDS Naturals

CONSTANTS
    Files,       \* secret files
    Requests,    \* request threads
    TimerThread, \* the thread of a timer that has fired, one at a time
    MaxOps,      \* bound on the requests
    MaxEdits,    \* bound on the edits of each file
    MaxFaults,   \* bound on crashes and failed writes
    Absent, Bad, Torn

Threads == Requests \cup {TimerThread}

\* What a file can hold: a version of the secret, nothing (Absent), or part
\* of a secret or random bytes (Bad); a vault may also be no envelope (Torn).
Secrets == 0..MaxEdits

ASSUME AutoAssumption == TimerThread \notin Requests
ASSUME BoundsAssumption == MaxOps \in Nat /\ MaxEdits \in Nat /\ MaxFaults \in Nat
ASSUME ContentAssumption ==
    /\ {Absent, Bad, Torn} \cap Nat = {}
    /\ Absent # Bad /\ Absent # Torn /\ Bad # Torn

VARIABLES
    plain,      \* the plaintext file
    sealed,     \* what its vault decrypts to
    current,    \* history: the version its user has saved last
    phrases,    \* _session_passphrases: the files that have one
    enabled,    \* is _auto_lock_minutes > 0
    timer,      \* _auto_lock_timer: "none", not started yet ("fresh"),
                \* "armed", or fired and so of no effect ("spent")
    leaked,     \* number of armed timers that no variable refers to
    pc,         \* where a thread is
    at,         \* the file it works on
    got,        \* what it has read from it
    todo,       \* what is left of the snapshot that auto_lock goes through
    endangered, \* history: the files that were not safe, see below
    raced,      \* history: have two threads been at the timer together
    ops, faults \* counters for the bounds

disk == <<plain, sealed, current>>
session == <<phrases, enabled>>
clock == <<timer, leaked>>
local == <<at, got>>
bounds == <<ops, faults>>
vars == <<disk, session, clock, pc, local, todo, endangered, raced, bounds>>

LockSteps == {"read", "seal", "sealing", "wipe", "unlink", "forget"}
UnlockSteps == {"open", "put", "putting", "drop"}
TimerSteps == {"last", "cancel", "stop", "new", "start"}

TypeOK ==
    /\ plain \in [Files -> Secrets \cup {Absent, Bad}]
    /\ sealed \in [Files -> Secrets \cup {Absent, Bad, Torn}]
    /\ current \in [Files -> Secrets]
    /\ phrases \subseteq Files
    /\ enabled \in BOOLEAN
    /\ timer \in {"none", "fresh", "armed", "spent"}
    /\ leaked \in Nat
    /\ pc \in [Threads -> {"idle", "remember", "auto"}
                             \cup LockSteps \cup UnlockSteps \cup TimerSteps]
    /\ at \in [Threads -> Files \cup {Absent}]
    /\ got \in [Threads -> Secrets \cup {Absent, Bad}]
    /\ todo \subseteq Files
    /\ endangered \subseteq Files
    /\ raced \in BOOLEAN
    /\ ops \in 0..MaxOps
    /\ faults \in 0..MaxFaults

Init ==
    /\ plain \in [Files -> {0, Absent}]
    /\ sealed = [f \in Files |-> IF plain[f] = Absent THEN 0 ELSE Absent]
    /\ current = [f \in Files |-> 0]
    /\ phrases = {} /\ enabled = TRUE
    /\ timer = "none" /\ leaked = 0
    /\ pc = [t \in Threads |-> "idle"]
    /\ at = [t \in Threads |-> Absent]
    /\ got = [t \in Threads |-> Absent]
    /\ todo = {}
    /\ endangered = {} /\ raced = FALSE
    /\ ops = 0 /\ faults = 0

(***************************************************************************)
(* Control                                                                 *)
(***************************************************************************)
TogetherAtTimer(where) ==
    \E t, u \in Threads : t # u /\ where[t] \in TimerSteps /\ where[u] \in TimerSteps

Goto(t, label) ==
    /\ pc' = [pc EXCEPT ![t] = label]
    /\ raced' = (raced \/ TogetherAtTimer(pc'))

Continue(t, label) == Goto(t, label) /\ UNCHANGED local

\* The operation is over: a request returns, auto_lock takes its next file.
Finish(t) ==
    /\ IF t = TimerThread THEN Goto(t, "auto") ELSE Goto(t, "idle")
    /\ at' = [at EXCEPT ![t] = Absent]
    /\ got' = [got EXCEPT ![t] = Absent]

\* A file is in danger once two operations on it overlap, once its user saves
\* it in the middle of one, or once a lock takes for the secret what a crash
\* has left in its place.
Endanger(f, when) == endangered' = IF when THEN endangered \cup {f} ELSE endangered
Busy(f) == \E t \in Threads : pc[t] \in LockSteps \cup UnlockSteps /\ at[t] = f

Request(t) == t \in Requests /\ pc[t] = "idle" /\ ops < MaxOps /\ ops' = ops + 1

At(t, f) == at' = [at EXCEPT ![t] = f]

(***************************************************************************)
(* lock_vault                                                              *)
(***************************************************************************)
Lock(t, f) ==
    /\ Request(t)
    /\ plain[f] # Absent
    /\ At(t, f)
    /\ Endanger(f, plain[f] = Bad \/ Busy(f))
    /\ Goto(t, "read")
    /\ UNCHANGED <<disk, session, clock, got, todo, faults>>

Read(t) ==
    /\ pc[t] = "read"
    /\ IF plain[at[t]] = Absent THEN Finish(t)
       ELSE /\ Goto(t, "seal")
            /\ got' = [got EXCEPT ![t] = plain[at[t]]]
            /\ at' = at
    /\ UNCHANGED <<disk, session, clock, todo, endangered, bounds>>

\* Mutant: the plaintext is overwritten before the vault is written.
SealBehind(t) ==
    /\ pc[t] = "seal"
    /\ sealed' = [sealed EXCEPT ![at[t]] = Torn]
    /\ plain' = [plain EXCEPT ![at[t]] = Bad]
    /\ Continue(t, "sealing")
    /\ UNCHANGED <<current, session, clock, todo, endangered, bounds>>

\* write_text empties the vault file first.
Seal(t) ==
    /\ pc[t] = "seal"
    /\ sealed' = [sealed EXCEPT ![at[t]] = Torn]
    /\ Continue(t, "sealing")
    /\ UNCHANGED <<plain, current, session, clock, todo, endangered, bounds>>

Sealed(t) ==
    /\ pc[t] = "sealing"
    /\ sealed' = [sealed EXCEPT ![at[t]] = got[t]]
    /\ Continue(t, "wipe")
    /\ UNCHANGED <<plain, current, session, clock, todo, endangered, bounds>>

\* _secure_delete overwrites a file that is there ...
Wipe(t) ==
    /\ pc[t] = "wipe"
    /\ IF plain[at[t]] = Absent
       THEN /\ Continue(t, "forget")
            /\ UNCHANGED plain
       ELSE /\ Continue(t, "unlink")
            /\ plain' = [plain EXCEPT ![at[t]] = Bad]
    /\ UNCHANGED <<sealed, current, session, clock, todo, endangered, bounds>>

\* ... and removes it.
Unlink(t) ==
    /\ pc[t] = "unlink"
    /\ plain' = [plain EXCEPT ![at[t]] = Absent]
    /\ Continue(t, "forget")
    /\ UNCHANGED <<sealed, current, session, clock, todo, endangered, bounds>>

Forget(t) ==
    /\ pc[t] = "forget"
    /\ phrases' = phrases \ {at[t]}
    /\ Continue(t, "last")
    /\ UNCHANGED <<disk, enabled, clock, todo, endangered, bounds>>

\* Mutant: the timer is cancelled with every lock.
IsLastAlways(t) ==
    /\ pc[t] = "last"
    /\ Continue(t, "cancel")
    /\ UNCHANGED <<disk, session, clock, todo, endangered, bounds>>

\* "if not _session_passphrases: _cancel_auto_lock_timer()"
IsLast(t) ==
    /\ pc[t] = "last"
    /\ IF phrases = {} THEN Continue(t, "cancel") ELSE Finish(t)
    /\ UNCHANGED <<disk, session, clock, todo, endangered, bounds>>

Cancel(t) ==
    /\ pc[t] = "cancel"
    /\ timer' = "none"
    /\ Finish(t)
    /\ UNCHANGED <<disk, session, leaked, todo, endangered, bounds>>

(***************************************************************************)
(* unlock_vault and register_passphrase                                    *)
(***************************************************************************)
Unlock(t, f) ==
    /\ Request(t)
    /\ sealed[f] # Absent
    /\ plain[f] = Absent
    /\ At(t, f)
    /\ Endanger(f, Busy(f))
    /\ Goto(t, "open")
    /\ UNCHANGED <<disk, session, clock, got, todo, faults>>

\* Mutant: the envelope is not looked at.
OpenUnchecked(t) ==
    /\ pc[t] = "open"
    /\ got' = [got EXCEPT ![t] = sealed[at[t]]]
    /\ at' = at
    /\ Goto(t, "put")
    /\ UNCHANGED <<disk, session, clock, todo, endangered, bounds>>

\* Not an envelope, or not the passphrase: an error and nothing else.
Open(t) ==
    /\ pc[t] = "open"
    /\ \/ /\ sealed[at[t]] \notin {Absent, Torn}
          /\ got' = [got EXCEPT ![t] = sealed[at[t]]]
          /\ at' = at
          /\ Goto(t, "put")
       \/ Finish(t)
    /\ UNCHANGED <<disk, session, clock, todo, endangered, bounds>>

Put(t) ==
    /\ pc[t] = "put"
    /\ plain' = [plain EXCEPT ![at[t]] = Bad]
    /\ Continue(t, "putting")
    /\ UNCHANGED <<sealed, current, session, clock, todo, endangered, bounds>>

PutDone(t) ==
    /\ pc[t] = "putting"
    /\ plain' = [plain EXCEPT ![at[t]] = got[t]]
    /\ Continue(t, "drop")
    /\ UNCHANGED <<sealed, current, session, clock, todo, endangered, bounds>>

Drop(t) ==
    /\ pc[t] = "drop"
    /\ sealed' = [sealed EXCEPT ![at[t]] = Absent]
    /\ Continue(t, "remember")
    /\ UNCHANGED <<plain, current, session, clock, todo, endangered, bounds>>

\* Validated against the vault when there is one.
Register(t, f) ==
    /\ Request(t)
    /\ plain[f] # Absent
    /\ sealed[f] # Torn
    /\ At(t, f)
    /\ Goto(t, "remember")
    /\ UNCHANGED <<disk, session, clock, got, todo, endangered, faults>>

Remember(t) ==
    /\ pc[t] = "remember"
    /\ phrases' = phrases \cup {at[t]}
    /\ pc' = [pc EXCEPT ![t] = "stop"]
    /\ raced' = (raced \/ TogetherAtTimer(pc') \/ pc[TimerThread] # "idle")
    /\ UNCHANGED <<disk, enabled, clock, local, todo, endangered, bounds>>

(***************************************************************************)
(* _start_auto_lock_timer: cancel the old one, set the new one, start what *)
(* the variable holds by then -- which raises when that is no fresh timer  *)
(***************************************************************************)
Stop(t) ==
    /\ pc[t] = "stop"
    /\ timer' = "none"
    /\ IF enabled THEN Continue(t, "new") ELSE Finish(t)
    /\ UNCHANGED <<disk, session, leaked, todo, endangered, bounds>>

New(t) ==
    /\ pc[t] = "new"
    /\ timer' = "fresh"
    /\ leaked' = IF timer = "armed" THEN leaked + 1 ELSE leaked
    /\ Continue(t, "start")
    /\ UNCHANGED <<disk, session, todo, endangered, bounds>>

Start(t) ==
    /\ pc[t] = "start"
    /\ timer' = IF timer = "fresh" THEN "armed" ELSE timer
    /\ Finish(t)
    /\ UNCHANGED <<disk, session, leaked, todo, endangered, bounds>>

\* touch_activity, ahead of every request that is not a poll.
Touch(t) ==
    /\ Request(t)
    /\ phrases # {}
    /\ Goto(t, "stop")
    /\ UNCHANGED <<disk, session, clock, local, todo, endangered, faults>>

\* set_auto_lock_minutes
Configure(t) ==
    /\ Request(t)
    /\ enabled' = ~enabled
    /\ IF phrases # {} THEN Continue(t, "stop") ELSE Continue(t, "idle")
    /\ UNCHANGED <<disk, phrases, clock, todo, endangered, faults>>

(***************************************************************************)
(* auto_lock                                                               *)
(***************************************************************************)

\* A timer expires: auto_lock takes its snapshot.
Fire ==
    /\ pc[TimerThread] = "idle"
    /\ \/ timer = "armed" /\ timer' = "spent" /\ leaked' = leaked
       \/ leaked > 0 /\ leaked' = leaked - 1 /\ timer' = timer
    /\ todo' = phrases
    /\ IF phrases = {} THEN Goto(TimerThread, "idle") ELSE Goto(TimerThread, "auto")
    /\ UNCHANGED <<disk, session, local, endangered, bounds>>

\* Mutant: the loop ends with its first file.
AutoNextOnly(f) ==
    /\ pc[TimerThread] = "auto"
    /\ f \in todo
    /\ todo' = {}
    /\ IF plain[f] = Absent
       THEN UNCHANGED <<at, endangered, pc, raced>>
       ELSE /\ At(TimerThread, f)
            /\ Endanger(f, plain[f] = Bad \/ Busy(f))
            /\ Goto(TimerThread, "read")
    /\ UNCHANGED <<disk, session, clock, got, bounds>>

\* The next file of the snapshot; one that is gone is skipped.
AutoNext(f) ==
    /\ pc[TimerThread] = "auto"
    /\ f \in todo
    /\ todo' = todo \ {f}
    /\ IF plain[f] = Absent
       THEN UNCHANGED <<at, endangered, pc, raced>>
       ELSE /\ At(TimerThread, f)
            /\ Endanger(f, plain[f] = Bad \/ Busy(f))
            /\ Goto(TimerThread, "read")
    /\ UNCHANGED <<disk, session, clock, got, bounds>>

\* "Clear all stored passphrases"
AutoClear ==
    /\ pc[TimerThread] = "auto"
    /\ todo = {}
    /\ phrases' = {}
    /\ Goto(TimerThread, "idle")
    /\ UNCHANGED <<disk, enabled, clock, local, todo, endangered, bounds>>

(***************************************************************************)
(* The user, the disk and the server                                       *)
(***************************************************************************)

\* The user saves a new version (env_crud, an editor).
Edit(f) ==
    /\ plain[f] \in Secrets
    /\ current[f] < MaxEdits
    /\ current' = [current EXCEPT ![f] = @ + 1]
    /\ plain' = [plain EXCEPT ![f] = current[f] + 1]
    /\ Endanger(f, Busy(f))
    /\ UNCHANGED <<sealed, session, clock, pc, local, todo, raced, bounds>>

Fault == faults < MaxFaults /\ faults' = faults + 1

\* A write raises half way: the operation ends there.
WriteFails(t) ==
    /\ Fault
    /\ pc[t] \in {"sealing", "putting"}
    /\ Finish(t)
    /\ UNCHANGED <<disk, session, clock, todo, endangered, ops>>

\* A file cannot be removed, and stays: _secure_delete and unlock_vault
\* swallow that.
DeleteFails(t) ==
    /\ Fault
    /\ \/ pc[t] \in {"wipe", "unlink"} /\ Continue(t, "forget")
       \/ pc[t] = "drop" /\ Continue(t, "remember")
    /\ UNCHANGED <<disk, session, clock, todo, endangered, ops>>

\* The server ends: killed, or by a signal, whose handler looks for a
\* passphrase under a name that does not exist and so locks nothing.
Crash ==
    /\ Fault
    /\ phrases' = {} /\ enabled' = TRUE
    /\ timer' = "none" /\ leaked' = 0
    /\ pc' = [t \in Threads |-> "idle"]
    /\ at' = [t \in Threads |-> Absent]
    /\ got' = [t \in Threads |-> Absent]
    /\ todo' = {}
    /\ raced' = FALSE
    /\ UNCHANGED <<disk, endangered, ops>>

ThreadStep(t) ==
    \/ Read(t) \/ Seal(t) \/ Sealed(t) \/ Wipe(t) \/ Unlink(t)
    \/ Forget(t) \/ IsLast(t) \/ Cancel(t)
    \/ Open(t) \/ Put(t) \/ PutDone(t) \/ Drop(t) \/ Remember(t)
    \/ Stop(t) \/ New(t) \/ Start(t)

AutoStep == ThreadStep(TimerThread) \/ AutoClear \/ \E f \in Files : AutoNext(f)

Next ==
    \/ \E t \in Requests, f \in Files : Lock(t, f) \/ Unlock(t, f) \/ Register(t, f)
    \/ \E t \in Requests : Touch(t) \/ Configure(t) \/ ThreadStep(t)
    \/ Fire \/ AutoStep
    \/ \E f \in Files : Edit(f)
    \/ \E t \in Threads : WriteFails(t) \/ DeleteFails(t)
    \/ Crash

Spec == Init /\ [][Next]_vars

\* Threads run, and timers expire.
FairSpec ==
    /\ Spec
    /\ \A t \in Requests : WF_vars(ThreadStep(t))
    /\ WF_vars(AutoStep) /\ WF_vars(Fire)

(***************************************************************************)
(* Properties                                                              *)
(***************************************************************************)

\* The secret exists at every moment, in the plaintext or in the vault,
\* through crashes and failed writes anywhere in lock, unlock and auto-lock,
\* unless the file was endangered.
SecretSurvives ==
    \A f \in Files \ endangered : current[f] \in {plain[f], sealed[f]}

AllIdle == \A t \in Threads : pc[t] = "idle"

\* While a passphrase is held and auto-lock is on, a timer runs, unless two
\* threads have been at the timer together.
Guarded == AllIdle /\ enabled /\ phrases # {} /\ ~raced => timer = "armed" \/ leaked > 0

\* A file whose passphrase is held is locked once its user is inactive, or
\* auto-lock is switched off, or a write fails or the server ends, or two
\* threads have been at the timer together, or a passphrase was registered
\* during an auto-lock, which forgets it at its end.
AutoLocks ==
    \A f \in Files :
        f \in phrases ~> plain[f] = Absent \/ ~enabled \/ faults > 0 \/ raced
                            \/ f \in endangered
=============================================================================
