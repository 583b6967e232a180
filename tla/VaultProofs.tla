---------------------------- MODULE VaultProofs -----------------------------
(***************************************************************************)
(* No secret is lost, for any files, requests, bounds and threads, as long *)
(* as operations on one file do not overlap; and a held passphrase is      *)
(* watched by a timer.                                                     *)
(***************************************************************************)
EXTENDS Vault, TLAPS

USE AutoAssumption, BoundsAssumption, ContentAssumption

Labels == {"idle", "remember", "auto"} \cup LockSteps \cup UnlockSteps \cup TimerSteps

-----------------------------------------------------------------------------
\* Types.  The control operators first, so that the actions need not be
\* opened up to functions again and again.
LEMMA GotoType ==
    ASSUME TypeOK, NEW t \in Threads, NEW label \in Labels, Goto(t, label)
    PROVE  pc' \in [Threads -> Labels] /\ raced' \in BOOLEAN
<1>1. pc' \in [Threads -> Labels]
  BY DEF Goto, TypeOK, Labels
<1>2. raced' \in BOOLEAN
  BY DEF Goto, TypeOK
<1> QED
  BY <1>1, <1>2

LEMMA ContinueType ==
    ASSUME TypeOK, NEW t \in Threads, NEW label \in Labels, Continue(t, label)
    PROVE  pc' \in [Threads -> Labels] /\ raced' \in BOOLEAN /\ UNCHANGED local
  BY GotoType DEF Continue

LEMMA FinishType ==
    ASSUME TypeOK, NEW t \in Threads, Finish(t)
    PROVE  /\ pc' \in [Threads -> Labels] /\ raced' \in BOOLEAN
           /\ at' \in [Threads -> Files \cup {Absent}]
           /\ got' \in [Threads -> Secrets \cup {Absent, Bad}]
<1>1. {"auto", "idle"} \subseteq Labels
  BY DEF Labels
<1>2. pc' \in [Threads -> Labels] /\ raced' \in BOOLEAN
  BY <1>1, GotoType DEF Finish
<1>3. /\ at' \in [Threads -> Files \cup {Absent}]
      /\ got' \in [Threads -> Secrets \cup {Absent, Bad}]
  BY DEF Finish, TypeOK
<1> QED
  BY <1>2, <1>3

LEMMA FaultType == ASSUME TypeOK, Fault PROVE faults' \in 0..MaxFaults
  BY DEF TypeOK, Fault

LEMMA RequestType ==
    ASSUME TypeOK, NEW t, Request(t)
    PROVE  t \in Requests /\ t \in Threads /\ ops' \in 0..MaxOps
  BY DEF TypeOK, Request, Threads

\* A thread that works on a file, or remembers it, has one.
HasFile ==
    \A t \in Threads :
        pc[t] \in LockSteps \cup UnlockSteps \cup {"remember"} => at[t] \in Files

Typed == TypeOK /\ HasFile

LEMMA ThreadStepType ==
    ASSUME Typed, NEW t \in Threads, ThreadStep(t) \/ WriteFails(t) \/ DeleteFails(t)
    PROVE  TypeOK'
<1>t. /\ TypeOK
      /\ pc[t] \in LockSteps \cup UnlockSteps \cup {"remember"} => at[t] \in Files
  BY DEF Typed, HasFile
<1>steps. LockSteps \cup UnlockSteps \cup TimerSteps \cup {"remember"} \subseteq Labels
  BY DEF Labels
<1> USE DEF disk, session, clock, bounds
<1>1. CASE Read(t)
  BY <1>1, <1>t, FinishType, GotoType
  DEF Read, TypeOK, Labels, LockSteps, UnlockSteps, TimerSteps, local
<1>2. CASE Seal(t)
  BY <1>2, <1>t, ContinueType
  DEF Seal, TypeOK, Labels, LockSteps, UnlockSteps, TimerSteps, local
<1>3. CASE Sealed(t)
  BY <1>3, <1>t, ContinueType
  DEF Sealed, TypeOK, Labels, LockSteps, UnlockSteps, TimerSteps, local
<1>4. CASE Wipe(t)
  BY <1>4, <1>t, ContinueType
  DEF Wipe, TypeOK, Labels, LockSteps, UnlockSteps, TimerSteps, local
<1>5. CASE Unlink(t)
  BY <1>5, <1>t, ContinueType
  DEF Unlink, TypeOK, Labels, LockSteps, UnlockSteps, TimerSteps, local
<1>6. CASE Forget(t)
  BY <1>6, <1>t, ContinueType
  DEF Forget, TypeOK, Labels, LockSteps, UnlockSteps, TimerSteps, local
<1>7. CASE IsLast(t)
  BY <1>7, <1>t, ContinueType, FinishType
  DEF IsLast, TypeOK, Labels, LockSteps, UnlockSteps, TimerSteps, local
<1>8. CASE Cancel(t)
  BY <1>8, <1>t, FinishType
  DEF Cancel, TypeOK, Labels, LockSteps, UnlockSteps, TimerSteps, local
<1>9. CASE Open(t)
  BY <1>9, <1>t, FinishType, GotoType
  DEF Open, TypeOK, Labels, LockSteps, UnlockSteps, TimerSteps, local
<1>10. CASE Put(t)
  BY <1>10, <1>t, ContinueType
  DEF Put, TypeOK, Labels, LockSteps, UnlockSteps, TimerSteps, local
<1>11. CASE PutDone(t)
  BY <1>11, <1>t, ContinueType
  DEF PutDone, TypeOK, Labels, LockSteps, UnlockSteps, TimerSteps, local
<1>12. CASE Drop(t)
  BY <1>12, <1>t, ContinueType
  DEF Drop, TypeOK, Labels, LockSteps, UnlockSteps, TimerSteps, local
<1>13. CASE Remember(t)
  BY <1>13, <1>t, GotoType
  DEF Remember, TypeOK, Labels, LockSteps, UnlockSteps, TimerSteps, local
<1>14. CASE Stop(t)
  BY <1>14, <1>t, ContinueType, FinishType
  DEF Stop, TypeOK, Labels, LockSteps, UnlockSteps, TimerSteps, local
<1>15. CASE New(t)
  BY <1>15, <1>t, ContinueType
  DEF New, TypeOK, Labels, LockSteps, UnlockSteps, TimerSteps, local
<1>16. CASE Start(t)
  BY <1>16, <1>t, FinishType
  DEF Start, TypeOK, Labels, LockSteps, UnlockSteps, TimerSteps, local
<1>17. CASE WriteFails(t)
  BY <1>17, <1>t, FinishType, FaultType
  DEF WriteFails, TypeOK, Labels, LockSteps, UnlockSteps, TimerSteps, local
<1>18. CASE DeleteFails(t)
  BY <1>18, <1>t, ContinueType, FaultType
  DEF DeleteFails, TypeOK, Labels, LockSteps, UnlockSteps, TimerSteps, local
<1> QED
  BY <1>1, <1>2, <1>3, <1>4, <1>5, <1>6, <1>7, <1>8, <1>9, <1>10, <1>11, <1>12, <1>13,
     <1>14, <1>15, <1>16, <1>17, <1>18 DEF ThreadStep

LEMMA OtherStepType ==
    ASSUME Typed,
           \/ \E t \in Requests, f \in Files : Lock(t, f) \/ Unlock(t, f) \/ Register(t, f)
           \/ \E t \in Requests : Touch(t) \/ Configure(t)
           \/ Fire \/ AutoClear \/ \E f \in Files : AutoNext(f) \/ Edit(f)
           \/ Crash
    PROVE  TypeOK'
<1>t. TypeOK
  BY DEF Typed
<1>auto. TimerThread \in Threads
  BY DEF Threads
<1>steps. /\ "read" \in Labels /\ "open" \in Labels /\ "remember" \in Labels
          /\ "stop" \in Labels /\ "idle" \in Labels /\ "auto" \in Labels
  BY DEF Labels, LockSteps, UnlockSteps, TimerSteps
<1>goto. (\E label \in {"idle", "auto", "read"} : Goto(TimerThread, label)) =>
            pc' \in [Threads -> Labels] /\ raced' \in BOOLEAN
  BY <1>t, <1>auto, <1>steps, GotoType
<1> USE DEF disk, session, clock, bounds, local
<1>1. ASSUME NEW t \in Requests, NEW f \in Files, Lock(t, f) PROVE TypeOK'
  BY <1>1, <1>t, <1>steps, RequestType, GotoType DEF Lock, At, Endanger, TypeOK, Labels
<1>2. ASSUME NEW t \in Requests, NEW f \in Files, Unlock(t, f) PROVE TypeOK'
  BY <1>2, <1>t, <1>steps, RequestType, GotoType DEF Unlock, At, Endanger, TypeOK, Labels
<1>3. ASSUME NEW t \in Requests, NEW f \in Files, Register(t, f) PROVE TypeOK'
  BY <1>3, <1>t, <1>steps, RequestType, GotoType DEF Register, At, TypeOK, Labels
<1>4. ASSUME NEW t \in Requests, Touch(t) PROVE TypeOK'
  BY <1>4, <1>t, <1>steps, RequestType, GotoType DEF Touch, TypeOK, Labels
<1>5. ASSUME NEW t \in Requests, Configure(t) PROVE TypeOK'
  <2>2. pc' \in [Threads -> Labels] /\ raced' \in BOOLEAN /\ UNCHANGED local
    BY <1>5, <1>t, <1>steps, RequestType, ContinueType DEF Configure
  <2> QED
    BY <1>5, <1>t, <2>2, RequestType DEF Configure, TypeOK, Labels
<1>6. CASE Fire
  <2>1. pc' \in [Threads -> Labels] /\ raced' \in BOOLEAN
    BY <1>6, <1>goto DEF Fire
  <2>2. leaked' \in Nat /\ timer' \in {"none", "fresh", "armed", "spent"}
    BY <1>6, <1>t DEF Fire, TypeOK
  <2> QED
    BY <1>6, <1>t, <2>1, <2>2 DEF Fire, TypeOK, Labels
<1>7. CASE AutoClear
  <2>1. pc' \in [Threads -> Labels] /\ raced' \in BOOLEAN
    BY <1>7, <1>goto DEF AutoClear
  <2> QED
    BY <1>7, <1>t, <2>1 DEF AutoClear, TypeOK, Labels
<1>8. ASSUME NEW f \in Files, AutoNext(f) PROVE TypeOK'
  <2>1. pc' \in [Threads -> Labels] /\ raced' \in BOOLEAN
    BY <1>8, <1>t, <1>goto DEF AutoNext, TypeOK, Labels
  <2> QED
    BY <1>8, <1>t, <1>auto, <2>1 DEF AutoNext, At, Endanger, TypeOK, Labels
<1>9. ASSUME NEW f \in Files, Edit(f) PROVE TypeOK'
  <2>1. current[f] + 1 \in Secrets
    BY <1>9, <1>t DEF Edit, TypeOK, Secrets
  <2> QED
    BY <1>9, <1>t, <2>1 DEF Edit, Endanger, TypeOK
<1>10. CASE Crash
  BY <1>10, <1>t, FaultType DEF Crash, TypeOK
<1> QED
  BY <1>1, <1>2, <1>3, <1>4, <1>5, <1>6, <1>7, <1>8, <1>9, <1>10

-----------------------------------------------------------------------------
\* Where the secret is, at every point of every operation on its file.
AtWork(t, f) == pc[t] \in LockSteps \cup UnlockSteps /\ at[t] = f

\* The plaintext is the secret; or it is gone or damaged, and the vault has it.
InPlace(f) == \/ plain[f] = current[f]
              \/ plain[f] \in {Absent, Bad} /\ sealed[f] = current[f]

\* What thread t can rely on while it works on f.
Relies(t, f) ==
    /\ pc[t] = "read" => plain[f] = current[f]
    /\ pc[t] \in {"seal", "sealing"} => plain[f] = current[f] /\ got[t] = current[f]
    /\ pc[t] \in {"wipe", "unlink"} => sealed[f] = current[f]
    /\ pc[t] = "open" => plain[f] = Absent
    /\ pc[t] \in {"put", "putting"} =>
          plain[f] \in {Absent, Bad} /\ sealed[f] = current[f] /\ got[t] = current[f]
    /\ pc[t] = "drop" => plain[f] = current[f]

Safe(f) ==
    /\ InPlace(f)
    /\ \A t \in Threads : AtWork(t, f) => Relies(t, f)
    /\ \A t, u \in Threads : AtWork(t, f) /\ AtWork(u, f) => t = u

Secure == \A f \in Files : f \notin endangered => Safe(f)

\* A step of a thread that works on file g touches nothing of another file:
\* what is left to see is that g is safe after it.
LEMMA LocalStep ==
    ASSUME Typed, Secure, NEW t \in Threads, NEW g \in Files, AtWork(t, g),
           \A f \in Files \ {g} : plain'[f] = plain[f] /\ sealed'[f] = sealed[f],
           UNCHANGED <<current, endangered>>,
           \A u \in Threads \ {t} : pc'[u] = pc[u] /\ at'[u] = at[u] /\ got'[u] = got[u],
           at'[t] = g \/ pc'[t] \notin LockSteps \cup UnlockSteps,
           g \notin endangered => InPlace(g)' /\ (AtWork(t, g)' => Relies(t, g)')
    PROVE  Secure'
<1> SUFFICES ASSUME NEW f \in Files, f \notin endangered PROVE Safe(f)'
  BY DEF Secure
<1>1. Safe(f)
  BY DEF Secure
<1>2. \A u \in Threads \ {t} : AtWork(u, f)' = AtWork(u, f)
  BY DEF AtWork
<1>3. CASE f = g
  <2>1. \A u \in Threads \ {t} : ~ AtWork(u, f)'
    BY <1>1, <1>2, <1>3 DEF Safe
  <2> QED
    BY <2>1, <1>3 DEF Safe
<1>4. CASE f # g
  <2>1. ~ AtWork(t, f)' /\ ~ AtWork(t, f)
    BY <1>4 DEF AtWork
  <2>2. InPlace(f)'
    BY <1>1, <1>4 DEF Safe, InPlace
  <2>3. \A u \in Threads \ {t} : AtWork(u, f)' => Relies(u, f)'
    BY <1>1, <1>2, <1>4 DEF Safe, Relies
  <2>4. \A u, w \in Threads : AtWork(u, f)' /\ AtWork(w, f)' => u = w
    BY <1>1, <1>2, <2>1 DEF Safe
  <2> QED
    BY <2>1, <2>2, <2>3, <2>4 DEF Safe
<1> QED
  BY <1>3, <1>4

\* A step that leaves the disk alone, and takes no thread to a file.
LEMMA Elsewhere ==
    ASSUME Secure, UNCHANGED <<disk, endangered>>,
           \A u \in Threads :
              \/ pc'[u] = pc[u] /\ at'[u] = at[u] /\ got'[u] = got[u]
              \/ pc'[u] \notin LockSteps \cup UnlockSteps
    PROVE  Secure'
<1> SUFFICES ASSUME NEW f \in Files, f \notin endangered PROVE Safe(f)'
  BY DEF Secure
<1>1. Safe(f)
  BY DEF Secure
<1>2. \A u \in Threads :
        AtWork(u, f)' => AtWork(u, f) /\ pc'[u] = pc[u] /\ got'[u] = got[u]
  BY DEF AtWork
<1>3. InPlace(f)'
  BY <1>1 DEF Safe, InPlace, disk
<1>4. \A u \in Threads : AtWork(u, f)' => Relies(u, f)'
  BY <1>1, <1>2 DEF Safe, Relies, disk
<1> QED
  BY <1>1, <1>2, <1>3, <1>4 DEF Safe

\* A thread begins to work on file g.
LEMMA Begins ==
    ASSUME Typed, Secure, NEW t \in Threads, NEW g \in Files, UNCHANGED disk,
           pc[t] \notin LockSteps \cup UnlockSteps, NEW junk, Endanger(g, junk \/ Busy(g)),
           \A u \in Threads \ {t} : pc'[u] = pc[u] /\ at'[u] = at[u] /\ got'[u] = got[u],
           at'[t] = g,
           Safe(g) /\ ~junk => Relies(t, g)'
    PROVE  Secure'
<1> SUFFICES ASSUME NEW f \in Files, f \notin endangered' PROVE Safe(f)'
  BY DEF Secure
<1>1. f \notin endangered /\ (f = g => ~junk /\ ~Busy(g))
  BY DEF Endanger
<1>2. Safe(f)
  BY <1>1 DEF Secure
<1>3. \A u \in Threads \ {t} : AtWork(u, f)' = AtWork(u, f)
  BY DEF AtWork
<1>4. InPlace(f)'
  BY <1>2 DEF Safe, InPlace, disk
<1>5. \A u \in Threads \ {t} : AtWork(u, f)' => Relies(u, f)'
  BY <1>2, <1>3 DEF Safe, Relies, disk
<1>6. CASE f = g
  <2>1. \A u \in Threads : ~ AtWork(u, f)
    BY <1>1, <1>6 DEF Busy, AtWork
  <2>2. Relies(t, f)'
    BY <1>1, <1>2, <1>6
  <2> QED
    BY <1>3, <1>4, <1>5, <2>1, <2>2 DEF Safe
<1>7. CASE f # g
  <2>1. ~ AtWork(t, f)'
    BY <1>7 DEF AtWork
  <2> QED
    BY <1>2, <1>3, <1>4, <1>5, <2>1 DEF Safe
<1> QED
  BY <1>6, <1>7

-----------------------------------------------------------------------------
\* What a step of a thread does to the place of every thread.
LEMMA GotoPlace ==
    ASSUME TypeOK, NEW t \in Threads, NEW label, Goto(t, label)
    PROVE  pc'[t] = label /\ \A u \in Threads \ {t} : pc'[u] = pc[u]
  BY DEF Goto, TypeOK

LEMMA ContinuePlace ==
    ASSUME TypeOK, NEW t \in Threads, NEW label, Continue(t, label)
    PROVE  /\ pc'[t] = label /\ at' = at /\ got' = got
           /\ \A u \in Threads \ {t} : pc'[u] = pc[u] /\ at'[u] = at[u] /\ got'[u] = got[u]
  BY GotoPlace DEF Continue, local

LEMMA FinishPlace ==
    ASSUME TypeOK, NEW t \in Threads, Finish(t)
    PROVE  /\ pc'[t] \in {"idle", "auto"}
           /\ \A u \in Threads \ {t} : pc'[u] = pc[u] /\ at'[u] = at[u] /\ got'[u] = got[u]
<1>1. pc'[t] \in {"idle", "auto"} /\ \A u \in Threads \ {t} : pc'[u] = pc[u]
  BY GotoPlace DEF Finish
<1>2. \A u \in Threads \ {t} : at'[u] = at[u] /\ got'[u] = got[u]
  BY DEF Finish, TypeOK
<1> QED
  BY <1>1, <1>2

\* The steps of a thread that works on a file keep the files safe.
LEMMA WorkSafe ==
    ASSUME Typed, Secure, NEW t \in Threads,
           \/ Read(t) \/ Seal(t) \/ Sealed(t) \/ Wipe(t) \/ Unlink(t) \/ Forget(t)
           \/ Open(t) \/ Put(t) \/ PutDone(t) \/ Drop(t)
           \/ WriteFails(t) \/ DeleteFails(t)
    PROVE  Secure'
<1>ty. TypeOK
  BY DEF Typed
<1>at. pc[t] \in LockSteps \cup UnlockSteps /\ at[t] \in Files
  BY DEF Typed, HasFile, LockSteps, UnlockSteps, Read, Seal, Sealed, Wipe, Unlink, Forget,
     Open, Put, PutDone, Drop, WriteFails, DeleteFails
<1>g. PICK g \in Files : g = at[t]
  BY <1>at
<1> DEFINE Own == AtWork(t, g)' => Relies(t, g)'
<1>w. AtWork(t, g)
  BY <1>at, <1>g DEF AtWork
<1>s. g \notin endangered => InPlace(g) /\ Relies(t, g)
  BY <1>w DEF Secure, Safe
<1>others. /\ \A x : plain' = [plain EXCEPT ![g] = x] =>
                plain'[g] = x /\ \A f \in Files \ {g} : plain'[f] = plain[f]
           /\ \A x : sealed' = [sealed EXCEPT ![g] = x] =>
                sealed'[g] = x /\ \A f \in Files \ {g} : sealed'[f] = sealed[f]
  BY <1>ty DEF TypeOK
<1>idle. {"idle", "auto"} \cap (LockSteps \cup UnlockSteps) = {}
  BY DEF LockSteps, UnlockSteps
<1>1. CASE Read(t)
  <2>1. /\ \/ pc'[t] \in {"idle", "auto"}
           \/ pc'[t] = "seal" /\ at' = at /\ got'[t] = plain[g]
        /\ \A u \in Threads \ {t} : pc'[u] = pc[u] /\ at'[u] = at[u] /\ got'[u] = got[u]
    <3>1. CASE plain[g] = Absent
      BY <1>1, <1>g, <1>ty, <3>1, FinishPlace DEF Read
    <3>2. CASE plain[g] # Absent
      <4>1. Goto(t, "seal") /\ got' = [got EXCEPT ![t] = plain[g]] /\ at' = at
        BY <1>1, <1>g, <3>2 DEF Read
      <4>2. got'[t] = plain[g] /\ \A u \in Threads \ {t} : got'[u] = got[u]
        BY <1>ty, <4>1 DEF TypeOK
      <4> QED
        BY <1>ty, <4>1, <4>2, GotoPlace
    <3> QED
      BY <3>1, <3>2
  <2>2. /\ UNCHANGED <<current, endangered>>
        /\ UNCHANGED <<plain, sealed>>
    BY <1>1, <1>g DEF Read, disk
  <2>3. g \notin endangered => InPlace(g)' /\ Own
    BY <1>1, <1>s, <1>others, <1>idle, <2>1, <2>2
    DEF Read, InPlace, AtWork, Relies, LockSteps, UnlockSteps
  <2> QED
    BY <1>g, <1>w, <1>others, <1>idle, <2>1, <2>2, <2>3, LocalStep
<1>2. CASE Seal(t)
  <2>1. /\ pc'[t] = "sealing" /\ at' = at /\ got' = got
        /\ \A u \in Threads \ {t} : pc'[u] = pc[u] /\ at'[u] = at[u] /\ got'[u] = got[u]
    BY <1>2, <1>g, <1>ty, ContinuePlace DEF Seal
  <2>2. /\ UNCHANGED <<current, endangered>>
        /\ UNCHANGED plain /\ sealed' = [sealed EXCEPT ![g] = Torn]
    BY <1>2, <1>g DEF Seal, disk
  <2>3. g \notin endangered => InPlace(g)' /\ Own
    BY <1>2, <1>s, <1>others, <1>idle, <2>1, <2>2
    DEF Seal, InPlace, AtWork, Relies, LockSteps, UnlockSteps
  <2> QED
    BY <1>g, <1>w, <1>others, <1>idle, <2>1, <2>2, <2>3, LocalStep
<1>3. CASE Sealed(t)
  <2>1. /\ pc'[t] = "wipe" /\ at' = at /\ got' = got
        /\ \A u \in Threads \ {t} : pc'[u] = pc[u] /\ at'[u] = at[u] /\ got'[u] = got[u]
    BY <1>3, <1>g, <1>ty, ContinuePlace DEF Sealed
  <2>2. /\ UNCHANGED <<current, endangered>>
        /\ UNCHANGED plain /\ sealed' = [sealed EXCEPT ![g] = got[t]]
    BY <1>3, <1>g DEF Sealed, disk
  <2>3. g \notin endangered => InPlace(g)' /\ Own
    BY <1>3, <1>s, <1>others, <1>idle, <2>1, <2>2
    DEF Sealed, InPlace, AtWork, Relies, LockSteps, UnlockSteps
  <2> QED
    BY <1>g, <1>w, <1>others, <1>idle, <2>1, <2>2, <2>3, LocalStep
<1>4. CASE Wipe(t)
  <2>1. /\ pc'[t] \in {"forget", "unlink"} /\ at' = at /\ got' = got
        /\ (pc'[t] = "forget" => plain[g] = Absent)
        /\ \A u \in Threads \ {t} : pc'[u] = pc[u] /\ at'[u] = at[u] /\ got'[u] = got[u]
    BY <1>4, <1>g, <1>ty, ContinuePlace DEF Wipe
  <2>2. /\ UNCHANGED <<current, endangered>>
        /\ UNCHANGED sealed
        /\ (plain[g] = Absent /\ UNCHANGED plain) \/ plain' = [plain EXCEPT ![g] = Bad]
    BY <1>4, <1>g DEF Wipe, disk
  <2>3. g \notin endangered => InPlace(g)' /\ Own
    BY <1>4, <1>s, <1>others, <1>idle, <2>1, <2>2
    DEF Wipe, InPlace, AtWork, Relies, LockSteps, UnlockSteps
  <2> QED
    BY <1>g, <1>w, <1>others, <1>idle, <2>1, <2>2, <2>3, LocalStep
<1>5. CASE Unlink(t)
  <2>1. /\ pc'[t] = "forget" /\ at' = at /\ got' = got
        /\ \A u \in Threads \ {t} : pc'[u] = pc[u] /\ at'[u] = at[u] /\ got'[u] = got[u]
    BY <1>5, <1>g, <1>ty, ContinuePlace DEF Unlink
  <2>2. /\ UNCHANGED <<current, endangered>>
        /\ UNCHANGED sealed /\ plain' = [plain EXCEPT ![g] = Absent]
    BY <1>5, <1>g DEF Unlink, disk
  <2>3. g \notin endangered => InPlace(g)' /\ Own
    BY <1>5, <1>s, <1>others, <1>idle, <2>1, <2>2
    DEF Unlink, InPlace, AtWork, Relies, LockSteps, UnlockSteps
  <2> QED
    BY <1>g, <1>w, <1>others, <1>idle, <2>1, <2>2, <2>3, LocalStep
<1>6. CASE Forget(t)
  <2>1. /\ pc'[t] = "last" /\ at' = at /\ got' = got
        /\ \A u \in Threads \ {t} : pc'[u] = pc[u] /\ at'[u] = at[u] /\ got'[u] = got[u]
    BY <1>6, <1>g, <1>ty, ContinuePlace DEF Forget
  <2>2. /\ UNCHANGED <<current, endangered>>
        /\ UNCHANGED <<plain, sealed>>
    BY <1>6, <1>g DEF Forget, disk
  <2>3. g \notin endangered => InPlace(g)' /\ Own
    BY <1>6, <1>s, <1>others, <1>idle, <2>1, <2>2
    DEF Forget, InPlace, AtWork, Relies, LockSteps, UnlockSteps
  <2> QED
    BY <1>g, <1>w, <1>others, <1>idle, <2>1, <2>2, <2>3, LocalStep
<1>7. CASE Open(t)
  <2>1. /\ \/ pc'[t] \in {"idle", "auto"}
           \/ pc'[t] = "put" /\ at' = at /\ got'[t] = sealed[g] /\ sealed[g] \notin {Absent, Torn}
        /\ \A u \in Threads \ {t} : pc'[u] = pc[u] /\ at'[u] = at[u] /\ got'[u] = got[u]
    <3>1. CASE Finish(t)
      BY <1>ty, <3>1, FinishPlace
    <3>2. CASE ~ Finish(t)
      <4>1. /\ Goto(t, "put") /\ got' = [got EXCEPT ![t] = sealed[g]] /\ at' = at
            /\ sealed[g] \notin {Absent, Torn}
        BY <1>7, <1>g, <3>2 DEF Open
      <4>2. got'[t] = sealed[g] /\ \A u \in Threads \ {t} : got'[u] = got[u]
        BY <1>ty, <4>1 DEF TypeOK
      <4> QED
        BY <1>ty, <4>1, <4>2, GotoPlace
    <3> QED
      BY <3>1, <3>2
  <2>2. /\ UNCHANGED <<current, endangered>>
        /\ UNCHANGED <<plain, sealed>>
    BY <1>7, <1>g DEF Open, disk
  <2>3. current[g] # Absent
    BY <1>ty DEF TypeOK, Secrets
  <2>4. g \notin endangered => InPlace(g)' /\ Own
    BY <1>7, <1>s, <1>g, <1>idle, <2>1, <2>2, <2>3
    DEF Open, InPlace, AtWork, Relies, LockSteps, UnlockSteps
  <2> QED
    BY <1>g, <1>w, <1>others, <1>idle, <2>1, <2>2, <2>4, LocalStep
<1>8. CASE Put(t)
  <2>1. /\ pc'[t] = "putting" /\ at' = at /\ got' = got
        /\ \A u \in Threads \ {t} : pc'[u] = pc[u] /\ at'[u] = at[u] /\ got'[u] = got[u]
    BY <1>8, <1>g, <1>ty, ContinuePlace DEF Put
  <2>2. /\ UNCHANGED <<current, endangered>>
        /\ UNCHANGED sealed /\ plain' = [plain EXCEPT ![g] = Bad]
    BY <1>8, <1>g DEF Put, disk
  <2>3. g \notin endangered => InPlace(g)' /\ Own
    BY <1>8, <1>s, <1>others, <1>idle, <2>1, <2>2
    DEF Put, InPlace, AtWork, Relies, LockSteps, UnlockSteps
  <2> QED
    BY <1>g, <1>w, <1>others, <1>idle, <2>1, <2>2, <2>3, LocalStep
<1>9. CASE PutDone(t)
  <2>1. /\ pc'[t] = "drop" /\ at' = at /\ got' = got
        /\ \A u \in Threads \ {t} : pc'[u] = pc[u] /\ at'[u] = at[u] /\ got'[u] = got[u]
    BY <1>9, <1>g, <1>ty, ContinuePlace DEF PutDone
  <2>2. /\ UNCHANGED <<current, endangered>>
        /\ UNCHANGED sealed /\ plain' = [plain EXCEPT ![g] = got[t]]
    BY <1>9, <1>g DEF PutDone, disk
  <2>3. g \notin endangered => InPlace(g)' /\ Own
    BY <1>9, <1>s, <1>others, <1>idle, <2>1, <2>2
    DEF PutDone, InPlace, AtWork, Relies, LockSteps, UnlockSteps
  <2> QED
    BY <1>g, <1>w, <1>others, <1>idle, <2>1, <2>2, <2>3, LocalStep
<1>10. CASE Drop(t)
  <2>1. /\ pc'[t] = "remember" /\ at' = at /\ got' = got
        /\ \A u \in Threads \ {t} : pc'[u] = pc[u] /\ at'[u] = at[u] /\ got'[u] = got[u]
    BY <1>10, <1>g, <1>ty, ContinuePlace DEF Drop
  <2>2. /\ UNCHANGED <<current, endangered>>
        /\ UNCHANGED plain /\ sealed' = [sealed EXCEPT ![g] = Absent]
    BY <1>10, <1>g DEF Drop, disk
  <2>3. g \notin endangered => InPlace(g)' /\ Own
    BY <1>10, <1>s, <1>others, <1>idle, <2>1, <2>2
    DEF Drop, InPlace, AtWork, Relies, LockSteps, UnlockSteps
  <2> QED
    BY <1>g, <1>w, <1>others, <1>idle, <2>1, <2>2, <2>3, LocalStep
<1>11. CASE WriteFails(t)
  <2>1. /\ pc'[t] \in {"idle", "auto"}
        /\ \A u \in Threads \ {t} : pc'[u] = pc[u] /\ at'[u] = at[u] /\ got'[u] = got[u]
    BY <1>11, <1>g, <1>ty, FinishPlace DEF WriteFails
  <2>2. /\ UNCHANGED <<current, endangered>>
        /\ UNCHANGED <<plain, sealed>>
    BY <1>11, <1>g DEF WriteFails, disk
  <2>3. g \notin endangered => InPlace(g)' /\ Own
    BY <1>11, <1>s, <1>others, <1>idle, <2>1, <2>2
    DEF WriteFails, InPlace, AtWork, Relies, LockSteps, UnlockSteps
  <2> QED
    BY <1>g, <1>w, <1>others, <1>idle, <2>1, <2>2, <2>3, LocalStep
<1>12. CASE DeleteFails(t)
  <2>1. /\ pc'[t] \in {"forget", "remember"} /\ at' = at /\ got' = got
        /\ \A u \in Threads \ {t} : pc'[u] = pc[u] /\ at'[u] = at[u] /\ got'[u] = got[u]
    BY <1>12, <1>g, <1>ty, ContinuePlace DEF DeleteFails
  <2>2. /\ UNCHANGED <<current, endangered>>
        /\ UNCHANGED <<plain, sealed>>
    BY <1>12, <1>g DEF DeleteFails, disk
  <2>3. g \notin endangered => InPlace(g)' /\ Own
    BY <1>12, <1>s, <1>others, <1>idle, <2>1, <2>2
    DEF DeleteFails, InPlace, AtWork, Relies, LockSteps, UnlockSteps
  <2> QED
    BY <1>g, <1>w, <1>others, <1>idle, <2>1, <2>2, <2>3, LocalStep
<1> QED
  BY <1>1, <1>2, <1>3, <1>4, <1>5, <1>6, <1>7, <1>8, <1>9, <1>10, <1>11, <1>12

\* The steps of a thread that is not at a file.
LEMMA AsideSafe ==
    ASSUME Typed, Secure, NEW t \in Threads,
           \/ IsLast(t) \/ Cancel(t) \/ Remember(t) \/ Stop(t) \/ New(t) \/ Start(t)
    PROVE  Secure'
<1>ty. TypeOK
  BY DEF Typed
<1>1. UNCHANGED <<disk, endangered>>
  BY DEF IsLast, Cancel, Remember, Stop, New, Start
<1>2. /\ pc'[t] \in {"idle", "auto"} \cup TimerSteps
      /\ \A u \in Threads \ {t} : pc'[u] = pc[u] /\ at'[u] = at[u] /\ got'[u] = got[u]
  <2>1. CASE IsLast(t)
    BY <2>1, <1>ty, ContinuePlace, FinishPlace DEF IsLast, TimerSteps
  <2>2. CASE Cancel(t)
    BY <2>2, <1>ty, FinishPlace DEF Cancel
  <2>3. CASE Remember(t)
    BY <2>3, <1>ty DEF Remember, TypeOK, TimerSteps, local
  <2>4. CASE Stop(t)
    BY <2>4, <1>ty, ContinuePlace, FinishPlace DEF Stop, TimerSteps
  <2>5. CASE New(t)
    BY <2>5, <1>ty, ContinuePlace DEF New, TimerSteps
  <2>6. CASE Start(t)
    BY <2>6, <1>ty, FinishPlace DEF Start
  <2> QED
    BY <2>1, <2>2, <2>3, <2>4, <2>5, <2>6
<1>3. ({"idle", "auto"} \cup TimerSteps) \cap (LockSteps \cup UnlockSteps) = {}
  BY DEF TimerSteps, LockSteps, UnlockSteps
<1> QED
  BY <1>1, <1>2, <1>3, Elsewhere

\* A request that begins keeps the files safe.
LEMMA RequestSafe ==
    ASSUME Typed, Secure, NEW t \in Requests,
           \/ \E f \in Files : Lock(t, f) \/ Unlock(t, f) \/ Register(t, f)
           \/ Touch(t) \/ Configure(t)
    PROVE  Secure'
<1>ty. TypeOK /\ t \in Threads
  BY DEF Typed, Threads
<1>idle. "idle" \notin LockSteps \cup UnlockSteps /\ "stop" \notin LockSteps \cup UnlockSteps
         /\ "remember" \notin LockSteps \cup UnlockSteps
  BY DEF LockSteps, UnlockSteps
<1>1. ASSUME NEW f \in Files, Lock(t, f) PROVE Secure'
  <2>1. /\ pc'[t] = "read" /\ at'[t] = f
        /\ \A u \in Threads \ {t} : pc'[u] = pc[u] /\ at'[u] = at[u] /\ got'[u] = got[u]
    BY <1>1, <1>ty, GotoPlace DEF Lock, At, TypeOK
  <2>2. /\ UNCHANGED disk /\ pc[t] = "idle" /\ plain[f] # Absent
        /\ Endanger(f, plain[f] = Bad \/ Busy(f))
    BY <1>1 DEF Lock, Request
  <2>3. Safe(f) /\ plain[f] # Bad => Relies(t, f)'
    BY <2>1, <2>2 DEF Safe, InPlace, Relies, disk
  <2> QED
    BY <1>ty, <1>idle, <2>1, <2>2, <2>3, Begins
<1>2. ASSUME NEW f \in Files, Unlock(t, f) PROVE Secure'
  <2>1. /\ pc'[t] = "open" /\ at'[t] = f
        /\ \A u \in Threads \ {t} : pc'[u] = pc[u] /\ at'[u] = at[u] /\ got'[u] = got[u]
    BY <1>2, <1>ty, GotoPlace DEF Unlock, At, TypeOK
  <2>2. /\ UNCHANGED disk /\ pc[t] = "idle" /\ plain[f] = Absent
    BY <1>2 DEF Unlock, Request
  <2>4. Endanger(f, plain[f] = Bad \/ Busy(f))
    BY <1>2, <2>2 DEF Unlock, Endanger
  <2>3. Relies(t, f)'
    BY <2>1, <2>2 DEF Relies, disk
  <2> QED
    BY <1>ty, <1>idle, <2>1, <2>2, <2>3, <2>4, Begins
<1>3. ASSUME NEW f \in Files, Register(t, f) PROVE Secure'
  <2>1. /\ pc'[t] = "remember"
        /\ \A u \in Threads \ {t} : pc'[u] = pc[u] /\ at'[u] = at[u] /\ got'[u] = got[u]
    BY <1>3, <1>ty, GotoPlace DEF Register, At, TypeOK
  <2> QED
    BY <1>3, <1>idle, <2>1, Elsewhere DEF Register
<1>4. CASE Touch(t)
  <2>1. /\ pc'[t] = "stop"
        /\ \A u \in Threads \ {t} : pc'[u] = pc[u] /\ at'[u] = at[u] /\ got'[u] = got[u]
    <3>1. UNCHANGED <<at, got>> /\ Goto(t, "stop")
      BY <1>4 DEF Touch, local
    <3> QED
      BY <1>ty, <3>1, GotoPlace
  <2> QED
    BY <1>4, <1>idle, <2>1, Elsewhere DEF Touch
<1>5. CASE Configure(t)
  <2>1. /\ pc'[t] \in {"stop", "idle"}
        /\ \A u \in Threads \ {t} : pc'[u] = pc[u] /\ at'[u] = at[u] /\ got'[u] = got[u]
    BY <1>5, <1>ty, ContinuePlace DEF Configure
  <2> QED
    BY <1>5, <1>idle, <2>1, Elsewhere DEF Configure
<1> QED
  BY <1>1, <1>2, <1>3, <1>4, <1>5

\* So do the steps of auto_lock itself, the user's and a crash.
LEMMA OtherSafe ==
    ASSUME Typed, Secure,
           Fire \/ AutoClear \/ (\E f \in Files : AutoNext(f) \/ Edit(f)) \/ Crash
    PROVE  Secure'
<1>ty. TypeOK /\ TimerThread \in Threads
  BY DEF Typed, Threads
<1>idle. {"idle", "auto"} \cap (LockSteps \cup UnlockSteps) = {}
  BY DEF LockSteps, UnlockSteps
<1>1. CASE Fire
  <2>1. /\ pc'[TimerThread] \in {"idle", "auto"}
        /\ \A u \in Threads \ {TimerThread} :
              pc'[u] = pc[u] /\ at'[u] = at[u] /\ got'[u] = got[u]
    BY <1>1, <1>ty, GotoPlace DEF Fire, local
  <2> QED
    BY <1>1, <1>idle, <2>1, Elsewhere DEF Fire
<1>2. CASE AutoClear
  <2>1. /\ pc'[TimerThread] = "idle"
        /\ \A u \in Threads \ {TimerThread} :
              pc'[u] = pc[u] /\ at'[u] = at[u] /\ got'[u] = got[u]
    BY <1>2, <1>ty, GotoPlace DEF AutoClear, local
  <2> QED
    BY <1>2, <1>idle, <2>1, Elsewhere DEF AutoClear
<1>3. ASSUME NEW f \in Files, AutoNext(f) PROVE Secure'
  <2>1. CASE plain[f] = Absent
    BY <1>3, <2>1, Elsewhere DEF AutoNext
  <2>2. CASE plain[f] # Absent
    <3>1. /\ pc'[TimerThread] = "read" /\ at'[TimerThread] = f
          /\ \A u \in Threads \ {TimerThread} :
                pc'[u] = pc[u] /\ at'[u] = at[u] /\ got'[u] = got[u]
      BY <1>3, <1>ty, <2>2, GotoPlace DEF AutoNext, At, TypeOK
    <3>2. /\ UNCHANGED disk /\ pc[TimerThread] = "auto"
          /\ Endanger(f, plain[f] = Bad \/ Busy(f))
      BY <1>3, <2>2 DEF AutoNext
    <3>3. Safe(f) /\ plain[f] # Bad => Relies(TimerThread, f)'
      BY <2>2, <3>1, <3>2 DEF Safe, InPlace, Relies, disk
    <3> QED
      BY <1>ty, <1>idle, <3>1, <3>2, <3>3, Begins
  <2> QED
    BY <2>1, <2>2
<1>4. ASSUME NEW f \in Files, Edit(f) PROVE Secure'
  <2>1. /\ plain'[f] = current'[f] /\ sealed' = sealed
        /\ \A h \in Files \ {f} : plain'[h] = plain[h] /\ current'[h] = current[h]
        /\ UNCHANGED <<pc, at, got>>
    BY <1>4, <1>ty DEF Edit, TypeOK, local
  <2>2. SUFFICES ASSUME NEW h \in Files, h \notin endangered' PROVE Safe(h)'
    BY DEF Secure
  <2>3. h \notin endangered /\ (h = f => ~Busy(f))
    BY <1>4, <2>2 DEF Edit, Endanger
  <2>4. Safe(h) /\ \A u \in Threads : AtWork(u, h)' = AtWork(u, h)
    BY <2>1, <2>3 DEF Secure, AtWork
  <2>5. CASE h = f
    BY <2>1, <2>3, <2>4, <2>5 DEF Safe, InPlace, Busy, AtWork
  <2>6. CASE h # f
    BY <2>1, <2>4, <2>6 DEF Safe, InPlace, Relies
  <2> QED
    BY <2>5, <2>6
<1>5. CASE Crash
  BY <1>5, <1>idle, Elsewhere DEF Crash
<1> QED
  BY <1>1, <1>2, <1>3, <1>4, <1>5

LEMMA SecureStep == Typed /\ Secure /\ [Next]_vars => Secure'
<1> SUFFICES ASSUME Typed, Secure, [Next]_vars PROVE Secure'
  OBVIOUS
<1>1. ASSUME NEW t \in Threads, ThreadStep(t) \/ WriteFails(t) \/ DeleteFails(t)
      PROVE  Secure'
  BY <1>1, WorkSafe, AsideSafe DEF ThreadStep
<1>2. ASSUME NEW t \in Requests,
             (\E f \in Files : Lock(t, f) \/ Unlock(t, f) \/ Register(t, f))
                \/ Touch(t) \/ Configure(t)
      PROVE  Secure'
  BY <1>2, RequestSafe
<1>3. CASE Fire \/ AutoClear \/ (\E f \in Files : AutoNext(f) \/ Edit(f)) \/ Crash
  BY <1>3, OtherSafe
<1>4. CASE UNCHANGED vars
  BY <1>4, Elsewhere DEF vars, local
<1> QED
  BY <1>1, <1>2, <1>3, <1>4 DEF Next, AutoStep, Threads

\* Every thread that works on a file or remembers it still has one.
Working == LockSteps \cup UnlockSteps \cup {"remember"}

LEMMA HasFileKept ==
    ASSUME TypeOK, HasFile, NEW t \in Threads,
           pc'[t] \in Working => at'[t] \in Files,
           \A u \in Threads \ {t} : pc'[u] = pc[u] /\ at'[u] = at[u]
    PROVE  HasFile'
  BY DEF HasFile, Working

LEMMA HasFileStep == Typed /\ [Next]_vars => HasFile'
<1> SUFFICES ASSUME Typed, [Next]_vars PROVE HasFile'
  OBVIOUS
<1>ty. TypeOK /\ HasFile /\ TimerThread \in Threads
  BY DEF Typed, Threads
<1>at. \A t \in Threads : pc[t] \in Working => at[t] \in Files
  BY <1>ty DEF HasFile, Working
<1>idle. ({"idle", "auto"} \cup TimerSteps) \cap Working = {}
  BY DEF Working, LockSteps, UnlockSteps, TimerSteps
<1>finish. ASSUME NEW t \in Threads, Finish(t) PROVE HasFile'
  BY <1>finish, <1>ty, <1>idle, FinishPlace, HasFileKept
<1>continue. ASSUME NEW t \in Threads, NEW label, Continue(t, label),
                    label \in Working => pc[t] \in Working
             PROVE  HasFile'
  BY <1>continue, <1>ty, <1>at, ContinuePlace, HasFileKept
<1>goto. ASSUME NEW t \in Threads, NEW label, Goto(t, label), at' = at,
                label \in Working => pc[t] \in Working
         PROVE  HasFile'
  BY <1>goto, <1>ty, <1>at, GotoPlace, HasFileKept
<1>begin. ASSUME NEW t \in Threads, NEW f \in Files, NEW label, Goto(t, label), At(t, f)
          PROVE  HasFile'
  <2>1. at'[t] = f /\ \A u \in Threads \ {t} : at'[u] = at[u]
    BY <1>begin, <1>ty DEF At, TypeOK
  <2> QED
    BY <1>begin, <1>ty, <2>1, GotoPlace, HasFileKept
<1> USE DEF Working, LockSteps, UnlockSteps, TimerSteps
<1>1. ASSUME NEW t \in Threads, ThreadStep(t) PROVE HasFile'
  <2>1. CASE Read(t)
    BY <2>1, <1>finish, <1>goto DEF Read
  <2>2. CASE Seal(t)
    BY <2>2, <1>continue DEF Seal
  <2>3. CASE Sealed(t)
    BY <2>3, <1>continue DEF Sealed
  <2>4. CASE Wipe(t)
    BY <2>4, <1>continue DEF Wipe
  <2>5. CASE Unlink(t)
    BY <2>5, <1>continue DEF Unlink
  <2>6. CASE Forget(t)
    BY <2>6, <1>continue DEF Forget
  <2>7. CASE IsLast(t)
    BY <2>7, <1>finish, <1>continue DEF IsLast
  <2>8. CASE Cancel(t)
    BY <2>8, <1>finish DEF Cancel
  <2>9. CASE Open(t)
    BY <2>9, <1>finish, <1>goto DEF Open
  <2>10. CASE Put(t)
    BY <2>10, <1>continue DEF Put
  <2>11. CASE PutDone(t)
    BY <2>11, <1>continue DEF PutDone
  <2>12. CASE Drop(t)
    BY <2>12, <1>continue DEF Drop
  <2>13. CASE Remember(t)
    BY <2>13, <1>ty, HasFileKept DEF Remember, TypeOK, local
  <2>14. CASE Stop(t)
    BY <2>14, <1>finish, <1>continue DEF Stop
  <2>15. CASE New(t)
    BY <2>15, <1>continue DEF New
  <2>16. CASE Start(t)
    BY <2>16, <1>finish DEF Start
  <2> QED
    BY <1>1, <2>1, <2>2, <2>3, <2>4, <2>5, <2>6, <2>7, <2>8, <2>9, <2>10, <2>11, <2>12,
       <2>13, <2>14, <2>15, <2>16 DEF ThreadStep
<1>2. ASSUME NEW t \in Threads, WriteFails(t) \/ DeleteFails(t) PROVE HasFile'
  BY <1>2, <1>finish, <1>continue DEF WriteFails, DeleteFails
<1>3. ASSUME NEW t \in Requests, NEW f \in Files, Lock(t, f) \/ Unlock(t, f) \/ Register(t, f)
      PROVE  HasFile'
  BY <1>3, <1>begin DEF Lock, Unlock, Register, Threads
<1>4. ASSUME NEW t \in Requests, Touch(t) \/ Configure(t) PROVE HasFile'
  BY <1>4, <1>goto, <1>continue DEF Touch, Configure, Threads, local
<1>5. CASE Fire \/ AutoClear
  BY <1>5, <1>ty, <1>goto DEF Fire, AutoClear, local
<1>6. ASSUME NEW f \in Files, AutoNext(f) PROVE HasFile'
  <2>1. CASE plain[f] = Absent
    BY <1>6, <1>ty, <2>1 DEF AutoNext, HasFile
  <2>2. CASE plain[f] # Absent
    BY <1>6, <1>ty, <1>begin, <2>2 DEF AutoNext
  <2> QED
    BY <2>1, <2>2
<1>7. ASSUME NEW f \in Files, Edit(f) PROVE HasFile'
  BY <1>7, <1>ty DEF Edit, HasFile, local
<1>8. CASE Crash
  BY <1>8 DEF Crash, HasFile
<1>9. CASE UNCHANGED vars
  BY <1>9, <1>ty DEF vars, local, HasFile
<1> QED
  BY <1>1, <1>2, <1>3, <1>4, <1>5, <1>6, <1>7, <1>8, <1>9 DEF Next, AutoStep, Threads

LEMMA TypedStep == Typed /\ [Next]_vars => Typed'
<1> SUFFICES ASSUME Typed, [Next]_vars PROVE TypeOK'
  BY HasFileStep DEF Typed
<1>1. CASE Next
  <2>1. (\E t \in Threads : ThreadStep(t) \/ WriteFails(t) \/ DeleteFails(t)) => TypeOK'
    BY ThreadStepType
  <2> QED
    BY <1>1, <2>1, OtherStepType DEF Next, AutoStep, Threads
<1>2. CASE UNCHANGED vars
  BY <1>2 DEF Typed, TypeOK, vars, disk, session, clock, local, bounds
<1> QED
  BY <1>1, <1>2

-----------------------------------------------------------------------------
\* The timer.  While no two threads have been at it together: a thread that is
\* about to cancel it has seen no passphrase and none has come since, one that
\* is about to start it has a fresh one, and as long as a passphrase is held a
\* timer runs, or somebody is on the way to start one, or the auto-lock is at
\* work, which forgets all passphrases at its end.
Starting == {"stop", "new", "start"}

Watched ==
    \/ timer = "armed" \/ leaked > 0
    \/ pc[TimerThread] # "idle"
    \/ \E t \in Threads : pc[t] \in Starting

TimerKept ==
    ~raced =>
      /\ ~TogetherAtTimer(pc)
      /\ \A t \in Threads : pc[t] = "cancel" => phrases = {}
      /\ \A t \in Threads : pc[t] = "start" => timer = "fresh"
      /\ (enabled /\ phrases # {}) => Watched

\* Steps that leave the timer alone and end no start of it.
LEMMA MovesOn ==
    ASSUME TypeOK, TimerKept,
           NEW t \in Threads, NEW label, Goto(t, label),
           pc[t] \notin Starting, label \notin {"cancel", "start"},
           t = TimerThread => label # "idle",
           phrases' \subseteq phrases, UNCHANGED <<enabled, clock>>
    PROVE  TimerKept'
<1> SUFFICES ASSUME ~raced'
             PROVE  /\ ~TogetherAtTimer(pc')
                    /\ \A u \in Threads : pc'[u] = "cancel" => phrases' = {}
                    /\ \A u \in Threads : pc'[u] = "start" => timer' = "fresh"
                    /\ (enabled' /\ phrases' # {}) => Watched'
  BY DEF TimerKept, TogetherAtTimer
<1>1. ~raced /\ ~TogetherAtTimer(pc')
  BY DEF Goto
<1>2. \A u \in Threads : pc'[u] = IF u = t THEN label ELSE pc[u]
  BY DEF Goto, TypeOK
<1>3. \A u \in Threads : pc'[u] = "cancel" => phrases' = {}
  BY <1>1, <1>2 DEF TimerKept
<1>4. \A u \in Threads : pc'[u] = "start" => timer' = "fresh"
  BY <1>1, <1>2 DEF TimerKept, clock
<1>5. ASSUME enabled', phrases' # {} PROVE Watched'
  <2>1. Watched
    BY <1>1, <1>5 DEF TimerKept
  <2>2. CASE timer = "armed" \/ leaked > 0
    BY <2>2 DEF Watched, clock
  <2>3. CASE pc[TimerThread] # "idle"
    BY <2>3, <1>2 DEF Watched, Threads
  <2>4. CASE \E u \in Threads : pc[u] \in Starting
    BY <2>4, <1>2 DEF Watched
  <2> QED
    BY <2>1, <2>2, <2>3, <2>4 DEF Watched
<1> QED
  BY <1>1, <1>3, <1>4, <1>5

LEMMA ContinuesOn ==
    ASSUME TypeOK, TimerKept,
           NEW t \in Threads, NEW label, Continue(t, label),
           pc[t] \notin Starting, label \notin {"cancel", "start", "idle"},
           phrases' \subseteq phrases, UNCHANGED <<enabled, clock>>
    PROVE  TimerKept'
  BY MovesOn DEF Continue

LEMMA FinishesOff ==
    ASSUME TypeOK, TimerKept, NEW t \in Threads, Finish(t),
           pc[t] \notin Starting, UNCHANGED <<session, clock>>
    PROVE  TimerKept'
<1>1. phrases' \subseteq phrases /\ UNCHANGED enabled
  BY DEF session
<1>2. CASE t = TimerThread
  <2>1. Goto(t, "auto")
    BY <1>2 DEF Finish
  <2> QED
    BY <1>1, <2>1, MovesOn
<1>3. CASE t # TimerThread
  <2>1. Goto(t, "idle")
    BY <1>3 DEF Finish
  <2> QED
    BY <1>1, <1>3, <2>1, MovesOn
<1> QED
  BY <1>2, <1>3

\* The steps of a thread at the timer: no other is there.
LEMMA AloneAtTimer ==
    ASSUME TypeOK, TimerKept, ~raced, NEW t \in Threads, pc[t] \in TimerSteps,
           NEW u \in Threads, pc[u] \in TimerSteps
    PROVE  u = t
  BY DEF TimerKept, TogetherAtTimer

LEMMA TimerStepKept ==
    ASSUME TypeOK, TimerKept, NEW t \in Threads,
           IsLast(t) \/ Cancel(t) \/ Stop(t) \/ New(t) \/ Start(t)
    PROVE  TimerKept'
<1> SUFFICES ASSUME ~raced'
             PROVE  /\ ~TogetherAtTimer(pc')
                    /\ \A u \in Threads : pc'[u] = "cancel" => phrases' = {}
                    /\ \A u \in Threads : pc'[u] = "start" => timer' = "fresh"
                    /\ (enabled' /\ phrases' # {}) => Watched'
  BY DEF TimerKept, TogetherAtTimer
<1>at. pc[t] \in TimerSteps
  BY DEF IsLast, Cancel, Stop, New, Start, TimerSteps
<1>s. ~raced /\ ~TogetherAtTimer(pc') /\ UNCHANGED session
  BY DEF IsLast, Cancel, Stop, New, Start, Continue, Finish, Goto, session
<1>a. \A u \in Threads : u # t => pc[u] \notin TimerSteps
  BY <1>at, <1>s, AloneAtTimer
<1>b. \A u \in Threads : u # t => pc'[u] = pc[u]
  BY DEF IsLast, Cancel, Stop, New, Start, Continue, Finish, Goto, TypeOK
<1>c. \A u \in Threads : u # t => pc'[u] \notin TimerSteps
  BY <1>a, <1>b
<1>d. \A u \in Threads : pc'[u] \in {"cancel", "start"} => u = t
  BY <1>c DEF TimerSteps
<1>e. /\ pc[t] = "cancel" => phrases = {}
      /\ pc[t] = "start" => timer = "fresh"
      /\ (enabled /\ phrases # {}) => Watched
  BY <1>s DEF TimerKept
<1>f. TimerThread \in Threads
  BY DEF Threads
<1>1. CASE IsLast(t)
  <2>1. CASE phrases = {}
    <3>1. pc'[t] = "cancel" /\ phrases' = {}
      BY <1>1, <2>1 DEF IsLast, Continue, Goto, TypeOK, session
    <3> QED
      BY <1>s, <1>d, <3>1
  <2>2. CASE phrases # {}
    <3>1. Finish(t) /\ UNCHANGED clock /\ pc[t] = "last"
      BY <1>1, <2>2 DEF IsLast
    <3>2. TimerKept'
      BY <1>s, <3>1, FinishesOff DEF Starting
    <3> QED
      BY <3>2 DEF TimerKept, TogetherAtTimer
  <2> QED
    BY <2>1, <2>2
<1>2. CASE Cancel(t)
  <2>1. pc[t] = "cancel" /\ pc'[t] \in {"auto", "idle"}
    BY <1>2 DEF Cancel, Finish, Goto, TypeOK
  <2>2. phrases' = {}
    BY <1>e, <1>s, <2>1 DEF session
  <2> QED
    BY <1>s, <1>d, <2>1, <2>2
<1>3. CASE Stop(t)
  <2>1. CASE enabled
    <3>1. pc'[t] = "new"
      BY <1>3, <2>1 DEF Stop, Continue, Goto, TypeOK
    <3>2. Watched'
      BY <3>1 DEF Watched, Starting
    <3> QED
      BY <1>s, <1>d, <3>1, <3>2
  <2>2. CASE ~enabled
    <3>1. pc'[t] \in {"auto", "idle"}
      BY <1>3, <2>2 DEF Stop, Finish, Goto, TypeOK
    <3> QED
      BY <1>s, <1>d, <2>2, <3>1 DEF session
  <2> QED
    BY <2>1, <2>2
<1>4. CASE New(t)
  <2>1. pc'[t] = "start" /\ timer' = "fresh"
    BY <1>4 DEF New, Continue, Goto, TypeOK
  <2>2. Watched'
    BY <2>1 DEF Watched, Starting
  <2> QED
    BY <1>s, <1>d, <2>1, <2>2
<1>5. CASE Start(t)
  <2>1. pc'[t] \in {"auto", "idle"}
    BY <1>5 DEF Start, Finish, Goto, TypeOK
  <2>2. timer' = "armed"
    BY <1>5, <1>e DEF Start
  <2>3. Watched'
    BY <2>2 DEF Watched
  <2> QED
    BY <1>s, <1>d, <2>1, <2>3
<1> QED
  BY <1>1, <1>2, <1>3, <1>4, <1>5

LEMMA RememberKept ==
    ASSUME TypeOK, TimerKept, NEW t \in Threads, Remember(t) PROVE TimerKept'
<1> SUFFICES ASSUME ~raced'
             PROVE  /\ ~TogetherAtTimer(pc')
                    /\ \A u \in Threads : pc'[u] = "cancel" => phrases' = {}
                    /\ \A u \in Threads : pc'[u] = "start" => timer' = "fresh"
                    /\ (enabled' /\ phrases' # {}) => Watched'
  BY DEF TimerKept, TogetherAtTimer
<1>1. ~raced /\ ~TogetherAtTimer(pc') /\ pc'[t] = "stop"
  BY DEF Remember, TypeOK
<1>2. \A u \in Threads : u # t => pc'[u] \notin TimerSteps
  BY <1>1 DEF TogetherAtTimer, TimerSteps
<1>3. \A u \in Threads : pc'[u] \notin {"cancel", "start"}
  BY <1>1, <1>2 DEF TimerSteps
<1>4. Watched'
  BY <1>1 DEF Watched, Starting
<1> QED
  BY <1>1, <1>3, <1>4

LEMMA ThreadStepKept ==
    ASSUME Typed, TimerKept, NEW t \in Threads,
           ThreadStep(t) \/ WriteFails(t) \/ DeleteFails(t)
    PROVE  TimerKept'
<1>t. TypeOK
  BY DEF Typed
<1> USE DEF session
<1>1. CASE Read(t)
  <2>1. CASE Finish(t)
    BY <1>1, <1>t, <2>1, FinishesOff DEF Read, Starting
  <2>2. CASE Goto(t, "seal")
    BY <1>1, <1>t, <2>2, MovesOn DEF Read, Starting
  <2> QED
    BY <1>1, <2>1, <2>2 DEF Read
<1>2. CASE Seal(t)
  BY <1>2, <1>t, ContinuesOn DEF Seal, Starting
<1>3. CASE Sealed(t)
  BY <1>3, <1>t, ContinuesOn DEF Sealed, Starting
<1>4. CASE Wipe(t)
  <2>1. PICK label \in {"forget", "unlink"} : Continue(t, label)
    BY <1>4 DEF Wipe
  <2> QED
    BY <1>4, <1>t, <2>1, ContinuesOn DEF Wipe, Starting
<1>5. CASE Unlink(t)
  BY <1>5, <1>t, ContinuesOn DEF Unlink, Starting
<1>6. CASE Forget(t)
  BY <1>6, <1>t, ContinuesOn DEF Forget, Starting
<1>7. CASE Open(t)
  <2>1. CASE Finish(t)
    BY <1>7, <1>t, <2>1, FinishesOff DEF Open, Starting
  <2>2. CASE Goto(t, "put")
    BY <1>7, <1>t, <2>2, MovesOn DEF Open, Starting
  <2> QED
    BY <1>7, <2>1, <2>2 DEF Open
<1>8. CASE Put(t)
  BY <1>8, <1>t, ContinuesOn DEF Put, Starting
<1>9. CASE PutDone(t)
  BY <1>9, <1>t, ContinuesOn DEF PutDone, Starting
<1>10. CASE Drop(t)
  BY <1>10, <1>t, ContinuesOn DEF Drop, Starting
<1>11. CASE WriteFails(t)
  BY <1>11, <1>t, FinishesOff DEF WriteFails, Starting
<1>12. CASE DeleteFails(t)
  <2>1. PICK label \in {"forget", "remember"} : Continue(t, label)
    BY <1>12 DEF DeleteFails
  <2> QED
    BY <1>12, <1>t, <2>1, ContinuesOn DEF DeleteFails, Starting
<1> QED
  BY <1>1, <1>2, <1>3, <1>4, <1>5, <1>6, <1>7, <1>8, <1>9, <1>10, <1>11, <1>12, <1>t,
     TimerStepKept, RememberKept DEF ThreadStep

LEMMA ConfigureKept ==
    ASSUME TypeOK, TimerKept, NEW t \in Requests, Configure(t) PROVE TimerKept'
<1> SUFFICES ASSUME ~raced'
             PROVE  /\ ~TogetherAtTimer(pc')
                    /\ \A u \in Threads : pc'[u] = "cancel" => phrases' = {}
                    /\ \A u \in Threads : pc'[u] = "start" => timer' = "fresh"
                    /\ (enabled' /\ phrases' # {}) => Watched'
  BY DEF TimerKept, TogetherAtTimer
<1>t. t \in Threads
  BY DEF Threads
<1>1. PICK label \in {"stop", "idle"} :
        Continue(t, label) /\ (phrases # {} => label = "stop")
  BY DEF Configure
<1>2. ~raced /\ ~TogetherAtTimer(pc')
  BY <1>1 DEF Continue, Goto
<1>3. \A u \in Threads : pc'[u] = IF u = t THEN label ELSE pc[u]
  BY <1>1 DEF Continue, Goto, TypeOK
<1>4. UNCHANGED <<phrases, timer, leaked>>
  BY DEF Configure, clock
<1>5. \A u \in Threads : pc'[u] = "cancel" => phrases' = {}
  BY <1>2, <1>3, <1>4 DEF TimerKept
<1>6. \A u \in Threads : pc'[u] = "start" => timer' = "fresh"
  BY <1>2, <1>3, <1>4 DEF TimerKept
<1>7. phrases' # {} => Watched'
  BY <1>1, <1>3, <1>4, <1>t DEF Watched, Starting
<1> QED
  BY <1>2, <1>5, <1>6, <1>7

LEMMA FireKept == ASSUME Typed, TimerKept, Fire PROVE TimerKept'
<1> SUFFICES ASSUME ~raced'
             PROVE  /\ ~TogetherAtTimer(pc')
                    /\ \A u \in Threads : pc'[u] = "cancel" => phrases' = {}
                    /\ \A u \in Threads : pc'[u] = "start" => timer' = "fresh"
                    /\ (enabled' /\ phrases' # {}) => Watched'
  BY DEF TimerKept, TogetherAtTimer
<1>t. TypeOK /\ TimerThread \in Threads
  BY DEF Typed, Threads
<1>1. PICK label \in {"auto", "idle"} :
        Goto(TimerThread, label) /\ (phrases # {} => label = "auto")
  BY DEF Fire
<1>2. ~raced /\ ~TogetherAtTimer(pc') /\ UNCHANGED <<phrases, enabled>>
  BY <1>1 DEF Goto, Fire, session
<1>3. \A u \in Threads : pc'[u] = IF u = TimerThread THEN label ELSE pc[u]
  BY <1>1, <1>t DEF Goto, TypeOK
<1>4. \A u \in Threads : pc'[u] = "cancel" => phrases' = {}
  BY <1>2, <1>3 DEF TimerKept
<1>5. timer = "fresh" => timer' = "fresh"
  BY DEF Fire
<1>6. \A u \in Threads : pc'[u] = "start" => timer' = "fresh"
  BY <1>2, <1>3, <1>5 DEF TimerKept
<1>7. phrases' # {} => Watched'
  BY <1>1, <1>2, <1>3, <1>t DEF Watched
<1> QED
  BY <1>2, <1>4, <1>6, <1>7

LEMMA AutoClearKept == ASSUME Typed, TimerKept, AutoClear PROVE TimerKept'
<1>1. TypeOK /\ TimerThread \in Threads
  BY DEF Typed, Threads
<1>2. Goto(TimerThread, "idle") /\ phrases' = {} /\ UNCHANGED clock
  BY DEF AutoClear
<1>3. \A u \in Threads : pc'[u] = "start" => pc[u] = "start"
  BY <1>1, <1>2 DEF Goto, TypeOK
<1>4. ~raced' => ~raced /\ ~TogetherAtTimer(pc')
  BY <1>2 DEF Goto
<1> QED
  BY <1>2, <1>3, <1>4 DEF TimerKept, TogetherAtTimer, clock

LEMMA TimerKeptStep == Typed /\ TimerKept /\ [Next]_vars => TimerKept'
<1> SUFFICES ASSUME Typed, TimerKept, [Next]_vars PROVE TimerKept'
  OBVIOUS
<1>t. TypeOK /\ TimerThread \in Threads /\ Requests \subseteq Threads
  BY DEF Typed, Threads
<1> USE DEF session
<1>1. ASSUME NEW t \in Requests, NEW f \in Files, Lock(t, f) \/ Unlock(t, f) \/ Register(t, f)
      PROVE  TimerKept'
  <2>1. PICK label \in {"read", "open", "remember"} : Goto(t, label)
    BY <1>1 DEF Lock, Unlock, Register
  <2>2. pc[t] = "idle" /\ UNCHANGED <<session, clock>>
    BY <1>1 DEF Lock, Unlock, Register, Request
  <2> QED
    BY <1>t, <2>1, <2>2, MovesOn DEF Starting
<1>2. ASSUME NEW t \in Requests, Touch(t) PROVE TimerKept'
  <2>1. pc[t] = "idle" /\ Goto(t, "stop") /\ UNCHANGED <<session, clock>>
    BY <1>2 DEF Touch, Request
  <2> QED
    BY <1>t, <2>1, MovesOn DEF Starting
<1>3. ASSUME NEW f \in Files, AutoNext(f) PROVE TimerKept'
  <2>1. CASE plain[f] = Absent
    <3>1. UNCHANGED <<pc, raced, session, clock>>
      BY <1>3, <2>1 DEF AutoNext
    <3> QED
      BY <3>1 DEF TimerKept, TogetherAtTimer, Watched, clock
  <2>2. CASE plain[f] # Absent
    <3>1. /\ pc[TimerThread] = "auto" /\ Goto(TimerThread, "read")
          /\ UNCHANGED <<session, clock>>
      BY <1>3, <2>2 DEF AutoNext
    <3> QED
      BY <1>t, <3>1, MovesOn DEF Starting
  <2> QED
    BY <2>1, <2>2
<1>4. ASSUME NEW f \in Files, Edit(f) PROVE TimerKept'
  BY <1>4 DEF Edit, TimerKept, TogetherAtTimer, Watched, clock
<1>5. CASE Crash
  BY <1>5 DEF Crash, TimerKept, TogetherAtTimer, TimerSteps
<1>6. CASE UNCHANGED vars
  BY <1>6 DEF vars, TimerKept, TogetherAtTimer, Watched, clock
<1> QED
  BY <1>1, <1>2, <1>3, <1>4, <1>5, <1>6, <1>t, ThreadStepKept, ConfigureKept, FireKept,
     AutoClearKept DEF Next, AutoStep

-----------------------------------------------------------------------------
LEMMA InitSafe == Init => Typed /\ Secure
<1> SUFFICES ASSUME Init PROVE Typed /\ Secure
  OBVIOUS
<1>1. TypeOK
  <2>1. "idle" \in Labels
    BY DEF Labels
  <2>2. pc \in [Threads -> Labels]
    BY <2>1 DEF Init
  <2>3. plain \in [Files -> Secrets \cup {Absent, Bad}]
    BY DEF Init, Secrets
  <2>4. sealed \in [Files -> Secrets \cup {Absent, Bad, Torn}]
    BY DEF Init, Secrets
  <2>5. current \in [Files -> Secrets]
    BY DEF Init, Secrets
  <2>6. at \in [Threads -> Files \cup {Absent}] /\ got \in [Threads -> Secrets \cup {Absent, Bad}]
    BY DEF Init
  <2>7. ops \in 0..MaxOps /\ faults \in 0..MaxFaults /\ leaked \in Nat
    BY DEF Init
  <2>8. /\ phrases \subseteq Files /\ todo \subseteq Files /\ endangered \subseteq Files
        /\ enabled \in BOOLEAN /\ raced \in BOOLEAN /\ timer \in {"none", "fresh", "armed", "spent"}
    BY DEF Init
  <2> QED
    BY <2>2, <2>3, <2>4, <2>5, <2>6, <2>7, <2>8 DEF TypeOK, Labels
<1>2. HasFile
  BY DEF Init, HasFile, LockSteps, UnlockSteps
<1>3. ASSUME NEW f \in Files PROVE Safe(f)
  <2>1. InPlace(f)
    BY DEF Init, InPlace
  <2>2. \A t \in Threads : ~ AtWork(t, f)
    BY DEF Init, AtWork, LockSteps, UnlockSteps
  <2> QED
    BY <2>1, <2>2 DEF Safe
<1> QED
  BY <1>1, <1>2, <1>3 DEF Typed, Secure

-----------------------------------------------------------------------------
\* Every variable of the vault keeps its type.
THEOREM TypeCorrect == Spec => []TypeOK
<1>1. Init => Typed
  BY InitSafe
<1>2. Typed => TypeOK
  BY DEF Typed
<1> QED
  BY <1>1, <1>2, TypedStep, PTL DEF Spec

\* The secret of a file is in the plaintext or in the vault at every moment,
\* whatever crashes, fails or runs beside it, while no two operations overlap
\* on that file, its user does not save it in the middle of one, and no lock
\* takes for it what a crash has left.
THEOREM SecretsSurvive == Spec => []SecretSurvives
<1>1. Secure => SecretSurvives
  BY DEF Secure, Safe, InPlace, SecretSurvives
<1> QED
  BY <1>1, InitSafe, TypedStep, SecureStep, PTL DEF Spec

\* While a passphrase is held and auto-lock is on, a timer runs whenever no
\* thread is at work, unless two threads have been at the timer together.
THEOREM TimerGuards == Spec => []Guarded
<1>1. Init => TimerKept
  BY DEF Init, TimerKept, TogetherAtTimer, TimerSteps
<1>2. Typed /\ TimerKept => Guarded
  <2> SUFFICES ASSUME TimerKept, AllIdle, enabled, phrases # {}, ~raced
               PROVE  timer = "armed" \/ leaked > 0
    BY DEF Guarded
  <2>1. Watched
    BY DEF TimerKept
  <2>2. pc[TimerThread] = "idle" /\ \A t \in Threads : pc[t] \notin Starting
    BY DEF AllIdle, Threads, Starting
  <2> QED
    BY <2>1, <2>2 DEF Watched
<1> QED
  BY <1>1, <1>2, InitSafe, TypedStep, TimerKeptStep, PTL DEF Spec
=============================================================================
