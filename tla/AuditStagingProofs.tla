------------------------- MODULE AuditStagingProofs -------------------------
(***************************************************************************)
(* Ownership of pending snapshots, for any cards, any number of requests,  *)
(* scans and faults.                                                       *)
(***************************************************************************)
EXTENDS AuditStaging, TLAPS

USE MaxScansAssumption, NoSnapAssumption, MaxFaultsAssumption

\* Where a request that saves has a snapshot in hand.
InHand == {"write", "written", "putback"}

\* What a request holds in each of its places, one request at a time.
RequestOK(t) ==
    /\ pc[t] = "idle" => taken[t] = {}
    /\ pc[t] \in InHand => cur[t] \in Snaps
    /\ pc[t] \in InHand => cur[t] \in taken[t]
    /\ pc[t] \in {"next", "putback"} => mode[t] = "all"
    /\ mode[t] = "one" => taken[t] \subseteq {cur[t]}
    /\ pc[t] = "written" => cur[t] \in written

\* Snapshots are numbered by the scans, so that a new one is new.
Numbered ==
    /\ \A s \in pending : s.n <= scans
    /\ \A t \in Threads : \A s \in taken[t] : s.n <= scans

StagingInv ==
    /\ TypeOK
    /\ OneOwner
    /\ Numbered
    /\ \A t \in Threads : RequestOK(t)

LEMMA InitInv == Init => StagingInv
  BY DEF Init, StagingInv, TypeOK, OneOwner, Numbered, RequestOK, InHand,
         Locations, Snaps

-----------------------------------------------------------------------------
\* Types, one lemma for the actions on the pending file and the faults and
\* one for the steps of the requests.
LEMMA FileStepsType ==
    ASSUME StagingInv,
           (\E c \in Cards : Stage(c)) \/ Discard \/ TornWrite \/ Crash
    PROVE  TypeOK'
<1>1. ASSUME NEW c \in Cards, Stage(c) PROVE TypeOK'
  <2>1. [card |-> c, n |-> scans + 1] \in Snaps /\ scans' \in 0..MaxScans
    BY <1>1 DEF Stage, StagingInv, TypeOK, Snaps
  <2>2. pending' \subseteq Snaps /\ \A s, x \in pending' : s.card = x.card => s = x
    BY <1>1, <2>1 DEF Stage, Put, StagingInv, TypeOK
  <2> QED
    BY <1>1, <2>1, <2>2 DEF Stage, StagingInv, TypeOK, requests, history
<1>2. CASE Discard
  BY <1>2 DEF Discard, StagingInv, TypeOK, requests
<1>3. CASE TornWrite
  BY <1>3 DEF TornWrite, StagingInv, TypeOK, requests
<1>4. CASE Crash
  BY <1>4 DEF Crash, StagingInv, TypeOK, Locations
<1> QED
  BY <1>1, <1>2, <1>3, <1>4

LEMMA RequestStepsType ==
    ASSUME StagingInv, NEW t \in Threads,
           Save(t)
    PROVE  TypeOK'
<1> USE DEF StagingInv, TypeOK, Goto, Locations, staging, history
<1>r. RequestOK(t)
  OBVIOUS
<1>1. CASE TakeOne(t)
  BY <1>1 DEF TakeOne
<1>2. CASE TakeAll(t)
  BY <1>2 DEF TakeAll
<1>3. CASE NextSnap(t)
  BY <1>3 DEF NextSnap
<1>4. CASE Write(t)
  BY <1>4, <1>r DEF Write, RequestOK, InHand
<1>5. CASE Return(t)
  BY <1>5 DEF Return
<1>6. CASE Raise(t)
  BY <1>6 DEF Raise
<1>7. CASE PutBack(t)
  <2>1. cur[t] \in Snaps
    BY <1>7, <1>r DEF PutBack, RequestOK, InHand
  <2>2. pending' \subseteq Snaps /\ \A s, x \in pending' : s.card = x.card => s = x
    BY <1>7, <2>1 DEF PutBack, Put
  <2> QED
    BY <1>7, <2>2 DEF PutBack
<1>8. CASE PutBackFails(t)
  BY <1>8 DEF PutBackFails
<1> QED
  BY <1>1, <1>2, <1>3, <1>4, <1>5, <1>6, <1>7, <1>8 DEF Save

-----------------------------------------------------------------------------
\* Who owns what after a step on the pending file or a fault.
LEMMA FileStepsOwner ==
    ASSUME StagingInv,
           (\E c \in Cards : Stage(c)) \/ Discard \/ TornWrite \/ Crash
    PROVE  OneOwner' /\ Numbered' /\ \A t \in Threads : RequestOK(t)'
<1>1. ASSUME NEW c \in Cards, Stage(c)
      PROVE  OneOwner' /\ Numbered' /\ \A t \in Threads : RequestOK(t)'
  <2> DEFINE new == [card |-> c, n |-> scans + 1]
  <2>1. /\ new \in Snaps /\ new.n = scans + 1 /\ scans \in Nat /\ scans' = scans + 1
        /\ pending' \subseteq pending \cup {new}
        /\ UNCHANGED <<taken, cur, mode, pc, written>>
    BY <1>1 DEF Stage, Put, StagingInv, TypeOK, Snaps, requests, history
  <2>2. \A t \in Threads : new \notin taken[t]
    BY <2>1 DEF StagingInv, Numbered
  <2>3. OneOwner'
    BY <2>1, <2>2 DEF StagingInv, OneOwner
  <2>4. Numbered'
    <3>1. \A s \in pending' : s.n <= scans'
      <4>1. \A s \in pending : s.n \in Nat /\ s.n <= scans
        BY DEF StagingInv, Numbered, TypeOK, Snaps
      <4> QED
        BY <2>1, <4>1
    <3>2. \A t \in Threads : \A s \in taken[t] : s.n \in Nat /\ s.n <= scans
      BY DEF StagingInv, Numbered, TypeOK, Snaps
    <3> QED
      BY <2>1, <3>1, <3>2 DEF Numbered
  <2> QED
    BY <2>1, <2>3, <2>4 DEF StagingInv, RequestOK
<1>2. CASE Discard \/ TornWrite
  <2>1. /\ pending' \subseteq pending
        /\ UNCHANGED <<scans, taken, cur, mode, pc, written>>
    BY <1>2 DEF Discard, TornWrite, requests
  <2> QED
    BY <2>1 DEF StagingInv, OneOwner, Numbered, RequestOK
<1>3. CASE Crash
  <2>1. /\ pending' \subseteq pending /\ scans' = scans
        /\ \A t \in Threads : taken'[t] = {} /\ pc'[t] = "idle" /\ mode'[t] = "all"
    BY <1>3 DEF Crash
  <2> QED
    BY <2>1 DEF StagingInv, OneOwner, Numbered, RequestOK, InHand
<1> QED
  BY <1>1, <1>2, <1>3

\* A step of one request leaves what the others hold alone.
OnlyOf(t) ==
    \A u \in Threads \ {t} :
        taken'[u] = taken[u] /\ cur'[u] = cur[u] /\ mode'[u] = mode[u] /\ pc'[u] = pc[u]

LEMMA OthersAlone ==
    ASSUME StagingInv, NEW t \in Threads,
           Save(t)
    PROVE  OnlyOf(t) /\ scans' = scans /\ written \subseteq written'
<1> USE DEF StagingInv, TypeOK, OnlyOf, Goto, staging, history
<1>1. CASE TakeOne(t) \/ TakeAll(t)
  BY <1>1 DEF TakeOne, TakeAll
<1>2. CASE NextSnap(t) \/ Write(t)
  BY <1>2 DEF NextSnap, Write
<1>3. CASE Return(t)
  BY <1>3 DEF Return
<1>4. CASE Raise(t)
  BY <1>4 DEF Raise
<1>5. CASE PutBack(t) \/ PutBackFails(t)
  BY <1>5 DEF PutBack, PutBackFails
<1> QED
  BY <1>1, <1>2, <1>3, <1>4, <1>5 DEF Save

\* The requests that are not stepping stay in order.
LEMMA OthersOK ==
    ASSUME StagingInv, NEW t \in Threads, NEW u \in Threads, u # t, OnlyOf(t),
           written \subseteq written'
    PROVE  RequestOK(u)'
  BY DEF StagingInv, RequestOK, OnlyOf

\* Ownership after a step that only gives up snapshots.
LEMMA GivingUp ==
    ASSUME StagingInv, NEW t \in Threads, OnlyOf(t), scans' = scans,
           pending' \subseteq pending, taken'[t] \subseteq taken[t]
    PROVE  OneOwner' /\ Numbered'
<1>1. \A u \in Threads : taken'[u] \subseteq taken[u]
  BY DEF OnlyOf
<1> QED
  BY <1>1 DEF StagingInv, OneOwner, Numbered

\* Numbering after a step of t, when the snapshots that t and the pending
\* file have now were in the one or in the other.
LEMMA MovingAbout ==
    ASSUME StagingInv, NEW t \in Threads, OnlyOf(t), scans' = scans,
           pending' \cup taken'[t] \subseteq pending \cup taken[t]
    PROVE  Numbered'
<1>1. \A s \in pending \cup taken[t] : s.n <= scans
  BY DEF StagingInv, Numbered
<1>2. \A s \in pending' : s.n <= scans'
  BY <1>1
<1>3. \A s \in taken'[t] : s.n <= scans'
  BY <1>1
<1>4. \A u \in Threads \ {t} : \A s \in taken'[u] : s.n <= scans'
  BY DEF StagingInv, Numbered, OnlyOf
<1> QED
  BY <1>2, <1>3, <1>4 DEF Numbered

\* Exclusion, in the two forms in which the steps need it.
LEMMA Exclusion ==
    ASSUME StagingInv, NEW t \in Threads, NEW u \in Threads \ {t}
    PROVE  taken[u] \cap pending = {} /\ taken[u] \cap taken[t] = {}
<1>1. pending \subseteq Snaps /\ taken[u] \subseteq Snaps
  BY DEF StagingInv, TypeOK
<1> QED
  BY <1>1 DEF StagingInv, OneOwner

LEMMA RequestStepsOwner ==
    ASSUME StagingInv, NEW t \in Threads,
           Save(t)
    PROVE  OneOwner' /\ Numbered' /\ \A u \in Threads : RequestOK(u)'
<1>others. OnlyOf(t) /\ scans' = scans /\ written \subseteq written'
  BY OthersAlone
<1>rest. \A u \in Threads \ {t} : RequestOK(u)'
  BY <1>others, OthersOK
<1>r. RequestOK(t) /\ taken[t] \subseteq Snaps
  BY DEF StagingInv, TypeOK
<1>typed. /\ taken \in [Threads -> SUBSET Snaps] /\ pc \in [Threads -> Locations]
          /\ cur \in [Threads -> Snaps \cup {NoSnap}]
          /\ mode \in [Threads -> {"one", "all"}]
  BY DEF StagingInv, TypeOK
<1>1. CASE TakeOne(t)
  <2>1. PICK s \in pending : /\ pending' = pending \ {s}
                             /\ taken' = [taken EXCEPT ![t] = {s}]
                             /\ cur' = [cur EXCEPT ![t] = s]
    BY <1>1 DEF TakeOne
  <2>2. pc'[t] = "write" /\ mode'[t] = "one" /\ taken'[t] = {s} /\ cur'[t] = s
    BY <1>1, <1>typed, <2>1 DEF TakeOne, Goto
  <2>3. s \in Snaps /\ s.n <= scans
    BY DEF StagingInv, TypeOK, Numbered
  <2>4. \A u \in Threads \ {t} : taken'[u] = taken[u] /\ s \notin taken[u]
    BY <1>others, Exclusion DEF OnlyOf
  <2>5. OneOwner'
    BY <2>1, <2>2, <2>4 DEF StagingInv, OneOwner
  <2>6. Numbered'
    BY <1>others, <2>1, <2>2, MovingAbout
  <2>7. RequestOK(t)'
    BY <2>2, <2>3 DEF RequestOK, InHand
  <2> QED
    BY <1>rest, <2>5, <2>6, <2>7
<1>2. CASE TakeAll(t)
  <2>1. /\ pc'[t] = "next" /\ mode'[t] = "all" /\ taken'[t] = pending
        /\ pending' = {}
    BY <1>2, <1>typed DEF TakeAll, Goto
  <2>2. \A u \in Threads \ {t} : taken'[u] = taken[u] /\ taken[u] \cap pending = {}
    BY <1>others, Exclusion DEF OnlyOf
  <2>3. OneOwner'
    BY <2>1, <2>2 DEF StagingInv, OneOwner
  <2>4. Numbered'
    BY <1>others, <2>1, MovingAbout
  <2>5. RequestOK(t)'
    BY <2>1 DEF RequestOK, InHand
  <2> QED
    BY <1>rest, <2>3, <2>4, <2>5
<1>4. CASE NextSnap(t)
  <2>1. /\ pc[t] = "next" /\ taken' = taken /\ mode' = mode /\ pending' = pending
        /\ \/ pc'[t] = "write" /\ cur'[t] \in taken[t]
           \/ pc'[t] = "idle" /\ taken[t] = {}
    BY <1>4, <1>typed DEF NextSnap, Goto, staging
  <2>2. RequestOK(t)'
    BY <1>r, <2>1 DEF RequestOK, InHand
  <2> QED
    BY <1>others, <1>rest, <2>1, <2>2, GivingUp
<1>5. CASE Write(t)
  <2>1. /\ pc[t] = "write" /\ pc'[t] = "written"
        /\ UNCHANGED <<pending, taken, cur, mode>>
        /\ written' = written \cup {cur[t]}
    BY <1>5, <1>typed DEF Write, Goto, staging
  <2>2. RequestOK(t)'
    BY <1>r, <2>1 DEF RequestOK, InHand
  <2> QED
    BY <1>others, <1>rest, <2>1, <2>2, GivingUp
<1>7. CASE Return(t)
  <2>1. /\ pc[t] = "written" /\ mode'[t] = "all" /\ pending' = pending
        /\ pc'[t] = IF mode[t] = "all" THEN "next" ELSE "idle"
        /\ taken'[t] = taken[t] \ {cur[t]}
    BY <1>7, <1>typed DEF Return, Goto, staging
  <2>2. mode[t] # "all" => taken'[t] = {}
    BY <1>r, <1>typed, <2>1 DEF RequestOK
  <2>3. RequestOK(t)'
    BY <2>1, <2>2 DEF RequestOK, InHand
  <2> QED
    BY <1>others, <1>rest, <2>1, <2>3, GivingUp
<1>8. CASE Raise(t)
  <2>1. /\ pc[t] \in InHand /\ pending' = pending /\ mode'[t] = "all"
        /\ \/ /\ mode[t] = "all" /\ pc'[t] = "putback"
              /\ taken' = taken /\ cur' = cur
           \/ pc'[t] = "idle" /\ taken'[t] = {}
    BY <1>8, <1>typed DEF Raise, Goto, staging, InHand
  <2>2. RequestOK(t)'
    BY <1>r, <2>1 DEF RequestOK, InHand
  <2> QED
    BY <1>others, <1>rest, <2>1, <2>2, GivingUp
<1>9. CASE PutBack(t)
  <2>1. /\ pc[t] = "putback" /\ pc'[t] = "next" /\ mode' = mode
        /\ taken'[t] = taken[t] \ {cur[t]}
        /\ pending' \subseteq pending \cup {cur[t]}
    BY <1>9, <1>typed DEF PutBack, Put, Goto
  <2>2. mode[t] = "all" /\ cur[t] \in taken[t]
    BY <1>r, <2>1 DEF RequestOK, InHand
  <2>3. \A u \in Threads \ {t} : taken'[u] = taken[u] /\ cur[t] \notin taken[u]
    BY <1>others, <2>2, Exclusion DEF OnlyOf
  <2>4. OneOwner'
    BY <2>1, <2>2, <2>3 DEF StagingInv, OneOwner
  <2>5. Numbered'
    BY <1>others, <2>1, <2>2, MovingAbout
  <2>6. RequestOK(t)'
    BY <2>1, <2>2 DEF RequestOK, InHand
  <2> QED
    BY <1>rest, <2>4, <2>5, <2>6
<1>10. CASE PutBackFails(t)
  <2>1. /\ pc[t] = "putback" /\ pc'[t] = "idle" /\ mode' = mode
        /\ taken'[t] = {} /\ pending' \subseteq pending
    BY <1>10, <1>typed DEF PutBackFails, Goto
  <2>2. RequestOK(t)'
    BY <1>r, <2>1 DEF RequestOK, InHand
  <2> QED
    BY <1>others, <1>rest, <2>1, <2>2, GivingUp
<1> QED
  BY <1>1, <1>2, <1>4, <1>5, <1>7, <1>8, <1>9, <1>10 DEF Save

LEMMA StepInv == StagingInv /\ [Next]_vars => StagingInv'
<1> SUFFICES ASSUME StagingInv, [Next]_vars PROVE StagingInv'
  OBVIOUS
<1>1. CASE (\E c \in Cards : Stage(c)) \/ Discard \/ TornWrite \/ Crash
  BY <1>1, FileStepsType, FileStepsOwner DEF StagingInv
<1>2. ASSUME NEW t \in Threads, Save(t)
      PROVE  StagingInv'
  BY <1>2, RequestStepsType, RequestStepsOwner DEF StagingInv
<1>3. CASE UNCHANGED vars
  BY <1>3 DEF vars, staging, requests, history, StagingInv, TypeOK, OneOwner,
              Numbered, RequestOK
<1> QED
  BY <1>1, <1>2, <1>3 DEF Next

LEMMA Invariance == Spec => []StagingInv
  BY InitInv, StepInv, PTL DEF Spec

\* No snapshot is ever owned twice, by two requests or by a request and the
\* pending file, whatever fails.
THEOREM Ownership == Spec => []OneOwner
<1>1. StagingInv => OneOwner
  BY DEF StagingInv
<1> QED
  BY <1>1, Invariance, PTL

-----------------------------------------------------------------------------
\* What a step of request t keeps when the others hold what they held.
LEMMA KeptByOthers ==
    ASSUME NEW t \in Threads, OnlyOf(t), NEW s \in Held,
           s \notin pending, s \notin written, s \notin taken[t]
    PROVE  s \in Held'
<1>1. PICK u \in Threads : s \in taken[u]
  BY DEF Held
<1> QED
  BY <1>1 DEF OnlyOf, Held

LEMMA FileStepsKeep ==
    ASSUME StagingInv, NEW s \in Held,
           (\E c \in Cards : Stage(c)) \/ Discard \/ TornWrite \/ Crash
    PROVE  s \in Held' \/ MayGo(s)
<1>1. ASSUME NEW c \in Cards, Stage(c) PROVE s \in Held' \/ MayGo(s)
  <2> DEFINE new == [card |-> c, n |-> scans + 1]
  <2>1. /\ UNCHANGED <<taken, written>> /\ new \in pending'
        /\ \A x \in pending : x.card # c => x \in pending'
    BY <1>1 DEF Stage, Put, requests
  <2>2. CASE s \in pending /\ s.card = c
    <3>1. s.n <= scans /\ s.n \in Nat /\ scans \in Nat
      BY <2>2 DEF StagingInv, Numbered, TypeOK, Snaps
    <3>2. new.card = s.card /\ new.n > s.n
      BY <2>2, <3>1
    <3> HIDE DEF new
    <3> QED
      BY <2>1, <3>2 DEF MayGo
  <2> QED
    BY <2>1, <2>2 DEF Held
<1>2. CASE Discard
  BY <1>2 DEF Discard, Held, MayGo, requests
<1>3. CASE TornWrite \/ Crash
  BY <1>3 DEF TornWrite, Crash, MayGo, StagingInv, TypeOK
<1> QED
  BY <1>1, <1>2, <1>3

LEMMA RequestStepsKeep ==
    ASSUME StagingInv, NEW t \in Threads, NEW s \in Held,
           Save(t)
    PROVE  s \in Held' \/ MayGo(s)
<1>others. OnlyOf(t)
  BY OthersAlone
<1>r. RequestOK(t)
  BY DEF StagingInv
<1>typed. /\ taken \in [Threads -> SUBSET Snaps] /\ pc \in [Threads -> Locations]
          /\ faults \in Nat
  BY DEF StagingInv, TypeOK
<1>o. CASE s \notin pending /\ s \notin written /\ s \notin taken[t]
  BY <1>o, <1>others, KeptByOthers
<1>1. CASE TakeOne(t) \/ TakeAll(t)
  <2>1. pc[t] = "idle" /\ written' = written /\ pending \subseteq pending' \cup taken'[t]
    BY <1>1, <1>typed DEF TakeOne, TakeAll
  <2> QED
    BY <1>o, <1>r, <2>1 DEF RequestOK, Held
<1>3. CASE NextSnap(t) \/ Write(t)
  <2>1. taken' = taken /\ pending' = pending /\ written \subseteq written'
    BY <1>3 DEF NextSnap, Write, staging
  <2> QED
    BY <2>1 DEF Held
<1>4. CASE Return(t)
  <2>1. /\ pc[t] = "written" /\ taken'[t] = taken[t] \ {cur[t]}
        /\ UNCHANGED <<pending, written>>
    BY <1>4, <1>typed DEF Return, staging
  <2>2. cur[t] \in written
    BY <1>r, <2>1 DEF RequestOK
  <2> QED
    BY <1>o, <2>1, <2>2 DEF Held
<1>5. CASE Raise(t)
  <2>1. CASE mode[t] = "all"
    BY <1>5, <2>1 DEF Raise, Held, staging
  <2>2. CASE mode[t] # "all"
    <3>1. UNCHANGED <<pending, written>> /\ pc'[t] = "idle"
          /\ pc[t] \in {"write", "written"}
      BY <1>5, <1>typed, <2>2 DEF Raise, Goto, staging
    <3>2. s \in taken[t] => mode[t] = "one" /\ cur[t] = s
      BY <1>r, <2>2, <1>typed DEF RequestOK, StagingInv, TypeOK
    <3> QED
      BY <1>o, <1>r, <3>1, <3>2 DEF Held, MayGo, RequestOK
  <2> QED
    BY <2>1, <2>2
<1>6. CASE PutBack(t)
  <2>1. /\ pc[t] = "putback" /\ taken'[t] = taken[t] \ {cur[t]} /\ written' = written
        /\ cur[t] \in pending'
        /\ \A x \in pending : x.card # cur[t].card => x \in pending'
    BY <1>6, <1>typed DEF PutBack, Put
  <2> QED
    BY <1>o, <2>1 DEF Held, MayGo
<1>7. CASE PutBackFails(t)
  BY <1>7, <1>typed DEF PutBackFails, MayGo
<1> QED
  BY <1>o, <1>1, <1>3, <1>4, <1>5, <1>6, <1>7 DEF Save

\* On its way to the ledger a snapshot vanishes only in one of the ways that MayGo names: through
\* the user, a snapshot of its card that replaces it, a single save that raises, or a fault.
THEOREM Retention == Spec => NothingVanishes
<1>1. StagingInv /\ [Next]_vars => [\A s \in Held : s \in Held' \/ MayGo(s)]_vars
  BY FileStepsKeep, RequestStepsKeep DEF Next
<1> QED
  BY <1>1, Invariance, PTL DEF Spec, NothingVanishes
=============================================================================
