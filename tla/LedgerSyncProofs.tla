-------------------------- MODULE LedgerSyncProofs --------------------------
(***************************************************************************)
(* What was committed, shared or answered is never overwritten, for any    *)
(* machines, threads, messages and snapshots, and any number of deletions, *)
(* resolutions and crashes.                                                *)
(***************************************************************************)
EXTENDS LedgerSync, FiniteSetTheorems, SequenceTheorems, WellFoundedInduction, TLAPS

(***************************************************************************)
(* The inductive invariant                                                 *)
(***************************************************************************)

\* All of tree a is in tree b, but for what is in l.
Within(a, b, l) ==
    /\ a.lines \subseteq b.lines \cup l
    /\ a.snaps \subseteq b.snaps \cup l

\* Once messages.jsonl has a line it exists.
Exists(tree) == tree.lines = {} \/ File \in tree.lines

\* A branch only grows, but for what is in l: every tree is within all later
\* ones.
Growing(b, l) ==
    /\ \A i, j \in 1..Len(b) : i <= j => Within(b[i], b[j], l)
    /\ \A i \in 1..Len(b) : Exists(b[i])

\* All that a branch has ever had is in set k.
Over(b, k) == \A i \in 1..Len(b) : b[i].lines \subseteq k /\ b[i].snaps \subseteq k

\* What was shared (p) or given up (l), and what else a machine may have: its own.
Shared(l, p)   == p \cup l \cup {File}
Known(m, l, p) == Shared(l, p) \cup { x \in Messages \cup Snapshots : Writer[x] = m }

\* A copy of the remote branch has what was shared; a machine's branch may have
\* its own as well.  They all begin with one commit.
RemoteOK(b, first, l, p)    == b[1] = first /\ Growing(b, l) /\ Over(b, Shared(l, p))
BranchOK(b, m, first, l, p) == b[1] = first /\ Growing(b, l) /\ Over(b, Known(m, l, p))

BranchesOK ==
    /\ RemoteOK(origin, origin[1], lost, published)
    /\ \A m \in Machines :
         /\ RemoteOK(tracking[m], origin[1], lost, published)
         /\ Stopped(m) => RemoteOK(onto[m], origin[1], lost, published)
         /\ BranchOK(branch[m], m, origin[1], lost, published)

\* The files and the index of a machine.  Without a stopped rebase (free) what the
\* branch has is added, and the lines that are added are in the file: so the next
\* commit, whosever it is, takes nothing from the branch.
FilesOK(files, added, tip, m, free, l, p) ==
    /\ Exists(files) /\ files.lines \subseteq Known(m, l, p)
    /\ Exists(added) /\ added.lines \subseteq Known(m, l, p) /\ added.snaps \subseteq Known(m, l, p)
    /\ free => Within(tip, added, l) /\ added.lines \subseteq files.lines \cup l

\* A stash entry has all of its base.
EntryOK(entry, m, l, p) ==
    /\ Exists(entry) /\ (entry.base = {} \/ File \in entry.base)
    /\ entry.lines \subseteq Known(m, l, p) /\ entry.snaps \subseteq Known(m, l, p)
    /\ entry.base \subseteq entry.lines \cup l

WorkOK ==
    \A m \in Machines :
      /\ FilesOK(work[m], index[m], Tip(m), m, ~Stopped(m), lost, published)
      /\ \A i \in 1..Len(stash[m]) : EntryOK(stash[m][i], m, lost, published)

\* Which job a thread has at which command, and what it has read.
JobOK(j, at, m, l, p) ==
    /\ at \in {"thread", "append"} => j.kind = "send"
    /\ at \in {"add", "commit"} => j.kind \in {"send", "save", "delete", "content_merge"}
    /\ j.kind = "send" => j.msg \in Messages /\ Writer[j.msg] = m
    /\ j.kind = "save" => j.msg \in Snapshots /\ Writer[j.msg] = m
    /\ at = "rewrite" => j.kind = "delete" /\ j.msg \in Messages /\ File \in j.read.lines
    /\ at = "end_rebase" => j.kind \in Actions
    /\ at = "fetch" => j.kind \in {"poll", "push", "retry", "skip", "reset"}
    /\ at = "reset" => j.kind \in {"reset", "content_merge"}
    /\ at = "readd" => j.kind = "content_merge"
    /\ Exists(j.read) /\ j.read.lines \subseteq Known(m, l, p)

JobsOK == \A w \in Workers : JobOK(job[w], pc[w], Host[w], lost, published)

\* What was shared is with the remote, with what its writer knows of the remote,
\* and in its writer's branch; what was committed is in its writer's branch.
SharedKept ==
    /\ \A x \in published : /\ x \in Items(Last(origin)) \cup lost
                            /\ x \in Items(Last(tracking[Writer[x]])) \cup lost
    /\ \A x \in published \cup committed : x \in Items(Tip(Writer[x])) \cup lost

\* What was answered, and what is written but not committed.
Writes(j, at) == at \in {"add", "commit"} /\ j.kind \in {"send", "save"}
Owed == sent \cup { x \in Messages \cup Snapshots : \E w \in Workers :
                      Writes(job[w], pc[w]) /\ job[w].msg = x }

\* What a machine keeps somewhere, or gave up; a stash entry counts for what it
\* would add to the branch.
All(tree)   == tree.lines \cup tree.snaps
Adds(entry) == (entry.lines \ entry.base) \cup entry.snaps
Stored(m) ==
    All(Tip(m)) \cup All(work[m]) \cup lost
    \cup UNION { Adds(stash[m][i]) : i \in 1..Len(stash[m]) }

OwedHeld == \A x \in Owed : x \in Stored(Writer[x]) \cup BeingMerged(Writer[x])

\* Type correctness in two parts.
RepoTyped ==
    /\ origin \in Seq(Trees) \ {<< >>}
    /\ tracking \in [Machines -> Seq(Trees) \ {<< >>}]
    /\ branch \in [Machines -> Seq(Trees) \ {<< >>}]
    /\ work \in [Machines -> Trees]
    /\ index \in [Machines -> Trees]
    /\ onto \in [Machines -> Seq(Trees)]
    /\ stash \in [Machines -> Seq(Entries)]
    /\ committed \subseteq Messages \cup Snapshots
    /\ published \subseteq Messages \cup Snapshots
    /\ lost \subseteq Messages \cup Snapshots

Labels == {"idle", "thread", "append", "add", "commit", "rewrite", "end_rebase", "fetch",
           "stash", "rebase", "abort", "pop", "push", "skip", "reset", "readd"}
Kinds  == {"none", "send", "save", "delete", "poll", "push"} \cup Actions
Jobs   == [kind : Kinds, msg : Messages \cup Snapshots \cup {None}, read : Trees,
           stashed : BOOLEAN]

JobsTyped ==
    /\ pc \in [Workers -> Labels]
    /\ job \in [Workers -> Jobs]
    /\ cooldown \in [Machines -> BOOLEAN]
    /\ sent \subseteq Messages \cup Snapshots

RepoInv   == RepoTyped /\ BranchesOK /\ WorkOK /\ SharedKept
LedgerInv == RepoInv /\ JobsTyped /\ JobsOK /\ OwedHeld

\* Nothing of its own leaves what a machine stores.
Own(m)   == { x \in Messages \cup Snapshots : Writer[x] = m }
Retained == \A m \in Machines : Stored(m) \cap Own(m) \subseteq Stored(m)'

LEMMA TypeParts == TypeOK <=> RepoTyped /\ JobsTyped
BY DEF TypeOK, RepoTyped, JobsTyped, Labels, Kinds, Jobs

(***************************************************************************)
(* Trees and branches                                                      *)
(***************************************************************************)

\* A set of numbers has a least one.
LEMMA Least ==
    ASSUME NEW S \in SUBSET Nat, S # {}
    PROVE  \E m \in S : \A j \in S : m <= j
<1>1. PICK m \in S : \A j \in S : ~(<<j, m>> \in OpToRel(<, Nat))
  BY WFMin, NatLessThanWellFounded
<1>2. \A j \in S : m <= j
  <2> SUFFICES ASSUME NEW j \in S, j < m PROVE FALSE
    OBVIOUS
  <2>1. <<j, m>> \in Nat \X Nat /\ <<j, m>>[1] < <<j, m>>[2]
    OBVIOUS
  <2>2. <<j, m>> \in OpToRel(<, Nat)
    BY <2>1, Zenon DEF OpToRel
  <2>. QED BY <1>1, <2>2
<1>. QED BY <1>2

\* A merge of two trees that have all their base has holds what either has; ours
\* may lack the base's messages.jsonl (e), if theirs does not change it.
LEMMA MergeKeeps ==
    ASSUME NEW base \in Trees, NEW ours \in Trees, NEW theirs \in Trees, NEW l, NEW e,
           File \notin l, l \subseteq e,
           Within(base, ours, e), Within(base, theirs, l),
           Exists(base), Exists(ours), Exists(theirs), ~Gone(base, ours, theirs),
           NEW t \in Merged(base, ours, theirs)
    PROVE  /\ t \in Trees /\ Exists(t)
           /\ Within(ours, t, l) /\ Within(theirs, t, e)
           /\ t.lines \subseteq ours.lines \cup theirs.lines
           /\ t.snaps \subseteq ours.snaps \cup theirs.snaps
<1>1. PICK s \in UnionLines(base.lines, ours.lines, theirs.lines) :
        t = [thread |-> IF theirs.thread = base.thread THEN ours.thread ELSE theirs.thread,
             lines  |-> s,
             snaps  |-> ThreeWay(base.snaps, ours.snaps, theirs.snaps)]
  BY DEF Merged
<1>2. s \subseteq ours.lines \cup theirs.lines
  BY DEF UnionLines
<1>3. ours.lines \subseteq s \cup l /\ theirs.lines \subseteq s \cup e
  BY DEF UnionLines, ThreeWay, Within
<1>4. t \in Trees
  BY <1>1, <1>2 DEF Trees, ThreeWay
<1>5. Exists(t)
  <2>1. CASE s \in {ours.lines, theirs.lines}
    BY <1>1, <2>1 DEF Exists
  <2>2. CASE s \notin {ours.lines, theirs.lines}
    <3>1. ThreeWay(base.lines, ours.lines, theirs.lines) \subseteq s /\ theirs.lines # base.lines
      BY <2>2 DEF UnionLines
    <3>. QED BY <1>1, <1>2, <1>3, <3>1 DEF Exists, Gone, ThreeWay
  <2>. QED BY <2>1, <2>2
<1>6. /\ ours.snaps \subseteq t.snaps \cup l /\ theirs.snaps \subseteq t.snaps \cup e
      /\ t.snaps \subseteq ours.snaps \cup theirs.snaps
  BY <1>1 DEF ThreeWay, Within
<1>. QED BY <1>1, <1>2, <1>3, <1>4, <1>5, <1>6 DEF Within

\* A commit on top of a growing branch.
LEMMA AppendKeeps ==
    ASSUME NEW b \in Seq(Trees), b # << >>, NEW t \in Trees, NEW l, Growing(b, l),
           Exists(t), Within(Last(b), t, l)
    PROVE  /\ Append(b, t) \in Seq(Trees) \ {<< >>}
           /\ Append(b, t)[1] = b[1]
           /\ Last(Append(b, t)) = t
           /\ Growing(Append(b, t), l)
<1> DEFINE c == Append(b, t)
<1>1. /\ c \in Seq(Trees) /\ Len(c) = Len(b) + 1 /\ Len(b) \in Nat /\ Len(b) >= 1
      /\ \A i \in 1..Len(b) : c[i] = b[i]
      /\ c[Len(b) + 1] = t
  OBVIOUS
<1> HIDE DEF c
<1>2. \A i, j \in 1..Len(c) : i <= j => Within(c[i], c[j], l)
  <2> SUFFICES ASSUME NEW i \in 1..Len(c), NEW j \in 1..Len(c), i <= j
               PROVE  Within(c[i], c[j], l)
    OBVIOUS
  <2>1. CASE j <= Len(b)
    <3>1. i \in 1..Len(b) /\ j \in 1..Len(b)
      BY <2>1, <1>1
    <3>. QED BY <3>1, <1>1 DEF Growing
  <2>2. CASE i <= Len(b) /\ j = Len(b) + 1
    <3>1. i \in 1..Len(b) /\ Len(b) \in 1..Len(b) /\ i <= Len(b)
      BY <2>2, <1>1
    <3>2. Within(b[i], Last(b), l)
      BY <3>1 DEF Growing, Last
    <3>. QED BY <3>1, <3>2, <2>2, <1>1 DEF Within
  <2>3. CASE i = Len(b) + 1 /\ j = Len(b) + 1
    BY <2>3 DEF Within
  <2>. QED BY <2>1, <2>2, <2>3, <1>1
<1>3. \A i \in 1..Len(c) : Exists(c[i])
  <2> SUFFICES ASSUME NEW i \in 1..Len(c) PROVE Exists(c[i])
    OBVIOUS
  <2>1. i \in 1..Len(b) \/ i = Len(b) + 1
    BY <1>1
  <2>. QED BY <2>1, <1>1 DEF Growing
<1>4. Growing(c, l)
  BY <1>2, <1>3 DEF Growing
<1>. QED BY <1>1, <1>4 DEF c, Last

LEMMA AppendOver ==
    ASSUME NEW b \in Seq(Trees), NEW t, NEW k, Over(b, k),
           t.lines \subseteq k, t.snaps \subseteq k
    PROVE  Over(Append(b, t), k)
<1> SUFFICES ASSUME NEW i \in 1..Len(Append(b, t))
             PROVE  Append(b, t)[i].lines \subseteq k /\ Append(b, t)[i].snaps \subseteq k
  BY DEF Over
<1>1. CASE i \in 1..Len(b)
  <2>1. Append(b, t)[i] = b[i]
    BY <1>1
  <2>. QED BY <2>1, <1>1 DEF Over
<1>2. CASE i = Len(b) + 1
  BY <1>2
<1>. QED BY <1>1, <1>2

\* The last tree of a branch has all of the earlier ones.
LEMMA WithinLast ==
    ASSUME NEW b \in Seq(Trees), NEW l, Growing(b, l), NEW i \in 1..Len(b)
    PROVE  Within(b[i], Last(b), l)
<1>1. Len(b) \in 1..Len(b) /\ i <= Len(b)
  OBVIOUS
<1>. QED BY <1>1 DEF Growing, Last

\* More may be given up and more be shared.
LEMMA MoreShared ==
    ASSUME NEW b, NEW m, NEW first, NEW entry, NEW files, NEW added, NEW tip,
           NEW free, NEW l, NEW p, NEW ll, NEW pp,
           l \subseteq ll, p \subseteq pp
    PROVE  /\ Known(m, l, p) \subseteq Known(m, ll, pp)
           /\ RemoteOK(b, first, l, p) => RemoteOK(b, first, ll, pp)
           /\ BranchOK(b, m, first, l, p) => BranchOK(b, m, first, ll, pp)
           /\ EntryOK(entry, m, l, p) => EntryOK(entry, m, ll, pp)
           /\ FilesOK(files, added, tip, m, free, l, p)
                => FilesOK(files, added, tip, m, free, ll, pp)
<1>1. Growing(b, l) => Growing(b, ll)
  BY DEF Growing, Within
<1>2. Shared(l, p) \subseteq Shared(ll, pp) /\ Known(m, l, p) \subseteq Known(m, ll, pp)
  BY DEF Shared, Known
<1>3. /\ Over(b, Shared(l, p)) => Over(b, Shared(ll, pp))
      /\ Over(b, Known(m, l, p)) => Over(b, Known(m, ll, pp))
  BY <1>2 DEF Over
<1>4. /\ EntryOK(entry, m, l, p) => EntryOK(entry, m, ll, pp)
      /\ FilesOK(files, added, tip, m, free, l, p)
           => FilesOK(files, added, tip, m, free, ll, pp)
  BY <1>2 DEF EntryOK, FilesOK, Within
<1>. QED BY <1>1, <1>2, <1>3, <1>4 DEF RemoteOK, BranchOK

(***************************************************************************)
(* Rebase                                                                  *)
(***************************************************************************)

LEMMA PrefixElements ==
    ASSUME NEW a \in Seq(Trees), NEW b \in Seq(Trees), NEW i \in 1..Len(a)
    PROVE  IsPrefix(SubSeq(a, 1, i), b) <=> i <= Len(b) /\ \A j \in 1..i : a[j] = b[j]
<1>1. /\ SubSeq(a, 1, i) \in Seq(Trees) /\ Len(SubSeq(a, 1, i)) = i
      /\ \A j \in 1..i : SubSeq(a, 1, i)[j] = a[j]
  OBVIOUS
<1> DEFINE c == SubSeq(a, 1, i)
<1> HIDE DEF c
<1>2. c \in Seq(Trees) /\ Len(c) = i /\ \A j \in 1..i : c[j] = a[j]
  BY <1>1 DEF c
<1>3. SubSeq(c, 1, i) = c
  BY <1>2
<1>4. CASE i <= Len(b)
  <2>1. /\ SubSeq(b, 1, i) \in Seq(Trees) /\ Len(SubSeq(b, 1, i)) = i
        /\ \A j \in 1..i : SubSeq(b, 1, i)[j] = b[j]
    BY <1>4
  <2>2. c = SubSeq(b, 1, i) <=> \A j \in 1..i : c[j] = SubSeq(b, 1, i)[j]
    BY <1>2, <2>1, SeqEqual
  <2>. QED BY <1>2, <1>3, <1>4, <2>1, <2>2 DEF IsPrefix, c
<1>5. CASE ~(i <= Len(b))
  BY <1>2, <1>5 DEF IsPrefix, c
<1>. QED BY <1>4, <1>5

\* Two branches with one root have a last common commit.
LEMMA ForkPoint ==
    ASSUME NEW a \in Seq(Trees), NEW b \in Seq(Trees),
           a # << >>, b # << >>, a[1] = b[1]
    PROVE  /\ Fork(a, b) \in 1..Len(a) /\ Fork(a, b) \in 1..Len(b)
           /\ \A j \in 1..Fork(a, b) : a[j] = b[j]
<1> DEFINE Agree == { i \in DOMAIN a : IsPrefix(SubSeq(a, 1, i), b) }
           Differ == { i \in 1..(Len(a) + 1) : i \notin Agree }
<1>1. DOMAIN a = 1..Len(a) /\ Len(a) \in Nat /\ Len(b) \in Nat /\ 1 <= Len(a) /\ 1 <= Len(b)
  OBVIOUS
<1>2. \A i \in 1..Len(a) : i \in Agree <=> i <= Len(b) /\ \A j \in 1..i : a[j] = b[j]
  BY <1>1, PrefixElements
<1>3. Agree \subseteq 1..Len(a)
  BY <1>1
<1> HIDE DEF Agree
<1>4. PICK k \in Differ : \A i \in Differ : k <= i
  <2>1. Differ \in SUBSET Nat
    BY <1>1
  <2>2. Len(a) + 1 \in Differ
    BY <1>1, <1>3
  <2> HIDE DEF Differ
  <2>. QED BY <2>1, <2>2, Least
<1>5. k \in 1..(Len(a) + 1) /\ k \notin Agree
  OBVIOUS
<1>6. 1 \in Agree
  BY <1>1, <1>2
<1>7. \A i \in 1..(k - 1) : i \in Agree
  BY <1>1, <1>4, <1>5
<1>8. \A i \in Agree : i < k
  <2> SUFFICES ASSUME NEW i \in Agree, k <= i PROVE FALSE
    BY <1>1, <1>3, <1>5
  <2>1. i \in 1..Len(a) /\ k \in 1..Len(a) /\ i <= Len(b) /\ \A j \in 1..i : a[j] = b[j]
    BY <1>1, <1>2, <1>3, <1>5
  <2>2. k <= Len(b) /\ \A j \in 1..k : a[j] = b[j]
    BY <2>1, <1>1
  <2>. QED BY <2>1, <2>2, <1>2, <1>5
<1>9. Agree = 1..(k - 1)
  <2>1. \A i \in Agree : i \in 1..(k - 1)
    BY <1>1, <1>3, <1>5, <1>8
  <2>. QED BY <2>1, <1>7
<1>10. k - 1 >= 1
  BY <1>5, <1>6, <1>8, <1>1
<1>11. Cardinality(Agree) = k - 1
  <2>1. Cardinality(1..(k - 1)) = IF 1 > k - 1 THEN 0 ELSE (k - 1) - 1 + 1
    BY FS_Interval, <1>5
  <2>. QED BY <2>1, <1>9, <1>10, <1>5
<1>12. Fork(a, b) = k - 1
  BY <1>11 DEF Fork, Agree
<1>13. k - 1 \in Agree
  BY <1>9, <1>10, <1>5
<1>. QED BY <1>12, <1>13, <1>10, <1>5, <1>2, <1>3, <1>1

\* What Rebased builds up, commit by commit.
Steps(local, upstream, skip, f, n) ==
    f = [i \in Fork(local, upstream)..n |->
           IF i = Fork(local, upstream) THEN {upstream}
           ELSE UNION { Pick(local, i, s, skip) : s \in f[i - 1] }]

LEMMA RebaseSteps ==
    ASSUME NEW local \in Seq(Trees), NEW upstream, NEW skip,
           Fork(local, upstream) \in 1..Len(local)
    PROVE  \E f : /\ Steps(local, upstream, skip, f, Len(local))
                  /\ Rebased(local, upstream, skip) = f[Len(local)]
<1> DEFINE fork == Fork(local, upstream)
           Fails == { n \in fork..Len(local) : ~ \E f : Steps(local, upstream, skip, f, n) }
<1>1. fork \in Nat /\ Len(local) \in Nat /\ fork <= Len(local)
  OBVIOUS
<1>2. Fails = {}
  <2> SUFFICES ASSUME Fails # {} PROVE FALSE
    OBVIOUS
  <2>1. PICK n \in Fails : \A i \in Fails : n <= i
    <3>1. Fails \in SUBSET Nat
      BY <1>1
    <3> HIDE DEF Fails
    <3>. QED BY <3>1, Least
  <2>2. n # fork
    <3> DEFINE g == [i \in fork..fork |-> {upstream}]
    <3>1. Steps(local, upstream, skip, g, fork)
      BY <1>1 DEF Steps
    <3>. QED BY <3>1
  <2>3. n - 1 \in fork..Len(local) /\ n - 1 \notin Fails
    BY <1>1, <2>1, <2>2
  <2>4. PICK f : Steps(local, upstream, skip, f, n - 1)
    BY <2>3
  <2> DEFINE g == [i \in fork..n |-> IF i < n THEN f[i]
                                     ELSE UNION { Pick(local, n, s, skip) : s \in f[n - 1] }]
             Value(i) == IF i = fork THEN {upstream}
                         ELSE UNION { Pick(local, i, s, skip) : s \in g[i - 1] }
  <2>5. \A i \in fork..n : g[i] = Value(i)
    <3> SUFFICES ASSUME NEW i \in fork..n PROVE g[i] = Value(i)
      OBVIOUS
    <3>1. CASE i = fork
      <4>1. g[i] = f[i] /\ i \in fork..(n - 1)
        BY <3>1, <2>2, <2>3, <1>1
      <4>2. f[i] = {upstream}
        BY <4>1, <2>4, <3>1 DEF Steps
      <4>. QED BY <4>1, <4>2, <3>1
    <3>2. CASE i # fork /\ i < n
      <4>1. g[i] = f[i] /\ i \in fork..(n - 1) /\ i - 1 \in fork..n /\ g[i - 1] = f[i - 1]
        BY <3>2, <2>3, <1>1
      <4>2. f[i] = UNION { Pick(local, i, s, skip) : s \in f[i - 1] }
        BY <4>1, <2>4, <3>2 DEF Steps
      <4>. QED BY <4>1, <4>2, <3>2
    <3>3. CASE i = n
      <4>1. g[i] = UNION { Pick(local, n, s, skip) : s \in f[n - 1] } /\ g[i - 1] = f[i - 1]
        BY <3>3, <2>2, <2>3, <1>1
      <4>. QED BY <4>1, <3>3, <2>2
    <3>. QED BY <3>1, <3>2, <3>3, <1>1, <2>3
  <2>6. g = [i \in fork..n |-> Value(i)]
    BY <2>5
  <2>7. Steps(local, upstream, skip, g, n)
    BY <2>6 DEF Steps
  <2>. QED BY <2>7
<1>3. \E f : Steps(local, upstream, skip, f, Len(local))
  BY <1>1, <1>2
<1>4. Rebased(local, upstream, skip) =
          (CHOOSE f : Steps(local, upstream, skip, f, Len(local)))[Len(local)]
  BY DEF Rebased, Steps
<1>5. Steps(local, upstream, skip,
            CHOOSE f : Steps(local, upstream, skip, f, Len(local)), Len(local))
  BY <1>3
<1>. QED BY <1>4, <1>5

\* A branch on the way from upstream that has all of local's commits up to i, but
\* for what is in e.
Rebasing(local, upstream, i, s, l, e, k) ==
    /\ s \in Seq(Trees) \ {<< >>}
    /\ s[1] = upstream[1]
    /\ Growing(s, l) /\ Over(s, k)
    /\ Within(local[i], Last(s), e)

\* What the commits that may conflict have besides is in e.
GivenUp(local, upstream, e) ==
    \A i \in (Fork(local, upstream) + 1)..Len(local) :
       local[i].thread # local[i - 1].thread \/ File \in e
         => Within(local[i], local[i - 1], e)

LEMMA PickKeeps ==
    ASSUME NEW local \in Seq(Trees), NEW upstream, NEW l, NEW e, NEW k, NEW skip,
           File \notin l, l \subseteq e, Growing(local, l), Over(local, k),
           NEW i \in 2..Len(local), NEW s, Rebasing(local, upstream, i - 1, s, l, e, k),
           skip /\ (local[i].thread # local[i - 1].thread \/ File \in e)
             => Within(local[i], local[i - 1], e),
           NEW new \in Pick(local, i, s, skip)
    PROVE  Rebasing(local, upstream, i, new, l, e, k)
<1> DEFINE base == local[i - 1]
           ours == Last(s)
           theirs == local[i]
<1>1. i \in 1..Len(local) /\ i - 1 \in 1..Len(local) /\ i - 1 <= i
  OBVIOUS
<1>2. /\ base \in Trees /\ theirs \in Trees /\ Exists(base) /\ Exists(theirs)
      /\ Within(base, theirs, l)
      /\ skip /\ (theirs.thread # base.thread \/ File \in e) => Within(theirs, base, e)
      /\ theirs.lines \subseteq k /\ theirs.snaps \subseteq k
  <2>1. base \in Trees /\ theirs \in Trees
    BY <1>1
  <2>. QED BY <2>1, <1>1 DEF Growing, Over
<1>3. s \in Seq(Trees) /\ s # << >> /\ Len(s) \in 1..Len(s)
  BY DEF Rebasing
<1>4. /\ ours \in Trees /\ Exists(ours) /\ Within(base, ours, e)
      /\ ours.lines \subseteq k /\ ours.snaps \subseteq k
  BY <1>3 DEF Rebasing, Last, Growing, Over
<1> HIDE DEF base, ours, theirs
<1>5. CASE new = s
  <2>1. Within(theirs, ours, e)
    <3>1. CASE Clash(base, ours, theirs) \/ Gone(base, ours, theirs)
      <4>1. skip
        BY <3>1 DEF Pick, base, ours, theirs
      <4>2. theirs.thread # base.thread \/ File \in e
        BY <3>1, <1>4 DEF Clash, Gone, Within
      <4>3. Within(theirs, base, e)
        BY <4>1, <4>2, <1>2
      <4>. QED BY <4>3, <1>4 DEF Within
    <3>2. CASE ~(Clash(base, ours, theirs) \/ Gone(base, ours, theirs))
      <4>1. PICK t \in Merged(base, ours, theirs) :
              new = IF t = ours THEN s ELSE Append(s, t)
        BY <3>2 DEF Pick, base, ours, theirs
      <4>2. Within(theirs, t, e)
        BY <3>2, <1>2, <1>4, MergeKeeps
      <4>3. t = ours
        <5>1. t # ours => Len(new) = Len(s) + 1
          BY <4>1, <1>3
        <5>. QED BY <5>1, <1>5, <1>3
      <4>. QED BY <4>2, <4>3
    <3>. QED BY <3>1, <3>2
  <2>. QED BY <2>1, <1>5 DEF Rebasing, ours, theirs
<1>6. CASE new # s
  <2>0. ~Clash(base, ours, theirs) /\ ~Gone(base, ours, theirs)
    BY <1>6 DEF Pick, base, ours, theirs
  <2>1. PICK t \in Merged(base, ours, theirs) : new = Append(s, t)
    BY <1>6, <2>0 DEF Pick, base, ours, theirs
  <2>2. /\ t \in Trees /\ Exists(t)
        /\ Within(ours, t, l) /\ Within(theirs, t, e)
        /\ t.lines \subseteq ours.lines \cup theirs.lines
        /\ t.snaps \subseteq ours.snaps \cup theirs.snaps
    BY <2>0, <1>2, <1>4, MergeKeeps
  <2>3. /\ new \in Seq(Trees) \ {<< >>} /\ new[1] = s[1]
        /\ Last(new) = t /\ Growing(new, l)
    BY <2>1, <2>2, <1>3, AppendKeeps DEF Rebasing, ours
  <2>4. t.lines \subseteq k /\ t.snaps \subseteq k
    BY <2>2, <1>2, <1>4
  <2>5. Over(new, k)
    BY <2>1, <2>4, <1>3, AppendOver DEF Rebasing
  <2>. QED BY <2>2, <2>3, <2>5 DEF Rebasing, theirs
<1>. QED BY <1>5, <1>6

\* What a rebase gives continues upstream, has all that local had but for what is
\* in e, and nothing that was on neither.
LEMMA RebaseKeeps ==
    ASSUME NEW local \in Seq(Trees) \ {<< >>}, NEW upstream \in Seq(Trees) \ {<< >>},
           local[1] = upstream[1], NEW l, NEW e, NEW k, NEW skip,
           File \notin l, l \subseteq e, skip => GivenUp(local, upstream, e),
           Growing(local, l), Growing(upstream, l), Over(local, k), Over(upstream, k),
           NEW new \in Rebased(local, upstream, skip)
    PROVE  Rebasing(local, upstream, Len(local), new, l, e, k)
<1> DEFINE fork == Fork(local, upstream)
<1>1. fork \in 1..Len(local) /\ fork \in 1..Len(upstream) /\ local[fork] = upstream[fork]
  <2>1. fork \in 1..Len(local) /\ fork \in 1..Len(upstream)
        /\ \A j \in 1..fork : local[j] = upstream[j]
    BY ForkPoint
  <2>2. fork \in 1..fork
    BY <2>1
  <2>. QED BY <2>1, <2>2
<1>2. PICK f : /\ Steps(local, upstream, skip, f, Len(local))
               /\ Rebased(local, upstream, skip) = f[Len(local)]
  BY <1>1, RebaseSteps
<1> DEFINE Bad == { i \in fork..Len(local) :
                      \E s \in f[i] : ~Rebasing(local, upstream, i, s, l, e, k) }
<1>3. Bad = {}
  <2> SUFFICES ASSUME Bad # {} PROVE FALSE
    OBVIOUS
  <2>1. PICK i \in Bad : \A j \in Bad : i <= j
    <3>1. Bad \in SUBSET Nat
      BY <1>1
    <3> HIDE DEF Bad
    <3>. QED BY <3>1, Least
  <2>2. PICK s \in f[i] : ~Rebasing(local, upstream, i, s, l, e, k)
    OBVIOUS
  <2>3. CASE i = fork
    <3>1. s = upstream
      BY <1>1, <1>2, <2>2, <2>3 DEF Steps
    <3>2. Within(local[fork], Last(upstream), e)
      BY <1>1, WithinLast DEF Within
    <3>. QED BY <3>1, <3>2, <2>2, <2>3 DEF Rebasing
  <2>4. CASE i # fork
    <3>1. i - 1 \in fork..Len(local) /\ i \in 2..Len(local) /\ i - 1 \notin Bad
      BY <1>1, <2>1, <2>4
    <3>2. f[i] = UNION { Pick(local, i, r, skip) : r \in f[i - 1] }
      BY <1>2, <2>4 DEF Steps
    <3>3. PICK r \in f[i - 1] : s \in Pick(local, i, r, skip)
      BY <3>2, <2>2
    <3>4. Rebasing(local, upstream, i - 1, r, l, e, k)
      BY <3>1, <3>3
    <3>5. skip /\ (local[i].thread # local[i - 1].thread \/ File \in e)
            => Within(local[i], local[i - 1], e)
      <4>1. i \in (fork + 1)..Len(local)
        BY <1>1, <2>4, <3>1
      <4>. QED BY <4>1 DEF GivenUp
    <3>. QED BY <3>1, <3>3, <3>4, <3>5, <2>2, PickKeeps
  <2>. QED BY <2>3, <2>4
<1>4. Len(local) \in fork..Len(local)
  BY <1>1
<1>. QED BY <1>2, <1>3, <1>4

(***************************************************************************)
(* What a step does to the repositories                                    *)
(***************************************************************************)

USE LedgerAssumption

LEMMA TreeTypes ==
    ASSUME RepoTyped, NEW m \in Machines
    PROVE  /\ Tip(m) \in Trees /\ work[m] \in Trees /\ index[m] \in Trees
           /\ Last(tracking[m]) \in Trees /\ Last(origin) \in Trees
           /\ Stopped(m) => onto[m] \in Seq(Trees) \ {<< >>} /\ Last(onto[m]) \in Trees
           /\ stash[m] \in Seq(Entries)
           /\ File \notin lost
<1>1. \A b \in Seq(Trees) \ {<< >>} : Last(b) \in Trees
  BY DEF Last
<1>. QED BY <1>1 DEF RepoTyped, Tip, Stopped

LEMMA LastOK ==
    ASSUME NEW b \in Seq(Trees) \ {<< >>}, NEW l, NEW k, Growing(b, l), Over(b, k)
    PROVE  Exists(Last(b)) /\ Last(b).lines \subseteq k /\ Last(b).snaps \subseteq k
<1>1. Len(b) \in 1..Len(b)
  OBVIOUS
<1>. QED BY <1>1 DEF Last, Growing, Over

LEMMA ItemsOf ==
    ASSUME NEW tree \in Trees
    PROVE  /\ Items(tree) \subseteq Messages \cup Snapshots
           /\ \A x \in Messages : x \in Items(tree) <=> x \in tree.lines
           /\ \A x \in Snapshots : x \in Items(tree) <=> x \in tree.snaps
           /\ \A x \in Messages \cup Snapshots : x \in Items(tree) <=> x \in All(tree)
           /\ Items(tree) \subseteq All(tree)
BY DEF Items, Trees, All

LEMMA WithinItems ==
    ASSUME NEW a \in Trees, NEW b \in Trees, NEW l, Within(a, b, l)
    PROVE  Items(a) \subseteq Items(b) \cup l /\ All(a) \subseteq All(b) \cup l
BY DEF Items, Within, All

\* Nothing but what is given up changes.
LEMMA LostMore ==
    ASSUME RepoInv, UNCHANGED <<remote, repo, committed>>,
           lost \subseteq lost', lost' \subseteq Messages \cup Snapshots
    PROVE  RepoInv' /\ Retained
<1>0. /\ origin' = origin /\ published' = published /\ tracking' = tracking
      /\ branch' = branch /\ work' = work /\ index' = index /\ onto' = onto /\ stash' = stash
      /\ committed' = committed
  BY DEF remote, repo
<1>1. RepoTyped'
  BY <1>0 DEF RepoInv, RepoTyped
<1>2. BranchesOK'
  BY <1>0, MoreShared DEF RepoInv, BranchesOK, Stopped
<1>3. WorkOK'
  <2> SUFFICES ASSUME NEW m \in Machines
               PROVE  /\ FilesOK(work[m], index[m], Tip(m), m, ~Stopped(m), lost', published)
                      /\ \A i \in 1..Len(stash[m]) : EntryOK(stash[m][i], m, lost', published)
    BY <1>0 DEF WorkOK, Tip, Stopped
  <2>. QED BY MoreShared DEF RepoInv, WorkOK
<1>4. SharedKept'
  BY <1>0 DEF RepoInv, SharedKept, Tip
<1>5. Retained
  BY <1>0 DEF Retained, Stored, Tip
<1>. QED BY <1>1, <1>2, <1>3, <1>4, <1>5 DEF RepoInv

\* The branches stay: enough to look at the files.
LEMMA FilesOnly ==
    ASSUME RepoInv, UNCHANGED <<remote, tracking, branch, committed>>,
           lost \subseteq lost', lost' \subseteq Messages \cup Snapshots,
           work' \in [Machines -> Trees], index' \in [Machines -> Trees],
           onto' \in [Machines -> Seq(Trees)],
           stash' \in [Machines -> Seq(Entries)],
           \A m \in Machines : onto'[m] \in {onto[m], << >>, tracking[m]},
           WorkOK'
    PROVE  RepoInv'
<1>0. /\ origin' = origin /\ published' = published /\ tracking' = tracking
      /\ branch' = branch /\ committed' = committed
  BY DEF remote
<1>1. RepoTyped'
  BY <1>0 DEF RepoInv, RepoTyped
<1>2. BranchesOK'
  <2>1. RemoteOK(origin, origin[1], lost', published)
    BY MoreShared DEF RepoInv, BranchesOK
  <2>2. ASSUME NEW m \in Machines
        PROVE  /\ RemoteOK(tracking[m], origin[1], lost', published)
               /\ onto'[m] # << >> => RemoteOK(onto'[m], origin[1], lost', published)
               /\ BranchOK(branch[m], m, origin[1], lost', published)
    BY MoreShared DEF RepoInv, BranchesOK, Stopped
  <2>. QED BY <2>1, <2>2, <1>0 DEF BranchesOK, Stopped
<1>4. SharedKept'
  BY <1>0 DEF RepoInv, SharedKept, Tip
<1>. QED BY <1>1, <1>2, <1>4 DEF RepoInv

\* One machine's branch becomes another that has what it committed and shared.
LEMMA BranchMoves ==
    ASSUME RepoInv, UNCHANGED <<remote, tracking, stash>>,
           lost \subseteq lost', lost' \subseteq Messages \cup Snapshots,
           NEW m \in Machines, NEW new \in Seq(Trees) \ {<< >>},
           branch' = [branch EXCEPT ![m] = new],
           BranchOK(new, m, origin[1], lost', published),
           work' \in [Machines -> Trees], index' \in [Machines -> Trees],
           onto' \in [Machines -> Seq(Trees)],
           \A n \in Machines : onto'[n] \in {onto[n], << >>},
           WorkOK', committed' \subseteq Messages \cup Snapshots,
           \A x \in published \cup committed' :
               Writer[x] = m => x \in Items(Last(new)) \cup lost',
           \A x \in committed' : Writer[x] # m => x \in committed \cup published \cup lost
    PROVE  RepoInv'
<1>0. /\ origin' = origin /\ published' = published /\ tracking' = tracking
      /\ stash' = stash /\ branch \in [Machines -> Seq(Trees) \ {<< >>}]
      /\ \A n \in Machines : branch'[n] = IF n = m THEN new ELSE branch[n]
  BY DEF remote, RepoInv, RepoTyped
<1>1. RepoTyped'
  BY <1>0 DEF RepoInv, RepoTyped
<1>2. BranchesOK'
  <2>1. RemoteOK(origin, origin[1], lost', published)
    BY MoreShared DEF RepoInv, BranchesOK
  <2>2. ASSUME NEW n \in Machines
        PROVE  /\ RemoteOK(tracking[n], origin[1], lost', published)
               /\ onto'[n] # << >> => RemoteOK(onto'[n], origin[1], lost', published)
               /\ BranchOK(branch'[n], n, origin[1], lost', published)
    BY <1>0, MoreShared DEF RepoInv, BranchesOK, Stopped
  <2>. QED BY <2>1, <2>2, <1>0 DEF BranchesOK, Stopped
<1>3. SharedKept'
  <2>1. ASSUME NEW x \in published
        PROVE  /\ x \in Items(Last(origin)) \cup lost'
               /\ x \in Items(Last(tracking[Writer[x]])) \cup lost'
    BY DEF RepoInv, SharedKept
  <2>2. ASSUME NEW x \in published \cup committed'
        PROVE  x \in Items(Last(branch'[Writer[x]])) \cup lost'
    <3>1. CASE Writer[x] = m
      BY <3>1, <1>0
    <3>2. CASE Writer[x] # m
      <4>1. x \in committed \cup published \cup lost
        BY <3>2
      <4>2. Writer[x] \in Machines
        BY DEF RepoInv, RepoTyped
      <4>3. x \in Items(Last(branch[Writer[x]])) \cup lost
        BY <4>1 DEF RepoInv, SharedKept, Tip
      <4>. QED BY <4>2, <4>3, <3>2, <1>0
    <3>. QED BY <3>1, <3>2
  <2>. QED BY <2>1, <2>2, <1>0 DEF SharedKept, Tip
<1>. QED BY <1>1, <1>2, <1>3 DEF RepoInv

\* The machine of a thread and what the invariant says of the two.
LEMMA AtWork ==
    ASSUME LedgerInv, NEW w \in Workers
    PROVE  /\ Host[w] \in Machines
           /\ job[w] \in Jobs /\ pc[w] \in Labels
           /\ JobOK(job[w], pc[w], Host[w], lost, published)
BY DEF LedgerInv, JobsOK, JobsTyped

\* The tip of a branch has nothing the machine does not know.
LEMMA TipOK ==
    ASSUME RepoInv, NEW m \in Machines
    PROVE  /\ Tip(m) \in Trees /\ Exists(Tip(m))
           /\ Tip(m).lines \subseteq Known(m, lost, published)
           /\ Tip(m).snaps \subseteq Known(m, lost, published)
           /\ Tip(m).lines \subseteq Messages \cup {File} /\ Tip(m).snaps \subseteq Snapshots
<1>1. branch[m] \in Seq(Trees) \ {<< >>} /\ BranchOK(branch[m], m, origin[1], lost, published)
  BY DEF RepoInv, RepoTyped, BranchesOK
<1>2. Tip(m) \in Trees
  BY TreeTypes DEF RepoInv
<1>. QED BY <1>1, <1>2, LastOK DEF BranchOK, Tip, Trees

LEMMA FileOK ==
    ASSUME RepoInv, NEW m \in Machines
    PROVE  /\ work[m] \in Trees /\ index[m] \in Trees
           /\ FilesOK(work[m], index[m], Tip(m), m, ~Stopped(m), lost, published)
           /\ Exists(work[m]) /\ work[m].lines \subseteq Known(m, lost, published)
           /\ work[m].lines \subseteq Messages \cup {File}
           /\ \A i \in 1..Len(stash[m]) : EntryOK(stash[m][i], m, lost, published)
<1>1. work[m] \in Trees /\ index[m] \in Trees
  BY DEF RepoInv, RepoTyped
<1>. QED BY <1>1 DEF RepoInv, WorkOK, FilesOK, Trees

\* The files of one machine change, with its index, its stash and where a rebase
\* stopped.
LEMMA FileMoves ==
    ASSUME RepoInv, UNCHANGED <<remote, tracking, branch, committed>>,
           lost \subseteq lost', lost' \subseteq Messages \cup Snapshots,
           NEW m \in Machines, NEW tree \in Trees, work' = [work EXCEPT ![m] = tree],
           NEW added \in Trees, index' = [index EXCEPT ![m] = added],
           NEW top \in {onto[m], << >>, tracking[m]}, onto' = [onto EXCEPT ![m] = top],
           FilesOK(tree, added, Tip(m), m, top = << >>, lost', published),
           NEW entries \in Seq(Entries), stash' = [stash EXCEPT ![m] = entries],
           \A i \in 1..Len(entries) : EntryOK(entries[i], m, lost', published)
    PROVE  /\ RepoInv'
           /\ Stored(m) \cap Own(m) \subseteq Stored(m)' => Retained
<1>0. /\ published' = published /\ branch' = branch
      /\ work \in [Machines -> Trees] /\ index \in [Machines -> Trees]
      /\ onto \in [Machines -> Seq(Trees)]
      /\ stash \in [Machines -> Seq(Entries)] /\ tracking[m] \in Seq(Trees)
  BY DEF remote, RepoInv, RepoTyped
<1>1. /\ \A n \in Machines : /\ work'[n] = IF n = m THEN tree ELSE work[n]
                             /\ index'[n] = IF n = m THEN added ELSE index[n]
                             /\ onto'[n] = IF n = m THEN top ELSE onto[n]
                             /\ stash'[n] = IF n = m THEN entries ELSE stash[n]
      /\ work' \in [Machines -> Trees] /\ index' \in [Machines -> Trees]
      /\ onto' \in [Machines -> Seq(Trees)]
      /\ stash' \in [Machines -> Seq(Entries)]
  <2>1. \A n \in Machines : work'[n] = IF n = m THEN tree ELSE work[n]
    BY <1>0
  <2>2. \A n \in Machines : onto'[n] = IF n = m THEN top ELSE onto[n]
    BY <1>0
  <2>3. \A n \in Machines : stash'[n] = IF n = m THEN entries ELSE stash[n]
    BY <1>0
  <2>4. /\ work' \in [Machines -> Trees] /\ index' \in [Machines -> Trees]
        /\ \A n \in Machines : index'[n] = IF n = m THEN added ELSE index[n]
    BY <1>0
  <2>5. top \in Seq(Trees)
    BY <1>0, onto[m] \in Seq(Trees), << >> \in Seq(Trees)
  <2>6. onto' \in [Machines -> Seq(Trees)]
    BY <1>0, <2>5
  <2>7. stash' \in [Machines -> Seq(Entries)]
    BY <1>0
  <2>. QED BY <2>1, <2>2, <2>3, <2>4, <2>6, <2>7
<1>2. WorkOK'
  <2> SUFFICES ASSUME NEW n \in Machines
               PROVE  /\ FilesOK(work'[n], index'[n], Tip(n), n, onto'[n] = << >>,
                                 lost', published)
                      /\ \A i \in 1..Len(stash'[n]) : EntryOK(stash'[n][i], n, lost', published)
    BY <1>0 DEF WorkOK, Tip, Stopped
  <2>1. CASE n = m
    BY <1>1, <2>1
  <2>2. CASE n # m
    <3>1. /\ FilesOK(work[n], index[n], Tip(n), n, ~Stopped(n), lost', published)
          /\ \A i \in 1..Len(stash[n]) : EntryOK(stash[n][i], n, lost', published)
      BY MoreShared DEF RepoInv, WorkOK
    <3>2. ~Stopped(n) <=> onto'[n] = << >>
      BY <1>1, <2>2 DEF Stopped
    <3>. QED BY <1>1, <2>2, <3>1, <3>2 DEF FilesOK
  <2>. QED BY <2>1, <2>2
<1>3. RepoInv'
  <2>1. \A n \in Machines : onto'[n] \in {onto[n], << >>, tracking[n]}
    BY <1>1
  <2>. QED BY <1>1, <1>2, <2>1, FilesOnly
<1>4. \A n \in Machines : n # m => Stored(n) \subseteq Stored(n)'
  <2> SUFFICES ASSUME NEW n \in Machines, n # m PROVE Stored(n) \subseteq Stored(n)'
    OBVIOUS
  <2>1. work'[n] = work[n] /\ stash'[n] = stash[n] /\ Tip(n)' = Tip(n)
    BY <1>0, <1>1 DEF Tip
  <2>. QED BY <2>1 DEF Stored
<1>. QED BY <1>3, <1>4 DEF Retained

\* Something is added to the files or the index of a machine.
LEMMA LinesAdded ==
    ASSUME RepoInv, UNCHANGED <<remote, tracking, branch, onto, stash, committed, lost>>,
           NEW m \in Machines, NEW tree \in Trees, work' = [work EXCEPT ![m] = tree],
           NEW added \in Trees, index' = [index EXCEPT ![m] = added],
           FilesOK(tree, added, Tip(m), m, ~Stopped(m), lost, published),
           All(work[m]) \subseteq All(tree)
    PROVE  RepoInv' /\ Retained
<1>1. /\ onto \in [Machines -> Seq(Trees)] /\ stash \in [Machines -> Seq(Entries)]
      /\ work \in [Machines -> Trees] /\ lost \subseteq Messages \cup Snapshots
      /\ onto' = onto /\ stash' = stash /\ lost' = lost /\ published' = published
      /\ branch' = branch
  BY DEF remote, RepoInv, RepoTyped
<1>2. /\ onto' = [onto EXCEPT ![m] = onto[m]] /\ stash' = [stash EXCEPT ![m] = stash[m]]
      /\ stash[m] \in Seq(Entries)
      /\ FilesOK(tree, added, Tip(m), m, onto[m] = << >>, lost', published)
      /\ \A i \in 1..Len(stash[m]) : EntryOK(stash[m][i], m, lost', published)
  BY <1>1, FileOK DEF Stopped
<1>3. RepoInv' /\ (Stored(m) \cap Own(m) \subseteq Stored(m)' => Retained)
  BY <1>1, <1>2, FileMoves
<1>4. work'[m] = tree /\ stash'[m] = stash[m] /\ Tip(m)' = Tip(m)
  BY <1>1 DEF Tip
<1>. QED BY <1>1, <1>3, <1>4 DEF Stored

\* A commit whose tree has all of the tip, and no more lines than the file.
LEMMA CommitKeeps ==
    ASSUME RepoInv, UNCHANGED <<remote, tracking, onto, stash, lost>>,
           NEW m \in Machines, NEW tree \in Trees, Commit(m, tree),
           NEW files \in Trees, work' = [work EXCEPT ![m] = files],
           index' = [index EXCEPT ![m] = tree], All(work[m]) \subseteq All(files),
           FilesOK(files, tree, Tip(m), m, ~Stopped(m), lost, published)
    PROVE  RepoInv' /\ Retained
<1>0. /\ origin' = origin /\ published' = published /\ tracking' = tracking
      /\ onto' = onto /\ stash' = stash /\ lost' = lost
      /\ lost \subseteq Messages \cup Snapshots /\ onto \in [Machines -> Seq(Trees)]
      /\ work \in [Machines -> Trees] /\ index \in [Machines -> Trees]
      /\ stash \in [Machines -> Seq(Entries)] /\ committed \subseteq Messages \cup Snapshots
  BY DEF remote, RepoInv, RepoTyped
<1>1. CASE UNCHANGED <<branch, committed>>
  BY <1>0, <1>1, LinesAdded
<1>2. CASE /\ ~Stopped(m)
           /\ branch' = [branch EXCEPT ![m] = Append(@, tree)]
           /\ committed' = committed \cup (Items(tree) \ Items(Tip(m)))
  <2> DEFINE new == Append(branch[m], tree)
  <2>0. /\ Exists(tree) /\ Within(Tip(m), tree, lost)
        /\ tree.lines \subseteq Known(m, lost, published)
        /\ tree.snaps \subseteq Known(m, lost, published)
    BY <1>2 DEF FilesOK
  <2>1. branch[m] \in Seq(Trees) /\ branch[m] # << >> /\ File \notin lost /\ Tip(m) \in Trees
        /\ branch \in [Machines -> Seq(Trees) \ {<< >>}]
    BY TreeTypes DEF RepoInv, RepoTyped
  <2>2. BranchOK(branch[m], m, origin[1], lost, published)
    BY DEF RepoInv, BranchesOK
  <2>3. /\ new \in Seq(Trees) \ {<< >>} /\ new[1] = origin[1]
        /\ Last(new) = tree /\ Growing(new, lost)
    BY <2>0, <2>1, <2>2, AppendKeeps DEF BranchOK, Tip
  <2>4. BranchOK(new, m, origin[1], lost', published)
    BY <1>0, <2>0, <2>1, <2>2, <2>3, AppendOver DEF BranchOK
  <2> HIDE DEF new
  <2>5. branch' = [branch EXCEPT ![m] = new]
        /\ \A n \in Machines : branch'[n] = IF n = m THEN new ELSE branch[n]
    BY <1>2, <2>1 DEF new
  <2>6. WorkOK'
    <3> SUFFICES ASSUME NEW n \in Machines
                 PROVE  /\ FilesOK(work'[n], index'[n], Tip(n)', n, ~Stopped(n)',
                                   lost', published')
                        /\ \A i \in 1..Len(stash'[n]) :
                             EntryOK(stash'[n][i], n, lost', published')
      BY DEF WorkOK
    <3>0. (~Stopped(n))' <=> ~Stopped(n)
      BY <1>0 DEF Stopped
    <3>1. CASE n = m
      <4>1. work'[n] = files /\ index'[n] = tree /\ Tip(n)' = tree
        BY <1>0, <2>3, <2>5, <3>1 DEF Tip
      <4>2. FilesOK(files, tree, tree, m, TRUE, lost, published)
        BY <1>2 DEF FilesOK, Within
      <4>. QED BY <1>0, <1>2, <3>0, <3>1, <4>1, <4>2, FileOK DEF FilesOK
    <3>2. CASE n # m
      <4>1. work'[n] = work[n] /\ index'[n] = index[n] /\ Tip(n)' = Tip(n)
        BY <1>0, <2>5, <3>2 DEF Tip
      <4>. QED BY <1>0, <3>0, <4>1, FileOK DEF FilesOK
    <3>. QED BY <3>1, <3>2
  <2>7. /\ Items(tree) \subseteq Messages \cup Snapshots
        /\ Items(Tip(m)) \subseteq Items(tree) \cup lost
    BY <2>0, <2>1, ItemsOf, WithinItems
  <2>8. \A x \in published \cup committed' :
            Writer[x] = m => x \in Items(Last(new)) \cup lost'
    BY <1>0, <1>2, <2>3, <2>7 DEF RepoInv, SharedKept
  <2>9. \A x \in committed' : Writer[x] # m => x \in committed \cup published \cup lost
    <3> SUFFICES ASSUME NEW x \in Items(tree), Writer[x] # m
                 PROVE  x \in published \cup lost
      BY <1>2
    <3>1. x \in Known(m, lost, published) /\ x # File
      BY <2>0, <2>7 DEF Items
    <3>. QED BY <3>1, <2>7 DEF Known, Shared
  <2>10. RepoInv'
    <3>1. committed' \subseteq Messages \cup Snapshots
      BY <1>0, <1>2, <2>7
    <3>2. onto' \in [Machines -> Seq(Trees)] /\ \A n \in Machines : onto'[n] \in {onto[n], << >>}
      BY <1>0
    <3>3. work' \in [Machines -> Trees] /\ index' \in [Machines -> Trees]
      BY <1>0
    <3>. QED BY <1>0, <2>3, <2>4, <2>5, <2>6, <2>8, <2>9, <3>1, <3>2, <3>3, BranchMoves
  <2>11. Retained
    <3> SUFFICES ASSUME NEW n \in Machines
                 PROVE  Stored(n) \cap Own(n) \subseteq Stored(n)'
      BY DEF Retained
    <3>1. All(Tip(m)) \subseteq All(tree) \cup lost
      BY <2>0, <2>1, WithinItems
    <3>2. All(Tip(n)) \subseteq All(Tip(n)') \cup lost
      BY <2>3, <2>5, <3>1 DEF Tip
    <3>3. All(work[n]) \subseteq All(work'[n])
      BY <1>0
    <3>. QED BY <3>2, <3>3, <1>0 DEF Stored
  <2>. QED BY <2>10, <2>11
<1>. QED BY <1>1, <1>2 DEF Commit

\* The worktree gets the tree that is checked out, and keeps what git does not know.
LEMMA CheckOut ==
    ASSUME RepoInv, NEW m \in Machines, NEW tree \in Trees, Exists(tree),
           tree.lines \subseteq Known(m, lost, published),
           tree.snaps \subseteq Known(m, lost, published)
    PROVE  /\ CheckedOut(m, tree) \in Trees
           /\ FilesOK(CheckedOut(m, tree), tree, tree, m, TRUE, lost, published)
           /\ CheckedOut(m, tree).snaps = tree.snaps \cup (work[m].snaps \ index[m].snaps)
           /\ \/ CheckedOut(m, tree).lines = tree.lines /\ (Tracked(m) \/ File \in tree.lines)
              \/ ~Tracked(m) /\ tree.lines = {} /\ CheckedOut(m, tree).lines = work[m].lines
<1>0. /\ CheckedOut(m, tree).snaps = tree.snaps \cup (work[m].snaps \ index[m].snaps)
      /\ CheckedOut(m, tree).lines =
           IF Tracked(m) \/ File \in tree.lines THEN tree.lines ELSE work[m].lines
      /\ CheckedOut(m, tree) \in Trees
  BY FileOK DEF CheckedOut, Trees
<1>1. CASE Tracked(m) \/ File \in tree.lines
  BY <1>0, <1>1 DEF FilesOK, Within, Exists
<1>2. CASE ~(Tracked(m) \/ File \in tree.lines)
  BY <1>0, <1>2, FileOK DEF FilesOK, Within, Exists
<1>. QED BY <1>1, <1>2

\* Without changes that are not committed, what is added is on the branch, and so
\* is every line of the file, or git does not know the file.
LEMMA CleanFile ==
    ASSUME RepoInv, NEW m \in Machines, ~Dirty(m), ~Stopped(m)
    PROVE  /\ index[m].snaps = Tip(m).snaps
           /\ \/ Tracked(m) /\ work[m].lines = Tip(m).lines
              \/ ~Tracked(m) /\ Tip(m).lines = {}
BY TipOK DEF Dirty, Tracked, Exists

\* So a tree that is checked out, and was not refused, leaves nothing out.
LEMMA CleanOut ==
    ASSUME RepoInv, NEW m \in Machines, ~Dirty(m), ~Stopped(m), NEW tree \in Trees,
           Exists(tree), tree.lines \subseteq Known(m, lost, published),
           tree.snaps \subseteq Known(m, lost, published),
           ~Tracked(m) /\ File \in tree.lines => work[m].lines = {}
    PROVE  All(work[m]) \subseteq All(Tip(m)) \cup All(CheckedOut(m, tree))
<1>1. work[m].snaps \subseteq Tip(m).snaps \cup CheckedOut(m, tree).snaps
  <2>1. index[m].snaps = Tip(m).snaps
    BY CleanFile
  <2>2. CheckedOut(m, tree).snaps = tree.snaps \cup (work[m].snaps \ index[m].snaps)
    BY CheckOut
  <2>. QED BY <2>1, <2>2
<1>2. work[m].lines \subseteq Tip(m).lines \cup CheckedOut(m, tree).lines
  BY CleanFile, CheckOut
<1>. QED BY <1>1, <1>2 DEF All

\* What was shared and is its own is on a machine's branch.
LEMMA OwnShared ==
    ASSUME RepoInv, NEW m \in Machines, NEW x \in Own(m), x \in Shared(lost, published)
    PROVE  x \in All(Tip(m)) \cup lost
<1>1. x \in published \cup lost /\ x \in Messages \cup Snapshots /\ Writer[x] = m
  BY DEF Shared, Own
<1>2. x \in Items(Tip(m)) \cup lost
  BY <1>1 DEF RepoInv, SharedKept
<1>. QED BY <1>1, <1>2, TipOK, ItemsOf

(***************************************************************************)
(* The actions on the repositories                                         *)
(***************************************************************************)

LEMMA EnsureThreadKeeps ==
    ASSUME LedgerInv, NEW w \in Workers, EnsureThread(w)
    PROVE  RepoInv' /\ Retained
<1> DEFINE m == Host[w]
           tree == [index[m] EXCEPT !.thread = m]
           files == [work[m] EXCEPT !.thread = m]
<1>1. m \in Machines /\ RepoInv /\ work \in [Machines -> Trees]
  BY AtWork DEF LedgerInv, RepoInv, RepoTyped
<1>2. CASE work[m].thread # None
  <2>1. UNCHANGED <<remote, repo, committed, lost>>
    BY <1>2 DEF EnsureThread, repo
  <2>. QED BY <1>1, <2>1, LostMore DEF RepoInv, RepoTyped
<1>3. CASE work[m].thread = None
  <2>1. /\ UNCHANGED <<remote, tracking, onto, stash, lost>>
        /\ work' = [work EXCEPT ![m] = files] /\ index' = [index EXCEPT ![m] = tree]
        /\ Commit(m, tree)
    BY <1>3 DEF EnsureThread
  <2>2. /\ tree \in Trees /\ tree.lines = index[m].lines /\ tree.snaps = index[m].snaps
        /\ files \in Trees /\ files.lines = work[m].lines /\ files.snaps = work[m].snaps
    BY <1>1, FileOK DEF Trees
  <2>3. All(work[m]) \subseteq All(files)
    BY <2>2 DEF All
  <2>4. FilesOK(files, tree, Tip(m), m, ~Stopped(m), lost, published)
    BY <1>1, <2>2, FileOK DEF FilesOK, Exists, Within
  <2> HIDE DEF tree, files, m
  <2>. QED BY <1>1, <2>1, <2>2, <2>3, <2>4, CommitKeeps
<1>. QED BY <1>2, <1>3

LEMMA AppendLineKeeps ==
    ASSUME LedgerInv, NEW w \in Workers, AppendLine(w)
    PROVE  RepoInv' /\ Retained
<1> DEFINE m == Host[w]
           tree == [work[m] EXCEPT !.lines = @ \cup {File, job[w].msg}]
<1>1. m \in Machines /\ RepoInv /\ work[m] \in Trees /\ index[m] \in Trees
      /\ index \in [Machines -> Trees]
  BY AtWork, FileOK DEF LedgerInv, RepoInv, RepoTyped
<1>2. job[w].msg \in Messages /\ Writer[job[w].msg] = m
  BY AtWork DEF AppendLine, JobOK
<1>3. /\ tree \in Trees /\ tree.lines = work[m].lines \cup {File, job[w].msg}
      /\ tree.snaps = work[m].snaps
  BY <1>1, <1>2 DEF Trees
<1>4. tree.lines \subseteq Known(m, lost, published) /\ All(work[m]) \subseteq All(tree)
  BY <1>1, <1>2, <1>3, FileOK DEF Known, Shared, All
<1>5. FilesOK(tree, index[m], Tip(m), m, ~Stopped(m), lost, published)
  BY <1>1, <1>3, <1>4, FileOK DEF FilesOK, Exists
<1>6. /\ UNCHANGED <<remote, tracking, branch, onto, stash, committed, lost>>
      /\ work' = [work EXCEPT ![m] = tree] /\ index' = [index EXCEPT ![m] = index[m]]
  BY <1>1 DEF AppendLine, ghosts
<1> HIDE DEF tree, m
<1>. QED BY <1>1, <1>3, <1>4, <1>5, <1>6, LinesAdded

LEMMA WriteSnapshotKeeps ==
    ASSUME LedgerInv, NEW w \in Workers, NEW x \in Snapshots, WriteSnapshot(w, x)
    PROVE  RepoInv' /\ Retained
<1> DEFINE m == Host[w]
           tree == [work[m] EXCEPT !.snaps = @ \cup {x}]
<1>1. m \in Machines /\ RepoInv /\ work[m] \in Trees /\ index[m] \in Trees
      /\ index \in [Machines -> Trees]
  BY AtWork, FileOK DEF LedgerInv, RepoInv, RepoTyped
<1>2. /\ tree \in Trees /\ tree.lines = work[m].lines
      /\ tree.snaps = work[m].snaps \cup {x}
  BY <1>1 DEF Trees
<1>3. All(work[m]) \subseteq All(tree)
  BY <1>2 DEF All
<1>4. FilesOK(tree, index[m], Tip(m), m, ~Stopped(m), lost, published)
  BY <1>1, <1>2, FileOK DEF FilesOK, Exists
<1>5. /\ UNCHANGED <<remote, tracking, branch, onto, stash, committed, lost>>
      /\ work' = [work EXCEPT ![m] = tree] /\ index' = [index EXCEPT ![m] = index[m]]
  BY <1>1 DEF WriteSnapshot, ghosts
<1> HIDE DEF tree, m
<1>. QED BY <1>1, <1>2, <1>3, <1>4, <1>5, LinesAdded

LEMMA AddFileKeeps ==
    ASSUME LedgerInv, NEW w \in Workers, AddFile(w)
    PROVE  RepoInv' /\ Retained
<1> DEFINE m == Host[w]
           j == job[w]
           tree == Added(m, j)
<1>1. m \in Machines /\ RepoInv /\ work[m] \in Trees /\ index[m] \in Trees
      /\ work \in [Machines -> Trees] /\ lost \subseteq Messages \cup Snapshots
  BY AtWork, FileOK DEF LedgerInv, RepoInv, RepoTyped
<1>2. UNCHANGED <<remote, tracking, branch, work, onto, stash, committed, lost>>
  BY DEF AddFile, ghosts
<1>3. CASE UNCHANGED index
  <2>1. UNCHANGED <<remote, repo, committed, lost>>
    BY <1>2, <1>3 DEF repo
  <2>. QED BY <1>1, <2>1, LostMore
<1>4. CASE index' = [index EXCEPT ![m] = tree]
  <2>1. /\ tree \in Trees
        /\ tree.lines = IF j.kind = "save" THEN index[m].lines ELSE work[m].lines
        /\ tree.snaps = IF j.kind = "save" THEN index[m].snaps \cup ({j.msg} \cap work[m].snaps)
                        ELSE index[m].snaps
    BY <1>1 DEF Added, Trees
  <2>2. j.kind = "save" => j.msg \in Known(m, lost, published)
    BY AtWork DEF JobOK, Known
  <2>3. FilesOK(work[m], index[m], Tip(m), m, ~Stopped(m), lost, published)
    BY <1>1, FileOK
  <2>4. FilesOK(work[m], tree, Tip(m), m, ~Stopped(m), lost, published)
    <3>1. CASE j.kind = "save"
      BY <2>1, <2>2, <2>3, <3>1 DEF FilesOK, Exists, Within
    <3>2. CASE j.kind # "save"
      BY <2>1, <2>3, <3>2 DEF FilesOK, Exists, Within
    <3>. QED BY <3>1, <3>2
  <2>5. work' = [work EXCEPT ![m] = work[m]] /\ All(work[m]) \subseteq All(work[m])
    BY <1>1, <1>2
  <2> HIDE DEF tree, m
  <2>. QED BY <1>1, <1>2, <1>4, <2>1, <2>4, <2>5, LinesAdded
<1>. QED BY <1>3, <1>4 DEF AddFile

LEMMA CommitIndexKeeps ==
    ASSUME LedgerInv, NEW w \in Workers, CommitIndex(w)
    PROVE  RepoInv' /\ Retained
<1> DEFINE m == Host[w]
<1>1. m \in Machines /\ RepoInv /\ work[m] \in Trees /\ index[m] \in Trees
      /\ work \in [Machines -> Trees] /\ index \in [Machines -> Trees]
      /\ lost \subseteq Messages \cup Snapshots
  BY AtWork, FileOK DEF LedgerInv, RepoInv, RepoTyped
<1>2. UNCHANGED <<remote, tracking, work, index, onto, stash, lost>>
  BY DEF CommitIndex
<1>3. CASE UNCHANGED <<branch, committed>>
  <2>1. UNCHANGED <<remote, repo, committed, lost>>
    BY <1>2, <1>3 DEF repo
  <2>. QED BY <1>1, <2>1, LostMore
<1>4. CASE Commit(m, index[m])
  <2>1. /\ work' = [work EXCEPT ![m] = work[m]] /\ index' = [index EXCEPT ![m] = index[m]]
        /\ FilesOK(work[m], index[m], Tip(m), m, ~Stopped(m), lost, published)
        /\ All(work[m]) \subseteq All(work[m])
    BY <1>1, <1>2, FileOK
  <2> HIDE DEF m
  <2>. QED BY <1>1, <1>2, <1>4, <2>1, CommitKeeps
<1>. QED BY <1>3, <1>4 DEF CommitIndex

LEMMA RewriteKeeps ==
    ASSUME LedgerInv, NEW w \in Workers, Rewrite(w)
    PROVE  RepoInv' /\ Retained
<1> DEFINE m == Host[w]
           kept == job[w].read.lines \ {job[w].msg}
           tree == [work[m] EXCEPT !.lines = kept]
<1>1. m \in Machines /\ RepoInv /\ work \in [Machines -> Trees] /\ work[m] \in Trees
      /\ lost \subseteq Messages \cup Snapshots /\ onto \in [Machines -> Seq(Trees)]
      /\ stash \in [Machines -> Seq(Entries)] /\ index \in [Machines -> Trees]
      /\ index[m] \in Trees
  BY AtWork DEF LedgerInv, RepoInv, RepoTyped
<1>2. /\ job[w].msg \in Messages /\ File \in kept
      /\ kept \subseteq Messages \cup {File} /\ kept \subseteq Known(m, lost, published)
  <2>1. JobOK(job[w], "rewrite", m, lost, published) /\ job[w] \in Jobs
    BY AtWork DEF Rewrite
  <2>. QED BY <2>1 DEF JobOK, Jobs, Trees
<1>3. /\ UNCHANGED <<remote, tracking, branch, index, onto, stash, committed>>
      /\ work' = [work EXCEPT ![m] = tree]
      /\ lost' = lost \cup ((work[m].lines \ kept) \ {File}) \cup {job[w].msg}
  BY DEF Rewrite
<1>4. tree \in Trees /\ tree.lines = kept /\ tree.snaps = work[m].snaps
  BY <1>1, <1>2 DEF Trees
<1> HIDE DEF kept, m, tree
<1>5. /\ lost \subseteq lost' /\ lost' \subseteq Messages \cup Snapshots
      /\ work[m].lines \subseteq kept \cup lost'
  BY <1>1, <1>2, <1>3 DEF Trees
<1>6. published' = published /\ branch' = branch /\ onto' = onto /\ stash' = stash
      /\ index' = index
  BY <1>3 DEF remote
<1>7. FilesOK(tree, index[m], Tip(m), m, onto[m] = << >>, lost', published)
  <2>1. FilesOK(work[m], index[m], Tip(m), m, ~Stopped(m), lost', published)
    BY <1>1, <1>5, FileOK, MoreShared
  <2>2. kept \subseteq Known(m, lost', published)
    BY <1>2, <1>5, MoreShared
  <2>3. ~Stopped(m) <=> onto[m] = << >>
    BY DEF Stopped
  <2>. QED BY <1>2, <1>4, <1>5, <2>1, <2>2, <2>3 DEF FilesOK, Exists
<1>8. /\ \A i \in 1..Len(stash[m]) : EntryOK(stash[m][i], m, lost', published)
      /\ onto' = [onto EXCEPT ![m] = onto[m]] /\ stash' = [stash EXCEPT ![m] = stash[m]]
      /\ index' = [index EXCEPT ![m] = index[m]] /\ stash[m] \in Seq(Entries)
  BY <1>1, <1>5, <1>6, FileOK, MoreShared
<1>9. RepoInv' /\ (Stored(m) \cap Own(m) \subseteq Stored(m)' => Retained)
  BY <1>1, <1>3, <1>4, <1>5, <1>6, <1>7, <1>8, FileMoves
<1>10. Stored(m) \subseteq Stored(m)'
  <2>1. work'[m] = tree /\ stash'[m] = stash[m] /\ Tip(m)' = Tip(m)
    BY <1>1, <1>3, <1>6 DEF Tip
  <2>2. All(work[m]) \subseteq All(tree) \cup lost'
    BY <1>4, <1>5 DEF All
  <2>. QED BY <1>5, <2>1, <2>2 DEF Stored
<1>. QED BY <1>9, <1>10

LEMMA EndRebaseKeeps ==
    ASSUME RepoInv, NEW w \in Workers, EndRebase(w),
           UNCHANGED <<remote, tracking, branch, stash, committed>>
    PROVE  RepoInv' /\ Retained
<1> DEFINE m == Host[w]
           tree == CheckedOut(m, Tip(m))
<1>0. m \in Machines
  OBVIOUS
<1>1. CASE UNCHANGED <<work, index, onto, lost>>
  <2>1. UNCHANGED <<remote, repo, committed, lost>>
    BY <1>1 DEF repo
  <2>. QED BY <2>1, LostMore DEF RepoInv, RepoTyped
<1>2. CASE /\ Stopped(m)
           /\ work' = [work EXCEPT ![m] = tree]
           /\ index' = [index EXCEPT ![m] = Tip(m)]
           /\ onto' = [onto EXCEPT ![m] = << >>]
           /\ lost' = lost \cup (Items(work[m]) \ (Items(tree) \cup Items(Last(onto[m]))))
  <2> HIDE DEF m
  <2>2. tree \in Trees /\ FilesOK(tree, Tip(m), Tip(m), m, TRUE, lost, published)
    BY <1>0, TipOK, CheckOut
  <2> HIDE DEF tree
  <2>3. lost \subseteq lost' /\ lost' \subseteq Messages \cup Snapshots
    BY <1>0, <1>2, FileOK, ItemsOf DEF RepoInv, RepoTyped
  <2>4. /\ stash[m] \in Seq(Entries) /\ stash' = [stash EXCEPT ![m] = stash[m]]
        /\ \A i \in 1..Len(stash[m]) : EntryOK(stash[m][i], m, lost', published)
    <3>1. stash \in [Machines -> Seq(Entries)] /\ stash' = stash
      BY DEF RepoInv, RepoTyped
    <3>. QED BY <1>0, <3>1, <2>3, MoreShared DEF RepoInv, WorkOK
  <2>5. FilesOK(tree, Tip(m), Tip(m), m, << >> = << >>, lost', published)
    <3>1. FilesOK(tree, Tip(m), Tip(m), m, TRUE, lost', published)
      BY <2>2, <2>3, MoreShared
    <3>. QED BY <3>1 DEF FilesOK
  <2>6. published' = published
    BY DEF remote
  <2>7. RepoInv' /\ (Stored(m) \cap Own(m) \subseteq Stored(m)' => Retained)
    BY <1>0, <1>2, <2>2, <2>3, <2>4, <2>5, TipOK, FileMoves
  <2>8. Tip(m)' = Tip(m) /\ work'[m] = tree /\ stash'[m] = stash[m]
    BY <1>0, <1>2, <2>4 DEF Tip, RepoInv, RepoTyped
  <2>9. ASSUME NEW x \in Own(m), x \in All(work[m])
        PROVE  x \in All(Tip(m)) \cup All(tree) \cup lost'
    <3>1. x \in Messages \cup Snapshots /\ x \in Items(work[m])
          /\ (x \in Items(tree) => x \in All(tree))
      BY <1>0, <2>2, <2>9, FileOK, ItemsOf DEF Own
    <3>2. CASE x \in Items(Last(onto[m]))
      <4>1. /\ All(Last(onto[m])) \subseteq Shared(lost, published)
            /\ Last(onto[m]) \in Trees
        <5>1. onto[m] \in Seq(Trees) \ {<< >>} /\ RemoteOK(onto[m], origin[1], lost, published)
          BY <1>0, <1>2, TreeTypes DEF RepoInv, BranchesOK
        <5>. QED BY <5>1, <1>0, <1>2, TreeTypes, LastOK DEF RemoteOK, RepoInv, All
      <4>2. x \in Shared(lost, published)
        BY <4>1, <3>1, <3>2, ItemsOf
      <4>. QED BY <1>0, <4>2, <2>3, OwnShared
    <3>3. CASE x \notin Items(Last(onto[m]))
      BY <3>1, <3>3, <1>2
    <3>. QED BY <3>2, <3>3
  <2>10. Stored(m) \cap Own(m) \subseteq Stored(m)'
    BY <2>3, <2>8, <2>9 DEF Stored
  <2>. QED BY <2>7, <2>10
<1>. QED BY <1>1, <1>2 DEF EndRebase

LEMMA AbortFirstKeeps ==
    ASSUME LedgerInv, NEW w \in Workers, AbortFirst(w)
    PROVE  RepoInv' /\ Retained
BY AtWork, EndRebaseKeeps DEF AbortFirst, LedgerInv

LEMMA AbortRebaseKeeps ==
    ASSUME LedgerInv, NEW w \in Workers, AbortRebase(w)
    PROVE  RepoInv' /\ Retained
BY AtWork, EndRebaseKeeps DEF AbortRebase, LedgerInv

LEMMA FetchOkKeeps ==
    ASSUME LedgerInv, NEW w \in Workers, FetchOk(w)
    PROVE  RepoInv' /\ Retained
<1> DEFINE m == Host[w]
<1>1. m \in Machines /\ RepoInv /\ tracking \in [Machines -> Seq(Trees) \ {<< >>}]
      /\ origin \in Seq(Trees) \ {<< >>}
  BY AtWork DEF LedgerInv, RepoInv, RepoTyped
<1>2. /\ origin' = origin /\ published' = published /\ branch' = branch /\ work' = work
      /\ index' = index
      /\ onto' = onto /\ stash' = stash /\ lost' = lost /\ committed' = committed
      /\ tracking' = [tracking EXCEPT ![m] = origin]
  BY DEF FetchOk, remote, ghosts
<1> HIDE DEF m
<1>3. /\ \A n \in Machines : tracking'[n] = IF n = m THEN origin ELSE tracking[n]
      /\ tracking' \in [Machines -> Seq(Trees) \ {<< >>}]
  BY <1>1, <1>2
<1>4. RepoTyped'
  BY <1>1, <1>2, <1>3 DEF RepoInv, RepoTyped
<1>5. BranchesOK'
  BY <1>1, <1>2, <1>3 DEF RepoInv, BranchesOK, Stopped
<1>6. WorkOK'
  BY <1>1, <1>2 DEF RepoInv, WorkOK, Stopped, Tip
<1>7. SharedKept'
  <2>1. \A x \in published : Writer[x] \in Machines
    BY <1>1 DEF RepoInv, RepoTyped
  <2>. QED BY <2>1, <1>1, <1>2, <1>3 DEF RepoInv, SharedKept, Tip
<1>8. Retained
  BY <1>2 DEF Retained, Stored, Tip
<1>. QED BY <1>4, <1>5, <1>6, <1>7, <1>8 DEF RepoInv

LEMMA StashKeeps ==
    ASSUME LedgerInv, NEW w \in Workers, Stash(w)
    PROVE  RepoInv' /\ Retained
<1> DEFINE m == Host[w]
           entry == Changes(m)
           tree == CheckedOut(m, Tip(m))
           entries == Append(stash[m], entry)
<1>1. m \in Machines /\ RepoInv /\ work \in [Machines -> Trees]
      /\ onto \in [Machines -> Seq(Trees)] /\ stash \in [Machines -> Seq(Entries)]
      /\ lost \subseteq Messages \cup Snapshots /\ index \in [Machines -> Trees]
  BY AtWork DEF LedgerInv, RepoInv, RepoTyped
<1>2. UNCHANGED <<remote, tracking, branch, onto, committed, lost>>
  BY DEF Stash, ghosts
<1>3. CASE UNCHANGED <<work, index, stash>>
  <2>1. UNCHANGED <<remote, repo, committed, lost>>
    BY <1>2, <1>3 DEF repo
  <2>. QED BY <1>1, <2>1, LostMore
<1>4. CASE /\ ~Stopped(m) /\ stash' = [stash EXCEPT ![m] = entries]
           /\ work' = [work EXCEPT ![m] = tree]
           /\ index' = [index EXCEPT ![m] = Tip(m)]
  <2>1. /\ Exists(Tip(m)) /\ Tip(m) \in Trees
        /\ FilesOK(work[m], index[m], Tip(m), m, TRUE, lost, published)
        /\ work[m] \in Trees /\ index[m] \in Trees
    BY <1>1, <1>4, TipOK, FileOK DEF FilesOK
  <2>2. /\ entry \in Entries /\ EntryOK(entry, m, lost, published)
        /\ entry.base = Tip(m).lines /\ entry.snaps = index[m].snaps \ Tip(m).snaps
        /\ entry.lines = IF Tracked(m) THEN work[m].lines ELSE Tip(m).lines
    <3>1. /\ entry.base = Tip(m).lines /\ entry.snaps = index[m].snaps \ Tip(m).snaps
          /\ entry.lines = IF Tracked(m) THEN work[m].lines ELSE Tip(m).lines
      BY DEF Changes
    <3>2. entry \in Entries
      BY <2>1 DEF Changes, Entries, Trees
    <3>3. Exists(entry) /\ (entry.base = {} \/ File \in entry.base)
      BY <2>1, <3>1 DEF FilesOK, Exists
    <3>4. /\ entry.lines \subseteq Known(m, lost, published)
          /\ entry.snaps \subseteq Known(m, lost, published)
      BY <1>1, <2>1, <3>1, TipOK DEF FilesOK
    <3>5. entry.base \subseteq entry.lines \cup lost
      BY <2>1, <3>1 DEF FilesOK, Within
    <3>. QED BY <3>1, <3>2, <3>3, <3>4, <3>5 DEF EntryOK
  <2>3. tree \in Trees /\ FilesOK(tree, Tip(m), Tip(m), m, TRUE, lost, published)
    BY <1>1, TipOK, CheckOut
  <2>3a. All(work[m]) \subseteq All(Tip(m)) \cup All(tree) \cup Adds(entry)
    <3>1. work[m].snaps \subseteq Tip(m).snaps \cup tree.snaps \cup entry.snaps
      <4>1. tree.snaps = Tip(m).snaps \cup (work[m].snaps \ index[m].snaps)
        BY <1>1, TipOK, CheckOut
      <4>. QED BY <2>2, <4>1
    <3>2. work[m].lines \subseteq Tip(m).lines \cup tree.lines \cup (entry.lines \ entry.base)
      <4>1. CASE Tracked(m)
        BY <2>2, <4>1
      <4>2. CASE ~Tracked(m)
        <5>1. File \notin Tip(m).lines
          BY <1>1, <2>1, <4>2, TreeTypes DEF FilesOK, Within, Tracked, RepoInv
        <5>2. tree.lines = work[m].lines
          BY <1>1, <4>2, <5>1, TipOK, CheckOut
        <5>. QED BY <5>2
      <4>. QED BY <4>1, <4>2
    <3>. QED BY <3>1, <3>2 DEF All, Adds
  <2>4. stash[m] \in Seq(Entries) /\ Len(stash[m]) \in Nat
    BY <1>1
  <2> HIDE DEF m, entry, tree
  <2>5. /\ entries \in Seq(Entries) /\ Len(entries) = Len(stash[m]) + 1
        /\ \A i \in 1..Len(stash[m]) : entries[i] = stash[m][i]
        /\ entries[Len(stash[m]) + 1] = entry
    BY <2>2, <2>4
  <2> HIDE DEF entries
  <2>6. \A i \in 1..Len(entries) : EntryOK(entries[i], m, lost, published)
    <3> SUFFICES ASSUME NEW i \in 1..Len(entries) PROVE EntryOK(entries[i], m, lost, published)
      OBVIOUS
    <3>1. CASE i \in 1..Len(stash[m])
      BY <1>1, <2>5, <3>1 DEF RepoInv, WorkOK
    <3>2. CASE i = Len(stash[m]) + 1
      BY <2>2, <2>5, <3>2
    <3>. QED BY <2>4, <2>5, <3>1, <3>2
  <2>7. onto' = [onto EXCEPT ![m] = onto[m]] /\ lost' = lost /\ published' = published
    BY <1>1, <1>2 DEF remote
  <2>8. RepoInv' /\ (Stored(m) \cap Own(m) \subseteq Stored(m)' => Retained)
    <3>1. /\ UNCHANGED <<remote, tracking, branch, committed>>
          /\ lost \subseteq lost' /\ lost' \subseteq Messages \cup Snapshots
      BY <1>1, <1>2
    <3>2. /\ \A i \in 1..Len(entries) : EntryOK(entries[i], m, lost', published)
          /\ FilesOK(tree, Tip(m), Tip(m), m, onto[m] = << >>, lost', published)
      BY <1>4, <2>3, <2>6, <2>7 DEF FilesOK
    <3>. QED BY <1>1, <1>4, <2>1, <2>3, <2>5, <2>7, <3>1, <3>2, FileMoves
  <2>9. Stored(m) \subseteq Stored(m)'
    <3>1. Tip(m)' = Tip(m) /\ work'[m] = tree /\ stash'[m] = entries
      BY <1>1, <1>2, <1>4 DEF Tip
    <3>2. \A i \in 1..Len(stash[m]) : i \in 1..Len(entries) /\ entries[i] = stash[m][i]
      BY <2>4, <2>5
    <3>3. Len(stash[m]) + 1 \in 1..Len(entries)
      BY <2>4, <2>5
    <3>4. Adds(entry) \subseteq UNION { Adds(entries[i]) : i \in 1..Len(entries) }
      BY <2>5, <3>3
    <3>. QED BY <2>7, <2>3a, <3>1, <3>2, <3>4 DEF Stored
  <2>. QED BY <2>8, <2>9
<1>. QED BY <1>3, <1>4 DEF Stash

LEMMA RebaseFailsKeeps ==
    ASSUME LedgerInv, NEW w \in Workers, RebaseFails(w)
    PROVE  RepoInv' /\ Retained
<1> DEFINE m == Host[w]
           up == tracking[m]
           tree == CheckedOut(m, Last(up))
<1>1. m \in Machines /\ RepoInv /\ work \in [Machines -> Trees]
      /\ onto \in [Machines -> Seq(Trees)] /\ stash \in [Machines -> Seq(Entries)]
      /\ lost \subseteq Messages \cup Snapshots /\ index \in [Machines -> Trees]
  BY AtWork DEF LedgerInv, RepoInv, RepoTyped
<1>2. UNCHANGED <<remote, tracking, branch, stash, committed, lost>>
  BY DEF RebaseFails, ghosts
<1>3. CASE UNCHANGED <<work, index, onto>>
  <2>1. UNCHANGED <<remote, repo, committed, lost>>
    BY <1>2, <1>3 DEF repo
  <2>. QED BY <1>1, <2>1, LostMore
<1>4. CASE /\ ~Refused(m) /\ onto' = [onto EXCEPT ![m] = up]
           /\ index' = [index EXCEPT ![m] = Last(up)]
           /\ work' = [work EXCEPT ![m] = tree]
  <2>1. ~Stopped(m) /\ ~Obstructed(m) /\ ~Dirty(m)
    BY <1>4 DEF Refused, Obstructed
  <2>2. /\ up \in Seq(Trees) \ {<< >>} /\ Last(up) \in Trees /\ Exists(Last(up))
        /\ Last(up).lines \subseteq Known(m, lost, published)
        /\ Last(up).snaps \subseteq Known(m, lost, published)
    <3>1. up \in Seq(Trees) \ {<< >>} /\ RemoteOK(up, origin[1], lost, published)
      BY <1>1 DEF RepoInv, RepoTyped, BranchesOK
    <3>. QED BY <3>1, <1>1, TreeTypes, LastOK DEF RemoteOK, RepoInv, Known
  <2> HIDE DEF m
  <2>3. /\ tree \in Trees
        /\ FilesOK(tree, Last(up), Last(up), m, TRUE, lost, published)
    BY <1>1, <2>2, CheckOut
  <2>4. /\ stash[m] \in Seq(Entries) /\ stash' = [stash EXCEPT ![m] = stash[m]]
        /\ \A i \in 1..Len(stash[m]) : EntryOK(stash[m][i], m, lost, published)
    BY <1>1, <1>2 DEF RepoInv, WorkOK
  <2>5. lost' = lost /\ published' = published
    BY <1>2 DEF remote
  <2>6. up = tracking[m] /\ up # << >>
    BY <2>2
  <2>6a. All(work[m]) \subseteq All(Tip(m)) \cup All(tree)
    <3>1. ~Tracked(m) /\ File \in Last(up).lines => work[m].lines = {}
      BY <1>1, <2>1, FileOK DEF Obstructed, Exists
    <3>. QED BY <1>1, <2>1, <2>2, <3>1, CleanOut
  <2> HIDE DEF up, tree
  <2>7. RepoInv' /\ (Stored(m) \cap Own(m) \subseteq Stored(m)' => Retained)
    <3>1. /\ UNCHANGED <<remote, tracking, branch, committed>>
          /\ lost \subseteq lost' /\ lost' \subseteq Messages \cup Snapshots
      BY <1>1, <1>2
    <3>2. /\ FilesOK(tree, Last(up), Tip(m), m, up = << >>, lost', published)
          /\ \A i \in 1..Len(stash[m]) : EntryOK(stash[m][i], m, lost', published)
      BY <2>3, <2>4, <2>5, <2>6 DEF FilesOK
    <3>. QED BY <1>1, <1>4, <2>2, <2>3, <2>4, <2>6, <3>1, <3>2, FileMoves
  <2>8. Stored(m) \subseteq Stored(m)'
    <3>1. Tip(m)' = Tip(m) /\ work'[m] = tree /\ stash'[m] = stash[m]
      BY <1>1, <1>2, <1>4 DEF Tip
    <3>. QED BY <2>5, <2>6a, <3>1 DEF Stored
  <2>. QED BY <2>7, <2>8
<1>. QED BY <1>3, <1>4 DEF RebaseFails

LEMMA StashPopKeeps ==
    ASSUME LedgerInv, NEW w \in Workers, StashPop(w)
    PROVE  RepoInv' /\ Retained
<1> DEFINE m == Host[w]
           entry == Last(stash[m])
           entries == Front(stash[m])
           ours == work[m].lines
<1>1. m \in Machines /\ RepoInv /\ work \in [Machines -> Trees]
      /\ onto \in [Machines -> Seq(Trees)] /\ stash \in [Machines -> Seq(Entries)]
      /\ lost \subseteq Messages \cup Snapshots /\ index \in [Machines -> Trees]
  BY AtWork DEF LedgerInv, RepoInv, RepoTyped
<1>2. UNCHANGED <<remote, tracking, branch, onto, committed, lost>>
  BY DEF StashPop, ghosts
<1>3. CASE UNCHANGED <<work, index, stash>>
  <2>1. UNCHANGED <<remote, repo, committed, lost>>
    BY <1>2, <1>3 DEF repo
  <2>. QED BY <1>1, <2>1, LostMore
<1>4. ASSUME stash[m] # << >>, ~Stopped(m), ~Overlaps(m, entry),
             stash' = [stash EXCEPT ![m] = entries],
             NEW s \in UnionLines(entry.base, ours, entry.lines),
             work' = [work EXCEPT ![m].lines = s, ![m].snaps = @ \cup entry.snaps],
             index' = [index EXCEPT
                         ![m].lines = IF Tracked(m) \/ entry.lines = entry.base THEN @
                                      ELSE entry.lines,
                         ![m].snaps = @ \cup entry.snaps]
      PROVE  RepoInv' /\ Retained
  <2> DEFINE tree  == [work[m] EXCEPT !.lines = s, !.snaps = @ \cup entry.snaps]
             added == [index[m] EXCEPT
                         !.lines = IF Tracked(m) \/ entry.lines = entry.base THEN @
                                   ELSE entry.lines,
                         !.snaps = @ \cup entry.snaps]
  <2>3. stash[m] \in Seq(Entries) /\ Len(stash[m]) \in Nat /\ Len(stash[m]) >= 1
    BY <1>1, <1>4
  <2>4. entry \in Entries /\ EntryOK(entry, m, lost, published)
    <3>1. Len(stash[m]) \in 1..Len(stash[m])
      BY <2>3
    <3>. QED BY <1>1, <2>3, <3>1 DEF RepoInv, WorkOK, Last
  <2>5. /\ entries \in Seq(Entries) /\ Len(entries) = Len(stash[m]) - 1
        /\ \A i \in 1..Len(entries) : entries[i] = stash[m][i]
    BY <2>3 DEF Front
  <2>6. /\ work[m] \in Trees /\ index[m] \in Trees /\ File \notin lost
        /\ FilesOK(work[m], index[m], Tip(m), m, TRUE, lost, published)
        /\ ours = work[m].lines
    BY <1>1, <1>4, FileOK, TreeTypes DEF FilesOK, RepoInv
  <2>7. /\ tree \in Trees /\ tree.lines = s /\ tree.snaps = work[m].snaps \cup entry.snaps
        /\ added \in Trees /\ added.snaps = index[m].snaps \cup entry.snaps
        /\ added.lines = IF Tracked(m) \/ entry.lines = entry.base THEN index[m].lines
                         ELSE entry.lines
        /\ work' = [work EXCEPT ![m] = tree] /\ index' = [index EXCEPT ![m] = added]
    <3>1. s \subseteq ours \cup entry.lines
      BY <1>4 DEF UnionLines
    <3>2. s \subseteq Messages \cup {File}
      BY <2>4, <2>6, <3>1 DEF Entries, Trees
    <3>. QED BY <1>1, <1>4, <2>4, <2>6, <3>2 DEF Entries, Trees
  <2> HIDE DEF entry, entries, tree, added, ours
  <2>8. s \subseteq ours \cup entry.lines /\ ours \subseteq s \cup lost
        /\ entry.lines \ entry.base \subseteq s
    BY <1>4, <2>4 DEF UnionLines, ThreeWay, EntryOK
  <2>9. \/ s = ours \/ s = entry.lines
        \/ entry.lines # entry.base
    BY <1>4 DEF UnionLines
  <2>10. FilesOK(tree, added, Tip(m), m, TRUE, lost, published)
    <3>1. CASE entry.lines = entry.base \/ Tracked(m)
      <4>1. Exists(tree)
        BY <2>4, <2>6, <2>7, <2>8, <2>9, <3>1 DEF Exists, EntryOK, FilesOK, Tracked
      <4>2. tree.lines \subseteq Known(m, lost, published)
        BY <2>4, <2>6, <2>7, <2>8 DEF EntryOK, FilesOK
      <4>3. /\ Exists(added) /\ added.lines = index[m].lines
            /\ added.snaps \subseteq Known(m, lost, published)
        BY <2>4, <2>6, <2>7, <3>1 DEF EntryOK, FilesOK, Exists
      <4>4. Within(Tip(m), added, lost) /\ added.lines \subseteq tree.lines \cup lost
        BY <2>6, <2>7, <2>8, <4>3 DEF FilesOK, Within
      <4>. QED BY <2>6, <4>1, <4>2, <4>3, <4>4 DEF FilesOK
    <3>2. CASE entry.lines # entry.base /\ ~Tracked(m)
      <4>1. File \notin entry.base /\ entry.base = {} /\ index[m].lines = {}
        BY <1>4, <2>4, <2>6, <3>2 DEF Overlaps, EntryOK, FilesOK, Exists, Tracked
      <4>2. added.lines = entry.lines /\ entry.lines \subseteq s
        BY <2>7, <2>8, <3>2, <4>1
      <4>3. Exists(tree) /\ Exists(added)
        BY <2>4, <2>6, <2>7, <2>8, <4>2 DEF Exists, EntryOK, FilesOK
      <4>4. /\ tree.lines \subseteq Known(m, lost, published)
            /\ added.lines \subseteq Known(m, lost, published)
            /\ added.snaps \subseteq Known(m, lost, published)
        BY <2>4, <2>6, <2>7, <2>8, <4>2 DEF EntryOK, FilesOK
      <4>5. Within(Tip(m), added, lost) /\ added.lines \subseteq tree.lines \cup lost
        BY <2>6, <2>7, <4>1, <4>2 DEF FilesOK, Within
      <4>. QED BY <4>3, <4>4, <4>5 DEF FilesOK
    <3>. QED BY <3>1, <3>2
  <2>11. \A i \in 1..Len(entries) : EntryOK(entries[i], m, lost, published)
    <3>1. \A i \in 1..Len(entries) : i \in 1..Len(stash[m])
      BY <2>3, <2>5
    <3>. QED BY <1>1, <2>5, <3>1 DEF RepoInv, WorkOK
  <2>12. onto' = [onto EXCEPT ![m] = onto[m]] /\ lost' = lost /\ published' = published
    BY <1>1, <1>2 DEF remote
  <2>13. FilesOK(tree, added, Tip(m), m, onto[m] = << >>, lost', published)
    BY <2>10, <2>12 DEF FilesOK
  <2>14. RepoInv' /\ (Stored(m) \cap Own(m) \subseteq Stored(m)' => Retained)
    <3>1. /\ UNCHANGED <<remote, tracking, branch, committed>>
          /\ lost \subseteq lost' /\ lost' \subseteq Messages \cup Snapshots
      BY <1>1, <1>2
    <3>2. \A i \in 1..Len(entries) : EntryOK(entries[i], m, lost', published)
      BY <2>11, <2>12
    <3>. QED BY <1>1, <1>4, <2>5, <2>7, <2>12, <2>13, <3>1, <3>2, FileMoves
  <2>15. Stored(m) \subseteq Stored(m)'
    <3>1. Tip(m)' = Tip(m) /\ work'[m] = tree /\ stash'[m] = entries
      BY <1>1, <1>2, <1>4, <2>7 DEF Tip
    <3>2. ASSUME NEW x, NEW i \in 1..Len(stash[m]), x \in Adds(stash[m][i])
          PROVE  x \in Stored(m)'
      <4>1. CASE i \in 1..Len(entries)
        BY <2>5, <3>1, <3>2, <4>1 DEF Stored
      <4>2. CASE i = Len(stash[m])
        <5>1. x \in Adds(entry)
          BY <3>2, <4>2 DEF Last, entry
        <5>2. x \in All(tree)
          BY <2>7, <2>8, <5>1 DEF Adds, All
        <5>. QED BY <3>1, <5>2 DEF Stored
      <4>. QED BY <2>3, <2>5, <4>1, <4>2
    <3>3. All(work[m]) \subseteq All(tree) \cup lost
      BY <2>6, <2>7, <2>8 DEF All
    <3>4. ASSUME NEW x \in All(Tip(m)) \cup All(work[m]) \cup lost
          PROVE  x \in Stored(m)'
      BY <2>12, <3>1, <3>3 DEF Stored
    <3>. QED BY <3>2, <3>4 DEF Stored
  <2>. QED BY <2>14, <2>15
<1>. QED BY <1>3, <1>4 DEF StashPop


\* What a rebase gives is a branch of the machine, has all of its tip but for what
\* skipped commits had, and has messages.jsonl only from the tip or from upstream.
LEMMA RebaseGives ==
    ASSUME RepoInv, NEW m \in Machines, NEW up \in Seq(Trees) \ {<< >>},
           RemoteOK(up, origin[1], lost, published), NEW skip, NEW e, lost \subseteq e,
           skip => GivenUp(branch[m], up, e), NEW new \in Rebased(branch[m], up, skip)
    PROVE  /\ new \in Seq(Trees) \ {<< >>}
           /\ BranchOK(new, m, origin[1], lost, published)
           /\ Within(Tip(m), Last(new), e)
           /\ File \notin Tip(m).lines /\ File \notin Last(up).lines => Last(new).lines = {}
<1> DEFINE old == branch[m]
           known == Known(m, lost, published)
<1>1. /\ old \in Seq(Trees) \ {<< >>} /\ BranchOK(old, m, origin[1], lost, published)
      /\ File \notin lost /\ Tip(m) = Last(old)
  BY TreeTypes DEF RepoInv, RepoTyped, BranchesOK, Tip
<1>2. old[1] = up[1] /\ Growing(old, lost) /\ Growing(up, lost) /\ Over(old, known)
  BY <1>1 DEF RemoteOK, BranchOK
<1>3. Over(up, known)
  BY DEF RemoteOK, Over, Known
<1>4. new \in Rebased(old, up, skip) /\ (skip => GivenUp(old, up, e))
  OBVIOUS
<1> HIDE DEF known, old
<1>5. Rebasing(old, up, Len(old), new, lost, e, known)
  BY <1>1, <1>2, <1>3, <1>4, RebaseKeeps
<1>6. /\ new \in Seq(Trees) \ {<< >>} /\ BranchOK(new, m, origin[1], lost, published)
      /\ Within(Tip(m), Last(new), e)
  BY <1>1, <1>5 DEF Rebasing, BranchOK, RemoteOK, known, Last
<1>7. ASSUME File \notin Tip(m).lines, File \notin Last(up).lines
      PROVE  Last(new).lines = {}
  <2> DEFINE k == Messages \cup Snapshots
  <2>1. ASSUME NEW b \in Seq(Trees) \ {<< >>}, Growing(b, lost), File \notin Last(b).lines
        PROVE  Over(b, k)
    <3> SUFFICES ASSUME NEW i \in 1..Len(b) PROVE b[i].lines \subseteq k /\ b[i].snaps \subseteq k
      BY DEF Over
    <3>1. b[i] \in Trees
      OBVIOUS
    <3>2. b[i].lines \subseteq Last(b).lines \cup lost
      BY <2>1, WithinLast DEF Within
    <3>3. b[i].lines \subseteq Messages \cup {File} /\ b[i].snaps \subseteq Snapshots
      BY <3>1 DEF Trees
    <3>. QED BY <1>1, <2>1, <3>2, <3>3
  <2>2. Over(old, k) /\ Over(up, k)
    BY <1>1, <1>2, <1>7, <2>1
  <2> HIDE DEF k
  <2>3. Rebasing(old, up, Len(old), new, lost, e, k)
    BY <1>1, <1>2, <1>4, <2>2, RebaseKeeps
  <2>4. Exists(Last(new)) /\ Last(new).lines \subseteq k
    BY <2>3, LastOK DEF Rebasing
  <2>. QED BY <2>4 DEF Exists, k
<1>. QED BY <1>6, <1>7

LEMMA RebaseMoves ==
    ASSUME RepoInv, UNCHANGED <<remote, tracking, stash, committed>>,
           NEW m \in Machines, NEW up \in Seq(Trees) \ {<< >>},
           RemoteOK(up, origin[1], lost, published), NEW skip, NEW e, lost \subseteq e,
           skip => GivenUp(branch[m], up, e), NEW new \in Rebased(branch[m], up, skip),
           branch' = [branch EXCEPT ![m] = new],
           index' = [index EXCEPT ![m] = Last(new)],
           work' = [work EXCEPT ![m] = CheckedOut(m, Last(new))],
           onto' = [onto EXCEPT ![m] = << >>],
           lost \subseteq lost', lost' \subseteq Messages \cup Snapshots,
           e \subseteq lost' \cup {File},
           All(work[m]) \cap Own(m) \subseteq
               All(Tip(m)) \cup All(CheckedOut(m, Last(new))) \cup lost'
    PROVE  RepoInv' /\ Retained
<1> DEFINE tree == CheckedOut(m, Last(new))
<1>0. /\ published' = published /\ stash' = stash /\ committed' = committed
      /\ branch \in [Machines -> Seq(Trees) \ {<< >>}] /\ index \in [Machines -> Trees]
      /\ work \in [Machines -> Trees] /\ onto \in [Machines -> Seq(Trees)]
      /\ committed \subseteq Messages \cup Snapshots
  BY DEF remote, RepoInv, RepoTyped
<1>1. /\ new \in Seq(Trees) \ {<< >>} /\ BranchOK(new, m, origin[1], lost, published)
      /\ Within(Tip(m), Last(new), e)
  BY RebaseGives
<1>2. /\ Last(new) \in Trees /\ Exists(Last(new))
      /\ Last(new).lines \subseteq Known(m, lost, published)
      /\ Last(new).snaps \subseteq Known(m, lost, published)
  <2>1. Last(new) \in Trees
    BY <1>1 DEF Last
  <2>. QED BY <1>1, <2>1, LastOK DEF BranchOK
<1>3. /\ tree \in Trees
      /\ FilesOK(tree, Last(new), Last(new), m, TRUE, lost', published)
  BY <1>2, CheckOut, MoreShared
<1>3a. /\ Items(Tip(m)) \subseteq Items(Last(new)) \cup lost'
       /\ All(Tip(m)) \cap Own(m) \subseteq All(Last(new)) \cup lost'
  <2>1. /\ Items(Tip(m)) \subseteq Items(Last(new)) \cup e
        /\ All(Tip(m)) \subseteq All(Last(new)) \cup e
    BY <1>1, <1>2, TipOK, WithinItems
  <2>2. Items(Tip(m)) \subseteq Messages \cup Snapshots
    BY TipOK, ItemsOf
  <2>. QED BY <2>1, <2>2 DEF Own
<1> HIDE DEF tree
<1>4. \A n \in Machines : /\ branch'[n] = IF n = m THEN new ELSE branch[n]
                          /\ work'[n] = IF n = m THEN tree ELSE work[n]
                          /\ index'[n] = IF n = m THEN Last(new) ELSE index[n]
                          /\ onto'[n] = IF n = m THEN << >> ELSE onto[n]
  BY <1>0 DEF tree
<1>5. /\ work' \in [Machines -> Trees] /\ index' \in [Machines -> Trees]
      /\ onto' \in [Machines -> Seq(Trees)]
  <2>1. work' \in [Machines -> Trees] /\ index' \in [Machines -> Trees]
    BY <1>0, <1>2, <1>3 DEF tree
  <2>2. << >> \in Seq(Trees)
    OBVIOUS
  <2>3. onto' \in [Machines -> Seq(Trees)]
    BY <1>0, <2>2
  <2>. QED BY <2>1, <2>3
<1>6. WorkOK'
  <2> SUFFICES ASSUME NEW n \in Machines
               PROVE  /\ FilesOK(work'[n], index'[n], Last(branch'[n]), n, onto'[n] = << >>,
                                 lost', published)
                      /\ \A i \in 1..Len(stash[n]) : EntryOK(stash[n][i], n, lost', published)
    BY <1>0 DEF WorkOK, Tip, Stopped
  <2>1. \A i \in 1..Len(stash[n]) : EntryOK(stash[n][i], n, lost', published)
    BY MoreShared DEF RepoInv, WorkOK
  <2>2. CASE n = m
    BY <1>3, <1>4, <2>1, <2>2 DEF FilesOK
  <2>3. CASE n # m
    <3>1. FilesOK(work[n], index[n], Tip(n), n, ~Stopped(n), lost', published)
      BY FileOK, MoreShared
    <3>. QED BY <1>4, <2>1, <2>3, <3>1 DEF Tip, Stopped, FilesOK
  <2>. QED BY <2>2, <2>3
<1>7. \A x \in published \cup committed' : Writer[x] = m => x \in Items(Last(new)) \cup lost'
  BY <1>0, <1>3a DEF RepoInv, SharedKept
<1>8. RepoInv'
  <2>1. BranchOK(new, m, origin[1], lost', published)
    BY <1>1, MoreShared
  <2>2. \A n \in Machines : onto'[n] \in {onto[n], << >>}
    BY <1>4
  <2>3. committed' \subseteq Messages \cup Snapshots /\ UNCHANGED <<remote, tracking, stash>>
    BY <1>0
  <2>4. \A x \in committed' : Writer[x] # m => x \in committed \cup published \cup lost
    BY <1>0
  <2>. QED BY <1>1, <1>5, <1>6, <1>7, <2>1, <2>2, <2>3, <2>4, BranchMoves
<1>9. Retained
  <2> SUFFICES ASSUME NEW n \in Machines PROVE Stored(n) \cap Own(n) \subseteq Stored(n)'
    BY DEF Retained
  <2>1. CASE n = m
    <3>1. Tip(m)' = Last(new) /\ work'[m] = tree /\ stash'[m] = stash[m]
      BY <1>0, <1>4 DEF Tip
    <3>2. All(work[m]) \cap Own(m) \subseteq All(Tip(m)) \cup All(tree) \cup lost'
      BY DEF tree
    <3>. QED BY <2>1, <1>3a, <3>1, <3>2 DEF Stored
  <2>2. CASE n # m
    <3>1. Tip(n)' = Tip(n) /\ work'[n] = work[n] /\ stash'[n] = stash[n]
      BY <1>0, <1>4, <2>2 DEF Tip
    <3>. QED BY <3>1 DEF Stored
  <2>. QED BY <2>1, <2>2
<1>. QED BY <1>8, <1>9

LEMMA RebaseActionKeeps ==
    ASSUME LedgerInv, NEW w \in Workers, Rebase(w)
    PROVE  RepoInv' /\ Retained
<1> DEFINE m == Host[w]
           up == tracking[m]
<1>1. m \in Machines /\ RepoInv /\ onto \in [Machines -> Seq(Trees)]
      /\ lost \subseteq Messages \cup Snapshots
  BY AtWork DEF LedgerInv, RepoInv, RepoTyped
<1>2. /\ UNCHANGED <<remote, tracking, stash, committed>>
      /\ lost' = lost /\ onto' = onto /\ ~Stopped(m) /\ ~Obstructed(m) /\ ~Dirty(m)
  BY DEF Rebase, Refused, Obstructed, ghosts
<1>3. PICK new \in Rebased(branch[m], up, FALSE) :
        /\ branch' = [branch EXCEPT ![m] = new]
        /\ index' = [index EXCEPT ![m] = Last(new)]
        /\ work' = [work EXCEPT ![m] = CheckedOut(m, Last(new))]
  BY DEF Rebase, RebaseOnto
<1>4. up \in Seq(Trees) \ {<< >>} /\ RemoteOK(up, origin[1], lost, published)
  BY <1>1 DEF RepoInv, RepoTyped, BranchesOK
<1>5. onto' = [onto EXCEPT ![m] = << >>]
  BY <1>1, <1>2 DEF Stopped
<1>6. up = tracking[m]
  OBVIOUS
<1> HIDE DEF m, up
<1>7. All(work[m]) \subseteq All(Tip(m)) \cup All(CheckedOut(m, Last(new)))
  <2>1. /\ Last(new) \in Trees /\ Exists(Last(new))
        /\ Last(new).lines \subseteq Known(m, lost, published)
        /\ Last(new).snaps \subseteq Known(m, lost, published)
        /\ File \notin Tip(m).lines /\ File \notin Last(up).lines => Last(new).lines = {}
    <3>1. /\ new \in Seq(Trees) \ {<< >>} /\ BranchOK(new, m, origin[1], lost, published)
          /\ File \notin Tip(m).lines /\ File \notin Last(up).lines => Last(new).lines = {}
      BY <1>1, <1>3, <1>4, RebaseGives
    <3>2. Last(new) \in Trees
      BY <3>1 DEF Last
    <3>. QED BY <3>1, <3>2, LastOK DEF BranchOK
  <2>2. ASSUME ~Tracked(m), File \in Last(new).lines
        PROVE  work[m].lines = {}
    <3>1. Tip(m).lines = {}
      BY <1>1, <1>2, <2>2, CleanFile
    <3>2. File \in Last(up).lines
      BY <2>1, <2>2, <3>1
    <3>. QED BY <1>1, <1>2, <1>6, <2>2, <3>2, FileOK DEF Obstructed, Exists
  <2>. QED BY <1>1, <1>2, <2>1, <2>2, CleanOut
<1>. QED BY <1>1, <1>2, <1>3, <1>4, <1>5, <1>7, RebaseMoves

\* What the skipped commits had is given up, and messages.jsonl when one of them
\* made it.
LEMMA SkippedGivenUp ==
    ASSUME RepoInv, NEW m \in Machines, NEW up \in Seq(Trees) \ {<< >>},
           RemoteOK(up, origin[1], lost, published)
    PROVE  /\ WithThread(branch[m], up) \subseteq Messages \cup Snapshots
           /\ \E e : /\ lost \subseteq e
                     /\ e \subseteq lost \cup WithThread(branch[m], up) \cup {File}
                     /\ GivenUp(branch[m], up, e)
<1> DEFINE local == branch[m]
           after == (Fork(local, up) + 1)..Len(local)
           made  == { i \in after : local[i].thread # local[i - 1].thread }
           both  == { i \in made : File \in local[i].lines \ local[i - 1].lines }
           New(i) == Items(local[i]) \ Items(local[i - 1])
           gone  == UNION { New(i) : i \in IF both = {} THEN made ELSE after }
<1>1. local \in Seq(Trees) \ {<< >>} /\ local[1] = up[1] /\ File \notin lost
      /\ lost \subseteq Messages \cup Snapshots
  BY TreeTypes DEF RepoInv, RepoTyped, BranchesOK, RemoteOK, BranchOK
<1>2. \A i \in after : i \in 1..Len(local) /\ i - 1 \in 1..Len(local)
  <2>1. Fork(local, up) \in 1..Len(local)
    BY <1>1, ForkPoint
  <2>. QED BY <2>1
<1>3. \A i \in after : local[i] \in Trees /\ local[i - 1] \in Trees
  BY <1>1, <1>2
<1>4. WithThread(local, up) = gone
  BY DEF WithThread
<1>5. \A i \in made : i \in after
  OBVIOUS
<1>6. gone \subseteq Messages \cup Snapshots
  <2>1. \A i \in after : New(i) \subseteq Messages \cup Snapshots
    BY <1>3, ItemsOf
  <2>. QED BY <2>1, <1>5
<1>7. ASSUME NEW i \in after, NEW e, New(i) \subseteq e,
             File \in e \/ ~(File \in local[i].lines \ local[i - 1].lines)
      PROVE  Within(local[i], local[i - 1], e)
  <2>1. local[i] \in Trees /\ local[i - 1] \in Trees
    BY <1>3
  <2>2. ASSUME NEW x \in local[i].lines PROVE x \in local[i - 1].lines \cup e
    BY <1>7, <2>1, <2>2 DEF Items, Trees
  <2>3. ASSUME NEW x \in local[i].snaps PROVE x \in local[i - 1].snaps \cup e
    BY <1>7, <2>1, <2>3 DEF Items, Trees
  <2>. QED BY <2>2, <2>3 DEF Within
<1>8. CASE both = {}
  <2> DEFINE e == lost \cup gone
  <2>1. File \notin e
    BY <1>1, <1>6
  <2>2. ASSUME NEW i \in after, local[i].thread # local[i - 1].thread
        PROVE  Within(local[i], local[i - 1], e)
    <3>1. i \in made /\ i \notin both
      BY <1>8, <2>2
    <3>2. New(i) \subseteq gone
      BY <1>8, <3>1
    <3>. QED BY <1>7, <3>1, <3>2
  <2>3. GivenUp(local, up, e)
    BY <2>1, <2>2 DEF GivenUp
  <2>. QED BY <1>4, <1>6, <2>3
<1>9. CASE both # {}
  <2> DEFINE e == lost \cup gone \cup {File}
  <2>1. ASSUME NEW i \in after PROVE Within(local[i], local[i - 1], e)
    BY <1>7, <1>9
  <2>2. GivenUp(local, up, e)
    BY <2>1 DEF GivenUp
  <2>. QED BY <1>4, <1>6, <2>2
<1>. QED BY <1>8, <1>9

LEMMA SkipCommitsKeeps ==
    ASSUME LedgerInv, NEW w \in Workers, SkipCommits(w)
    PROVE  RepoInv' /\ Retained
<1> DEFINE m == Host[w]
           up == IF Stopped(m) THEN onto[m] ELSE tracking[m]
           clash == Conflicting(branch[m], up)
           dropped == IF clash THEN WithThread(branch[m], up) ELSE {}
<1>1. m \in Machines /\ RepoInv /\ onto \in [Machines -> Seq(Trees)]
      /\ lost \subseteq Messages \cup Snapshots /\ work \in [Machines -> Trees]
  BY AtWork DEF LedgerInv, RepoInv, RepoTyped
<1>2. UNCHANGED <<remote, tracking, stash, committed>>
  BY DEF SkipCommits
<1>3. CASE UNCHANGED <<branch, work, index, onto, lost>>
  <2>1. UNCHANGED <<remote, repo, committed, lost>>
    BY <1>2, <1>3 DEF repo
  <2>. QED BY <1>1, <2>1, LostMore DEF RepoInv, RepoTyped
<1>4. CASE /\ onto' = [onto EXCEPT ![m] = << >>]
           /\ RebaseOnto(m, up, clash)
           /\ lost' = lost \cup (Items(work[m]) \ (Items(Tip(m)) \cup Items(Last(up))
                                                   \cup Items(work'[m])))
                           \cup dropped
  <2>2. PICK new \in Rebased(branch[m], up, clash) :
          /\ branch' = [branch EXCEPT ![m] = new]
          /\ index' = [index EXCEPT ![m] = Last(new)]
          /\ work' = [work EXCEPT ![m] = CheckedOut(m, Last(new))]
    BY <1>4 DEF RebaseOnto
  <2>3. up \in Seq(Trees) \ {<< >>} /\ RemoteOK(up, origin[1], lost, published)
    BY <1>1, TreeTypes DEF RepoInv, RepoTyped, BranchesOK, Stopped
  <2> HIDE DEF m, up
  <2>4. PICK e : /\ lost \subseteq e /\ e \subseteq lost \cup dropped \cup {File}
                 /\ clash => GivenUp(branch[m], up, e)
    <3>1. CASE clash
      BY <1>1, <2>3, <3>1, SkippedGivenUp
    <3>2. CASE ~clash
      BY <3>2
    <3>. QED BY <3>1, <3>2
  <2>5. dropped \subseteq Messages \cup Snapshots
    BY <1>1, <2>3, SkippedGivenUp
  <2> HIDE DEF clash, dropped
  <2>6. /\ lost \subseteq lost' /\ lost' \subseteq Messages \cup Snapshots
        /\ e \subseteq lost' \cup {File}
    BY <1>1, <1>4, <2>4, <2>5, FileOK, ItemsOf
  <2>7. /\ new \in Seq(Trees) \ {<< >>} /\ Last(new) \in Trees /\ CheckedOut(m, Last(new)) \in Trees
    <3>1. new \in Seq(Trees) \ {<< >>} /\ BranchOK(new, m, origin[1], lost, published)
      BY <1>1, <2>2, <2>3, <2>4, RebaseGives
    <3>2. Last(new) \in Trees
      BY <3>1 DEF Last
    <3>3. /\ Exists(Last(new)) /\ Last(new).lines \subseteq Known(m, lost, published)
          /\ Last(new).snaps \subseteq Known(m, lost, published)
      BY <3>1, LastOK DEF BranchOK
    <3>. QED BY <1>1, <3>1, <3>2, <3>3, CheckOut
  <2>8. ASSUME NEW x \in Own(m), x \in All(work[m])
        PROVE  x \in All(Tip(m)) \cup All(CheckedOut(m, Last(new))) \cup lost'
    <3>1. x \in Messages \cup Snapshots /\ x \in Items(work[m])
      BY <1>1, <2>8, FileOK, ItemsOf DEF Own
    <3>2. CASE x \in Items(Last(up))
      <4>1. Last(up) \in Trees /\ All(Last(up)) \subseteq Shared(lost, published)
        BY <2>3, LastOK DEF RemoteOK, Last, All
      <4>2. x \in Shared(lost, published)
        BY <3>1, <3>2, <4>1, ItemsOf
      <4>. QED BY <1>1, <2>6, <4>2, OwnShared
    <3>3. CASE x \in Items(Tip(m))
      BY <1>1, <3>1, <3>3, TipOK, ItemsOf
    <3>4. CASE x \in Items(work'[m])
      <4>1. work'[m] = CheckedOut(m, Last(new))
        BY <1>1, <2>2
      <4>. QED BY <2>7, <3>1, <3>4, <4>1, ItemsOf
    <3>. QED BY <1>4, <3>1, <3>2, <3>3, <3>4
  <2>9. All(work[m]) \cap Own(m) \subseteq
            All(Tip(m)) \cup All(CheckedOut(m, Last(new))) \cup lost'
    BY <2>8
  <2>. QED BY <1>1, <1>2, <1>4, <2>2, <2>3, <2>4, <2>6, <2>9, RebaseMoves
<1>. QED BY <1>3, <1>4 DEF SkipCommits

\* The remote takes a branch that has all it had, but for what is given up.
LEMMA PushMoves ==
    ASSUME RepoInv, NEW m \in Machines, origin' = branch[m],
           tracking' = [tracking EXCEPT ![m] = branch[m]],
           published' = published \cup Items(Tip(m)),
           UNCHANGED <<branch, work, index, onto, stash, committed>>,
           lost \subseteq lost', lost' \subseteq Messages \cup Snapshots,
           Items(Last(origin)) \subseteq Items(Tip(m)) \cup lost'
    PROVE  RepoInv' /\ Retained
<1> DEFINE new == branch[m]
<1>0. /\ branch' = branch /\ work' = work /\ index' = index /\ onto' = onto /\ stash' = stash
      /\ committed' = committed /\ tracking \in [Machines -> Seq(Trees) \ {<< >>}]
      /\ new \in Seq(Trees) \ {<< >>} /\ Last(new) = Tip(m) /\ Tip(m) \in Trees
      /\ \A n \in Machines : tracking'[n] = IF n = m THEN new ELSE tracking[n]
      /\ published \subseteq published' /\ File \notin lost
  BY TreeTypes DEF RepoInv, RepoTyped, Tip
<1>1. Items(Tip(m)) \subseteq Messages \cup Snapshots
  BY <1>0, ItemsOf
<1>2. RepoTyped'
  BY <1>0, <1>1 DEF RepoInv, RepoTyped
<1>3. BranchOK(new, m, origin[1], lost, published)
  BY DEF RepoInv, BranchesOK
<1>4. RemoteOK(new, origin[1], lost', published')
  <2>1. new[1] = origin[1] /\ Growing(new, lost')
    BY <1>3, MoreShared DEF BranchOK
  <2>2. ASSUME NEW i \in 1..Len(new)
        PROVE  /\ new[i].lines \subseteq Shared(lost', published')
               /\ new[i].snaps \subseteq Shared(lost', published')
    <3>1. Within(new[i], Tip(m), lost)
      BY <1>0, <1>3, <2>2, WithinLast DEF BranchOK
    <3>2. /\ Tip(m).lines \subseteq Items(Tip(m)) \cup {File}
          /\ Tip(m).snaps \subseteq Items(Tip(m))
      BY DEF Items
    <3>. QED BY <3>1, <3>2 DEF Within, Shared
  <2>. QED BY <2>1, <2>2 DEF RemoteOK, Over
<1>5. BranchesOK'
  <2>1. origin'[1] = origin[1]
    BY <1>3 DEF BranchOK
  <2>2. ASSUME NEW n \in Machines
        PROVE  /\ RemoteOK(tracking'[n], origin[1], lost', published')
               /\ onto[n] # << >> => RemoteOK(onto[n], origin[1], lost', published')
               /\ BranchOK(branch[n], n, origin[1], lost', published')
    <3>1. RemoteOK(tracking[n], origin[1], lost', published')
      BY <1>0, MoreShared DEF RepoInv, BranchesOK
    <3>2. onto[n] # << >> => RemoteOK(onto[n], origin[1], lost', published')
      BY <1>0, MoreShared DEF RepoInv, BranchesOK, Stopped
    <3>3. BranchOK(branch[n], n, origin[1], lost', published')
      BY <1>0, MoreShared DEF RepoInv, BranchesOK
    <3>. QED BY <1>0, <1>4, <3>1, <3>2, <3>3
  <2>. QED BY <1>0, <1>4, <2>1, <2>2 DEF BranchesOK, Stopped
<1>6. WorkOK'
  <2> SUFFICES ASSUME NEW n \in Machines
               PROVE  /\ FilesOK(work[n], index[n], Tip(n), n, ~Stopped(n), lost', published')
                      /\ \A i \in 1..Len(stash[n]) : EntryOK(stash[n][i], n, lost', published')
    BY <1>0 DEF WorkOK, Tip, Stopped
  <2>. QED BY <1>0, MoreShared DEF RepoInv, WorkOK
<1>7. SharedKept'
  <2>1. ASSUME NEW x \in published
        PROVE  x \in Items(Tip(m)) \cup lost'
    BY DEF RepoInv, SharedKept
  <2>2. ASSUME NEW x \in Items(Tip(m)), Writer[x] # m
        PROVE  x \in published \cup lost
    <3>1. x \in Known(m, lost, published) /\ x # File
      BY <1>0, <2>2, TipOK DEF Items, Trees
    <3>. QED BY <1>1, <2>2, <3>1 DEF Known, Shared
  <2>3. ASSUME NEW x \in published'
        PROVE  /\ x \in Items(Tip(m)) \cup lost'
               /\ x \in Items(Last(tracking'[Writer[x]])) \cup lost'
               /\ x \in Items(Tip(Writer[x])) \cup lost'
    <3>0. Writer[x] \in Machines
      BY <1>1, <2>3 DEF RepoInv, RepoTyped
    <3>1. CASE Writer[x] = m
      <4>1. x \in Items(Tip(m)) \cup lost
        BY <3>1, <2>3 DEF RepoInv, SharedKept
      <4>. QED BY <4>1, <3>0, <3>1, <1>0
    <3>2. CASE Writer[x] # m
      <4>1. x \in published \cup lost
        BY <2>2, <2>3, <3>2
      <4>. QED BY <4>1, <3>0, <3>2, <2>1, <1>0 DEF RepoInv, SharedKept
    <3>. QED BY <3>1, <3>2
  <2>4. \A x \in committed : x \in Items(Tip(Writer[x])) \cup lost'
    BY DEF RepoInv, SharedKept
  <2>. QED BY <1>0, <2>3, <2>4 DEF SharedKept, Tip
<1>8. Retained
  BY <1>0 DEF Retained, Stored, Tip
<1>. QED BY <1>2, <1>5, <1>6, <1>7, <1>8 DEF RepoInv

LEMMA PushKeeps ==
    ASSUME LedgerInv, NEW w \in Workers, Push(w)
    PROVE  RepoInv' /\ Retained
<1> DEFINE m == Host[w]
<1>1. m \in Machines /\ RepoInv /\ lost \subseteq Messages \cup Snapshots
      /\ origin \in Seq(Trees) \ {<< >>} /\ branch[m] \in Seq(Trees) \ {<< >>}
  BY AtWork DEF LedgerInv, RepoInv, RepoTyped
<1>2. UNCHANGED <<branch, work, index, onto, stash, committed, lost>>
  BY DEF Push, ghosts
<1>3. CASE UNCHANGED <<remote, tracking>>
  <2>1. UNCHANGED <<remote, repo, committed, lost>>
    BY <1>2, <1>3 DEF repo
  <2>. QED BY <1>1, <2>1, LostMore
<1>4. CASE /\ IsPrefix(origin, branch[m])
           /\ origin' = branch[m]
           /\ tracking' = [tracking EXCEPT ![m] = branch[m]]
           /\ published' = published \cup Items(Tip(m))
  <2>1. Len(origin) \in 1..Len(branch[m]) /\ branch[m][Len(origin)] = Last(origin)
    <3>1. Len(origin) \in Nat /\ Len(branch[m]) \in Nat /\ Len(origin) >= 1
          /\ Len(origin) <= Len(branch[m])
      BY <1>1, <1>4 DEF IsPrefix
    <3>2. SubSeq(origin, 1, Len(origin)) = SubSeq(branch[m], 1, Len(origin))
      BY <1>4 DEF IsPrefix
    <3>3. SubSeq(origin, 1, Len(origin))[Len(origin)] = origin[Len(origin)]
      BY <1>1, <3>1
    <3>4. SubSeq(branch[m], 1, Len(origin))[Len(origin)] = branch[m][Len(origin)]
      BY <1>1, <3>1
    <3>. QED BY <3>1, <3>2, <3>3, <3>4 DEF Last
  <2>2. Growing(branch[m], lost)
    BY <1>1 DEF RepoInv, BranchesOK, BranchOK
  <2>3. Within(Last(origin), Tip(m), lost)
    BY <1>1, <2>1, <2>2, WithinLast DEF Tip
  <2>4. Items(Last(origin)) \subseteq Items(Tip(m)) \cup lost
    BY <1>1, <2>3, TipOK, TreeTypes, WithinItems DEF RepoInv
  <2>5. lost' = lost
    BY <1>2
  <2> HIDE DEF m
  <2>. QED BY <1>1, <1>2, <1>4, <2>4, <2>5, PushMoves
<1>. QED BY <1>3, <1>4 DEF Push

LEMMA ForcePushKeeps ==
    ASSUME LedgerInv, NEW w \in Workers, ForcePush(w)
    PROVE  RepoInv' /\ Retained
<1> DEFINE m == Host[w]
<1>1. m \in Machines /\ RepoInv /\ lost \subseteq Messages \cup Snapshots
  BY AtWork DEF LedgerInv, RepoInv, RepoTyped
<1>2. UNCHANGED <<branch, work, index, onto, stash, committed>>
  BY DEF ForcePush
<1>3. CASE UNCHANGED <<remote, tracking, lost>>
  <2>1. UNCHANGED <<remote, repo, committed, lost>>
    BY <1>2, <1>3 DEF repo
  <2>. QED BY <1>1, <2>1, LostMore
<1>4. CASE /\ origin' = branch[m]
           /\ tracking' = [tracking EXCEPT ![m] = branch[m]]
           /\ published' = published \cup Items(Tip(m))
           /\ lost' = lost \cup (Items(Last(origin)) \ Items(Tip(m)))
  <2>1. Items(Last(origin)) \subseteq Messages \cup Snapshots
    BY <1>1, TreeTypes, ItemsOf DEF RepoInv
  <2>2. /\ lost \subseteq lost' /\ lost' \subseteq Messages \cup Snapshots
        /\ Items(Last(origin)) \subseteq Items(Tip(m)) \cup lost'
    BY <1>1, <1>4, <2>1
  <2> HIDE DEF m
  <2>. QED BY <1>1, <1>2, <1>4, <2>2, PushMoves
<1>. QED BY <1>3, <1>4 DEF ForcePush


LEMMA AppendMissingKeeps ==
    ASSUME LedgerInv, NEW w \in Workers, AppendMissing(w)
    PROVE  /\ RepoInv' /\ Retained
           /\ job[w].read.lines \subseteq work'[Host[w]].lines
<1> DEFINE m == Host[w]
           read == job[w].read.lines
           tree == [work[m] EXCEPT !.lines = @ \cup read]
<1>1. m \in Machines /\ RepoInv /\ lost \subseteq Messages \cup Snapshots
      /\ work \in [Machines -> Trees] /\ work[m] \in Trees
      /\ index \in [Machines -> Trees] /\ index[m] \in Trees
  BY AtWork DEF LedgerInv, RepoInv, RepoTyped
<1>2. /\ read \subseteq Messages \cup {File} /\ Exists(job[w].read)
      /\ read \subseteq Known(m, lost, published)
  <2>1. job[w].read \in Trees
    BY AtWork DEF Jobs
  <2>2. Exists(job[w].read) /\ read \subseteq Known(m, lost, published)
    BY AtWork DEF JobOK
  <2>. QED BY <2>1, <2>2 DEF Trees
<1>3. UNCHANGED <<remote, tracking, branch, index, onto, stash, committed, lost>>
  BY DEF AppendMissing, ghosts
<1>4. CASE read \subseteq work[m].lines
  <2>1. UNCHANGED <<remote, repo, committed, lost>> /\ work' = work
    BY <1>3, <1>4 DEF AppendMissing, repo
  <2>. QED BY <1>1, <1>4, <2>1, LostMore
<1>5. CASE ~(read \subseteq work[m].lines)
  <2>1. work' = [work EXCEPT ![m] = tree] /\ index' = [index EXCEPT ![m] = index[m]]
    BY <1>1, <1>3, <1>5 DEF AppendMissing
  <2>2. /\ tree \in Trees /\ tree.lines = work[m].lines \cup read
        /\ tree.snaps = work[m].snaps
    BY <1>1, <1>2 DEF Trees
  <2>3. /\ FilesOK(tree, index[m], Tip(m), m, ~Stopped(m), lost, published)
        /\ All(work[m]) \subseteq All(tree)
    BY <1>1, <1>2, <2>2, FileOK DEF Exists, FilesOK, All
  <2>4. work'[m] = tree
    BY <1>1, <2>1
  <2> HIDE DEF tree, m, read
  <2>5. RepoInv' /\ Retained
    BY <1>1, <1>3, <2>1, <2>2, <2>3, LinesAdded
  <2>. QED BY <2>2, <2>4, <2>5 DEF read, m
<1>. QED BY <1>4, <1>5

\* A reset keeps the lines of the remote; the lines a content merge has read are
\* with its thread.
LEMMA ResetHardKeeps ==
    ASSUME LedgerInv, NEW w \in Workers, ResetHard(w)
    PROVE  /\ RepoInv'
           /\ \A n \in Machines \ {Host[w]} : Stored(n) \subseteq Stored(n)'
           /\ Stored(Host[w]) \cap Own(Host[w]) \subseteq Stored(Host[w])' \cup
                (IF job[w].kind = "reset" THEN {} ELSE job[w].read.lines)
<1> DEFINE m == Host[w]
           up == tracking[m]
           tree == CheckedOut(m, Last(up))
           readded == IF job[w].kind = "reset" THEN {} ELSE job[w].read.lines
<1>1. m \in Machines /\ RepoInv /\ lost \subseteq Messages \cup Snapshots
      /\ work \in [Machines -> Trees] /\ onto \in [Machines -> Seq(Trees)]
      /\ index \in [Machines -> Trees]
      /\ branch \in [Machines -> Seq(Trees) \ {<< >>}]
      /\ committed \subseteq Messages \cup Snapshots
  BY AtWork DEF LedgerInv, RepoInv, RepoTyped
<1>2. /\ UNCHANGED <<remote, tracking, onto, stash>> /\ ~Stopped(m)
      /\ branch' = [branch EXCEPT ![m] = up]
      /\ index' = [index EXCEPT ![m] = Last(up)]
      /\ work' = [work EXCEPT ![m] = tree]
      /\ lost' = lost \cup ((Items(work[m]) \cup Items(Tip(m))) \ (Items(tree) \cup readded))
      /\ \/ job[w].kind = "reset" /\ committed' = committed
         \/ committed' = committed \ (readded \ tree.lines)
  BY DEF ResetHard
<1>3. readded \subseteq Messages \cup {File}
  BY AtWork DEF Jobs, Trees
<1>4. /\ up \in Seq(Trees) \ {<< >>} /\ RemoteOK(up, origin[1], lost, published)
      /\ up = tracking[m]
  BY <1>1 DEF RepoInv, RepoTyped, BranchesOK
<1>5. /\ Last(up) \in Trees /\ Exists(Last(up))
      /\ Last(up).lines \subseteq Known(m, lost, published)
      /\ Last(up).snaps \subseteq Known(m, lost, published)
  BY <1>4, LastOK DEF RemoteOK, Last, Known
<1>6. /\ tree \in Trees /\ FilesOK(tree, Last(up), Last(up), m, TRUE, lost, published)
      /\ tree.lines = Last(up).lines \/ ~Tracked(m)
      /\ tree.snaps = Last(up).snaps \cup (work[m].snaps \ index[m].snaps)
  BY <1>1, <1>5, CheckOut
<1>7. job[w].kind = "reset" => readded = {}
  OBVIOUS
<1>8. readded = IF job[w].kind = "reset" THEN {} ELSE job[w].read.lines
  OBVIOUS
<1>9. m = Host[w]
  OBVIOUS
<1> HIDE DEF m, up, tree, readded
<1>10. lost \subseteq lost' /\ lost' \subseteq Messages \cup Snapshots
       /\ committed' \subseteq committed
  BY <1>1, <1>2, TipOK, FileOK, ItemsOf
<1>11. /\ \A n \in Machines : /\ branch'[n] = IF n = m THEN up ELSE branch[n]
                              /\ work'[n] = IF n = m THEN tree ELSE work[n]
                              /\ index'[n] = IF n = m THEN Last(up) ELSE index[n]
       /\ stash' = stash /\ published' = published /\ onto' = onto
       /\ work' \in [Machines -> Trees] /\ index' \in [Machines -> Trees]
  BY <1>1, <1>2, <1>5, <1>6 DEF remote
<1>12. WorkOK'
  <2> SUFFICES ASSUME NEW n \in Machines
               PROVE  /\ FilesOK(work'[n], index'[n], Last(branch'[n]), n, ~Stopped(n),
                                 lost', published)
                      /\ \A i \in 1..Len(stash[n]) : EntryOK(stash[n][i], n, lost', published)
    BY <1>11 DEF WorkOK, Tip, Stopped
  <2>1. /\ FilesOK(work[n], index[n], Tip(n), n, ~Stopped(n), lost', published)
        /\ \A i \in 1..Len(stash[n]) : EntryOK(stash[n][i], n, lost', published)
    BY <1>1, <1>10, MoreShared DEF RepoInv, WorkOK
  <2>2. CASE n = m
    <3>1. FilesOK(tree, Last(up), Last(up), m, TRUE, lost', published)
      BY <1>6, <1>10, MoreShared
    <3>. QED BY <1>11, <2>1, <2>2, <3>1 DEF FilesOK
  <2>3. CASE n # m
    BY <1>11, <2>1, <2>3 DEF Tip
  <2>. QED BY <2>2, <2>3
<1>13. BranchOK(up, m, origin[1], lost', published)
  <2>1. Over(up, Known(m, lost, published))
    BY <1>4 DEF RemoteOK, Over, Known
  <2>2. BranchOK(up, m, origin[1], lost, published)
    BY <1>4, <2>1 DEF RemoteOK, BranchOK
  <2>. QED BY <1>10, <2>2, MoreShared
<1>14. ASSUME NEW x \in committed', Writer[x] = m
       PROVE  x \in Items(Last(up)) \cup lost'
  <2>1. x \in committed /\ x \in Items(Tip(m)) \cup lost /\ x \in Messages \cup Snapshots
    BY <1>1, <1>10, <1>14 DEF RepoInv, SharedKept
  <2>a. FilesOK(work[m], index[m], Tip(m), m, TRUE, lost, published) /\ File \notin lost
    BY <1>1, <1>2, FileOK, TreeTypes DEF FilesOK, RepoInv
  <2>2. CASE x \in Snapshots /\ x \in Items(Tip(m))
    <3>1. x \in index[m].snaps \cup lost
      BY <1>1, <2>2, <2>a, TipOK, ItemsOf DEF FilesOK, Within
    <3>2. x \in Items(tree) => x \in Items(Last(up)) \cup lost
      BY <1>5, <1>6, <2>2, <3>1, ItemsOf
    <3>3. x \notin readded
      BY <1>3, <2>2
    <3>. QED BY <1>2, <2>2, <3>2, <3>3
  <2>3. CASE x \in Messages /\ x \in Items(Tip(m))
    <3>1. x \in Tip(m).lines /\ File \in Tip(m).lines
      BY <1>1, <2>3, TipOK, ItemsOf DEF Exists
    <3>2. tree.lines = Last(up).lines
      BY <1>6, <2>a, <3>1 DEF Tracked, FilesOK, Within
    <3>3. CASE x \in readded
      <4>1. x \in tree.lines
        BY <1>2, <1>7, <1>14, <3>3
      <4>. QED BY <1>5, <2>3, <3>2, <4>1, ItemsOf
    <3>4. CASE x \notin readded
      <4>1. x \in Items(tree) => x \in Items(Last(up))
        BY <1>5, <1>6, <2>3, <3>2, ItemsOf
      <4>. QED BY <1>2, <2>3, <3>4, <4>1
    <3>. QED BY <3>3, <3>4
  <2>. QED BY <1>10, <2>1, <2>2, <2>3
<1>15. \A x \in published \cup committed' : Writer[x] = m => x \in Items(Last(up)) \cup lost'
  <2>1. \A x \in published : Writer[x] = m => x \in Items(Last(up)) \cup lost
    BY <1>1, <1>4 DEF RepoInv, SharedKept
  <2>. QED BY <1>10, <1>14, <2>1
<1>16. RepoInv'
  <2>1. \A n \in Machines : onto'[n] \in {onto[n], << >>}
    BY <1>11
  <2>2. onto' \in [Machines -> Seq(Trees)] /\ committed' \subseteq Messages \cup Snapshots
    BY <1>1, <1>10, <1>11
  <2>3. \A x \in committed' : Writer[x] # m => x \in committed \cup published \cup lost
    BY <1>10
  <2>4. UNCHANGED <<remote, tracking, stash>>
    BY <1>2
  <2>. QED BY <1>1, <1>2, <1>4, <1>10, <1>11, <1>12, <1>13, <1>15, <2>1, <2>2, <2>3, <2>4,
              BranchMoves
<1>17. ASSUME NEW n \in Machines, n # m PROVE Stored(n) \subseteq Stored(n)'
  <2>1. Tip(n)' = Tip(n) /\ work'[n] = work[n] /\ stash'[n] = stash[n]
    BY <1>11, <1>17 DEF Tip
  <2>. QED BY <1>10, <2>1 DEF Stored
<1>18. Stored(m) \cap Own(m) \subseteq Stored(m)' \cup readded
  <2>1. Tip(m)' = Last(up) /\ work'[m] = tree /\ stash'[m] = stash[m]
    BY <1>1, <1>11 DEF Tip
  <2>2. ASSUME NEW x \in Own(m), x \in All(Tip(m)) \cup All(work[m])
        PROVE  x \in All(tree) \cup lost' \cup readded
    <3>1. /\ x \in Items(Tip(m)) \cup Items(work[m])
          /\ x \in Items(tree) => x \in All(tree)
      BY <1>1, <1>6, <2>2, TipOK, FileOK, ItemsOf DEF Own
    <3>. QED BY <1>2, <3>1
  <2>. QED BY <1>10, <2>1, <2>2 DEF Stored
<1>. QED BY <1>8, <1>9, <1>16, <1>17, <1>18

(***************************************************************************)
(* The threads                                                             *)
(***************************************************************************)

\* Thread w is at command `at` with job j.
Moves(w, at, j) ==
    /\ at \in Labels /\ j \in Jobs
    /\ pc' = [pc EXCEPT ![w] = at] /\ job' = [job EXCEPT ![w] = j]
    /\ JobOK(j, at, Host[w], lost, published)

\* More may be given up and shared, never less.
Monotone == lost \subseteq lost' /\ published \subseteq published'

LEMMA MovesKeep ==
    ASSUME LedgerInv, RepoInv', Monotone, NEW w \in Workers, NEW at, NEW j, Moves(w, at, j),
           cooldown' \in [Machines -> BOOLEAN], sent' \subseteq Owed,
           Writes(j, at) => j.msg \in Stored(Host[w])' \cup Owed,
           pc[w] = "readd" => job[w].read.lines \subseteq work'[Host[w]].lines,
           \A n \in Machines :
               Stored(n) \cap Own(n) \subseteq
                 Stored(n)' \cup (IF n = Host[w] /\ at = "readd" THEN j.read.lines ELSE {})
    PROVE  LedgerInv'
<1>1. /\ pc \in [Workers -> Labels] /\ job \in [Workers -> Jobs]
      /\ sent \subseteq Messages \cup Snapshots
      /\ Owed \subseteq Messages \cup Snapshots
      /\ Host \in [Workers -> Machines]
  BY DEF LedgerInv, JobsTyped, Owed
<1>2. \A v \in Workers : /\ pc'[v] = IF v = w THEN at ELSE pc[v]
                         /\ job'[v] = IF v = w THEN j ELSE job[v]
  BY <1>1 DEF Moves
<1>3. JobsTyped'
  BY <1>1 DEF Moves, JobsTyped
<1>4. JobsOK'
  <2> SUFFICES ASSUME NEW v \in Workers
               PROVE  JobOK(job'[v], pc'[v], Host[v], lost', published')
    BY DEF JobsOK
  <2>1. JobOK(job'[v], pc'[v], Host[v], lost, published)
    BY <1>2 DEF LedgerInv, JobsOK, Moves
  <2>2. Known(Host[v], lost, published) \subseteq Known(Host[v], lost', published')
    BY MoreShared DEF Monotone
  <2>. QED BY <2>1, <2>2 DEF JobOK
<1>5. ASSUME NEW n \in Machines, NEW x \in BeingMerged(n), x \in Own(n)
      PROVE  x \in BeingMerged(n)' \cup Stored(n)'
  <2>1. PICK v \in Workers : Host[v] = n /\ pc[v] = "readd" /\ x \in job[v].read.lines \ {File}
    BY <1>5 DEF BeingMerged
  <2>2. CASE v # w
    <3>1. pc'[v] = "readd" /\ job'[v] = job[v]
      BY <1>2, <2>1, <2>2
    <3>. QED BY <2>1, <3>1 DEF BeingMerged
  <2>3. CASE v = w
    BY <2>1, <2>3 DEF Stored, All
  <2>. QED BY <2>2, <2>3
<1>6. ASSUME NEW n \in Machines, NEW x \in Stored(n), x \in Own(n)
      PROVE  x \in BeingMerged(n)' \cup Stored(n)'
  <2>1. CASE x \in Stored(n)'
    BY <2>1
  <2>2. CASE n = Host[w] /\ at = "readd" /\ x \in j.read.lines
    <3>1. pc'[w] = "readd" /\ job'[w] = j
      BY <1>2, <2>2
    <3>2. x # File
      BY <1>6 DEF Own
    <3>. QED BY <2>2, <3>1, <3>2 DEF BeingMerged
  <2>. QED BY <1>6, <2>1, <2>2
<1>7. ASSUME NEW x \in Owed'
      PROVE  x \in Owed \/ x \in Stored(Writer[x])'
  <2>1. CASE x \in sent'
    BY <2>1
  <2>2. CASE x \notin sent'
    <3>1. PICK v \in Workers : Writes(job'[v], pc'[v]) /\ job'[v].msg = x
      BY <2>2 DEF Owed
    <3>2. x \in Messages \cup Snapshots
      BY <2>2 DEF Owed
    <3>3. CASE v = w
      BY <1>2, <3>1, <3>3 DEF Moves, JobOK, Writes
    <3>4. CASE v # w
      BY <1>2, <3>1, <3>2, <3>4 DEF Owed
    <3>. QED BY <3>3, <3>4
  <2>. QED BY <2>1, <2>2
<1>8. OwedHeld'
  <2> SUFFICES ASSUME NEW x \in Owed'
               PROVE  x \in Stored(Writer[x])' \cup BeingMerged(Writer[x])'
    BY DEF OwedHeld
  <2>1. CASE x \in Owed
    <3>1. x \in Messages \cup Snapshots /\ Writer[x] \in Machines /\ x \in Own(Writer[x])
      BY <1>1, <2>1 DEF Owed, Own
    <3>2. x \in Stored(Writer[x]) \cup BeingMerged(Writer[x])
      BY <2>1 DEF LedgerInv, OwedHeld
    <3>. QED BY <1>5, <1>6, <3>1, <3>2
  <2>. QED BY <1>7, <2>1
<1>. QED BY <1>3, <1>4, <1>8 DEF LedgerInv

\* A thread that neither writes, nor answers, nor begins or ends to merge.
Plain(w) ==
    /\ \E at, j : Moves(w, at, j) /\ ~Writes(j, at)
    /\ pc[w] # "readd" /\ sent' = sent

LEMMA PlainKeeps ==
    ASSUME LedgerInv, RepoInv', Retained, Monotone, NEW w \in Workers, Plain(w),
           cooldown' \in [Machines -> BOOLEAN]
    PROVE  LedgerInv'
<1>1. PICK at, j : Moves(w, at, j) /\ ~Writes(j, at)
  BY DEF Plain
<1>2. sent' \subseteq Owed /\ pc[w] # "readd"
  BY DEF Plain, Owed, LedgerInv, JobsTyped
<1>3. \A n \in Machines :
         Stored(n) \cap Own(n) \subseteq
           Stored(n)' \cup (IF n = Host[w] /\ at = "readd" THEN j.read.lines ELSE {})
  BY DEF Retained
<1>. QED BY <1>1, <1>2, <1>3, MovesKeep

\* The jobs that threads are given.
LEMMA Given ==
    ASSUME NEW m, NEW l, NEW p
    PROVE  /\ Idle \in Jobs /\ JobOK(Idle, "idle", m, l, p)
           /\ \A at \in {"push", "fetch"} :
                LET j == [Idle EXCEPT !.kind = "push"]
                IN  j \in Jobs /\ JobOK(j, at, m, l, p)
           /\ LET j == [Idle EXCEPT !.kind = "poll", !.msg = None]
              IN  j \in Jobs /\ JobOK(j, "fetch", m, l, p)
           /\ \A x \in Messages : Writer[x] = m =>
                LET j == [Idle EXCEPT !.kind = "send", !.msg = x]
                IN  j \in Jobs /\ JobOK(j, "thread", m, l, p)
<1>1. Empty \in Trees /\ Exists(Empty) /\ Empty.lines = {}
  BY DEF Empty, Trees, Exists
<1>2. Idle \in Jobs /\ JobOK(Idle, "idle", m, l, p)
  BY <1>1 DEF Idle, Jobs, Kinds, JobOK
<1>3. \A at \in {"push", "fetch"} :
        LET j == [Idle EXCEPT !.kind = "push"]
        IN  j \in Jobs /\ JobOK(j, at, m, l, p)
  BY <1>1 DEF Idle, Jobs, Kinds, JobOK
<1>4. LET j == [Idle EXCEPT !.kind = "poll", !.msg = None]
      IN  j \in Jobs /\ JobOK(j, "fetch", m, l, p)
  BY <1>1 DEF Idle, Jobs, Kinds, JobOK
<1>5. \A x \in Messages : Writer[x] = m =>
        LET j == [Idle EXCEPT !.kind = "send", !.msg = x]
        IN  j \in Jobs /\ JobOK(j, "thread", m, l, p)
  BY <1>1 DEF Idle, Jobs, Kinds, JobOK
<1>. QED BY <1>2, <1>3, <1>4, <1>5

LEMMA GivenWrites ==
    ASSUME NEW m, NEW l, NEW p
    PROVE  /\ \A x \in Snapshots : Writer[x] = m =>
                LET j == [Idle EXCEPT !.kind = "save", !.msg = x]
                IN  j \in Jobs /\ JobOK(j, "add", m, l, p)
           /\ LET j == [Idle EXCEPT !.kind = "delete"]
              IN  j \in Jobs /\ JobOK(j, "add", m, l, p)
<1>1. Empty \in Trees /\ Exists(Empty) /\ Empty.lines = {}
  BY DEF Empty, Trees, Exists
<1>. QED BY <1>1 DEF Idle, Jobs, Kinds, JobOK

\* A thread that is through.
LEMMA DoneMoves ==
    ASSUME LedgerInv, NEW w \in Workers, Done(w)
    PROVE  Moves(w, "idle", Idle)
BY Given DEF Moves, Done, Goto, Labels

\* A thread that goes on with the job it has.
LEMMA GotoMoves ==
    ASSUME LedgerInv, NEW w \in Workers, NEW at \in Labels, Goto(w, at), job' = job,
           JobOK(job[w], at, Host[w], lost, published)
    PROVE  Moves(w, at, job[w])
<1>1. job \in [Workers -> Jobs]
  BY DEF LedgerInv, JobsTyped
<1>. QED BY <1>1 DEF Moves, Goto

LEMMA ReturnMoves ==
    ASSUME LedgerInv, NEW w \in Workers, Return(w), sent' = sent, pc[w] # "readd"
    PROVE  Plain(w)
<1>1. CASE job[w].kind = "push"
  <2>1. JobOK(job[w], "push", Host[w], lost, published)
    BY <1>1, AtWork DEF JobOK
  <2>2. Moves(w, "push", job[w])
    BY <1>1, <2>1, GotoMoves DEF Return, Labels
  <2>. QED BY <2>2 DEF Plain, Writes
<1>2. CASE job[w].kind # "push"
  <2>1. Moves(w, "idle", Idle)
    BY <1>2, DoneMoves DEF Return
  <2>. QED BY <2>1 DEF Plain, Writes
<1>. QED BY <1>1, <1>2

(***************************************************************************)
(* Every action keeps the invariant                                        *)
(***************************************************************************)

\* An action of a thread or of time that leaves the repositories alone.
LEMMA RepoSame ==
    ASSUME LedgerInv, UNCHANGED <<remote, repo, committed, lost>>
    PROVE  RepoInv' /\ Retained /\ Monotone
<1>1. lost' = lost /\ published' = published /\ RepoInv /\ lost \subseteq Messages \cup Snapshots
  BY DEF LedgerInv, RepoInv, RepoTyped, remote
<1>. QED BY <1>1, LostMore DEF Monotone

LEMMA StartsKeep ==
    ASSUME LedgerInv, NEW w \in Workers, UNCHANGED <<remote, repo, ghosts, cooldown>>,
           pc[w] = "idle", NEW at \in Labels \ {"add", "commit"}, NEW j, Moves(w, at, j)
    PROVE  LedgerInv'
<1>1. RepoInv' /\ Retained /\ Monotone
  BY RepoSame DEF ghosts
<1>2. sent' = sent /\ cooldown' = cooldown /\ cooldown \in [Machines -> BOOLEAN]
  BY DEF ghosts, LedgerInv, JobsTyped
<1>3. Plain(w)
  BY <1>2 DEF Plain, Writes
<1>. QED BY <1>1, <1>2, <1>3, PlainKeeps

LEMMA StartSendInv ==
    ASSUME LedgerInv, NEW w \in Workers, NEW x \in Messages, StartSend(w, x)
    PROVE  LedgerInv'
<1> DEFINE j == [Idle EXCEPT !.kind = "send", !.msg = x]
<1>1. /\ pc[w] = "idle" /\ pc' = [pc EXCEPT ![w] = "thread"] /\ job' = [job EXCEPT ![w] = j]
      /\ Writer[x] = Host[w]
  BY DEF StartSend, Start, Goto
<1>2. Moves(w, "thread", j)
  BY <1>1, Given DEF Moves, Labels
<1>. QED BY <1>1, <1>2, StartsKeep DEF StartSend, Labels

LEMMA StartPollInv ==
    ASSUME LedgerInv, NEW w \in Workers, StartPoll(w)
    PROVE  LedgerInv'
<1> DEFINE j == [Idle EXCEPT !.kind = "poll", !.msg = None]
<1>1. pc[w] = "idle" /\ pc' = [pc EXCEPT ![w] = "fetch"] /\ job' = [job EXCEPT ![w] = j]
  BY DEF StartPoll, Start, Goto
<1>2. Moves(w, "fetch", j)
  BY <1>1, Given DEF Moves, Labels
<1>. QED BY <1>1, <1>2, StartsKeep DEF StartPoll, Labels

LEMMA StartDeleteInv ==
    ASSUME LedgerInv, NEW w \in Workers, NEW x \in Messages, StartDelete(w, x)
    PROVE  LedgerInv'
<1> DEFINE read == work[Host[w]]
           j == [Idle EXCEPT !.kind = "delete", !.msg = x, !.read = read]
<1>1. /\ pc[w] = "idle" /\ pc' = [pc EXCEPT ![w] = "rewrite"] /\ job' = [job EXCEPT ![w] = j]
      /\ x \in read.lines
  BY DEF StartDelete, Goto
<1>2. /\ read \in Trees /\ Exists(read) /\ read.lines \subseteq Known(Host[w], lost, published)
  BY AtWork, FileOK DEF LedgerInv
<1> HIDE DEF read
<1>3. File \in read.lines
  BY <1>1, <1>2 DEF Exists
<1>4. j \in Jobs /\ JobOK(j, "rewrite", Host[w], lost, published)
  BY <1>2, <1>3 DEF Idle, Jobs, Kinds, JobOK
<1>5. Moves(w, "rewrite", j)
  BY <1>1, <1>4 DEF Moves, Labels
<1>. QED BY <1>1, <1>5, StartsKeep DEF StartDelete, Labels

LEMMA StartResolveInv ==
    ASSUME LedgerInv, NEW w \in Workers, NEW action \in Resolutions, StartResolve(w, action)
    PROVE  LedgerInv'
<1> DEFINE read == IF action = "content_merge" THEN work[Host[w]] ELSE Empty
           j == [Idle EXCEPT !.kind = action, !.read = read]
<1>1. pc[w] = "idle" /\ pc' = [pc EXCEPT ![w] = "end_rebase"] /\ job' = [job EXCEPT ![w] = j]
  BY DEF StartResolve, Goto, Idle
<1>2. /\ read \in Trees /\ Exists(read) /\ read.lines \subseteq Known(Host[w], lost, published)
  <2>1. Empty \in Trees /\ Empty.lines = {}
    BY DEF Empty, Trees
  <2>. QED BY <2>1, AtWork, FileOK DEF LedgerInv, Exists
<1> HIDE DEF read
<1>3. action \in Actions
  OBVIOUS
<1>4. j \in Jobs /\ JobOK(j, "end_rebase", Host[w], lost, published)
  BY <1>2, <1>3 DEF Idle, Jobs, Kinds, JobOK, Actions
<1>5. Moves(w, "end_rebase", j)
  BY <1>1, <1>4 DEF Moves, Labels
<1>. QED BY <1>1, <1>5, StartsKeep DEF StartResolve, Labels


LEMMA WriteSnapshotInv ==
    ASSUME LedgerInv, NEW w \in Workers, NEW x \in Snapshots, WriteSnapshot(w, x)
    PROVE  LedgerInv'
<1> DEFINE j == [Idle EXCEPT !.kind = "save", !.msg = x]
<1>1. RepoInv' /\ Retained
  BY WriteSnapshotKeeps
<1>2. /\ pc[w] = "idle" /\ pc' = [pc EXCEPT ![w] = "add"] /\ job' = [job EXCEPT ![w] = j]
      /\ Writer[x] = Host[w] /\ Monotone /\ sent' \subseteq Owed
      /\ cooldown' \in [Machines -> BOOLEAN]
      /\ work' = [work EXCEPT ![Host[w]].snaps = @ \cup {x}]
  BY DEF WriteSnapshot, Start, Goto, Monotone, remote, ghosts, LedgerInv, JobsTyped, Owed
<1>3. Moves(w, "add", j)
  BY <1>2, GivenWrites DEF Moves, Labels
<1>4. j.msg \in Stored(Host[w])'
  <2>1. Host[w] \in Machines /\ work \in [Machines -> Trees] /\ work[Host[w]] \in Trees
    BY AtWork DEF LedgerInv, RepoInv, RepoTyped
  <2>2. x \in work'[Host[w]].snaps
    BY <1>2, <2>1 DEF Trees
  <2>3. j.msg = x
    BY DEF Idle
  <2>. QED BY <2>2, <2>3 DEF Stored, All
<1> HIDE DEF j
<1>5. \A n \in Machines :
         Stored(n) \cap Own(n) \subseteq
           Stored(n)' \cup (IF n = Host[w] /\ "add" = "readd" THEN j.read.lines ELSE {})
  BY <1>1 DEF Retained
<1>. QED BY <1>1, <1>2, <1>3, <1>4, <1>5, MovesKeep

LEMMA EnsureThreadInv ==
    ASSUME LedgerInv, NEW w \in Workers, EnsureThread(w)
    PROVE  LedgerInv'
<1>1. RepoInv' /\ Retained
  BY EnsureThreadKeeps
<1>2. /\ pc[w] = "thread" /\ Goto(w, "append") /\ job' = job /\ sent' = sent /\ Monotone
      /\ cooldown' = cooldown /\ cooldown \in [Machines -> BOOLEAN]
  BY DEF EnsureThread, Monotone, remote, LedgerInv, JobsTyped
<1>3. JobOK(job[w], "append", Host[w], lost, published)
  BY <1>2, AtWork DEF JobOK
<1>4. Moves(w, "append", job[w])
  BY <1>2, <1>3, GotoMoves DEF Labels
<1>5. Plain(w)
  BY <1>2, <1>4 DEF Plain, Writes
<1>. QED BY <1>1, <1>2, <1>5, PlainKeeps

LEMMA AppendLineInv ==
    ASSUME LedgerInv, NEW w \in Workers, AppendLine(w)
    PROVE  LedgerInv'
<1>1. RepoInv' /\ Retained
  BY AppendLineKeeps
<1>2. /\ pc[w] = "append" /\ Goto(w, "add") /\ job' = job /\ sent' = sent /\ Monotone
      /\ cooldown' = cooldown /\ cooldown \in [Machines -> BOOLEAN]
      /\ sent \subseteq Owed
      /\ work' = [work EXCEPT ![Host[w]].lines = @ \cup {File, job[w].msg}]
  BY DEF AppendLine, Monotone, remote, ghosts, LedgerInv, JobsTyped, Owed
<1>3. JobOK(job[w], "add", Host[w], lost, published)
  BY <1>2, AtWork DEF JobOK
<1>4. Moves(w, "add", job[w])
  BY <1>2, <1>3, GotoMoves DEF Labels
<1>5. job[w].msg \in Stored(Host[w])'
  <2>1. Host[w] \in Machines /\ work \in [Machines -> Trees] /\ work[Host[w]] \in Trees
    BY AtWork DEF LedgerInv, RepoInv, RepoTyped
  <2>2. work'[Host[w]].lines = work[Host[w]].lines \cup {File, job[w].msg}
    BY <1>2, <2>1 DEF Trees
  <2>. QED BY <2>2 DEF Stored, All
<1>6. \A n \in Machines :
         Stored(n) \cap Own(n) \subseteq
           Stored(n)' \cup (IF n = Host[w] /\ "add" = "readd" THEN job[w].read.lines ELSE {})
  BY <1>1 DEF Retained
<1>. QED BY <1>1, <1>2, <1>4, <1>5, <1>6, MovesKeep


LEMMA AddFileInv ==
    ASSUME LedgerInv, NEW w \in Workers, AddFile(w)
    PROVE  LedgerInv'
<1>1. RepoInv' /\ Retained
  BY AddFileKeeps
<1>2. /\ pc[w] = "add" /\ Goto(w, "commit") /\ job' = job /\ Monotone
      /\ cooldown' \in [Machines -> BOOLEAN] /\ sent' \subseteq Owed
  BY DEF AddFile, Monotone, remote, ghosts, LedgerInv, JobsTyped, Owed
<1>3. JobOK(job[w], "add", Host[w], lost, published)
  BY <1>2, AtWork
<1>4. Moves(w, "commit", job[w])
  <2>1. JobOK(job[w], "commit", Host[w], lost, published)
    BY <1>3 DEF JobOK
  <2>. QED BY <1>2, <2>1, GotoMoves DEF Labels
<1>5. Writes(job[w], "commit") => job[w].msg \in Owed
  BY <1>2, <1>3 DEF JobOK, Writes, Owed
<1>6. \A n \in Machines :
         Stored(n) \cap Own(n) \subseteq
           Stored(n)' \cup (IF n = Host[w] /\ "commit" = "readd" THEN job[w].read.lines ELSE {})
  BY <1>1 DEF Retained
<1>. QED BY <1>1, <1>2, <1>4, <1>5, <1>6, MovesKeep

LEMMA CommitIndexInv ==
    ASSUME LedgerInv, NEW w \in Workers, CommitIndex(w)
    PROVE  LedgerInv'
<1>1. RepoInv' /\ Retained
  BY CommitIndexKeeps
<1>2. /\ pc[w] = "commit" /\ Monotone
      /\ cooldown' = cooldown /\ cooldown \in [Machines -> BOOLEAN] /\ sent \subseteq Owed
  BY DEF CommitIndex, Monotone, remote, LedgerInv, JobsTyped, Owed
<1>3. JobOK(job[w], "commit", Host[w], lost, published)
  BY <1>2, AtWork
<1>4. Writes(job[w], "commit") => job[w].msg \in Owed
  BY <1>2, <1>3 DEF JobOK, Writes, Owed
<1>5. CASE job[w].kind = "send"
  <2> DEFINE j == [Idle EXCEPT !.kind = "push"]
  <2>1. /\ sent' = sent \cup {job[w].msg} /\ Goto(w, "fetch")
        /\ job' = [job EXCEPT ![w] = j]
    BY <1>5 DEF CommitIndex
  <2>2. Moves(w, "fetch", j)
    BY <2>1, Given DEF Moves, Goto, Labels
  <2>3. sent' \subseteq Owed
    BY <1>2, <1>4, <1>5, <2>1 DEF Writes
  <2> HIDE DEF j
  <2>4. \A n \in Machines :
           Stored(n) \cap Own(n) \subseteq
             Stored(n)' \cup (IF n = Host[w] /\ "fetch" = "readd" THEN j.read.lines ELSE {})
    BY <1>1 DEF Retained
  <2>5. ~Writes(j, "fetch")
    BY DEF Writes
  <2>. QED BY <1>1, <1>2, <2>2, <2>3, <2>4, <2>5, MovesKeep
<1>6. CASE job[w].kind = "save"
  <2>1. sent' = sent \cup {job[w].msg} /\ Done(w)
    BY <1>6 DEF CommitIndex
  <2>2. Moves(w, "idle", Idle)
    BY <2>1, DoneMoves
  <2>3. sent' \subseteq Owed
    BY <1>2, <1>4, <1>6, <2>1 DEF Writes
  <2>4. \A n \in Machines :
           Stored(n) \cap Own(n) \subseteq
             Stored(n)' \cup (IF n = Host[w] /\ "idle" = "readd" THEN Idle.read.lines ELSE {})
    BY <1>1 DEF Retained
  <2>5. ~Writes(Idle, "idle")
    BY DEF Writes
  <2>. QED BY <1>1, <1>2, <2>2, <2>3, <2>4, <2>5, MovesKeep
<1>7. CASE job[w].kind = "delete"
  <2>1. Done(w) /\ sent' = sent
    BY <1>7 DEF CommitIndex
  <2>2. Moves(w, "idle", Idle)
    BY <2>1, DoneMoves
  <2>3. Plain(w)
    BY <1>2, <2>1, <2>2 DEF Plain, Writes
  <2>. QED BY <1>1, <1>2, <2>3, PlainKeeps
<1>8. CASE job[w].kind = "content_merge"
  <2>1. Goto(w, "push") /\ job' = job /\ sent' = sent
    BY <1>8 DEF CommitIndex
  <2>2. JobOK(job[w], "push", Host[w], lost, published)
    BY <1>3 DEF JobOK
  <2>3. Moves(w, "push", job[w])
    BY <2>1, <2>2, GotoMoves DEF Labels
  <2>4. Plain(w)
    BY <1>2, <2>1, <2>3 DEF Plain, Writes
  <2>. QED BY <1>1, <1>2, <2>4, PlainKeeps
<1>. QED BY <1>3, <1>5, <1>6, <1>7, <1>8 DEF JobOK

LEMMA RewriteInv ==
    ASSUME LedgerInv, NEW w \in Workers, Rewrite(w)
    PROVE  LedgerInv'
<1> DEFINE j == [Idle EXCEPT !.kind = "delete"]
<1>1. RepoInv' /\ Retained
  BY RewriteKeeps
<1>2. /\ pc[w] = "rewrite" /\ Goto(w, "add") /\ job' = [job EXCEPT ![w] = j]
      /\ sent' = sent /\ Monotone
      /\ cooldown' = cooldown /\ cooldown \in [Machines -> BOOLEAN]
  BY DEF Rewrite, Monotone, remote, LedgerInv, JobsTyped
<1>3. Moves(w, "add", j)
  BY <1>2, GivenWrites DEF Moves, Goto, Labels
<1>4. ~Writes(j, "add")
  BY DEF Writes, Idle
<1> HIDE DEF j
<1>5. Plain(w)
  BY <1>2, <1>3, <1>4 DEF Plain
<1>. QED BY <1>1, <1>2, <1>5, PlainKeeps

LEMMA AbortFirstInv ==
    ASSUME LedgerInv, NEW w \in Workers, AbortFirst(w)
    PROVE  LedgerInv'
<1>1. RepoInv' /\ Retained
  BY AbortFirstKeeps
<1> DEFINE at == CASE job[w].kind = "content_merge" -> "reset"
                   [] job[w].kind = "force_push" -> "push"
                   [] OTHER -> "fetch"
<1>2. /\ pc[w] = "end_rebase" /\ Goto(w, at) /\ job' = job /\ sent' = sent /\ Monotone
      /\ cooldown' = cooldown /\ cooldown \in [Machines -> BOOLEAN]
  BY DEF AbortFirst, EndRebase, Monotone, remote, LedgerInv, JobsTyped
<1>3. JobOK(job[w], "end_rebase", Host[w], lost, published) /\ job[w].kind \in Actions
  BY <1>2, AtWork DEF JobOK
<1>4. at \in Labels /\ at \notin {"add", "commit"} /\ JobOK(job[w], at, Host[w], lost, published)
  BY <1>3 DEF JobOK, Actions, Labels
<1> HIDE DEF at
<1>5. Moves(w, at, job[w])
  BY <1>2, <1>4, GotoMoves
<1>6. Plain(w)
  BY <1>2, <1>4, <1>5 DEF Plain, Writes
<1>. QED BY <1>1, <1>2, <1>6, PlainKeeps

LEMMA FetchOkInv ==
    ASSUME LedgerInv, NEW w \in Workers, FetchOk(w)
    PROVE  LedgerInv'
<1>1. RepoInv' /\ Retained
  BY FetchOkKeeps
<1> DEFINE at == CASE job[w].kind = "reset" -> "reset"
                   [] job[w].kind = "skip" -> "skip"
                   [] OTHER -> "stash"
<1>2. /\ pc[w] = "fetch" /\ Goto(w, at) /\ job' = job /\ sent' = sent /\ Monotone
  BY DEF FetchOk, Monotone, remote, ghosts
<1>3. cooldown' \in [Machines -> BOOLEAN]
  BY DEF FetchOk, LedgerInv, JobsTyped
<1>4. JobOK(job[w], "fetch", Host[w], lost, published)
  BY <1>2, AtWork
<1>5. at \in Labels /\ at \notin {"add", "commit"} /\ JobOK(job[w], at, Host[w], lost, published)
  BY <1>4 DEF JobOK, Labels
<1> HIDE DEF at
<1>6. Moves(w, at, job[w])
  BY <1>2, <1>5, GotoMoves
<1>7. Plain(w)
  BY <1>2, <1>5, <1>6 DEF Plain, Writes
<1>. QED BY <1>1, <1>2, <1>3, <1>7, PlainKeeps


LEMMA FetchFailsInv ==
    ASSUME LedgerInv, NEW w \in Workers, FetchFails(w)
    PROVE  LedgerInv'
<1>1. UNCHANGED <<remote, repo, committed, lost>>
  BY DEF FetchFails, ghosts
<1>2. RepoInv' /\ Retained /\ Monotone
  BY <1>1, RepoSame
<1>3. /\ pc[w] = "fetch" /\ sent' = sent
      /\ cooldown' = cooldown /\ cooldown \in [Machines -> BOOLEAN]
  BY DEF FetchFails, ghosts, LedgerInv, JobsTyped
<1>4. JobOK(job[w], "fetch", Host[w], lost, published)
  BY <1>3, AtWork
<1>5. Plain(w)
  <2>1. CASE Done(w)
    <3>1. Moves(w, "idle", Idle)
      BY <2>1, DoneMoves
    <3>. QED BY <1>3, <3>1 DEF Plain, Writes
  <2> DEFINE at == IF job[w].kind = "push" THEN "stash" ELSE job[w].kind
  <2>2. CASE job[w].kind \in {"push", "skip", "reset"} /\ Goto(w, at) /\ job' = job
    <3>1. at \in Labels /\ at \notin {"add", "commit"}
          /\ JobOK(job[w], at, Host[w], lost, published)
      BY <1>4, <2>2 DEF JobOK, Labels
    <3> HIDE DEF at
    <3>2. Moves(w, at, job[w])
      BY <2>2, <3>1, GotoMoves
    <3>. QED BY <1>3, <3>1, <3>2 DEF Plain, Writes
  <2>. QED BY <2>1, <2>2 DEF FetchFails
<1>. QED BY <1>2, <1>3, <1>5, PlainKeeps

LEMMA StashInv ==
    ASSUME LedgerInv, NEW w \in Workers, Stash(w)
    PROVE  LedgerInv'
<1>1. RepoInv' /\ Retained
  BY StashKeeps
<1>2. /\ pc[w] = "stash" /\ sent' = sent /\ Monotone
      /\ cooldown' = cooldown /\ cooldown \in [Machines -> BOOLEAN]
  BY DEF Stash, Monotone, remote, ghosts, LedgerInv, JobsTyped
<1>3. Plain(w)
  <2>1. CASE cooldown[Host[w]]
    BY <1>2, <2>1, ReturnMoves DEF Stash
  <2>2. CASE ~cooldown[Host[w]]
    <3>1. PICK did \in BOOLEAN :
            Goto(w, "rebase") /\ job' = [job EXCEPT ![w].stashed = did]
      BY <2>2 DEF Stash
    <3> DEFINE j == [job[w] EXCEPT !.stashed = did]
    <3>2. job[w] \in Jobs /\ job \in [Workers -> Jobs]
          /\ JobOK(job[w], "stash", Host[w], lost, published)
      BY <1>2, AtWork DEF LedgerInv, JobsTyped
    <3>4. job' = [job EXCEPT ![w] = j]
      BY <3>1, <3>2
    <3>5. j \in Jobs /\ JobOK(j, "rebase", Host[w], lost, published)
      BY <3>2 DEF Jobs, JobOK
    <3> HIDE DEF j
    <3>6. Moves(w, "rebase", j)
      BY <3>1, <3>4, <3>5 DEF Moves, Goto, Labels
    <3>. QED BY <1>2, <3>6 DEF Plain, Writes
  <2>. QED BY <2>1, <2>2
<1>. QED BY <1>1, <1>2, <1>3, PlainKeeps

\* After a rebase or its abort: the changes that were stashed are put back.
LEMMA PopOrReturn ==
    ASSUME LedgerInv, NEW w \in Workers, pc[w] \in {"rebase", "abort"}, sent' = sent,
           IF job[w].stashed THEN Goto(w, "pop") /\ UNCHANGED job ELSE Return(w)
    PROVE  Plain(w)
<1>1. CASE job[w].stashed
  <2>1. JobOK(job[w], "pop", Host[w], lost, published)
    BY AtWork DEF JobOK
  <2>2. Moves(w, "pop", job[w])
    BY <1>1, <2>1, GotoMoves DEF Labels
  <2>. QED BY <2>2 DEF Plain, Writes
<1>2. CASE ~job[w].stashed
  BY <1>2, ReturnMoves
<1>. QED BY <1>1, <1>2

LEMMA RebaseInv ==
    ASSUME LedgerInv, NEW w \in Workers, Rebase(w)
    PROVE  LedgerInv'
<1>1. RepoInv' /\ Retained
  BY RebaseActionKeeps
<1>2. /\ pc[w] = "rebase" /\ sent' = sent /\ Monotone
      /\ cooldown' \in [Machines -> BOOLEAN]
  BY DEF Rebase, Monotone, remote, ghosts, LedgerInv, JobsTyped
<1>3. Plain(w)
  BY <1>2, PopOrReturn DEF Rebase
<1>. QED BY <1>1, <1>2, <1>3, PlainKeeps

LEMMA RebaseFailsInv ==
    ASSUME LedgerInv, NEW w \in Workers, RebaseFails(w)
    PROVE  LedgerInv'
<1>1. RepoInv' /\ Retained
  BY RebaseFailsKeeps
<1>2. /\ pc[w] = "rebase" /\ Goto(w, "abort") /\ job' = job /\ sent' = sent /\ Monotone
      /\ cooldown' = cooldown /\ cooldown \in [Machines -> BOOLEAN]
  BY DEF RebaseFails, Monotone, remote, ghosts, LedgerInv, JobsTyped
<1>3. JobOK(job[w], "abort", Host[w], lost, published)
  BY <1>2, AtWork DEF JobOK
<1>4. Moves(w, "abort", job[w])
  BY <1>2, <1>3, GotoMoves DEF Labels
<1>5. Plain(w)
  BY <1>2, <1>4 DEF Plain, Writes
<1>. QED BY <1>1, <1>2, <1>5, PlainKeeps

LEMMA AbortRebaseInv ==
    ASSUME LedgerInv, NEW w \in Workers, AbortRebase(w)
    PROVE  LedgerInv'
<1>1. RepoInv' /\ Retained
  BY AbortRebaseKeeps
<1>2. /\ pc[w] = "abort" /\ sent' = sent /\ Monotone
      /\ cooldown' \in [Machines -> BOOLEAN]
  BY DEF AbortRebase, EndRebase, Monotone, remote, LedgerInv, JobsTyped
<1>3. Plain(w)
  BY <1>2, PopOrReturn DEF AbortRebase
<1>. QED BY <1>1, <1>2, <1>3, PlainKeeps

LEMMA StashPopInv ==
    ASSUME LedgerInv, NEW w \in Workers, StashPop(w)
    PROVE  LedgerInv'
<1>1. RepoInv' /\ Retained
  BY StashPopKeeps
<1>2. /\ pc[w] = "pop" /\ sent' = sent /\ Monotone /\ Return(w)
      /\ cooldown' = cooldown /\ cooldown \in [Machines -> BOOLEAN]
  BY DEF StashPop, Monotone, remote, ghosts, LedgerInv, JobsTyped
<1>3. Plain(w)
  BY <1>2, ReturnMoves
<1>. QED BY <1>1, <1>2, <1>3, PlainKeeps

\* A thread that ends.
LEMMA EndsKeep ==
    ASSUME LedgerInv, NEW w \in Workers, RepoInv', Retained, Monotone, Done(w),
           pc[w] # "readd", sent' = sent, cooldown' \in [Machines -> BOOLEAN]
    PROVE  LedgerInv'
<1>1. Moves(w, "idle", Idle)
  BY DoneMoves
<1>2. Plain(w)
  BY <1>1 DEF Plain, Writes
<1>. QED BY <1>2, PlainKeeps

LEMMA PushInv ==
    ASSUME LedgerInv, NEW w \in Workers, Push(w)
    PROVE  LedgerInv'
<1>1. RepoInv' /\ Retained
  BY PushKeeps
<1>2. pc[w] # "readd" /\ Done(w) /\ sent' = sent /\ Monotone
  BY DEF Push, Monotone, remote, ghosts
<1>3. cooldown' \in [Machines -> BOOLEAN]
  BY DEF Push, LedgerInv, JobsTyped
<1>. QED BY <1>1, <1>2, <1>3, EndsKeep

LEMMA ForcePushInv ==
    ASSUME LedgerInv, NEW w \in Workers, ForcePush(w)
    PROVE  LedgerInv'
<1>1. RepoInv' /\ Retained
  BY ForcePushKeeps
<1>2. pc[w] # "readd" /\ Done(w) /\ sent' = sent /\ Monotone
  BY DEF ForcePush, Monotone, remote
<1>3. cooldown' \in [Machines -> BOOLEAN]
  BY DEF ForcePush, LedgerInv, JobsTyped
<1>. QED BY <1>1, <1>2, <1>3, EndsKeep

LEMMA SkipCommitsInv ==
    ASSUME LedgerInv, NEW w \in Workers, SkipCommits(w)
    PROVE  LedgerInv'
<1>1. RepoInv' /\ Retained
  BY SkipCommitsKeeps
<1>2. pc[w] # "readd" /\ Done(w) /\ sent' = sent /\ Monotone
  BY DEF SkipCommits, Monotone, remote
<1>3. cooldown' \in [Machines -> BOOLEAN]
  BY DEF SkipCommits, LedgerInv, JobsTyped
<1>. QED BY <1>1, <1>2, <1>3, EndsKeep

LEMMA ResetHardInv ==
    ASSUME LedgerInv, NEW w \in Workers, ResetHard(w)
    PROVE  LedgerInv'
<1> DEFINE readded == IF job[w].kind = "reset" THEN {} ELSE job[w].read.lines
<1>1. /\ RepoInv'
      /\ \A n \in Machines \ {Host[w]} : Stored(n) \subseteq Stored(n)'
      /\ Stored(Host[w]) \cap Own(Host[w]) \subseteq Stored(Host[w])' \cup readded
  BY ResetHardKeeps
<1>2. /\ pc[w] = "reset" /\ pc[w] # "readd" /\ sent' = sent /\ Monotone
      /\ sent \subseteq Owed
  BY DEF ResetHard, Monotone, remote, LedgerInv, JobsTyped, Owed
<1>3. cooldown' \in [Machines -> BOOLEAN]
  BY DEF ResetHard, LedgerInv, JobsTyped
<1>4. CASE job[w].kind = "reset"
  <2>1. Done(w)
    BY <1>4 DEF ResetHard
  <2>2. readded = {}
    BY <1>4
  <2> HIDE DEF readded
  <2>3. Retained
    BY <1>1, <2>2 DEF Retained
  <2>. QED BY <1>1, <1>2, <1>3, <2>1, <2>3, EndsKeep
<1>5. CASE job[w].kind # "reset"
  <2>1. Goto(w, "readd") /\ job' = job
    BY <1>5 DEF ResetHard
  <2>2. JobOK(job[w], "readd", Host[w], lost, published)
    BY <1>2, <1>5, AtWork DEF JobOK
  <2>3. Moves(w, "readd", job[w])
    BY <2>1, <2>2, GotoMoves DEF Labels
  <2>4. readded = job[w].read.lines
    BY <1>5
  <2> HIDE DEF readded
  <2>5. \A n \in Machines :
           Stored(n) \cap Own(n) \subseteq
             Stored(n)' \cup (IF n = Host[w] /\ "readd" = "readd" THEN job[w].read.lines ELSE {})
    BY <1>1, <2>4
  <2>6. ~Writes(job[w], "readd")
    BY DEF Writes
  <2>. QED BY <1>1, <1>2, <1>3, <2>3, <2>5, <2>6, MovesKeep
<1>. QED BY <1>4, <1>5


LEMMA ResetFailsInv ==
    ASSUME LedgerInv, NEW w \in Workers, ResetFails(w)
    PROVE  LedgerInv'
<1>1. RepoInv' /\ Retained /\ Monotone
  BY RepoSame DEF ResetFails, ghosts
<1>2. pc[w] # "readd" /\ Done(w) /\ sent' = sent
  BY DEF ResetFails, ghosts
<1>3. cooldown' \in [Machines -> BOOLEAN]
  BY DEF ResetFails, LedgerInv, JobsTyped
<1>. QED BY <1>1, <1>2, <1>3, EndsKeep

LEMMA AppendMissingInv ==
    ASSUME LedgerInv, NEW w \in Workers, AppendMissing(w)
    PROVE  LedgerInv'
<1>1. /\ RepoInv' /\ Retained
      /\ job[w].read.lines \subseteq work'[Host[w]].lines
  BY AppendMissingKeeps
<1>2. /\ pc[w] = "readd" /\ job' = job /\ sent' = sent /\ Monotone
      /\ cooldown' = cooldown /\ cooldown \in [Machines -> BOOLEAN]
      /\ sent \subseteq Owed
  BY DEF AppendMissing, Monotone, remote, ghosts, LedgerInv, JobsTyped, Owed
<1>3. PICK at \in {"push", "add"} : Goto(w, at)
  BY DEF AppendMissing
<1>4. JobOK(job[w], at, Host[w], lost, published) /\ job[w].kind = "content_merge"
  BY <1>2, AtWork DEF JobOK
<1>5. Moves(w, at, job[w])
  BY <1>2, <1>3, <1>4, GotoMoves DEF Labels
<1>6. \A n \in Machines :
         Stored(n) \cap Own(n) \subseteq
           Stored(n)' \cup (IF n = Host[w] /\ at = "readd" THEN job[w].read.lines ELSE {})
  BY <1>1 DEF Retained
<1>7. ~Writes(job[w], at)
  BY <1>4 DEF Writes
<1>. QED BY <1>1, <1>2, <1>5, <1>6, <1>7, MovesKeep

\* The threads stay where they are.
LEMMA NobodyMoves ==
    ASSUME LedgerInv, UNCHANGED <<remote, repo, ghosts, pc, job>>,
           cooldown' \in [Machines -> BOOLEAN]
    PROVE  LedgerInv'
<1>1. RepoInv'
  BY RepoSame DEF ghosts
<1>2. /\ pc' = pc /\ job' = job /\ sent' = sent /\ lost' = lost /\ published' = published
      /\ branch' = branch /\ work' = work /\ stash' = stash
  BY DEF remote, repo, ghosts
<1>3. JobsTyped'
  BY <1>2 DEF LedgerInv, JobsTyped
<1>4. JobsOK'
  BY <1>2 DEF LedgerInv, JobsOK
<1>5. OwedHeld'
  BY <1>2 DEF LedgerInv, OwedHeld, Owed, Stored, BeingMerged, Tip
<1>. QED BY <1>1, <1>3, <1>4, <1>5 DEF LedgerInv

LEMMA CooldownOverInv ==
    ASSUME LedgerInv, NEW m \in Machines, CooldownOver(m)
    PROVE  LedgerInv'
<1>1. cooldown' \in [Machines -> BOOLEAN]
  BY DEF CooldownOver, LedgerInv, JobsTyped
<1>. QED BY <1>1, NobodyMoves DEF CooldownOver

\* What a content merge held when the server died is given up.
LEMMA CrashInv ==
    ASSUME LedgerInv, NEW m \in Machines, Crash(m)
    PROVE  LedgerInv'
<1>1. /\ UNCHANGED <<remote, repo, committed>> /\ sent' = sent
      /\ lost' = lost \cup BeingMerged(m)
      /\ pc' = [w \in Workers |-> IF Host[w] = m THEN "idle" ELSE pc[w]]
      /\ job' = [w \in Workers |-> IF Host[w] = m THEN Idle ELSE job[w]]
      /\ cooldown' = [cooldown EXCEPT ![m] = FALSE]
  BY DEF Crash
<1>2. /\ pc \in [Workers -> Labels] /\ job \in [Workers -> Jobs]
      /\ cooldown \in [Machines -> BOOLEAN] /\ sent \subseteq Messages \cup Snapshots
  BY DEF LedgerInv, JobsTyped
<1>3. BeingMerged(m) \subseteq Messages
  BY <1>2 DEF BeingMerged, Jobs, Trees
<1>4. lost \subseteq lost' /\ lost' \subseteq Messages \cup Snapshots /\ published' = published
  BY <1>1, <1>3 DEF LedgerInv, RepoInv, RepoTyped, remote
<1>5. RepoInv' /\ Retained
  BY <1>1, <1>4, LostMore DEF LedgerInv
<1>6. JobsTyped'
  <2>1. Idle \in Jobs
    BY Given
  <2>2. pc' \in [Workers -> Labels]
    BY <1>1, <1>2 DEF Labels
  <2>3. job' \in [Workers -> Jobs]
    BY <1>1, <1>2, <2>1
  <2>4. cooldown' \in [Machines -> BOOLEAN]
    BY <1>1, <1>2
  <2>. QED BY <1>1, <1>2, <2>2, <2>3, <2>4 DEF JobsTyped
<1>7. JobsOK'
  <2> SUFFICES ASSUME NEW w \in Workers
               PROVE  JobOK(job'[w], pc'[w], Host[w], lost', published')
    BY DEF JobsOK
  <2>1. CASE Host[w] = m
    BY <1>1, <2>1, Given
  <2>2. CASE Host[w] # m
    <3>1. job'[w] = job[w] /\ pc'[w] = pc[w]
      BY <1>1, <2>2
    <3>2. JobOK(job[w], pc[w], Host[w], lost, published)
      BY AtWork
    <3>3. Known(Host[w], lost, published) \subseteq Known(Host[w], lost', published')
      BY <1>4, MoreShared
    <3>. QED BY <3>1, <3>2, <3>3 DEF JobOK
  <2>. QED BY <2>1, <2>2
<1>8. OwedHeld'
  <2> SUFFICES ASSUME NEW x \in Owed'
               PROVE  x \in Stored(Writer[x])' \cup BeingMerged(Writer[x])'
    BY DEF OwedHeld
  <2>1. x \in Owed
    <3>1. CASE x \in sent'
      BY <1>1, <3>1 DEF Owed
    <3>2. CASE x \notin sent'
      <4>1. PICK w \in Workers : Writes(job'[w], pc'[w]) /\ job'[w].msg = x
        BY <3>2 DEF Owed
      <4>2. Host[w] # m /\ x \in Messages \cup Snapshots
        BY <1>1, <3>2, <4>1 DEF Owed, Writes
      <4>. QED BY <1>1, <4>1, <4>2 DEF Owed
    <3>. QED BY <3>1, <3>2
  <2>2. x \in Messages \cup Snapshots /\ Writer[x] \in Machines /\ x \in Own(Writer[x])
    BY <1>2, <2>1 DEF Owed, Own
  <2>3. x \in Stored(Writer[x]) \cup BeingMerged(Writer[x])
    BY <2>1 DEF LedgerInv, OwedHeld
  <2>4. CASE x \in Stored(Writer[x])
    BY <1>5, <2>2, <2>4 DEF Retained
  <2>5. CASE x \in BeingMerged(Writer[x]) /\ Writer[x] = m
    BY <1>1, <2>5 DEF Stored
  <2>6. CASE x \in BeingMerged(Writer[x]) /\ Writer[x] # m
    <3>1. PICK w \in Workers : /\ Host[w] = Writer[x] /\ pc[w] = "readd"
                               /\ x \in job[w].read.lines \ {File}
      BY <2>6 DEF BeingMerged
    <3>2. pc'[w] = pc[w] /\ job'[w] = job[w]
      BY <1>1, <2>6, <3>1
    <3>. QED BY <3>1, <3>2 DEF BeingMerged
  <2>. QED BY <2>3, <2>4, <2>5, <2>6
<1>. QED BY <1>5, <1>6, <1>7, <1>8 DEF LedgerInv

(***************************************************************************)
(* The theorems                                                            *)
(***************************************************************************)

LEMMA InitInv == Init => LedgerInv
<1> SUFFICES ASSUME Init PROVE LedgerInv
  OBVIOUS
<1>1. PICK t \in {None, Founder} : origin = << [Empty EXCEPT !.thread = t] >>
  BY DEF Init
<1> DEFINE root == [Empty EXCEPT !.thread = t]
<1>2. root \in Trees /\ root.lines = {} /\ root.snaps = {}
  BY DEF Empty, Trees
<1> HIDE DEF root
<1>3. /\ origin = <<root>> /\ origin \in Seq(Trees) \ {<< >>} /\ origin[1] = root
      /\ Last(origin) = root /\ Len(origin) = 1
  BY <1>1, <1>2 DEF root, Last
<1>4. /\ tracking = [m \in Machines |-> origin]
      /\ branch = [m \in Machines |-> origin]
      /\ work = [m \in Machines |-> Last(origin)]
      /\ index = [m \in Machines |-> Last(origin)]
      /\ onto = [m \in Machines |-> << >>]
      /\ stash = [m \in Machines |-> << >>]
      /\ cooldown = [m \in Machines |-> FALSE]
      /\ pc = [w \in Workers |-> "idle"]
      /\ job = [w \in Workers |-> Idle]
      /\ sent = {} /\ committed = {} /\ published = {} /\ lost = {}
  BY DEF Init
<1> HIDE DEF Init
<1>5. RepoTyped
  BY <1>2, <1>3, <1>4 DEF RepoTyped
<1>6. \A k : Over(origin, k)
  BY <1>2, <1>3 DEF Over
<1>7. Growing(origin, lost)
  <2>1. \A i \in 1..Len(origin) : origin[i] = root
    BY <1>3
  <2>2. \A i, j \in 1..Len(origin) : Within(origin[i], origin[j], lost)
    BY <2>1 DEF Within
  <2>3. \A i \in 1..Len(origin) : Exists(origin[i])
    BY <1>2, <2>1 DEF Exists
  <2>. QED BY <2>2, <2>3 DEF Growing
<1>8. BranchesOK
  BY <1>4, <1>6, <1>7 DEF BranchesOK, RemoteOK, BranchOK, Stopped
<1>9. WorkOK
  <2> SUFFICES ASSUME NEW m \in Machines
               PROVE  /\ FilesOK(work[m], index[m], Tip(m), m, ~Stopped(m), lost, published)
                      /\ \A i \in 1..Len(stash[m]) : EntryOK(stash[m][i], m, lost, published)
    BY DEF WorkOK
  <2>1. work[m] = root /\ index[m] = root /\ Tip(m) = root /\ stash[m] = << >>
    BY <1>3, <1>4 DEF Tip
  <2>2. 1..Len(stash[m]) = {}
    BY <2>1
  <2>. QED BY <1>2, <2>1, <2>2 DEF FilesOK, Exists, Within
<1>10. SharedKept
  BY <1>4 DEF SharedKept
<1>11. JobsTyped
  <2>1. Idle \in Jobs
    BY Given
  <2>. QED BY <1>4, <2>1 DEF JobsTyped, Labels
<1>12. JobsOK
  BY <1>4, Given DEF JobsOK
<1>13. OwedHeld
  BY <1>4 DEF OwedHeld, Owed, Writes
<1>. QED BY <1>5, <1>8, <1>9, <1>10, <1>11, <1>12, <1>13 DEF LedgerInv, RepoInv


LEMMA CommandInv ==
    ASSUME LedgerInv, NEW w \in Workers, Command(w)
    PROVE  LedgerInv'
<1>1. CASE EnsureThread(w) \/ AppendLine(w) \/ AddFile(w) \/ CommitIndex(w) \/ Rewrite(w)
  BY <1>1, EnsureThreadInv, AppendLineInv, AddFileInv, CommitIndexInv, RewriteInv
<1>2. CASE AbortFirst(w) \/ FetchOk(w) \/ FetchFails(w) \/ Stash(w)
  BY <1>2, AbortFirstInv, FetchOkInv, FetchFailsInv, StashInv
<1>3. CASE Rebase(w) \/ RebaseFails(w) \/ AbortRebase(w) \/ StashPop(w)
  BY <1>3, RebaseInv, RebaseFailsInv, AbortRebaseInv, StashPopInv
<1>4. CASE Push(w) \/ ForcePush(w) \/ SkipCommits(w)
  BY <1>4, PushInv, ForcePushInv, SkipCommitsInv
<1>5. CASE ResetHard(w) \/ ResetFails(w) \/ AppendMissing(w)
  BY <1>5, ResetHardInv, ResetFailsInv, AppendMissingInv
<1>. QED BY <1>1, <1>2, <1>3, <1>4, <1>5 DEF Command

LEMMA StepInv == LedgerInv /\ [Next]_vars => LedgerInv'
<1> SUFFICES ASSUME LedgerInv, [Next]_vars PROVE LedgerInv'
  OBVIOUS
<1>1. ASSUME NEW w \in Workers, Command(w) PROVE LedgerInv'
  BY <1>1, CommandInv
<1>2. ASSUME NEW w \in Workers, StartPoll(w) PROVE LedgerInv'
  BY <1>2, StartPollInv
<1>3. ASSUME NEW w \in Workers, NEW x \in Messages, StartSend(w, x) \/ StartDelete(w, x)
      PROVE  LedgerInv'
  BY <1>3, StartSendInv, StartDeleteInv
<1>4. ASSUME NEW w \in Workers, NEW x \in Snapshots, WriteSnapshot(w, x) PROVE LedgerInv'
  BY <1>4, WriteSnapshotInv
<1>5. ASSUME NEW w \in Workers, NEW action \in Resolutions, StartResolve(w, action)
      PROVE  LedgerInv'
  BY <1>5, StartResolveInv
<1>6. ASSUME NEW m \in Machines, CooldownOver(m) \/ Crash(m) PROVE LedgerInv'
  BY <1>6, CooldownOverInv, CrashInv
<1>7. CASE UNCHANGED vars
  <2>1. cooldown' \in [Machines -> BOOLEAN]
    BY <1>7 DEF vars, LedgerInv, JobsTyped
  <2>. QED BY <1>7, <2>1, NobodyMoves DEF vars
<1>. QED BY <1>1, <1>2, <1>3, <1>4, <1>5, <1>6, <1>7 DEF Next

\* What the invariant says of the properties.
LEMMA Consequences == LedgerInv => TypeOK /\ Kept /\ Published /\ Held
<1> SUFFICES ASSUME LedgerInv PROVE TypeOK /\ Kept /\ Published /\ Held
  OBVIOUS
<1>1. TypeOK
  BY TypeParts DEF LedgerInv, RepoInv
<1>2. Kept /\ Published
  BY DEF LedgerInv, RepoInv, SharedKept, Kept, Published
<1>3. Held
  <2> SUFFICES ASSUME NEW x \in sent
               PROVE  \/ x \in Items(Tip(Writer[x])) \cup Items(work[Writer[x]])
                               \cup BeingMerged(Writer[x]) \cup lost
                      \/ \E i \in 1..Len(stash[Writer[x]]) :
                             x \in stash[Writer[x]][i].lines \cup stash[Writer[x]][i].snaps
    BY DEF Held
  <2>1. x \in Messages \cup Snapshots /\ Writer[x] \in Machines
    BY DEF LedgerInv, JobsTyped
  <2>2. x \in Stored(Writer[x]) \cup BeingMerged(Writer[x])
    BY DEF LedgerInv, OwedHeld, Owed
  <2>3. Tip(Writer[x]) \in Trees /\ work[Writer[x]] \in Trees
    BY <2>1, TipOK, FileOK DEF LedgerInv
  <2>. QED BY <2>1, <2>2, <2>3, ItemsOf DEF Stored, Adds
<1>. QED BY <1>1, <1>2, <1>3

LEMMA Invariance == Spec => []LedgerInv
BY InitInv, StepInv, PTL DEF Spec

\* Type correctness: a branch is never empty, a stash entry has a base and lines,
\* every thread has a command and a job (worktree.py:95-160, chat_ops.py:95-110).
THEOREM TypeCorrect == Spec => []TypeOK
BY Invariance, Consequences, PTL

\* What a machine has committed is in its branch over every fetch, rebase, skip,
\* push and crash of any threads (worktree.py:95-160), unless it was given up: a
\* rebase that picks or drops commits gives a branch that has what either side had.
THEOREM CommittedKept == Spec => []Kept
BY Invariance, Consequences, PTL

\* What the remote once had it keeps over every push of any machine
\* (worktree.py:1071-1104), unless it was deleted or a push was forced.
THEOREM PublishedKept == Spec => []Published
BY Invariance, Consequences, PTL

\* A message or a snapshot whose request was answered (chat_ops.py:238-241,
\* ledger_ops.py:100) is in the branch, the worktree or the stash of its machine,
\* or held by a content merge, whatever the other threads do between its write,
\* its add and its commit, and whether or not index.lock let these through
\* (worktree.py:117-157, 973-982), unless it was given up.
THEOREM AnsweredHeld == Spec => []Held
BY Invariance, Consequences, PTL
=============================================================================
