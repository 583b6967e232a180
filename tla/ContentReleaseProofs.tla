------------------------ MODULE ContentReleaseProofs ------------------------
(***************************************************************************)
(* What is marked as backed up is on the release, for any files, folders,  *)
(* threads and numbers of requests, cancellations and crashes.             *)
(***************************************************************************)
EXTENDS ContentRelease, SequenceTheorems, TLAPS

(***************************************************************************)
(* The steps of a request                                                  *)
(***************************************************************************)

Dos   == {"write", "rename", "newmeta", "movemeta", "drop", "unside", "unlink", "start", "meta"}
Steps == {s \in [do : Dos, from : Paths, to : Paths, kind : {"content", "backup"}] :
            s.do \in {"rename", "newmeta", "movemeta"} => {s.from, s.to} \cap Archives = {}}

\* A step that is never the last one.
Opens(s) == s.do \in {"rename", "newmeta", "drop", "start"}

\* Step r comes right after step s.
Linked(s, r) ==
    /\ r.do # "write"
    /\ s.do = "start" <=> r.do = "meta"
    /\ s.do = "start" => r.to = s.to /\ r.kind = s.kind
    /\ s.do = "rename" <=> r.do \in {"newmeta", "movemeta"}
    /\ s.do = "rename" => r.from = s.from /\ r.to = s.to /\ s.from # s.to
    /\ s.do = "drop" => r.do = "unside" /\ r.to = s.to
    /\ s.do = "newmeta" => r.do = "unside" /\ r.to = s.from

Chain(s) ==
    /\ s \in Seq(Steps)
    /\ \A k \in 1..(Len(s) - 1) : Linked(s[k], s[k + 1])
    /\ s # << >> => ~Opens(s[Len(s)])

\* What a chain goes on with.
LEMMA TailChain ==
    ASSUME NEW s, Chain(s), s # << >>
    PROVE  /\ Head(s) \in Steps /\ Chain(Tail(s))
           /\ Opens(Head(s)) => Tail(s) # << >>
           /\ Tail(s) # << >> => Linked(Head(s), Head(Tail(s))) /\ Head(Tail(s)) \in Steps
<1>1. /\ s \in Seq(Steps) /\ Len(s) \in Nat /\ Len(s) >= 1 /\ Head(s) = s[1] /\ Head(s) \in Steps
      /\ Tail(s) \in Seq(Steps) /\ Len(Tail(s)) = Len(s) - 1
      /\ \A k \in 1..(Len(s) - 1) : Tail(s)[k] = s[k + 1]
  BY DEF Chain
<1>2. \A k \in 1..(Len(Tail(s)) - 1) : Linked(Tail(s)[k], Tail(s)[k + 1])
  <2> SUFFICES ASSUME NEW k \in 1..(Len(Tail(s)) - 1)
               PROVE  Linked(Tail(s)[k], Tail(s)[k + 1])
    OBVIOUS
  <2>1. /\ k + 1 \in 1..(Len(s) - 1) /\ k \in 1..(Len(s) - 1)
        /\ Tail(s)[k] = s[k + 1] /\ Tail(s)[k + 1] = s[(k + 1) + 1]
    BY <1>1
  <2>. QED BY <2>1 DEF Chain
<1>3. ASSUME Tail(s) # << >>
      PROVE  /\ ~Opens(Tail(s)[Len(Tail(s))])
             /\ Linked(Head(s), Head(Tail(s))) /\ Head(Tail(s)) \in Steps
  <2>1. Len(s) - 1 >= 1
    BY <1>1, <1>3
  <2>2. Tail(s)[Len(Tail(s))] = s[Len(s)] /\ Head(Tail(s)) = s[2] /\ 1 \in 1..(Len(s) - 1)
    BY <1>1, <1>3, <2>1
  <2>3. Linked(s[1], s[1 + 1]) /\ s[2] \in Steps
    BY <1>1, <2>1, <2>2 DEF Chain
  <2>. QED BY <1>1, <2>2, <2>3 DEF Chain
<1>4. Opens(Head(s)) => Tail(s) # << >>
  <2> SUFFICES ASSUME Tail(s) = << >> PROVE ~Opens(Head(s))
    OBVIOUS
  <2>1. Len(Tail(s)) = 0
    BY <1>1, EmptySeq
  <2>2. \A n \in Nat : n - 1 = 0 => n = 1
    OBVIOUS
  <2>3. Len(s) = 1
    BY <1>1, <2>1, <2>2
  <2>. QED BY <1>1, <2>3 DEF Chain
<1>. QED BY <1>1, <1>2, <1>3, <1>4 DEF Chain

LEMMA JoinChains ==
    ASSUME NEW s, NEW r, Chain(s), Chain(r),
           r # << >> => Head(r).do \notin {"write", "newmeta", "movemeta", "meta"}
    PROVE  Chain(s \o r)
<1> DEFINE c == s \o r
<1>1. /\ s \in Seq(Steps) /\ r \in Seq(Steps) /\ Len(s) \in Nat /\ Len(r) \in Nat
      /\ c \in Seq(Steps) /\ Len(c) = Len(s) + Len(r)
      /\ \A k \in 1..Len(s) : c[k] = s[k]
      /\ \A k \in 1..Len(r) : c[Len(s) + k] = r[k]
      /\ r = << >> => c = s
      /\ s = << >> => c = r
  BY DEF Chain
<1> HIDE DEF c
<1>2. CASE s = << >> \/ r = << >>
  BY <1>1, <1>2 DEF c
<1>3. CASE s # << >> /\ r # << >>
  <2>1. Len(s) >= 1 /\ Len(r) >= 1 /\ Head(r) = r[1]
    BY <1>1, <1>3
  <2>2. ~Opens(c[Len(c)])
    <3>1. c[Len(c)] = r[Len(r)]
      BY <1>1, <2>1
    <3>. QED BY <1>3, <3>1 DEF Chain
  <2>3. ASSUME NEW k \in 1..(Len(c) - 1) PROVE Linked(c[k], c[k + 1])
    <3>1. CASE k < Len(s)
      <4>1. k \in 1..(Len(s) - 1) /\ c[k] = s[k] /\ c[k + 1] = s[k + 1]
        BY <1>1, <3>1
      <4>. QED BY <4>1 DEF Chain
    <3>2. CASE k = Len(s)
      <4>1. c[k] = s[Len(s)] /\ c[k + 1] = r[1] /\ s[Len(s)] \in Steps /\ r[1] \in Steps
        BY <1>1, <2>1, <3>2
      <4>2. ~Opens(s[Len(s)]) /\ r[1].do \notin {"write", "newmeta", "movemeta", "meta"}
        BY <1>3, <2>1 DEF Chain
      <4>. QED BY <4>1, <4>2 DEF Linked, Opens
    <3>3. CASE k > Len(s)
      <4> DEFINE d == k - Len(s)
      <4>1. /\ d \in 1..(Len(r) - 1) /\ d \in 1..Len(r) /\ d + 1 \in 1..Len(r)
            /\ k = Len(s) + d /\ k + 1 = Len(s) + (d + 1)
        BY <1>1, <3>3
      <4> HIDE DEF d
      <4>2. c[k] = r[d] /\ c[k + 1] = r[d + 1]
        BY <1>1, <4>1
      <4>. QED BY <4>1, <4>2 DEF Chain
    <3>. QED BY <1>1, <3>1, <3>2, <3>3
  <2>. QED BY <1>1, <2>2, <2>3 DEF Chain, c
<1>. QED BY <1>2, <1>3

\* The parts of which requests are made.
LEMMA Parts ==
    ASSUME NEW p \in Paths, NEW q \in Paths, NEW kind \in {"content", "backup"}
    PROVE  /\ Chain(<<At("write", p)>>) /\ Chain(<<At("unlink", p)>>) /\ Chain(<<At("unside", p)>>)
           /\ Chain(Cleanup(p)) /\ Chain(StartUpload(p, kind)) /\ Chain(<< >>)
           /\ p # q /\ {p, q} \cap Archives = {} =>
                       /\ Chain(<<Step("rename", p, q, "content"), Step("newmeta", p, q, "content"),
                                  At("unside", p)>>)
                       /\ Chain(<<Step("rename", p, q, "content"),
                                  Step("movemeta", p, q, "content")>>)
<1>1. /\ \A do \in Dos \ {"rename", "newmeta", "movemeta"} :
           At(do, p) \in Steps /\ Step(do, p, p, kind) \in Steps
      /\ {p, q} \cap Archives = {} => \A do \in Dos : Step(do, p, q, "content") \in Steps
  BY DEF At, Step, Steps
<1>2. \A s \in Steps : ~Opens(s) => Chain(<<s>>)
  BY DEF Chain
<1>3. \A s, r \in Steps : Linked(s, r) /\ ~Opens(r) => Chain(<<s, r>>)
  <2> SUFFICES ASSUME NEW s \in Steps, NEW r \in Steps, Linked(s, r), ~Opens(r)
               PROVE  Chain(<<s, r>>)
    OBVIOUS
  <2>1. <<s, r>> \in Seq(Steps) /\ Len(<<s, r>>) = 2 /\ <<s, r>>[1] = s /\ <<s, r>>[2] = r
    OBVIOUS
  <2>2. \A k \in 1..(2 - 1) : k = 1
    OBVIOUS
  <2>. QED BY <2>1, <2>2 DEF Chain
<1>4. Chain(<<At("write", p)>>) /\ Chain(<<At("unlink", p)>>) /\ Chain(<<At("unside", p)>>)
  BY <1>1, <1>2 DEF At, Step, Opens, Dos
<1>5. Chain(Cleanup(p))
  BY <1>1, <1>3 DEF Cleanup, At, Step, Opens, Linked, Dos
<1>6. Chain(StartUpload(p, kind))
  BY <1>1, <1>3 DEF StartUpload, Step, Opens, Linked, Dos
<1>7. Chain(<< >>)
  BY DEF Chain
<1>8. ASSUME p # q, {p, q} \cap Archives = {}
      PROVE  /\ Chain(<<Step("rename", p, q, "content"), Step("newmeta", p, q, "content"),
                        At("unside", p)>>)
             /\ Chain(<<Step("rename", p, q, "content"), Step("movemeta", p, q, "content")>>)
  <2> DEFINE s == Step("rename", p, q, "content")
             r == Step("newmeta", p, q, "content")
             u == At("unside", p)
  <2>1. s \in Steps /\ r \in Steps /\ u \in Steps
    BY <1>1, <1>8 DEF Dos
  <2>2. Linked(s, r) /\ Linked(r, u) /\ ~Opens(u)
    BY <1>8 DEF Linked, Opens, At, Step
  <2>3. Chain(<<Step("rename", p, q, "content"), Step("movemeta", p, q, "content")>>)
    BY <1>1, <1>3, <1>8 DEF Step, Opens, Linked, Dos
  <2> HIDE DEF s, r, u
  <2>4. /\ <<s, r, u>> \in Seq(Steps) /\ Len(<<s, r, u>>) = 3
        /\ <<s, r, u>>[1] = s /\ <<s, r, u>>[2] = r /\ <<s, r, u>>[3] = u
    BY <2>1
  <2>5. \A k \in 1..(3 - 1) : k = 1 \/ k = 2
    OBVIOUS
  <2>6. Chain(<<s, r, u>>)
    BY <2>2, <2>4, <2>5 DEF Chain
  <2>. QED BY <2>3, <2>6 DEF s, r, u
<1>. QED BY <1>4, <1>5, <1>6, <1>7, <1>8

(***************************************************************************)
(* The inductive invariant                                                 *)
(***************************************************************************)

\* What a request does next.
Nexts(do)  == todo # << >> /\ Head(todo).do = do
Waits(p)   == Nexts("meta") /\ To = p
Going(p)   == Nexts("unside") /\ To = p
Leaving(p) == (Nexts("newmeta") \/ Nexts("movemeta")) /\ From = p

\* The sidecar at p names asset n, for the upload i, or the one about to be
\* written there will.
Keyed(p, n)    == side[p] # None /\ side[p].key = n
Begun(p, n)    == Waits(p) /\ Asset(p) = n
Ided(p, n, i)  == (Keyed(p, n) /\ side[p].id = i) \/ (Begun(p, n) /\ Id = i)
Holds(p, n)    == Keyed(p, n) \/ Begun(p, n)

\* The content that the sidecar at p is about: a file that was renamed is ahead
\* of its sidecar.
Content(p) == IF Leaving(p) THEN file[To] ELSE file[p]

\* The sidecar at p says "done", or will when a listing has looked at it.
Sure(p) ==
    \/ side[p].status = "done"
    \/ status[side[p].id] = "done"
    \/ listed # None /\ listed.done /\ listed.path = p /\ Same(side[p], listed.meta)

\* It is known that asset n is on the release for the file at p, and is to stay.
Finished(p, n) == \/ Keyed(p, n) /\ Sure(p) /\ ~Going(p) /\ ~Begun(p, n)
                  \/ Begun(p, n) /\ status[Id] = "done"

\* Thread t is uploading asset n; a thread with job j, files f and assets r has
\* so far uploaded nothing but c.
On(t, n) == job[t].pc # "idle" /\ Asset(job[t].path) = n
Uploads(j, f, r, c) ==
    /\ j.gh \in {"none", "opening"} => f[j.path] \in {Absent, c}
    /\ j.gh = "sending" => j.data = c
    /\ j.gh = "ok" => r[Asset(j.path)] = c

\* An asset is dealt with by one thread or deletion, and what a thread uploads is
\* what a sidecar that names the asset is about, unless that file is gone.
ThreadOK(n) ==
    \A t \in Threads : On(t, n) =>
        /\ n \notin deleting
        /\ \A u \in Threads \ {t} : ~On(u, n)
        /\ \A p \in Paths : Holds(p, n) =>
             Content(p) = Absent \/ Uploads(job[t], file, remote, Content(p))

\* When an upload is known to be done nobody changes the asset any more, and it
\* is what the sidecar is about, unless that file is gone.
DoneOK(n) ==
    \A p \in Paths : Finished(p, n) =>
        /\ n \notin deleting
        /\ \A t \in Threads : On(t, n) => job[t].pc \in {"mark", "save"}
        /\ Content(p) \in {Absent, remote[n]}

\* An upload with the id that a sidecar of the asset has is an upload of it.
IdOK(n) == \A t \in Threads, p \in Paths : Ided(p, n, job[t].id) => On(t, n)

AssetOK(n) == ThreadOK(n) /\ DoneOK(n) /\ IdOK(n)
AssetsOK   == \A n \in Names \ mixed : AssetOK(n)

\* The steps of a request, the room for a write, and the place a file has left.
TodoOK ==
    /\ Chain(todo) /\ written \in 0..MaxWrites
    /\ Nexts("write") => written < MaxWrites
    /\ \A p \in Paths : Leaving(p) => To # p /\ file[p] = Absent

Labels == {"idle", "queued", "begin", "view", "register", "poll", "mark", "save", "orphan"}
Jobs   == [pc : Labels, id : Ids \cup {None}, path : Paths \cup {None}, meta : Sidecars,
           gh : {"none", "opening", "sending", "ok", "failed", "killed"}, data : 0..MaxWrites]

\* What a thread has at each place.
JobOK(j) ==
    /\ j.pc = "idle" => j = Idle
    /\ j.pc # "idle" => j.path \in Paths
    /\ j.pc \in {"idle", "orphan"} <=> j.id = None
    /\ j.pc \in {"queued", "begin", "view"} => j.gh = "none"
    /\ j.gh \in {"opening", "sending"} => j.pc \in {"register", "poll", "orphan"}
    /\ j.pc = "save" => j.meta # None

JobsOK == \A t \in Threads : JobOK(job[t])

ReleaseInv == TypeOK /\ TodoOK /\ JobsOK /\ AssetsOK

(***************************************************************************)
(* What keeps the assets                                                   *)
(***************************************************************************)

LEMMA Types ==
    ASSUME TypeOK
    PROVE  /\ job \in [Threads -> Jobs] /\ Idle \in Jobs /\ JobOK(Idle)
           /\ \A p \in Paths : Asset(p) \in Names
           /\ None \notin Ids /\ None \notin Statuses
BY ReleaseAssumption DEF TypeOK, Jobs, Labels, Idle, JobOK, Asset, Sidecars, Absent

\* What the next step of a request, and the sidecars, say of an asset.
LEMMA Held ==
    ASSUME NEW p, NEW n
    PROVE  /\ Holds(p, n) => \E i : Ided(p, n, i)
           /\ \A i : Ided(p, n, i) => Holds(p, n)
BY DEF Holds, Ided

\* A step of a request that leaves threads and release alone: what a sidecar is
\* about is what some sidecar of the asset was about, or gone.
LEMMA FilesMove ==
    ASSUME AssetsOK, UNCHANGED <<job, remote, deleting>>, mixed \subseteq mixed',
           \A n \in Names \ mixed' :
             /\ \A p \in Paths : \A i : Ided(p, n, i)' =>
                  \E o \in Paths : Ided(o, n, i) /\ Content(p)' \in {Content(o), Absent}
             /\ \A p \in Paths : Finished(p, n)' =>
                  \E o \in Paths : Finished(o, n) /\ Content(p)' \in {Content(o), Absent}
             /\ \A t \in Threads : On(t, n) => file'[job[t].path] \in {file[job[t].path], Absent}
    PROVE  AssetsOK'
<1> SUFFICES ASSUME NEW n \in Names \ mixed' PROVE AssetOK(n)'
  BY DEF AssetsOK
<1>1. AssetOK(n) /\ job' = job /\ remote' = remote /\ deleting' = deleting
  BY DEF AssetsOK
<1>2. \A t \in Threads : On(t, n)' <=> On(t, n)
  BY <1>1 DEF On
<1>3. ASSUME NEW t \in Threads, On(t, n), NEW p \in Paths, Holds(p, n)'
      PROVE  Content(p)' = Absent \/ Uploads(job'[t], file', remote', Content(p)')
  <2>0. PICK i : Ided(p, n, i)'
    BY <1>3 DEF Holds, Ided
  <2>1. PICK o \in Paths : Ided(o, n, i) /\ Content(p)' \in {Content(o), Absent}
    BY <2>0
  <2>2. Content(o) = Absent \/ Uploads(job[t], file, remote, Content(o))
    BY <1>1, <1>3, <2>1, Held DEF AssetOK, ThreadOK
  <2>3. CASE Content(p)' = Content(o) /\ Uploads(job[t], file, remote, Content(o))
    <3>1. file'[job[t].path] \in {file[job[t].path], Absent}
      BY <1>3
    <3>. QED BY <1>1, <2>3, <3>1 DEF Uploads
  <2>. QED BY <2>1, <2>2, <2>3
<1>4. ThreadOK(n)'
  BY <1>1, <1>2, <1>3 DEF AssetOK, ThreadOK
<1>5. DoneOK(n)'
  BY <1>1, <1>2 DEF AssetOK, DoneOK
<1>6. IdOK(n)'
  BY <1>1, <1>2 DEF AssetOK, IdOK
<1>. QED BY <1>4, <1>5, <1>6 DEF AssetOK

\* A step of threads, or of their gh, that leaves files and release alone: each
\* goes on with its asset, or is gone, and nothing more is known to be done.
LEMMA ThreadsMove ==
    ASSUME AssetsOK, UNCHANGED <<file, remote, deleting>>, mixed \subseteq mixed',
           \A n \in Names \ mixed' : \A p \in Paths :
             /\ \A i : i # None /\ Ided(p, n, i)' => Ided(p, n, i)
             /\ Finished(p, n)' => Finished(p, n)
             /\ Holds(p, n)' => Holds(p, n)
             /\ Holds(p, n)' => Content(p)' \in {Content(p), Absent}
             /\ ~Ided(p, n, None)',
           \A u \in Threads :
             \/ job'[u].pc = "idle" /\ job'[u].id = None
             \/ /\ job[u].pc # "idle" /\ job'[u].pc # "idle" /\ job'[u].path = job[u].path
                /\ job'[u].id \in {job[u].id, None}
                /\ job[u].pc \in {"mark", "save"} => job'[u].pc \in {"mark", "save"}
                /\ \/ job'[u].gh = job[u].gh /\ job'[u].data = job[u].data
                   \/ job'[u].gh \in {"failed", "killed"}
                   \/ job'[u].gh = "opening" /\ job[u].gh = "none"
    PROVE  AssetsOK'
<1> SUFFICES ASSUME NEW n \in Names \ mixed' PROVE AssetOK(n)'
  BY DEF AssetsOK
<1>1. AssetOK(n) /\ file' = file /\ remote' = remote /\ deleting' = deleting
  BY DEF AssetsOK
<1>2. \A u \in Threads : On(u, n)' => On(u, n) /\ job'[u].pc # "idle"
  BY DEF On
<1>3. ASSUME NEW u \in Threads, job'[u].pc # "idle", NEW c, Uploads(job[u], file, remote, c)
      PROVE  Uploads(job'[u], file', remote', c)
  BY <1>1, <1>3 DEF Uploads
<1>4. ThreadOK(n)'
  <2>1. ASSUME NEW u \in Threads, On(u, n)', NEW p \in Paths, Holds(p, n)'
        PROVE  Content(p)' = Absent \/ Uploads(job'[u], file', remote', Content(p)')
    <3>1. On(u, n) /\ Holds(p, n) /\ Content(p)' \in {Content(p), Absent}
      BY <1>2, <2>1
    <3>2. Content(p) = Absent \/ Uploads(job[u], file, remote, Content(p))
      BY <1>1, <3>1 DEF AssetOK, ThreadOK
    <3>. QED BY <1>2, <1>3, <2>1, <3>1, <3>2
  <2>2. ASSUME NEW u \in Threads, On(u, n)'
        PROVE  n \notin deleting' /\ \A v \in Threads \ {u} : ~On(v, n)'
    BY <1>1, <1>2, <2>2 DEF AssetOK, ThreadOK
  <2>. QED BY <2>1, <2>2 DEF ThreadOK
<1>5. DoneOK(n)'
  <2>1. ASSUME NEW p \in Paths, Finished(p, n)'
        PROVE  /\ n \notin deleting'
               /\ \A t \in Threads : On(t, n)' => job'[t].pc \in {"mark", "save"}
               /\ Content(p)' \in {Absent, remote'[n]}
    <3>1. Finished(p, n) /\ Content(p)' \in {Content(p), Absent}
      <4>1. Holds(p, n)'
        BY <2>1 DEF Finished, Holds
      <4>. QED BY <2>1, <4>1
    <3>2. /\ n \notin deleting /\ Content(p) \in {Absent, remote[n]}
          /\ \A t \in Threads : On(t, n) => job[t].pc \in {"mark", "save"}
      BY <1>1, <3>1 DEF AssetOK, DoneOK
    <3>3. ASSUME NEW t \in Threads, On(t, n)' PROVE job'[t].pc \in {"mark", "save"}
      BY <1>2, <3>2, <3>3
    <3>. QED BY <1>1, <3>1, <3>2, <3>3
  <2>. QED BY <2>1 DEF DoneOK
<1>6. IdOK(n)'
  <2>1. ASSUME NEW t \in Threads, NEW p \in Paths, Ided(p, n, job[t].id)'
        PROVE  On(t, n)'
    <3>0. PICK i : i = job'[t].id /\ Ided(p, n, i)'
      BY <2>1 DEF Ided
    <3>1. i # None /\ Ided(p, n, i)
      BY <3>0
    <3>3. job[t].id = i /\ job'[t].path = job[t].path /\ job'[t].pc # "idle"
      BY <3>0, <3>1
    <3>4. On(t, n)
      BY <1>1, <3>1, <3>3 DEF AssetOK, IdOK
    <3>. QED BY <3>3, <3>4 DEF On
  <2>. QED BY <2>1 DEF IdOK
<1>. QED BY <1>4, <1>5, <1>6 DEF AssetOK

\* The ids of sidecars, of those there and of the one about to be written.
LEMMA IdTypes ==
    ASSUME TypeOK, TodoOK
    PROVE  /\ \A p \in Paths : side[p] # None => side[p].id \in Ids /\ side[p].key \in Names
           /\ \A p : Waits(p) => Id \in Ids
           /\ \A p \in Paths : \A n : ~Ided(p, n, None)
<1>1. \A p \in Paths : side[p] # None => side[p].id \in Ids /\ side[p].key \in Names
  BY DEF TypeOK, Sidecars
<1>2. ASSUME NEW p, Waits(p) PROVE Id \in Ids
  <2>1. Head(todo) \in Steps
    BY <1>2, TailChain DEF TodoOK, Waits, Nexts
  <2>. QED BY <2>1, Types DEF Steps, Id, Ids, To, Asset
<1>3. ASSUME NEW p \in Paths, NEW n PROVE ~Ided(p, n, None)
  BY <1>1, <1>2, Types DEF Ided, Keyed, Begun
<1>. QED BY <1>1, <1>2, <1>3

\* Files, sidecars and requests as they were, and nothing more known to be done.
LEMMA SameSides ==
    ASSUME TypeOK, TodoOK, UNCHANGED <<file, side, todo>>, listed' \in {listed, None},
           \A i \in Ids : status'[i] = "done" => status[i] = "done"
    PROVE  \A p \in Paths : \A n :
             /\ \A i : Ided(p, n, i)' <=> Ided(p, n, i)
             /\ Finished(p, n)' => Finished(p, n)
             /\ Holds(p, n)' <=> Holds(p, n)
             /\ Content(p)' = Content(p)
             /\ ~Ided(p, n, None)'
<1>1. /\ \A p : (Waits(p)' <=> Waits(p)) /\ (Going(p)' <=> Going(p)) /\ Content(p)' = Content(p)
      /\ \A p, n : (Begun(p, n)' <=> Begun(p, n)) /\ (Keyed(p, n)' <=> Keyed(p, n))
      /\ Id' = Id
  BY DEF Waits, Going, Content, Leaving, Nexts, To, From, Id, Begun, Keyed
<1>2. ASSUME NEW p \in Paths, NEW n
      PROVE  /\ \A i : Ided(p, n, i)' <=> Ided(p, n, i)
             /\ Holds(p, n)' <=> Holds(p, n)
             /\ ~Ided(p, n, None)'
  <2>1. \A i : Ided(p, n, i)' <=> Ided(p, n, i)
    BY <1>1 DEF Ided
  <2>. QED BY <1>1, <2>1, IdTypes DEF Holds
<1>3. ASSUME NEW p \in Paths, NEW n, Finished(p, n)' PROVE Finished(p, n)
  <2>1. CASE Begun(p, n)' /\ status'[Id'] = "done"
    <3>1. Begun(p, n) /\ Id \in Ids /\ status'[Id] = "done"
      BY <1>1, <2>1, IdTypes DEF Begun
    <3>. QED BY <3>1 DEF Finished
  <2>2. CASE Keyed(p, n)' /\ Sure(p)' /\ ~Going(p)' /\ ~Begun(p, n)'
    <3>1. Keyed(p, n) /\ ~Going(p) /\ ~Begun(p, n) /\ side[p].id \in Ids
      BY <1>1, <2>2, IdTypes DEF Keyed
    <3>2. Sure(p)
      BY <2>2, <3>1 DEF Sure, Same
    <3>. QED BY <3>1, <3>2 DEF Finished
  <2>. QED BY <1>3, <2>1, <2>2 DEF Finished
<1>. QED BY <1>1, <1>2, <1>3

\* A step of one thread, or of its gh, that leaves files and release alone.
LEMMA ThreadMoves ==
    ASSUME ReleaseInv, UNCHANGED <<file, side, todo, listed, remote, deleting, mixed, written>>,
           status' \in [Ids -> Statuses \cup {None}], active' \in [Ids -> Threads \cup {None}],
           told' \subseteq Threads,
           \A i \in Ids : status'[i] = "done" => status[i] = "done",
           NEW t \in Threads, NEW j \in Jobs, job' = [job EXCEPT ![t] = j], JobOK(j),
           \/ j = Idle
           \/ /\ job[t].pc # "idle" /\ j.path = job[t].path /\ j.id = job[t].id
              /\ job[t].pc \in {"mark", "save"} => j.pc \in {"mark", "save"}
              /\ \/ j.gh = job[t].gh /\ j.data = job[t].data
                 \/ j.gh \in {"failed", "killed"}
                 \/ j.gh = "opening" /\ job[t].gh = "none"
    PROVE  ReleaseInv'
<1>1. /\ job \in [Threads -> Jobs] /\ job' \in [Threads -> Jobs]
      /\ \A u \in Threads : job'[u] = IF u = t THEN j ELSE job[u]
  BY Types DEF ReleaseInv
<1>2. TypeOK'
  BY <1>1 DEF ReleaseInv, TypeOK, Jobs, Labels
<1>3. TodoOK'
  BY DEF ReleaseInv, TodoOK, Nexts, Leaving, To, From
<1>4. JobsOK'
  BY <1>1 DEF ReleaseInv, JobsOK
<1>5. \A u \in Threads :
        \/ job'[u].pc = "idle" /\ job'[u].id = None
        \/ /\ job[u].pc # "idle" /\ job'[u].pc # "idle" /\ job'[u].path = job[u].path
           /\ job'[u].id \in {job[u].id, None}
           /\ job[u].pc \in {"mark", "save"} => job'[u].pc \in {"mark", "save"}
           /\ \/ job'[u].gh = job[u].gh /\ job'[u].data = job[u].data
              \/ job'[u].gh \in {"failed", "killed"}
              \/ job'[u].gh = "opening" /\ job[u].gh = "none"
  <2> SUFFICES ASSUME NEW u \in Threads
               PROVE  \/ job'[u].pc = "idle" /\ job'[u].id = None
                      \/ /\ job[u].pc # "idle" /\ job'[u].pc # "idle"
                         /\ job'[u].path = job[u].path /\ job'[u].id \in {job[u].id, None}
                         /\ job[u].pc \in {"mark", "save"} => job'[u].pc \in {"mark", "save"}
                         /\ \/ job'[u].gh = job[u].gh /\ job'[u].data = job[u].data
                            \/ job'[u].gh \in {"failed", "killed"}
                            \/ job'[u].gh = "opening" /\ job[u].gh = "none"
    OBVIOUS
  <2>1. CASE u # t /\ job[u].pc = "idle"
    BY <1>1, <2>1 DEF ReleaseInv, JobsOK, JobOK, Idle
  <2>2. CASE u # t /\ job[u].pc # "idle"
    BY <1>1, <2>2
  <2>3. CASE u = t
    BY <1>1, <2>3 DEF Idle, JobOK
  <2>. QED BY <2>1, <2>2, <2>3
<1>6. AssetsOK'
  <2>1. \A p \in Paths : \A n :
          /\ \A i : Ided(p, n, i)' <=> Ided(p, n, i)
          /\ Finished(p, n)' => Finished(p, n)
          /\ Holds(p, n)' <=> Holds(p, n)
          /\ Content(p)' = Content(p)
          /\ ~Ided(p, n, None)'
    BY SameSides DEF ReleaseInv
  <2>. QED BY <1>5, <2>1, ThreadsMove DEF ReleaseInv
<1>. QED BY <1>2, <1>3, <1>4, <1>6 DEF ReleaseInv

\* Only what is known of uploads in memory changes.
LEMMA TablesOnly ==
    ASSUME ReleaseInv, UNCHANGED <<file, side, todo, job, remote, deleting, mixed, written>>,
           listed' \in {listed, None},
           status' \in [Ids -> Statuses \cup {None}], active' \in [Ids -> Threads \cup {None}],
           told' \subseteq Threads,
           \A i \in Ids : status'[i] = "done" => status[i] = "done"
    PROVE  ReleaseInv'
<1>1. TypeOK' /\ JobsOK'
  BY DEF ReleaseInv, TypeOK, JobsOK
<1>2. TodoOK'
  BY DEF ReleaseInv, TodoOK, Nexts, Leaving, To, From
<1>3. AssetsOK'
  <2>1. \A p \in Paths : \A n :
          /\ \A i : Ided(p, n, i)' <=> Ided(p, n, i)
          /\ Finished(p, n)' => Finished(p, n)
          /\ Holds(p, n)' <=> Holds(p, n)
          /\ Content(p)' = Content(p)
    BY SameSides DEF ReleaseInv
  <2>2. \A t \in Threads : file'[job[t].path] = file[job[t].path]
    OBVIOUS
  <2>. QED BY <2>1, <2>2, FilesMove DEF ReleaseInv
<1>. QED BY <1>1, <1>2, <1>3 DEF ReleaseInv

(***************************************************************************)
(* The upload thread                                                       *)
(***************************************************************************)

LEMMA AtWork ==
    ASSUME ReleaseInv, NEW t \in Threads
    PROVE  /\ job \in [Threads -> Jobs] /\ job[t] \in Jobs /\ JobOK(job[t])
           /\ status \in [Ids -> Statuses \cup {None}] /\ active \in [Ids -> Threads \cup {None}]
           /\ told \subseteq Threads
BY Types DEF ReleaseInv, TypeOK, JobsOK

\* A thread that ends.
LEMMA Ends ==
    ASSUME ReleaseInv, NEW t \in Threads, End(t), ThreadOnly,
           status' \in [Ids -> Statuses \cup {None}], active' \in [Ids -> Threads \cup {None}],
           \A i \in Ids : status'[i] = "done" => status[i] = "done"
    PROVE  ReleaseInv'
<1>1. told' \subseteq Threads
  BY AtWork DEF End
<1>. QED BY <1>1, Types, ThreadMoves DEF ReleaseInv, End, ThreadOnly, disk, aside

LEMMA CheckFirstKeeps ==
    ASSUME ReleaseInv, NEW t \in Threads, CheckFirst(t)
    PROVE  ReleaseInv'
<1> DEFINE j == [job[t] EXCEPT !.pc = "begin"]
<1>1. /\ job \in [Threads -> Jobs] /\ job[t] \in Jobs /\ JobOK(job[t])
      /\ job[t].pc = "queued" /\ ThreadOnly
      /\ status' \in [Ids -> Statuses \cup {None}] /\ active' \in [Ids -> Threads \cup {None}]
      /\ \A i \in Ids : status'[i] = "done" => status[i] = "done"
  BY AtWork DEF CheckFirst, Goes
<1>2. CASE Cancelled(t)
  BY <1>1, <1>2, Ends DEF CheckFirst
<1>3. CASE ~Cancelled(t)
  <2>1. job' = [job EXCEPT ![t] = j] /\ told' \subseteq Threads
    BY <1>1, <1>3, AtWork DEF CheckFirst, At2
  <2>2. /\ j \in Jobs /\ JobOK(j) /\ j.path = job[t].path /\ j.id = job[t].id
        /\ j.gh = job[t].gh /\ j.data = job[t].data
    BY <1>1 DEF Jobs, Labels, JobOK
  <2>3. job[t].pc \notin {"idle", "mark", "save"}
    BY <1>1
  <2> HIDE DEF j
  <2>. QED BY <1>1, <2>1, <2>2, <2>3, ThreadMoves DEF ThreadOnly, disk, aside
<1>. QED BY <1>2, <1>3

LEMMA BeginKeeps ==
    ASSUME ReleaseInv, NEW t \in Threads, Begin(t)
    PROVE  ReleaseInv'
<1> DEFINE j == [job[t] EXCEPT !.pc = "view"]
<1>1. /\ job \in [Threads -> Jobs] /\ job[t] \in Jobs /\ JobOK(job[t])
      /\ job[t].pc = "begin" /\ job[t].pc \notin {"idle", "mark", "save"} /\ ThreadOnly
      /\ status' \in [Ids -> Statuses \cup {None}] /\ active' \in [Ids -> Threads \cup {None}]
      /\ \A i \in Ids : status'[i] = "done" => status[i] = "done"
  BY AtWork DEF Begin, Goes, Says, Statuses
<1>2. job' = [job EXCEPT ![t] = j] /\ told' \subseteq Threads
  BY <1>1, AtWork DEF Begin, At2
<1>3. /\ j \in Jobs /\ JobOK(j) /\ j.path = job[t].path /\ j.id = job[t].id
      /\ j.gh = job[t].gh /\ j.data = job[t].data
  BY <1>1 DEF Jobs, Labels, JobOK
<1> HIDE DEF j
<1>. QED BY <1>1, <1>2, <1>3, ThreadMoves DEF ThreadOnly, disk, aside

LEMMA ViewKeeps ==
    ASSUME ReleaseInv, NEW t \in Threads, View(t)
    PROVE  ReleaseInv'
<1> DEFINE j == [job[t] EXCEPT !.pc = "register", !.gh = "opening"]
<1>1. /\ job \in [Threads -> Jobs] /\ job[t] \in Jobs /\ JobOK(job[t])
      /\ job[t].pc = "view" /\ job[t].pc \notin {"idle", "mark", "save"} /\ ThreadOnly
      /\ status' \in [Ids -> Statuses \cup {None}] /\ active' \in [Ids -> Threads \cup {None}]
      /\ \A i \in Ids : status'[i] = "done" => status[i] = "done"
  BY AtWork DEF View, Goes
<1>2. CASE Cancelled(t)
  BY <1>1, <1>2, Ends DEF View
<1>3. CASE ~Cancelled(t)
  <2>1. job' = [job EXCEPT ![t] = j] /\ told' \subseteq Threads
    BY <1>1, <1>3, AtWork DEF View
  <2>2. /\ j \in Jobs /\ JobOK(j) /\ j.path = job[t].path /\ j.id = job[t].id
        /\ j.gh = "opening" /\ job[t].gh = "none"
    BY <1>1 DEF Jobs, Labels, JobOK
  <2> HIDE DEF j
  <2>. QED BY <1>1, <2>1, <2>2, ThreadMoves DEF ThreadOnly, disk, aside
<1>. QED BY <1>2, <1>3

LEMMA ViewFailsKeeps ==
    ASSUME ReleaseInv, NEW t \in Threads, ViewFails(t)
    PROVE  ReleaseInv'
<1> DEFINE j == [job[t] EXCEPT !.pc = "mark", !.gh = "failed"]
<1>1. /\ job \in [Threads -> Jobs] /\ job[t] \in Jobs /\ JobOK(job[t])
      /\ job[t].pc = "view" /\ job[t].pc \notin {"idle", "mark", "save"} /\ ThreadOnly
      /\ status' \in [Ids -> Statuses \cup {None}] /\ active' \in [Ids -> Threads \cup {None}]
      /\ \A i \in Ids : status'[i] = "done" => status[i] = "done"
  BY AtWork DEF ViewFails, Goes, Says, Pops, Statuses
<1>2. job' = [job EXCEPT ![t] = j] /\ told' \subseteq Threads
  BY <1>1, AtWork DEF ViewFails
<1>3. j \in Jobs /\ JobOK(j) /\ j.path = job[t].path /\ j.id = job[t].id /\ j.gh = "failed"
  BY <1>1 DEF Jobs, Labels, JobOK
<1> HIDE DEF j
<1>. QED BY <1>1, <1>2, <1>3, ThreadMoves DEF ThreadOnly, disk, aside

LEMMA RegisterKeeps ==
    ASSUME ReleaseInv, NEW t \in Threads, Register(t)
    PROVE  ReleaseInv'
<1> DEFINE j == [job[t] EXCEPT !.pc = "poll"]
<1>1. /\ job \in [Threads -> Jobs] /\ job[t] \in Jobs /\ JobOK(job[t])
      /\ job[t].pc = "register" /\ job[t].pc \notin {"idle", "mark", "save"} /\ ThreadOnly
      /\ status' \in [Ids -> Statuses \cup {None}] /\ active' \in [Ids -> Threads \cup {None}]
      /\ \A i \in Ids : status'[i] = "done" => status[i] = "done"
  BY AtWork DEF Register, Goes
<1>2. job' = [job EXCEPT ![t] = j] /\ told' \subseteq Threads
  BY <1>1, AtWork DEF Register, At2
<1>3. /\ j \in Jobs /\ JobOK(j) /\ j.path = job[t].path /\ j.id = job[t].id
      /\ j.gh = job[t].gh /\ j.data = job[t].data
  BY <1>1 DEF Jobs, Labels, JobOK
<1> HIDE DEF j
<1>. QED BY <1>1, <1>2, <1>3, ThreadMoves DEF ThreadOnly, disk, aside

\* What a thread notes as done is what the sidecars with its id are about.
LEMMA PollKeeps ==
    ASSUME ReleaseInv, NEW t \in Threads, Poll(t)
    PROVE  ReleaseInv'
<1> DEFINE j == [job[t] EXCEPT !.pc = "mark"]
<1>1. /\ job \in [Threads -> Jobs] /\ job[t] \in Jobs /\ JobOK(job[t])
      /\ job[t].pc = "poll" /\ job[t].pc \notin {"idle", "mark", "save"} /\ ThreadOnly
      /\ status' \in [Ids -> Statuses \cup {None}] /\ active' \in [Ids -> Threads \cup {None}]
  BY AtWork DEF Poll, Goes, Says, Pops, Statuses, Outcome
<1>2. CASE Cancelled(t)
  BY <1>1, <1>2, Ends DEF Poll
<1>3. CASE ~Cancelled(t)
  <2>1. /\ job' = [job EXCEPT ![t] = j] /\ told' \subseteq Threads
        /\ status' = [status EXCEPT ![job[t].id] = Outcome(t)] /\ ~Runs(t)
    BY <1>1, <1>3, AtWork DEF Poll, At2, Says
  <2>2. /\ j \in Jobs /\ JobOK(j) /\ j.path = job[t].path /\ j.id = job[t].id /\ j.gh = job[t].gh
        /\ j.data = job[t].data /\ j.pc = "mark" /\ j.id \in Ids
    BY <1>1, <2>1, Types DEF ReleaseInv, Jobs, Labels, JobOK, Runs
  <2> HIDE DEF j
  <2>3. CASE Outcome(t) # "done"
    <3>1. \A i \in Ids : status'[i] = "done" => status[i] = "done"
      BY <2>1, <2>3, AtWork
    <3>. QED BY <1>1, <2>1, <2>2, <3>1, ThreadMoves DEF ThreadOnly, disk, aside
  <2>4. CASE Outcome(t) = "done"
    <3>1. /\ \A i \in Ids : status'[i] = IF i = j.id THEN "done" ELSE status[i]
          /\ job[t].gh = "ok" /\ job'[t] = j
          /\ \A u \in Threads \ {t} : job'[u] = job[u]
          /\ job' \in [Threads -> Jobs]
          /\ UNCHANGED <<file, side, todo, listed, remote, deleting, mixed, written>>
      BY <1>1, <2>1, <2>2, <2>4, AtWork DEF Outcome, ThreadOnly, disk, aside
    <3>2. TypeOK' /\ JobsOK'
      BY <1>1, <2>1, <2>2, <3>1 DEF ReleaseInv, TypeOK, JobsOK, Jobs, Labels
    <3>3. TodoOK'
      BY <3>1 DEF ReleaseInv, TodoOK, Nexts, Leaving, To, From
    <3>4. /\ \A p : (Waits(p)' <=> Waits(p)) /\ (Going(p)' <=> Going(p)) /\ Content(p)' = Content(p)
          /\ \A p, n : (Begun(p, n)' <=> Begun(p, n)) /\ (Keyed(p, n)' <=> Keyed(p, n))
          /\ Id' = Id
          /\ \A u \in Threads : \A n : On(u, n)' <=> On(u, n)
      BY <1>1, <2>2, <3>1 DEF Waits, Going, Content, Leaving, Nexts, To, From, Id, Begun, Keyed, On
    <3>5. /\ \A p, n : Holds(p, n)' <=> Holds(p, n)
          /\ \A p, n, i : Ided(p, n, i)' <=> Ided(p, n, i)
      BY <3>1, <3>4 DEF Holds, Ided
    <3>6. \A u \in Threads : \A c :
            Uploads(job[u], file, remote, c) => Uploads(job'[u], file', remote', c)
      BY <2>2, <3>1 DEF Uploads
    <3>7. ASSUME NEW n \in Names \ mixed PROVE AssetOK(n)'
      <4>1. ThreadOK(n) /\ DoneOK(n) /\ IdOK(n)
        BY <3>7 DEF ReleaseInv, AssetsOK, AssetOK
      <4>2. ThreadOK(n)'
        BY <3>1, <3>4, <3>5, <3>6, <4>1 DEF ThreadOK
      <4>3. IdOK(n)'
        <5>1. \A u \in Threads : job'[u].id = job[u].id
          BY <2>2, <3>1
        <5>2. ASSUME NEW u \in Threads, NEW p \in Paths, Ided(p, n, job[u].id)'
              PROVE  On(u, n)'
          <6>1. PICK i : i = job'[u].id /\ Ided(p, n, i)'
            BY <5>2 DEF Ided
          <6>2. Ided(p, n, job[u].id)
            BY <3>5, <5>1, <6>1
          <6>. QED BY <3>4, <4>1, <6>2 DEF IdOK
        <5>. QED BY <5>2 DEF IdOK
      <4>4. ASSUME NEW p \in Paths, Finished(p, n)'
            PROVE  /\ n \notin deleting'
                   /\ \A u \in Threads : On(u, n)' => job'[u].pc \in {"mark", "save"}
                   /\ Content(p)' \in {Absent, remote'[n]}
        <5>1. CASE Finished(p, n)
          <6>1. /\ n \notin deleting /\ Content(p) \in {Absent, remote[n]}
                /\ \A u \in Threads : On(u, n) => job[u].pc \in {"mark", "save"}
            BY <4>1, <5>1 DEF DoneOK
          <6>. QED BY <1>1, <3>1, <3>4, <6>1
        <5>2. CASE ~Finished(p, n)
          <6>1. Ided(p, n, j.id)
            <7>1. CASE Begun(p, n)
              <8>1. Id \in Ids /\ status'[Id] = "done" /\ status[Id] # "done"
                BY <3>4, <4>4, <5>2, <7>1, IdTypes DEF Finished, ReleaseInv, Begun
              <8>. QED BY <3>1, <7>1, <8>1 DEF Ided
            <7>2. CASE ~Begun(p, n)
              <8>1. Keyed(p, n) /\ Sure(p)' /\ ~Sure(p) /\ side[p].id \in Ids
                BY <3>4, <4>4, <5>2, <7>2, IdTypes DEF Finished, ReleaseInv, Keyed
              <8>2. status'[side[p].id] = "done" /\ status[side[p].id] # "done"
                BY <3>1, <8>1 DEF Sure, Same
              <8>. QED BY <3>1, <8>1, <8>2 DEF Ided
            <7>. QED BY <7>1, <7>2
          <6>2. On(t, n) /\ Holds(p, n)
            BY <2>2, <4>1, <6>1, Held DEF IdOK
          <6>3. /\ n \notin deleting /\ \A u \in Threads \ {t} : ~On(u, n)
                /\ Content(p) = Absent \/ Uploads(job[t], file, remote, Content(p))
            BY <4>1, <6>2 DEF ThreadOK
          <6>4. Content(p) \in {Absent, remote[n]}
            BY <3>1, <6>2, <6>3 DEF Uploads, On
          <6>. QED BY <2>2, <3>1, <3>4, <6>3, <6>4
        <5>. QED BY <5>1, <5>2
      <4>5. DoneOK(n)'
        BY <4>4 DEF DoneOK
      <4>. QED BY <4>2, <4>3, <4>5 DEF AssetOK
    <3>. QED BY <3>1, <3>2, <3>3, <3>7 DEF ReleaseInv, AssetsOK
  <2>. QED BY <2>3, <2>4
<1>. QED BY <1>2, <1>3

LEMMA ReadSideKeeps ==
    ASSUME ReleaseInv, NEW t \in Threads, ReadSide(t)
    PROVE  ReleaseInv'
<1> DEFINE read == side[job[t].path]
           j == [job[t] EXCEPT !.pc = "save", !.meta = read]
<1>1. /\ job \in [Threads -> Jobs] /\ job[t] \in Jobs /\ JobOK(job[t])
      /\ job[t].pc = "mark" /\ job[t].pc # "idle" /\ ThreadOnly
      /\ status' \in [Ids -> Statuses \cup {None}] /\ active' \in [Ids -> Threads \cup {None}]
      /\ \A i \in Ids : status'[i] = "done" => status[i] = "done"
  BY AtWork DEF ReadSide, Goes
<1>2. job[t].path \in Paths /\ read \in Sidecars
  BY <1>1 DEF JobOK, ReleaseInv, TypeOK
<1>3. CASE read = None
  BY <1>1, <1>3, Ends DEF ReadSide
<1>4. CASE read # None
  <2>1. job' = [job EXCEPT ![t] = j] /\ told' \subseteq Threads
    BY <1>1, <1>4, AtWork DEF ReadSide
  <2> HIDE DEF read
  <2>2. /\ j \in Jobs /\ JobOK(j) /\ j.path = job[t].path /\ j.id = job[t].id
        /\ j.gh = job[t].gh /\ j.data = job[t].data /\ j.pc = "save"
    BY <1>1, <1>2, <1>4 DEF Jobs, Labels, JobOK
  <2> HIDE DEF j
  <2>. QED BY <1>1, <2>1, <2>2, ThreadMoves DEF ThreadOnly, disk, aside
<1>. QED BY <1>3, <1>4

\* What gh leaves of its thread: a note of the result, or nothing.
Exited(j, result) == IF j.pc = "orphan" THEN Idle ELSE [j EXCEPT !.gh = result, !.data = Absent]

LEMMA Exit ==
    ASSUME ReleaseInv, NEW t \in Threads, Runs(t), NEW result \in {"ok", "failed"},
           Exits(t, result)
    PROVE  /\ job' = [job EXCEPT ![t] = Exited(job[t], result)]
           /\ Exited(job[t], result) \in Jobs /\ JobOK(Exited(job[t], result))
           /\ job[t].pc \notin {"idle", "queued", "begin", "view"} /\ job[t].path \in Paths
           /\ \/ job[t].pc = "orphan" /\ Exited(job[t], result) = Idle
              \/ /\ Exited(job[t], result).pc = job[t].pc
                 /\ Exited(job[t], result).path = job[t].path
                 /\ Exited(job[t], result).id = job[t].id
                 /\ Exited(job[t], result).gh = result
<1>1. /\ job \in [Threads -> Jobs] /\ job[t] \in Jobs /\ JobOK(job[t])
      /\ job[t].gh \in {"opening", "sending"}
  BY AtWork DEF Runs
<1>2. job' = [job EXCEPT ![t] = Exited(job[t], result)]
  BY <1>1 DEF Exits, Exited
<1>3. job[t].pc \notin {"idle", "queued", "begin", "view"} /\ job[t].path \in Paths
  BY <1>1 DEF JobOK, Idle
<1>4. CASE job[t].pc = "orphan"
  <2>1. Exited(job[t], result) = Idle
    BY <1>4 DEF Exited
  <2>. QED BY <1>2, <1>3, <1>4, <2>1, Types DEF ReleaseInv
<1>5. CASE job[t].pc # "orphan"
  <2> DEFINE j == [job[t] EXCEPT !.gh = result, !.data = Absent]
  <2>1. Exited(job[t], result) = j
    BY <1>5 DEF Exited
  <2>2. Absent \in 0..MaxWrites
    BY ReleaseAssumption DEF Absent
  <2>3. /\ j \in Jobs /\ j.pc = job[t].pc /\ j.path = job[t].path /\ j.id = job[t].id
        /\ j.gh = result /\ j.meta = job[t].meta
    BY <1>1, <2>2 DEF Jobs
  <2> HIDE DEF j
  <2>4. JobOK(j)
    BY <1>1, <1>3, <2>3 DEF JobOK
  <2>. QED BY <1>2, <1>3, <2>1, <2>3, <2>4
<1>. QED BY <1>4, <1>5

LEMMA GhFailsKeeps ==
    ASSUME ReleaseInv, NEW t \in Threads, GhFails(t)
    PROVE  ReleaseInv'
<1> DEFINE j == Exited(job[t], "failed")
<1>1. /\ UNCHANGED <<file, side, todo, listed, remote, deleting, mixed, written>>
      /\ status' \in [Ids -> Statuses \cup {None}] /\ active' \in [Ids -> Threads \cup {None}]
      /\ told' \subseteq Threads /\ status' = status
  BY AtWork DEF GhFails, disk, aside
<1>2. Runs(t) /\ Exits(t, "failed")
  BY DEF GhFails
<1>3. /\ job' = [job EXCEPT ![t] = j] /\ j \in Jobs /\ JobOK(j)
      /\ job[t].pc # "idle"
      /\ \/ j = Idle
         \/ j.pc = job[t].pc /\ j.path = job[t].path /\ j.id = job[t].id /\ j.gh = "failed"
  BY <1>2, Exit
<1> HIDE DEF j
<1>. QED BY <1>1, <1>3, ThreadMoves

\* A cancellation kills the gh process that its upload has registered.
LEMMA CancelKeeps ==
    ASSUME ReleaseInv, NEW i \in Ids, Cancel(i)
    PROVE  ReleaseInv'
<1>1. /\ UNCHANGED <<file, side, todo, listed, remote, deleting, mixed, written>>
      /\ told' \subseteq Threads
      /\ status' \in [Ids -> Statuses \cup {None}] /\ active' \in [Ids -> Threads \cup {None}]
      /\ \A k \in Ids : status'[k] = "done" => status[k] = "done"
      /\ active[i] \in Threads \cup {None}
  BY DEF Cancel, disk, ReleaseInv, TypeOK, Statuses
<1>2. CASE active[i] # None /\ Runs(active[i])
  <2> DEFINE t == active[i]
             j == [job[t] EXCEPT !.gh = "killed"]
  <2>1. /\ t \in Threads /\ job \in [Threads -> Jobs] /\ job[t] \in Jobs /\ JobOK(job[t])
        /\ job[t].gh \in {"opening", "sending"}
    BY <1>1, <1>2, AtWork DEF Runs
  <2>2. job' = [job EXCEPT ![t] = j]
    BY <1>2, <2>1 DEF Cancel
  <2> HIDE DEF t
  <2>3. job[t].pc \notin {"idle", "queued", "begin", "view"}
    BY <2>1 DEF JobOK, Idle
  <2>4. j \in Jobs /\ JobOK(j) /\ j.path = job[t].path /\ j.id = job[t].id
        /\ j.pc = job[t].pc /\ j.gh = "killed"
    BY <2>1, <2>3 DEF Jobs, Labels, JobOK
  <2> HIDE DEF j
  <2>. QED BY <1>1, <2>1, <2>2, <2>3, <2>4, ThreadMoves
<1>3. CASE ~(active[i] # None /\ Runs(active[i]))
  BY <1>1, <1>3, TablesOnly DEF Cancel
<1>. QED BY <1>2, <1>3

\* The sidecar is written back: "done" only if it is the one that was read, and
\* then the upload was of what it is about.
LEMMA WriteSideKeeps ==
    ASSUME ReleaseInv, NEW t \in Threads, WriteSide(t)
    PROVE  ReleaseInv'
<1>0. PICK p \in Paths : p = job[t].path
  BY AtWork DEF WriteSide, Goes, JobOK
<1> DEFINE meta == job[t].meta
           new == [meta EXCEPT !.status = Outcome(t)]
<1>1. /\ job \in [Threads -> Jobs] /\ job[t] \in Jobs /\ JobOK(job[t]) /\ job[t].pc = "save"
      /\ job' = [job EXCEPT ![t] = Idle] /\ side' = [side EXCEPT ![p] = new]
      /\ told' \subseteq Threads
      /\ mixed' = (IF Same(side[p], meta) /\ meta.key = Asset(p) THEN mixed
                   ELSE mixed \cup {meta.key})
      /\ UNCHANGED <<file, todo, status, active, listed, remote, deleting, written>>
  BY <1>0, AtWork DEF WriteSide, Goes, End, aside
<1>2. /\ p \in Paths /\ meta \in Sidecars \ {None} /\ side \in [Paths -> Sidecars]
      /\ mixed \subseteq Names
  BY <1>1 DEF JobOK, Jobs, ReleaseInv, TypeOK
<1>3. /\ new \in Sidecars /\ new.key = meta.key /\ new.id = meta.id /\ meta.key \in Names
      /\ new.status = Outcome(t)
  BY <1>2 DEF Sidecars, Outcome
<1>4. /\ job' \in [Threads -> Jobs] /\ job'[t] = Idle
      /\ \A u \in Threads \ {t} : job'[u] = job[u]
  BY <1>1, Types DEF ReleaseInv
<1>5. TypeOK'
  <2>1. side' \in [Paths -> Sidecars] /\ mixed' \subseteq Names
    BY <1>1, <1>2, <1>3
  <2>. QED BY <1>1, <1>4, <2>1 DEF ReleaseInv, TypeOK, Jobs, Labels
<1>6. TodoOK'
  BY <1>1 DEF ReleaseInv, TodoOK, Nexts, Leaving, To, From
<1>7. JobsOK'
  BY <1>4, Types DEF ReleaseInv, JobsOK
<1>8. /\ \A x \in Paths : side'[x] = IF x = p THEN new ELSE side[x]
      /\ Outcome(t) = "done" => job[t].gh = "ok"
  BY <1>1, <1>2 DEF Outcome
<1> HIDE DEF meta, new
<1>9. /\ \A x : Content(x)' = Content(x) /\ (Going(x)' <=> Going(x))
      /\ \A x, n : Begun(x, n)' <=> Begun(x, n)
      /\ Id' = Id
      /\ \A u \in Threads : \A n : On(u, n)' <=> u # t /\ On(u, n)
  BY <1>1, <1>4
  DEF Content, Waits, Going, Begun, Leaving, Nexts, To, From, Id, On, Idle
<1>10. ASSUME NEW n \in Names \ mixed' PROVE AssetOK(n)'
  <2>1. n \notin mixed /\ ThreadOK(n) /\ DoneOK(n) /\ IdOK(n)
    BY <1>1, <1>10 DEF ReleaseInv, AssetsOK, AssetOK
  <2>2. ASSUME NEW x \in Paths, Keyed(x, n)'
        PROVE  /\ Keyed(x, n) /\ side'[x].id = side[x].id
               /\ x = p => Same(side[p], meta) /\ n = Asset(p)
    <3>1. CASE x = p
      <4>1. new.key = n
        BY <1>8, <2>2, <3>1 DEF Keyed
      <4>2. Same(side[p], meta) /\ meta.key = Asset(p)
        BY <1>1, <1>3, <1>10, <4>1
      <4>. QED BY <1>3, <1>8, <3>1, <4>1, <4>2 DEF Keyed, Same
    <3>2. CASE x # p
      BY <1>8, <2>2, <3>2 DEF Keyed
    <3>. QED BY <3>1, <3>2
  <2>3. \A x \in Paths : \A i : Ided(x, n, i)' => Ided(x, n, i)
    BY <1>9, <2>2 DEF Ided
  <2>4. \A x \in Paths : Holds(x, n)' => Holds(x, n)
    BY <1>9, <2>2 DEF Holds
  <2>5. ASSUME NEW x \in Paths, Finished(x, n)'
        PROVE  Finished(x, n) \/ (x = p /\ Keyed(p, n) /\ n = Asset(p) /\ job[t].gh = "ok")
    <3>1. CASE Begun(x, n)' /\ status'[Id'] = "done"
      BY <1>1, <1>9, <3>1 DEF Finished
    <3>2. CASE Keyed(x, n)' /\ Sure(x)' /\ ~Going(x)' /\ ~Begun(x, n)'
      <4>1. Keyed(x, n) /\ ~Going(x) /\ ~Begun(x, n) /\ side'[x].id = side[x].id
        BY <1>9, <2>2, <3>2
      <4>2. CASE x # p
        <5>1. Sure(x)
          BY <1>1, <1>8, <3>2, <4>2 DEF Sure
        <5>. QED BY <4>1, <5>1 DEF Finished
      <4>3. CASE x = p
        <5>1. Same(side[p], meta) /\ n = Asset(p) /\ side'[p] = new
          BY <1>8, <2>2, <3>2, <4>3
        <5>2. CASE new.status = "done"
          BY <1>3, <1>8, <4>1, <4>3, <5>1, <5>2
        <5>3. CASE new.status # "done"
          <6>1. Sure(p)
            BY <1>1, <1>3, <3>2, <4>1, <4>3, <5>1, <5>3 DEF Sure, Same
          <6>. QED BY <4>1, <4>3, <6>1 DEF Finished
        <5>. QED BY <5>2, <5>3
      <4>. QED BY <4>2, <4>3
    <3>. QED BY <2>5, <3>1, <3>2 DEF Finished
  <2>6. ThreadOK(n)'
    BY <1>1, <1>4, <1>9, <2>1, <2>4 DEF ThreadOK
  <2>7. IdOK(n)'
    <3>1. ASSUME NEW u \in Threads, NEW x \in Paths, Ided(x, n, job[u].id)'
          PROVE  On(u, n)'
      <4>1. PICK i : i = job'[u].id /\ Ided(x, n, i)'
        BY <3>1 DEF Ided
      <4>2. Ided(x, n, i) /\ i # None
        BY <2>3, <4>1, IdTypes DEF ReleaseInv
      <4>3. u # t /\ i = job[u].id
        BY <1>4, <4>1, <4>2 DEF Idle
      <4>4. On(u, n)
        BY <2>1, <4>2, <4>3 DEF IdOK
      <4>. QED BY <1>9, <4>3, <4>4
    <3>. QED BY <3>1 DEF IdOK
  <2>8. ASSUME NEW x \in Paths, Finished(x, n)'
        PROVE  /\ n \notin deleting'
               /\ \A u \in Threads : On(u, n)' => job'[u].pc \in {"mark", "save"}
               /\ Content(x)' \in {Absent, remote'[n]}
    <3>1. CASE Finished(x, n)
      BY <1>1, <1>4, <1>9, <2>1, <3>1 DEF DoneOK
    <3>2. CASE x = p /\ Keyed(p, n) /\ n = Asset(p) /\ job[t].gh = "ok"
      <4>1. On(t, n) /\ Holds(p, n)
        BY <1>0, <1>1, <3>2 DEF On, Holds
      <4>2. /\ n \notin deleting /\ \A u \in Threads \ {t} : ~On(u, n)
            /\ Content(p) = Absent \/ Uploads(job[t], file, remote, Content(p))
        BY <1>2, <2>1, <4>1 DEF ThreadOK
      <4>3. Content(p) \in {Absent, remote[n]}
        BY <1>0, <3>2, <4>2 DEF Uploads
      <4>. QED BY <1>1, <1>9, <3>2, <4>2, <4>3
    <3>. QED BY <2>5, <2>8, <3>1, <3>2
  <2>9. DoneOK(n)'
    BY <2>8 DEF DoneOK
  <2>. QED BY <2>6, <2>7, <2>9 DEF AssetOK
<1>. QED BY <1>5, <1>6, <1>7, <1>10 DEF ReleaseInv, AssetsOK

(***************************************************************************)
(* The release                                                             *)
(***************************************************************************)

\* One asset changes, and the threads that upload it.
LEMMA OneAsset ==
    ASSUME ReleaseInv, UNCHANGED <<file, side, todo, listed, mixed, written, status, active>>,
           told' \subseteq Threads,
           NEW a \in Names, remote' \in [Names -> 0..MaxWrites], deleting' \subseteq deleting,
           \A n \in Names \ {a} : remote'[n] = remote[n],
           job' \in [Threads -> Jobs],
           \A t \in Threads : /\ JobOK(job'[t])
                              /\ On(t, a) \/ job'[t] = job[t]
                              /\ \/ job'[t] = Idle
                                 \/ /\ job'[t].pc = job[t].pc /\ job'[t].path = job[t].path
                                    /\ job'[t].id = job[t].id,
           a \notin mixed => ThreadOK(a)' /\ DoneOK(a)'
    PROVE  ReleaseInv'
<1>1. TypeOK'
  BY DEF ReleaseInv, TypeOK, Jobs, Labels
<1>2. TodoOK'
  BY DEF ReleaseInv, TodoOK, Nexts, Leaving, To, From
<1>3. JobsOK'
  BY DEF JobsOK
<1>4. \A x \in Paths : \A n :
        /\ \A i : Ided(x, n, i)' <=> Ided(x, n, i)
        /\ Finished(x, n)' => Finished(x, n)
        /\ Holds(x, n)' <=> Holds(x, n)
        /\ Content(x)' = Content(x)
        /\ ~Ided(x, n, None)'
  BY SameSides DEF ReleaseInv
<1>5. \A t \in Threads : \A n : On(t, n)' => On(t, n) /\ job'[t] # Idle
  BY DEF On, Idle
<1>6. ASSUME NEW n \in Names \ mixed, n # a PROVE ThreadOK(n)' /\ DoneOK(n)'
  <2>1. ThreadOK(n) /\ DoneOK(n) /\ remote'[n] = remote[n]
    BY <1>6 DEF ReleaseInv, AssetsOK, AssetOK
  <2>2. \A t \in Threads : On(t, n)' => On(t, n) /\ job'[t] = job[t] /\ Asset(job[t].path) = n
    BY <1>5, <1>6 DEF On
  <2>3. \A t \in Threads : \A c : On(t, n)' /\ Uploads(job[t], file, remote, c)
                                => Uploads(job'[t], file', remote', c)
    BY <2>1, <2>2 DEF Uploads
  <2>4. ThreadOK(n)'
    BY <1>4, <2>1, <2>2, <2>3 DEF ThreadOK
  <2>5. DoneOK(n)'
    BY <1>4, <2>1, <2>2 DEF DoneOK
  <2>. QED BY <2>4, <2>5
<1>7. ASSUME NEW n \in Names \ mixed PROVE IdOK(n)'
  <2>1. IdOK(n)
    BY <1>7 DEF ReleaseInv, AssetsOK, AssetOK
  <2>2. ASSUME NEW t \in Threads, NEW x \in Paths, Ided(x, n, job[t].id)'
        PROVE  On(t, n)'
    <3>1. PICK i : i = job'[t].id /\ Ided(x, n, i)'
      BY <2>2 DEF Ided
    <3>2. Ided(x, n, i) /\ i # None
      BY <1>4, <3>1
    <3>3. job'[t].pc = job[t].pc /\ job'[t].path = job[t].path /\ job[t].id = i
      BY <3>1, <3>2 DEF Idle
    <3>4. On(t, n)
      BY <2>1, <3>2, <3>3 DEF IdOK
    <3>. QED BY <3>3, <3>4 DEF On
  <2>. QED BY <2>2 DEF IdOK
<1>8. AssetsOK'
  BY <1>6, <1>7 DEF AssetsOK, AssetOK
<1>. QED BY <1>1, <1>2, <1>3, <1>8 DEF ReleaseInv

\* gh begins and ends to send: what it sends is what the sidecars of the asset
\* are about.
LEMMA GhSends ==
    ASSUME ReleaseInv, NEW t \in Threads, GhOpen(t) \/ GhSent(t)
    PROVE  ReleaseInv'
<1>0. PICK p \in Paths : p = job[t].path
  BY AtWork DEF GhOpen, GhSent, JobOK, Idle
<1> DEFINE a == Asset(p)
           opened == [job[t] EXCEPT !.gh = "sending", !.data = file[p]]
           j == IF GhOpen(t) THEN opened ELSE Exited(job[t], "ok")
           r == IF GhOpen(t) THEN Absent ELSE job[t].data
<1>1. /\ job \in [Threads -> Jobs] /\ job[t] \in Jobs /\ JobOK(job[t])
      /\ job[t].gh = IF GhOpen(t) THEN "opening" ELSE "sending"
      /\ GhOpen(t) => file[p] # Absent
      /\ UNCHANGED <<file, side, todo, listed, mixed, written, status, active, deleting>>
      /\ told' \subseteq Threads
      /\ remote' = [remote EXCEPT ![a] = r]
  BY <1>0, AtWork DEF GhOpen, GhSent, disk, aside
<1>2. /\ a \in Names /\ file[p] \in 0..MaxWrites /\ Absent \in 0..MaxWrites
      /\ remote \in [Names -> 0..MaxWrites] /\ job[t].data \in 0..MaxWrites
  BY <1>1, Types, ReleaseAssumption DEF ReleaseInv, TypeOK, Jobs, Absent
<1>3. job[t].pc \in {"register", "poll", "orphan"}
  BY <1>1 DEF JobOK
<1>4. /\ job' = [job EXCEPT ![t] = j] /\ j \in Jobs /\ JobOK(j)
      /\ j = Idle \/ (j.pc = job[t].pc /\ j.path = job[t].path /\ j.id = job[t].id)
      /\ GhOpen(t) => j.gh = "sending" /\ j.data = file[p]
      /\ ~GhOpen(t) => j = Idle \/ (j.gh = "ok" /\ r = job[t].data)
  <2>1. CASE GhOpen(t)
    <3>1. job' = [job EXCEPT ![t] = opened]
      BY <1>0, <2>1 DEF GhOpen
    <3>2. /\ opened \in Jobs /\ opened.pc = job[t].pc /\ opened.path = job[t].path
          /\ opened.id = job[t].id /\ opened.gh = "sending" /\ opened.data = file[p]
          /\ opened.meta = job[t].meta
      BY <1>1, <1>2 DEF Jobs
    <3> HIDE DEF opened
    <3>3. JobOK(opened)
      BY <1>1, <1>3, <3>2 DEF JobOK
    <3>. QED BY <2>1, <3>1, <3>2, <3>3
  <2>2. CASE ~GhOpen(t)
    <3>1. Runs(t) /\ Exits(t, "ok")
      BY <2>2 DEF GhSent, Runs
    <3>. QED BY <2>2, <3>1, Exit
  <2>. QED BY <2>1, <2>2
<1>5. a = Asset(p)
  OBVIOUS
<1> HIDE DEF j, r, a
<1>6. /\ remote' \in [Names -> 0..MaxWrites] /\ remote'[a] = r
      /\ \A n \in Names \ {a} : remote'[n] = remote[n]
  <2>1. r \in 0..MaxWrites
    BY <1>2 DEF r
  <2>. QED BY <1>1, <1>2, <2>1
<1>7. /\ job' \in [Threads -> Jobs] /\ job'[t] = j
      /\ \A u \in Threads \ {t} : job'[u] = job[u]
  BY <1>1, <1>4
<1>8. On(t, a)
  BY <1>0, <1>3, <1>5 DEF On
<1>9. \A x \in Paths : \A n :
        /\ \A i : Ided(x, n, i)' <=> Ided(x, n, i)
        /\ Finished(x, n)' => Finished(x, n)
        /\ Holds(x, n)' <=> Holds(x, n)
        /\ Content(x)' = Content(x)
        /\ ~Ided(x, n, None)'
  BY <1>1, SameSides DEF ReleaseInv
<1>10. \A u \in Threads : On(u, a)' => On(u, a) /\ job'[u] # Idle
  BY <1>4, <1>7 DEF On, Idle
<1>11. ASSUME a \notin mixed PROVE ThreadOK(a)' /\ DoneOK(a)'
  <2>1. ThreadOK(a) /\ DoneOK(a)
    BY <1>2, <1>11 DEF ReleaseInv, AssetsOK, AssetOK
  <2>2. ASSUME NEW c, c # Absent, Uploads(job[t], file, remote, c), j # Idle
        PROVE  Uploads(j, file, remote', c)
    <3>1. CASE GhOpen(t)
      BY <1>0, <1>1, <1>4, <2>2, <3>1 DEF Uploads
    <3>2. CASE ~GhOpen(t)
      BY <1>0, <1>1, <1>4, <1>5, <1>6, <2>2, <3>2 DEF Uploads
    <3>. QED BY <3>1, <3>2
  <2>3. ThreadOK(a)'
    <3>1. ASSUME NEW u \in Threads, On(u, a)'
          PROVE  /\ u = t /\ j # Idle /\ a \notin deleting
                 /\ \A x \in Paths : Holds(x, a) =>
                      Content(x) = Absent \/ Uploads(j, file, remote', Content(x))
      BY <1>7, <1>8, <1>10, <2>1, <2>2, <3>1 DEF ThreadOK
    <3>. QED BY <1>1, <1>7, <1>9, <3>1 DEF ThreadOK
  <2>4. DoneOK(a)'
    BY <1>3, <1>8, <1>9, <2>1 DEF DoneOK
  <2>. QED BY <2>3, <2>4
<1>12. /\ UNCHANGED <<file, side, todo, listed, mixed, written, status, active>>
       /\ deleting' \subseteq deleting /\ told' \subseteq Threads
  BY <1>1
<1>13. \A u \in Threads : /\ JobOK(job'[u])
                          /\ On(u, a) \/ job'[u] = job[u]
                          /\ \/ job'[u] = Idle
                             \/ /\ job'[u].pc = job[u].pc /\ job'[u].path = job[u].path
                                /\ job'[u].id = job[u].id
  BY <1>4, <1>7, <1>8 DEF ReleaseInv, JobsOK
<1>. QED BY <1>2, <1>6, <1>7, <1>11, <1>12, <1>13, OneAsset

LEMMA GhDeleteKeeps ==
    ASSUME ReleaseInv, NEW n \in Names, GhDelete(n)
    PROVE  ReleaseInv'
<1>1. /\ n \in deleting /\ deleting' = deleting \ {n}
      /\ remote' = [remote EXCEPT ![n] = Absent] /\ job' = job /\ told' = told
      /\ UNCHANGED <<file, side, todo, listed, mixed, written, status, active>>
  BY DEF GhDelete, disk, memory, aside
<1>2. /\ remote' \in [Names -> 0..MaxWrites]
      /\ \A o \in Names \ {n} : remote'[o] = remote[o]
  BY <1>1, ReleaseAssumption DEF ReleaseInv, TypeOK, Absent
<1>3. /\ \A u \in Threads : \A o : On(u, o)' <=> On(u, o)
      /\ \A x \in Paths : \A o : Finished(x, o)' => Finished(x, o)
  <2>1. \A x \in Paths : \A o : Finished(x, o)' => Finished(x, o)
    BY <1>1, SameSides DEF ReleaseInv
  <2>. QED BY <1>1, <2>1 DEF On
<1>4. ASSUME n \notin mixed PROVE ThreadOK(n)' /\ DoneOK(n)'
  <2>1. /\ \A u \in Threads : ~On(u, n)
        /\ \A x \in Paths : ~Finished(x, n)
    BY <1>1, <1>4 DEF ReleaseInv, AssetsOK, AssetOK, ThreadOK, DoneOK
  <2>. QED BY <1>3, <2>1 DEF ThreadOK, DoneOK
<1>5. /\ job' \in [Threads -> Jobs] /\ told' \subseteq Threads
      /\ \A u \in Threads : JobOK(job[u])
  BY <1>1, AtWork, Types DEF ReleaseInv, JobsOK, TypeOK
<1>. QED BY <1>1, <1>2, <1>4, <1>5, OneAsset

\* A gh process that outlives the server goes on as it was; a request on the
\* asset that was cut short is on record.
LEMMA CrashKeeps ==
    ASSUME ReleaseInv, Crash
    PROVE  ReleaseInv'
<1>1. /\ todo' = << >> /\ listed' = None /\ told' = {}
      /\ status' = [i \in Ids |-> None] /\ active' = [i \in Ids |-> None]
      /\ mixed' = mixed \cup UNION {Keys(todo[k].to) : k \in DOMAIN todo}
      /\ UNCHANGED <<file, side, remote, deleting, written>>
  BY DEF Crash, disk
<1>2. \A k \in DOMAIN todo : todo[k].to \in Paths
  <2>1. todo \in Seq(Steps)
    BY DEF ReleaseInv, TodoOK, Chain
  <2>2. \A k \in DOMAIN todo : todo[k] \in Steps
    BY <2>1
  <2>. QED BY <2>2 DEF Steps
<1>3. \A p \in Paths : Keys(p) \subseteq Names
  BY DEF Keys, ReleaseInv, TypeOK, Sidecars
<1>4. ASSUME NEW t \in Threads, Runs(t)
      PROVE  /\ Orphan(t) \in Jobs /\ JobOK(Orphan(t))
             /\ job[t].pc \in {"register", "poll", "orphan"}
             /\ Orphan(t).pc = "orphan" /\ Orphan(t).id = None
             /\ Orphan(t).path = job[t].path /\ Orphan(t).gh = job[t].gh
             /\ Orphan(t).data = job[t].data
  <2>1. job[t] \in Jobs /\ JobOK(job[t]) /\ job[t].gh \in {"opening", "sending"}
    BY <1>4, AtWork DEF Runs
  <2>2. job[t].pc \in {"register", "poll", "orphan"} /\ job[t].path \in Paths
    BY <2>1 DEF JobOK
  <2> DEFINE j == Orphan(t)
  <2>3. /\ j \in Jobs /\ j.pc = "orphan" /\ j.id = None /\ j.path = job[t].path
        /\ j.gh = job[t].gh /\ j.data = job[t].data
    BY <2>1 DEF Orphan, Jobs, Labels, Sidecars
  <2> HIDE DEF j
  <2>4. JobOK(j)
    BY <2>2, <2>3 DEF JobOK
  <2>. QED BY <2>2, <2>3, <2>4 DEF j
<1>5. \A t \in Threads : job'[t] = Idle \/ (Runs(t) /\ job'[t] = Orphan(t))
  BY DEF Crash
<1>6. job' \in [Threads -> Jobs] /\ \A t \in Threads : JobOK(job'[t])
  <2>1. job' = [t \in Threads |-> job'[t]]
    BY DEF Crash
  <2>2. \A t \in Threads : job'[t] \in Jobs /\ JobOK(job'[t])
    BY <1>4, <1>5, Types DEF ReleaseInv
  <2>. QED BY <2>1, <2>2
<1>7. TypeOK'
  <2>1. mixed' \subseteq Names
    BY <1>1, <1>2, <1>3 DEF ReleaseInv, TypeOK
  <2>. QED BY <1>1, <1>6, <2>1 DEF ReleaseInv, TypeOK, Jobs, Labels
<1>8. TodoOK'
  <2>1. Chain(<< >>)
    BY DEF Chain
  <2>. QED BY <1>1, <2>1 DEF ReleaseInv, TodoOK, Nexts, Leaving
<1>9. JobsOK'
  BY <1>6 DEF JobsOK
<1>10. \A p, n : ~Begun(p, n)' /\ ~Going(p)' /\ Content(p)' = file[p]
  BY <1>1 DEF Begun, Waits, Going, Content, Leaving, Nexts
<1>11. ASSUME NEW n \in Names \ mixed', NEW p \in Paths
       PROVE  /\ \A i : i # None /\ Ided(p, n, i)' => Ided(p, n, i)
              /\ Finished(p, n)' => Finished(p, n)
              /\ Holds(p, n)' => Holds(p, n)
              /\ Holds(p, n)' => Content(p)' \in {Content(p), Absent}
              /\ ~Ided(p, n, None)'
  <2>1. Keyed(p, n)' <=> Keyed(p, n)
    BY <1>1 DEF Keyed
  <2>2. \A i : Ided(p, n, i)' => Ided(p, n, i)
    BY <1>1, <1>10, <2>1 DEF Ided
  <2>3. ~Ided(p, n, None)'
    BY <2>2, IdTypes DEF ReleaseInv
  <2>4. Holds(p, n)' => Holds(p, n)
    BY <1>10, <2>1 DEF Holds
  <2>5. Content(p)' \in {Content(p), Absent}
    BY <1>10 DEF Content, ReleaseInv, TodoOK
  <2>6. ASSUME Finished(p, n)' PROVE Finished(p, n)
    <3>1. Keyed(p, n) /\ Sure(p)'
      BY <1>10, <2>1, <2>6 DEF Finished
    <3>2. side[p].id \in Ids
      BY <3>1, IdTypes DEF Keyed, ReleaseInv
    <3>3. side[p].status = "done"
      BY <1>1, <3>1, <3>2, Types DEF Sure, Statuses, ReleaseInv
    <3>4. ~Going(p) /\ ~Begun(p, n)
      <4> SUFFICES ASSUME todo # << >>, Head(todo).to = p PROVE FALSE
        BY DEF Going, Begun, Waits, Nexts, To
      <4>1. 1 \in DOMAIN todo /\ todo[1].to = p
        BY DEF ReleaseInv, TodoOK, Chain
      <4>2. n \in Keys(p)
        BY <3>1 DEF Keyed, Keys
      <4>. QED BY <1>1, <1>11, <4>1, <4>2
    <3>. QED BY <3>1, <3>3, <3>4 DEF Finished, Sure
  <2>. QED BY <2>2, <2>3, <2>4, <2>5, <2>6
<1>12. ASSUME NEW u \in Threads
       PROVE  \/ job'[u].pc = "idle" /\ job'[u].id = None
              \/ /\ job[u].pc # "idle" /\ job'[u].pc # "idle" /\ job'[u].path = job[u].path
                 /\ job'[u].id \in {job[u].id, None}
                 /\ job[u].pc \in {"mark", "save"} => job'[u].pc \in {"mark", "save"}
                 /\ \/ job'[u].gh = job[u].gh /\ job'[u].data = job[u].data
                    \/ job'[u].gh \in {"failed", "killed"}
                    \/ job'[u].gh = "opening" /\ job[u].gh = "none"
  <2>1. CASE job'[u] = Idle
    BY <2>1 DEF Idle
  <2>2. CASE Runs(u) /\ job'[u] = Orphan(u)
    BY <1>4, <2>2
  <2>. QED BY <1>5, <2>1, <2>2
<1>13. AssetsOK'
  BY <1>1, <1>11, <1>12, ThreadsMove DEF ReleaseInv
<1>. QED BY <1>7, <1>8, <1>9, <1>13 DEF ReleaseInv

(***************************************************************************)
(* The listing of the archives                                             *)
(***************************************************************************)

\* A step of the listing that leaves the sidecars alone.
LEMMA ListsOnly ==
    ASSUME ReleaseInv, UNCHANGED <<disk, todo, memory, remote, deleting, mixed, written>>,
           listed' \in [path : Archives, meta : Sidecars \ {None}, done : BOOLEAN] \cup {None},
           \A p \in Paths : side[p] # None /\ Sure(p)' => Sure(p)
    PROVE  ReleaseInv'
<1>0. UNCHANGED <<file, side, todo, job, status, active, told, remote, deleting, mixed, written>>
  BY DEF disk, memory
<1>1. TypeOK' /\ JobsOK'
  BY <1>0 DEF ReleaseInv, TypeOK, JobsOK
<1>2. TodoOK'
  BY <1>0 DEF ReleaseInv, TodoOK, Nexts, Leaving, To, From
<1>3. /\ \A p : (Waits(p)' <=> Waits(p)) /\ (Going(p)' <=> Going(p)) /\ Content(p)' = Content(p)
      /\ \A p, n : (Begun(p, n)' <=> Begun(p, n)) /\ (Keyed(p, n)' <=> Keyed(p, n))
      /\ Id' = Id
  BY <1>0 DEF Waits, Going, Content, Leaving, Nexts, To, From, Id, Begun, Keyed
<1>4. \A p \in Paths : \A n :
        /\ \A i : Ided(p, n, i)' <=> Ided(p, n, i)
        /\ Finished(p, n)' => Finished(p, n)
  BY <1>0, <1>3 DEF Ided, Finished, Keyed
<1>5. \A t \in Threads : file'[job[t].path] = file[job[t].path]
  BY <1>0
<1>6. AssetsOK'
  BY <1>0, <1>3, <1>4, <1>5, FilesMove DEF ReleaseInv
<1>. QED BY <1>1, <1>2, <1>6 DEF ReleaseInv

\* The sidecar that is written back as done is the one that was read, or its
\* asset is on record.
LEMMA ListWriteKeeps ==
    ASSUME ReleaseInv, ListWrite
    PROVE  ReleaseInv'
<1> DEFINE meta == listed.meta
           new == [meta EXCEPT !.status = "done"]
<1>0. PICK p \in Paths : p = listed.path
  BY ReleaseAssumption DEF ListWrite, ReleaseInv, TypeOK
<1>1. /\ listed # None /\ listed.done /\ listed' = None
      /\ side' = [side EXCEPT ![p] = new]
      /\ mixed' = IF Same(side[p], meta) THEN mixed ELSE mixed \cup {meta.key}
      /\ UNCHANGED <<file, todo, job, status, active, told, remote, deleting, written>>
      /\ side \in [Paths -> Sidecars] /\ mixed \subseteq Names /\ meta \in Sidecars \ {None}
  BY <1>0 DEF ListWrite, memory, ReleaseInv, TypeOK
<1>2. new \in Sidecars /\ new.key = meta.key /\ new.id = meta.id /\ meta.key \in Names
  BY <1>1 DEF Sidecars
<1>3. TypeOK' /\ JobsOK'
  <2>1. side' \in [Paths -> Sidecars] /\ mixed' \subseteq Names
    BY <1>1, <1>2
  <2>. QED BY <1>1, <2>1 DEF ReleaseInv, TypeOK, JobsOK
<1>4. TodoOK'
  BY <1>1 DEF ReleaseInv, TodoOK, Nexts, Leaving, To, From
<1>5. \A x \in Paths : side'[x] = IF x = p THEN new ELSE side[x]
  BY <1>1
<1>6. /\ \A x : (Going(x)' <=> Going(x)) /\ Content(x)' = Content(x)
      /\ \A x, n : Begun(x, n)' <=> Begun(x, n)
      /\ Id' = Id
  BY <1>1 DEF Waits, Going, Content, Leaving, Nexts, To, From, Id, Begun
<1>7. Same(side[p], meta) => Sure(p)
  BY <1>0, <1>1 DEF Sure
<1> HIDE DEF meta, new
<1>8. ASSUME NEW n \in Names \ mixed', NEW x \in Paths
      PROVE  /\ \A i : Ided(x, n, i)' => Ided(x, n, i)
             /\ Finished(x, n)' => Finished(x, n)
  <2>1. ASSUME Keyed(x, n)'
        PROVE  /\ Keyed(x, n) /\ side'[x].id = side[x].id
               /\ x = p => Sure(p)
    <3>1. CASE x = p
      <4>1. new.key = n
        BY <1>5, <2>1, <3>1 DEF Keyed
      <4>2. Same(side[p], meta)
        BY <1>1, <1>2, <1>8, <4>1
      <4>. QED BY <1>2, <1>5, <1>7, <3>1, <4>1, <4>2 DEF Keyed, Same
    <3>2. CASE x # p
      BY <1>5, <2>1, <3>2 DEF Keyed
    <3>. QED BY <3>1, <3>2
  <2>2. \A i : Ided(x, n, i)' => Ided(x, n, i)
    BY <1>6, <2>1 DEF Ided
  <2>3. ASSUME Finished(x, n)' PROVE Finished(x, n)
    <3>1. CASE Begun(x, n)' /\ status'[Id'] = "done"
      BY <1>1, <1>6, <3>1 DEF Finished
    <3>2. CASE Keyed(x, n)' /\ Sure(x)' /\ ~Going(x)' /\ ~Begun(x, n)'
      <4>1. Sure(x)
        <5>1. CASE x = p
          BY <2>1, <3>2, <5>1
        <5>2. CASE x # p
          BY <1>1, <1>5, <3>2, <5>2 DEF Sure
        <5>. QED BY <5>1, <5>2
      <4>. QED BY <1>6, <2>1, <3>2, <4>1 DEF Finished
    <3>. QED BY <2>3, <3>1, <3>2 DEF Finished
  <2>. QED BY <2>2, <2>3
<1>9. AssetsOK'
  BY <1>1, <1>6, <1>8, FilesMove DEF ReleaseInv
<1>. QED BY <1>3, <1>4, <1>9 DEF ReleaseInv

LEMMA ListingKeeps ==
    ASSUME ReleaseInv, Listing
    PROVE  ReleaseInv'
<1>1. ASSUME NEW p \in Paths, ListRead(p) PROVE ReleaseInv'
  <2>1. /\ UNCHANGED <<disk, todo, memory, remote, deleting, mixed, written>>
        /\ p \in Archives /\ side[p] \in Sidecars \ {None}
        /\ listed' = [path |-> p, meta |-> side[p], done |-> FALSE]
        /\ UNCHANGED <<side, status>>
    BY <1>1 DEF ListRead, ReleaseInv, TypeOK, disk, memory
  <2>2. \A x \in Paths : Sure(x)' => Sure(x)
    BY <2>1 DEF Sure
  <2>. QED BY <2>1, <2>2, ListsOnly
<1>2. CASE ListLook
  <2>1. /\ UNCHANGED <<disk, todo, memory, remote, deleting, mixed, written>>
        /\ UNCHANGED <<side, status>>
        /\ listed \in [path : Archives, meta : Sidecars \ {None}, done : BOOLEAN]
    BY <1>2 DEF ListLook, ReleaseInv, TypeOK, disk, memory
  <2>2. CASE listed' = None
    <3>1. \A x \in Paths : Sure(x)' => Sure(x)
      BY <2>1, <2>2 DEF Sure
    <3>. QED BY <2>1, <2>2, <3>1, ListsOnly
  <2>3. CASE listed' = [listed EXCEPT !.done = TRUE] /\ status[listed.meta.id] = "done"
    <3>1. /\ listed' \in [path : Archives, meta : Sidecars \ {None}, done : BOOLEAN]
          /\ listed'.meta = listed.meta
      BY <2>1, <2>3
    <3>2. \A x \in Paths : Sure(x)' => Sure(x)
      BY <2>1, <2>3, <3>1 DEF Sure, Same
    <3>. QED BY <2>1, <3>1, <3>2, ListsOnly
  <2>. QED BY <1>2, <2>2, <2>3 DEF ListLook
<1>. QED BY <1>1, <1>2, ListWriteKeeps DEF Listing

(***************************************************************************)
(* Requests                                                                *)
(***************************************************************************)

LEMMA HeadJoins ==
    ASSUME NEW s, NEW r, Chain(s), Chain(r), s # << >>,
           r # << >> => Head(r).do \notin {"write", "newmeta", "movemeta", "meta"}
    PROVE  Chain(s \o r) /\ s \o r # << >> /\ Head(s \o r) = Head(s)
<1>1. s \in Seq(Steps) /\ r \in Seq(Steps) /\ Len(s) \in Nat /\ Len(s) >= 1
  BY DEF Chain
<1>2. Len(s \o r) = Len(s) + Len(r) /\ (s \o r)[1] = s[1] /\ Len(r) \in Nat
  BY <1>1
<1>3. s \o r # << >> /\ Head(s \o r) = Head(s)
  BY <1>1, <1>2
<1>. QED BY <1>3, JoinChains

\* A request begins: nothing else has changed.
LEMMA RequestKeeps ==
    ASSUME ReleaseInv, NEW s, Request(s), Chain(s), s # << >>,
           Head(s).do \notin {"newmeta", "movemeta", "meta"},
           Head(s).do = "write" => written < MaxWrites
    PROVE  ReleaseInv'
<1>1. /\ todo = << >> /\ todo' = s
      /\ UNCHANGED <<file, side, status, active, job, told, listed, remote, deleting, mixed,
                     written>>
  BY DEF Request, disk, memory
<1>2. TypeOK' /\ JobsOK'
  BY <1>1 DEF ReleaseInv, TypeOK, JobsOK
<1>3. /\ \A p : ~Waits(p) /\ ~Going(p) /\ ~Leaving(p)
      /\ \A p : ~Waits(p)' /\ ~Leaving(p)'
  BY <1>1 DEF Waits, Going, Leaving, Nexts
<1>4. TodoOK'
  BY <1>1, <1>3 DEF ReleaseInv, TodoOK, Nexts
<1>5. /\ \A p, n, i : Ided(p, n, i)' => Ided(p, n, i)
      /\ \A p, n : Finished(p, n)' => Finished(p, n)
      /\ \A p : Content(p)' = Content(p)
  BY <1>1, <1>3 DEF Ided, Begun, Finished, Keyed, Sure, Content
<1>6. AssetsOK'
  <2>1. \A t \in Threads : file'[job[t].path] = file[job[t].path]
    BY <1>1
  <2>. QED BY <1>1, <1>5, <2>1, FilesMove DEF ReleaseInv
<1>. QED BY <1>2, <1>4, <1>6 DEF ReleaseInv

LEMMA RequestsKeep ==
    ASSUME ReleaseInv, NEW p \in Paths,
           \/ Upload(p) \/ Save(p) \/ UploadBackup(p) \/ Delete(p) \/ DeleteRelease(p)
           \/ CleanSidecar(p)
           \/ \E deleted \in BOOLEAN : Convert(p, deleted)
           \/ \E q \in Paths : Rename(p, q) \/ Move(p, q)
    PROVE  ReleaseInv'
<1>0. \A q \in Paths, kind \in {"content", "backup"} :
        /\ StartUpload(q, kind) # << >> /\ Head(StartUpload(q, kind)).do = "start"
        /\ Cleanup(q) # << >> /\ Head(Cleanup(q)).do = "drop"
        /\ \A do \in Dos : <<At(do, q)>> # << >> /\ Head(<<At(do, q)>>).do = do
  BY DEF StartUpload, Cleanup, At, Step
<1>1. \A q \in Paths, kind \in {"content", "backup"} :
        /\ Chain(StartUpload(q, kind)) /\ Chain(Cleanup(q))
        /\ Chain(<<At("write", q)>>) /\ Chain(<<At("unlink", q)>>) /\ Chain(<<At("unside", q)>>)
  BY Parts
<1>2. CASE Upload(p)
  <2> DEFINE a == <<At("write", p)>>
             b == StartUpload(p, "content")
  <2>1. Request(a \o b) /\ written < MaxWrites
    BY <1>2 DEF Upload
  <2>2. Chain(a) /\ Chain(b) /\ a # << >> /\ Head(a).do = "write" /\ Head(b).do = "start"
    BY <1>0, <1>1 DEF Dos
  <2> HIDE DEF a, b
  <2>3. Chain(a \o b) /\ a \o b # << >> /\ Head(a \o b).do = "write"
    BY <2>2, HeadJoins
  <2> DEFINE c == a \o b
  <2> HIDE DEF c
  <2>4. Request(c) /\ Chain(c) /\ c # << >> /\ Head(c).do = "write"
    BY <2>1, <2>3 DEF c
  <2>. QED BY <2>1, <2>4, RequestKeeps
<1>3. CASE UploadBackup(p)
  <2> DEFINE c == StartUpload(p, "backup")
  <2>1. Request(c) /\ Chain(c) /\ c # << >> /\ Head(c).do = "start"
    BY <1>0, <1>1, <1>3 DEF UploadBackup
  <2> HIDE DEF c
  <2>. QED BY <2>1, RequestKeeps
<1>4. CASE Delete(p)
  <2> DEFINE a == Cleanup(p)
             b == <<At("unlink", p)>>
             d == IF p \in Archives THEN <<At("unside", p)>> ELSE << >>
             c == a \o b \o d
  <2>1. Request(c)
    BY <1>4 DEF Delete
  <2>2. Chain(a) /\ Chain(b) /\ a # << >> /\ Head(a).do = "drop" /\ Head(b).do = "unlink"
    BY <1>0, <1>1 DEF Dos
  <2>3. Chain(d) /\ (d # << >> => Head(d).do = "unside")
    <3>1. Chain(<<At("unside", p)>>) /\ Chain(<< >>) /\ Head(<<At("unside", p)>>).do = "unside"
      BY <1>0, Parts DEF Dos
    <3>. QED BY <3>1
  <2> HIDE DEF a, b, d
  <2>4. Chain(a \o b) /\ a \o b # << >> /\ Head(a \o b).do = "drop"
    BY <2>2, HeadJoins
  <2>5. Chain(c) /\ c # << >> /\ Head(c).do = "drop"
    BY <2>3, <2>4, HeadJoins
  <2> HIDE DEF c
  <2>. QED BY <2>1, <2>5, RequestKeeps
<1>5. CASE DeleteRelease(p)
  <2> DEFINE c == Cleanup(p)
  <2>1. Request(c) /\ Chain(c) /\ c # << >> /\ Head(c).do = "drop"
    BY <1>0, <1>1, <1>5 DEF DeleteRelease
  <2> HIDE DEF c
  <2>. QED BY <2>1, RequestKeeps
<1>6. CASE CleanSidecar(p)
  <2> DEFINE c == <<At("unside", p)>>
  <2>1. Request(c) /\ Chain(c) /\ c # << >> /\ Head(c).do = "unside"
    BY <1>0, <1>1, <1>6 DEF CleanSidecar, Dos
  <2> HIDE DEF c
  <2>. QED BY <2>1, RequestKeeps
<1>7. ASSUME NEW deleted \in BOOLEAN, Convert(p, deleted) PROVE ReleaseInv'
  <2> DEFINE q == <<p[1], Partner[p[2]]>>
             a == <<At("write", q)>>
             b == IF deleted THEN <<At("unlink", p)>> ELSE << >>
             d == Cleanup(p)
             e == StartUpload(q, "content")
             c == a \o b \o d \o e
  <2>1. Request(c) /\ written < MaxWrites /\ q \in Paths
    BY <1>7 DEF Convert
  <2>2. /\ Chain(a) /\ Chain(d) /\ Chain(e) /\ a # << >> /\ Head(a).do = "write"
        /\ Head(d).do = "drop" /\ Head(e).do = "start"
    BY <1>0, <1>1, <2>1 DEF Dos
  <2>3. Chain(b) /\ (b # << >> => Head(b).do = "unlink")
    <3>1. Chain(<<At("unlink", p)>>) /\ Chain(<< >>) /\ Head(<<At("unlink", p)>>).do = "unlink"
      BY <1>0, Parts DEF Dos
    <3>. QED BY <3>1
  <2> HIDE DEF q, a, b, d, e
  <2>4. Chain(a \o b) /\ a \o b # << >> /\ Head(a \o b).do = "write"
    BY <2>2, <2>3, HeadJoins
  <2>5. Chain((a \o b) \o d) /\ (a \o b) \o d # << >> /\ Head((a \o b) \o d).do = "write"
    BY <2>2, <2>4, HeadJoins
  <2>6. Chain(c) /\ c # << >> /\ Head(c).do = "write"
    BY <2>2, <2>5, HeadJoins
  <2> HIDE DEF c
  <2>. QED BY <2>1, <2>6, RequestKeeps
<1>8. ASSUME NEW q \in Paths, Rename(p, q) PROVE ReleaseInv'
  <2> DEFINE c == <<Step("rename", p, q, "content"), Step("newmeta", p, q, "content"),
                    At("unside", p)>>
  <2>1. Request(c) /\ p # q /\ {p, q} \cap Archives = {}
    BY <1>8 DEF Rename
  <2>2. Chain(c)
    BY <2>1, Parts
  <2>3. c # << >> /\ Head(c).do = "rename"
    BY DEF Step
  <2> HIDE DEF c
  <2>. QED BY <2>1, <2>2, <2>3, RequestKeeps
<1>9. ASSUME NEW q \in Paths, Move(p, q) PROVE ReleaseInv'
  <2> DEFINE c == <<Step("rename", p, q, "content"), Step("movemeta", p, q, "content")>>
  <2>1. Request(c) /\ p # q /\ {p, q} \cap Archives = {}
    BY <1>9 DEF Move
  <2>2. Chain(c)
    BY <2>1, Parts
  <2>3. c # << >> /\ Head(c).do = "rename"
    BY DEF Step
  <2> HIDE DEF c
  <2>. QED BY <2>1, <2>2, <2>3, RequestKeeps
<1>10. CASE Save(p)
  <2> DEFINE c == <<At("write", p)>>
  <2>1. Request(c) /\ written < MaxWrites /\ Chain(c) /\ c # << >> /\ Head(c).do = "write"
    BY <1>0, <1>1, <1>10 DEF Save, Dos
  <2> HIDE DEF c
  <2>. QED BY <2>1, RequestKeeps
<1>. QED BY <1>2, <1>3, <1>4, <1>5, <1>6, <1>7, <1>8, <1>9, <1>10

(***************************************************************************)
(* The steps of a request                                                  *)
(***************************************************************************)

LEMMA Next1 ==
    ASSUME ReleaseInv, todo # << >>
    PROVE  /\ Head(todo) \in Steps /\ Chain(Tail(todo))
           /\ Opens(Head(todo)) => Tail(todo) # << >>
           /\ Tail(todo) # << >> => /\ Linked(Head(todo), Head(Tail(todo)))
                                    /\ Head(Tail(todo)) \in Steps
BY TailChain DEF ReleaseInv, TodoOK

\* What follows a step that neither renames a file nor starts a thread.
LEMMA GoesOn ==
    ASSUME ReleaseInv, todo # << >>,
           \/ todo' = Tail(todo) /\ Head(todo).do \notin {"rename", "start"}
           \/ todo' = Tail(Tail(todo)) /\ Head(todo).do \in {"newmeta", "drop"}
    PROVE  /\ Head(todo) \in Steps /\ Chain(todo')
           /\ \A do \in {"write", "newmeta", "movemeta", "meta"} : ~Nexts(do)'
           /\ \A p : ~Waits(p)' /\ ~Leaving(p)' /\ Content(p)' = file'[p]
<1>1. /\ Head(todo) \in Steps /\ Chain(todo')
      /\ todo' # << >> => Head(todo').do \notin {"write", "newmeta", "movemeta", "meta"}
  <2>1. CASE todo' = Tail(todo) /\ Head(todo).do \notin {"rename", "start"}
    BY <2>1, Next1 DEF Linked
  <2>2. CASE todo' = Tail(Tail(todo)) /\ Head(todo).do \in {"newmeta", "drop"}
    <3>1. Chain(Tail(todo)) /\ Tail(todo) # << >> /\ Head(Tail(todo)).do = "unside"
      BY <2>2, Next1 DEF Opens, Linked
    <3>2. /\ Chain(todo')
          /\ todo' # << >> => Linked(Head(Tail(todo)), Head(todo'))
      BY <2>2, <3>1, TailChain
    <3>. QED BY <3>1, <3>2, Next1 DEF Linked
  <2>. QED BY <2>1, <2>2
<1>2. \A do \in {"write", "newmeta", "movemeta", "meta"} : ~Nexts(do)'
  BY <1>1 DEF Nexts
<1>3. \A p : ~Waits(p)' /\ ~Leaving(p)'
  BY <1>2 DEF Waits, Leaving
<1>. QED BY <1>1, <1>2, <1>3 DEF Content

\* A step on files and sidecars.
LEMMA StepKeeps ==
    ASSUME ReleaseInv, UNCHANGED <<status, active, job, told, listed, remote, deleting>>, TodoOK',
           file' \in [Paths -> 0..MaxWrites], side' \in [Paths -> Sidecars],
           mixed \subseteq mixed', mixed' \subseteq Names,
           \A n \in Names \ mixed' :
             /\ \A p \in Paths : \A i : Ided(p, n, i)' =>
                  \E o \in Paths : Ided(o, n, i) /\ Content(p)' \in {Content(o), Absent}
             /\ \A p \in Paths : Finished(p, n)' =>
                  \E o \in Paths : Finished(o, n) /\ Content(p)' \in {Content(o), Absent}
             /\ \A t \in Threads : On(t, n) => file'[job[t].path] \in {file[job[t].path], Absent}
    PROVE  ReleaseInv'
<1>1. TypeOK' /\ JobsOK'
  BY DEF ReleaseInv, TypeOK, JobsOK
<1>2. AssetsOK'
  BY FilesMove DEF ReleaseInv
<1>. QED BY <1>1, <1>2 DEF ReleaseInv

\* What is named by the sidecar at a place, or by an upload from there, is an asset.
LEMMA ReplacedNames ==
    ASSUME ReleaseInv, NEW p \in Paths
    PROVE  Replaced(p) \subseteq Names
BY Types DEF Replaced, Keys, ReleaseInv, TypeOK, Sidecars

LEMMA WriteFileKeeps ==
    ASSUME ReleaseInv, WriteFile
    PROVE  ReleaseInv'
<1>1. /\ todo # << >> /\ Head(todo).do = "write" /\ todo' = Tail(todo)
      /\ written' = written + 1 /\ written < MaxWrites /\ written \in 0..MaxWrites
      /\ file' = [file EXCEPT ![To] = written'] /\ mixed' = mixed \cup Replaced(To)
      /\ UNCHANGED <<side, status, active, job, told, listed, remote, deleting>>
  BY DEF WriteFile, Takes, memory, ReleaseInv, TodoOK, Nexts
<1>2. PICK p \in Paths : p = To
  BY <1>1, Next1 DEF Steps, To
<1>3. /\ Chain(todo') /\ ~Nexts("write")'
      /\ \A x : ~Waits(x)' /\ ~Leaving(x)' /\ Content(x)' = file'[x]
  BY <1>1, GoesOn
<1>4. /\ file \in [Paths -> 0..MaxWrites] /\ written' \in 0..MaxWrites /\ mixed \subseteq Names
  BY <1>1, ReleaseAssumption DEF ReleaseInv, TypeOK
<1>5. /\ file' \in [Paths -> 0..MaxWrites]
      /\ \A x \in Paths \ {p} : file'[x] = file[x]
  BY <1>1, <1>2, <1>4
<1>6. TodoOK'
  BY <1>3, <1>4 DEF TodoOK
<1>7. \A x : ~Waits(x) /\ ~Going(x) /\ Content(x) = file[x]
  BY <1>1 DEF Waits, Going, Leaving, Nexts, Content
<1>8. ASSUME NEW n \in Names \ mixed'
      PROVE  /\ \A x \in Paths : \A i :
                  Ided(x, n, i)' => Ided(x, n, i) /\ Content(x)' = Content(x)
             /\ \A x \in Paths : Finished(x, n)' => Finished(x, n) /\ Content(x)' = Content(x)
             /\ \A t \in Threads : On(t, n) => file'[job[t].path] = file[job[t].path]
  <2>1. /\ n \notin Keys(p)
        /\ \A t \in Threads : job[t].path = p => n # Asset(p)
    BY <1>1, <1>2, <1>8 DEF Replaced
  <2>2. \A x \in Paths : Keyed(x, n)' => Keyed(x, n) /\ x # p
    BY <1>1, <2>1 DEF Keyed, Keys
  <2>3. \A x \in Paths : Keyed(x, n)' => Keyed(x, n) /\ Content(x)' = Content(x)
    BY <1>3, <1>5, <1>7, <2>2
  <2>4. \A t \in Threads : On(t, n) => job[t].path \in Paths \ {p}
    BY <2>1 DEF On, ReleaseInv, JobsOK, JobOK
  <2>5. \A x \in Paths : \A i : Ided(x, n, i)' => Keyed(x, n)' /\ side[x].id = i
    BY <1>1, <1>3 DEF Ided, Begun
  <2>6. \A x \in Paths : Finished(x, n)' => Keyed(x, n)' /\ Sure(x)
    BY <1>1, <1>3 DEF Finished, Begun, Sure
  <2>. QED BY <1>5, <1>7, <2>3, <2>4, <2>5, <2>6 DEF Ided, Begun, Finished
<1>9. mixed' \subseteq Names /\ mixed \subseteq mixed'
  BY <1>1, <1>2, <1>4, ReplacedNames
<1>10. side' \in [Paths -> Sidecars]
  BY <1>1 DEF ReleaseInv, TypeOK
<1>. QED BY <1>1, <1>5, <1>6, <1>8, <1>9, <1>10, StepKeeps

LEMMA UnlinkKeeps ==
    ASSUME ReleaseInv, Unlink
    PROVE  ReleaseInv'
<1>1. /\ todo # << >> /\ Head(todo).do = "unlink" /\ todo' = Tail(todo)
      /\ file' = [file EXCEPT ![To] = Absent]
      /\ UNCHANGED <<side, status, active, job, told, listed, remote, deleting, mixed, written>>
  BY DEF Unlink, Takes, memory, aside
<1>2. /\ Chain(todo') /\ ~Nexts("write")'
      /\ \A x : ~Waits(x)' /\ ~Leaving(x)' /\ Content(x)' = file'[x]
  BY <1>1, GoesOn
<1>3. file \in [Paths -> 0..MaxWrites] /\ mixed \subseteq Names /\ Absent \in 0..MaxWrites
  BY ReleaseAssumption DEF ReleaseInv, TypeOK, Absent
<1>4. /\ file' \in [Paths -> 0..MaxWrites]
      /\ \A x \in Paths : file'[x] \in {file[x], Absent}
  BY <1>1, <1>3
<1>5. TodoOK'
  BY <1>1, <1>2 DEF ReleaseInv, TodoOK
<1>6. \A x : ~Waits(x) /\ ~Going(x) /\ Content(x) = file[x]
  BY <1>1 DEF Waits, Going, Leaving, Nexts, Content
<1>7. ASSUME NEW n
      PROVE  /\ \A x \in Paths : \A i : Ided(x, n, i)' => Ided(x, n, i)
             /\ \A x \in Paths : Finished(x, n)' => Finished(x, n)
  BY <1>1, <1>2, <1>6 DEF Ided, Begun, Finished, Keyed, Sure
<1>8. \A x \in Paths : Content(x)' \in {Content(x), Absent}
  BY <1>2, <1>4, <1>6
<1>9. \A n, t : t \in Threads /\ On(t, n) => job[t].path \in Paths
  BY DEF On, ReleaseInv, JobsOK, JobOK
<1>10. side' \in [Paths -> Sidecars]
  BY <1>1 DEF ReleaseInv, TypeOK
<1>. QED BY <1>1, <1>3, <1>4, <1>5, <1>7, <1>8, <1>9, <1>10, StepKeeps

\* The file is ahead of its sidecar, which the next step brings along.
LEMMA RenameFileKeeps ==
    ASSUME ReleaseInv, RenameFile
    PROVE  ReleaseInv'
<1>1. /\ todo # << >> /\ Head(todo).do = "rename" /\ todo' = Tail(todo)
      /\ file' = [file EXCEPT ![To] = file[From], ![From] = Absent]
      /\ mixed' = mixed \cup Replaced(To)
      /\ UNCHANGED <<side, status, active, job, told, listed, remote, deleting, written>>
  BY DEF RenameFile, Takes, memory, aside
<1>2. PICK p \in Paths, q \in Paths : p = From /\ q = To
  BY <1>1, Next1 DEF Steps, To, From
<1>3. /\ Chain(todo') /\ todo' # << >> /\ Head(todo').do \in {"newmeta", "movemeta"}
      /\ Head(todo').from = p /\ Head(todo').to = q /\ p # q
  BY <1>1, <1>2, Next1 DEF Opens, Linked, To, From
<1>4. /\ file \in [Paths -> 0..MaxWrites] /\ mixed \subseteq Names /\ Absent \in 0..MaxWrites
      /\ side' \in [Paths -> Sidecars]
  BY <1>1, ReleaseAssumption DEF ReleaseInv, TypeOK, Absent
<1>5. /\ file' \in [Paths -> 0..MaxWrites] /\ file'[q] = file[p] /\ file'[p] = Absent
      /\ \A x \in Paths \ {p, q} : file'[x] = file[x]
  BY <1>1, <1>2, <1>3, <1>4
<1>6. \A x : /\ ~Waits(x) /\ ~Going(x) /\ Content(x) = file[x]
             /\ ~Waits(x)' /\ ~Going(x)' /\ (Leaving(x)' <=> x = p)
  BY <1>1, <1>3 DEF Waits, Going, Leaving, Nexts, Content, To, From
<1>7. TodoOK'
  <2>1. \A x \in Paths : Leaving(x)' => To' # x /\ file'[x] = Absent
    BY <1>3, <1>5, <1>6 DEF To
  <2>2. ~Nexts("write")'
    BY <1>3 DEF Nexts
  <2>. QED BY <1>1, <1>3, <2>1, <2>2 DEF ReleaseInv, TodoOK
<1>8. \A x \in Paths \ {q} : Content(x)' = Content(x)
  <2>1. Content(p)' = file'[q]
    BY <1>3, <1>6 DEF Content, To
  <2>. QED BY <1>5, <1>6, <2>1 DEF Content
<1>9. ASSUME NEW n \in Names \ mixed'
      PROVE  /\ \A x \in Paths : \A i :
                  Ided(x, n, i)' => Ided(x, n, i) /\ Content(x)' = Content(x)
             /\ \A x \in Paths : Finished(x, n)' => Finished(x, n) /\ Content(x)' = Content(x)
             /\ \A t \in Threads : On(t, n) => file'[job[t].path] \in {file[job[t].path], Absent}
  <2>1. /\ n \notin Keys(q)
        /\ \A t \in Threads : job[t].path = q => n # Asset(q)
    BY <1>1, <1>2, <1>9 DEF Replaced
  <2>2. \A x \in Paths : Keyed(x, n)' => Keyed(x, n) /\ x # q
    BY <1>1, <2>1 DEF Keyed, Keys
  <2>3. \A t \in Threads : On(t, n) => job[t].path \in Paths \ {q}
    BY <2>1 DEF On, ReleaseInv, JobsOK, JobOK
  <2>4. \A x \in Paths : \A i : Ided(x, n, i)' => Keyed(x, n)' /\ side[x].id = i
    BY <1>1, <1>6 DEF Ided, Begun
  <2>5. \A x \in Paths : Finished(x, n)' => Keyed(x, n)' /\ Sure(x)
    BY <1>1, <1>6 DEF Finished, Begun, Sure
  <2>. QED BY <1>5, <1>6, <1>8, <2>2, <2>3, <2>4, <2>5 DEF Ided, Begun, Finished
<1>10. mixed' \subseteq Names /\ mixed \subseteq mixed'
  BY <1>1, <1>2, <1>4, ReplacedNames
<1>. QED BY <1>1, <1>4, <1>5, <1>7, <1>9, <1>10, StepKeeps

\* The steps that change a sidecar and no file.
LEMMA SidecarMoves ==
    ASSUME ReleaseInv,
           UNCHANGED <<file, status, active, job, told, listed, remote, deleting, written>>,
           side' \in [Paths -> Sidecars], mixed \subseteq mixed', mixed' \subseteq Names,
           todo # << >>,
           \/ todo' = Tail(todo) /\ Head(todo).do \notin {"rename", "start"}
           \/ todo' = Tail(Tail(todo)) /\ Head(todo).do \in {"newmeta", "drop"},
           \A p \in Paths, n \in Names \ mixed' :
             /\ Keyed(p, n)' =>
                  \E o \in Paths : Ided(o, n, side'[p].id) /\ file[p] \in {Content(o), Absent}
             /\ Finished(p, n)' =>
                  \E o \in Paths : Finished(o, n) /\ file[p] \in {Content(o), Absent}
    PROVE  ReleaseInv'
<1>1. /\ Chain(todo') /\ ~Nexts("write")'
      /\ \A x : ~Waits(x)' /\ ~Leaving(x)' /\ Content(x)' = file'[x]
  BY GoesOn
<1>2. TodoOK'
  BY <1>1 DEF ReleaseInv, TodoOK
<1>3. /\ \A x, n, i : Ided(x, n, i)' => Keyed(x, n)' /\ side'[x].id = i
      /\ \A x : Content(x)' = file[x]
  BY <1>1 DEF Ided, Begun
<1>4. file' \in [Paths -> 0..MaxWrites]
  BY DEF ReleaseInv, TypeOK
<1>5. \A t \in Threads : file'[job[t].path] = file[job[t].path]
  OBVIOUS
<1>. QED BY <1>2, <1>3, <1>4, <1>5, StepKeeps

LEMMA NewMetaKeeps ==
    ASSUME ReleaseInv, NewMeta
    PROVE  ReleaseInv'
<1>1. /\ todo # << >> /\ Head(todo).do = "newmeta"
      /\ UNCHANGED <<file, status, active, job, told, listed, remote, deleting, mixed, written>>
  BY DEF NewMeta, memory, aside
<1>2. PICK p \in Paths, q \in Paths \ Archives : p = From /\ q = To
  BY <1>1, Next1 DEF Steps, To, From
<1>3. side \in [Paths -> Sidecars] /\ mixed \subseteq Names
  BY DEF ReleaseInv, TypeOK
<1>4. /\ \A x : ~Waits(x) /\ ~Going(x) /\ (Leaving(x) <=> x = p)
      /\ q # p /\ file[p] = Absent
      /\ \A x : Content(x) = IF x = p THEN file[q] ELSE file[x]
  BY <1>1, <1>2 DEF Waits, Going, Leaving, Nexts, Content, ReleaseInv, TodoOK
<1>5. /\ \A x, n : Keyed(x, n) => Ided(x, n, side[x].id)
      /\ \A x, n : Keyed(x, n) /\ Sure(x) => Finished(x, n)
  BY <1>4 DEF Ided, Finished, Begun
<1>6. CASE side[p] = None
  <2>1. todo' = Tail(Tail(todo)) /\ side' = side
    BY <1>2, <1>6 DEF NewMeta
  <2>2. \A x, n : Keyed(x, n)' => Keyed(x, n) /\ x # p
    BY <1>6, <2>1 DEF Keyed
  <2>3. /\ Chain(todo') /\ \A x : ~Waits(x)'
    BY <1>1, <2>1, GoesOn
  <2>4. \A x, n : Finished(x, n)' => Keyed(x, n)' /\ Sure(x)
    BY <1>1, <2>1, <2>3 DEF Finished, Begun, Sure
  <2>. QED BY <1>1, <1>3, <1>4, <1>5, <2>1, <2>2, <2>4, SidecarMoves
<1>7. CASE side[p] # None
  <2>1. todo' = Tail(todo) /\ side' = [side EXCEPT ![q] = side[p]]
    BY <1>2, <1>7 DEF NewMeta
  <2>2. /\ side' \in [Paths -> Sidecars] /\ side'[q] = side[p]
        /\ \A x \in Paths \ {q} : side'[x] = side[x]
    BY <1>3, <2>1
  <2>3. Going(p)' /\ \A x : ~Waits(x)'
    <3>1. todo' # << >> /\ Head(todo').do = "unside" /\ Head(todo').to = p
      BY <1>1, <1>2, <2>1, Next1 DEF Opens, Linked, From
    <3>. QED BY <3>1 DEF Going, Waits, Nexts, To
  <2>4. /\ \A n : Keyed(q, n)' => Keyed(p, n)
        /\ \A x \in Paths \ {q} : \A n : Keyed(x, n)' => Keyed(x, n)
    BY <2>2 DEF Keyed
  <2>5. Sure(q)' => Sure(p)
    <3>1. listed # None => listed.path # q
      BY <1>2 DEF ReleaseInv, TypeOK
    <3>. QED BY <1>1, <2>2, <3>1 DEF Sure
  <2>6. /\ \A n : ~Finished(p, n)'
        /\ \A n : Finished(q, n)' => Keyed(q, n)' /\ Sure(p)
        /\ \A x \in Paths \ {p, q} : \A n : Finished(x, n)' => Keyed(x, n)' /\ Sure(x)
    BY <1>1, <2>2, <2>3, <2>5 DEF Finished, Begun, Sure
  <2>7. ASSUME NEW x \in Paths, NEW n \in Names
        PROVE  /\ Keyed(x, n)' =>
                    \E o \in Paths : Ided(o, n, side'[x].id) /\ file[x] \in {Content(o), Absent}
               /\ Finished(x, n)' =>
                    \E o \in Paths : Finished(o, n) /\ file[x] \in {Content(o), Absent}
    <3>1. CASE x = q
      BY <1>4, <1>5, <2>2, <2>4, <2>6, <3>1
    <3>2. CASE x # q
      BY <1>4, <1>5, <2>2, <2>4, <2>6, <3>2
    <3>. QED BY <3>1, <3>2
  <2>. QED BY <1>1, <1>3, <2>1, <2>2, <2>7, SidecarMoves
<1>. QED BY <1>6, <1>7

LEMMA MoveMetaKeeps ==
    ASSUME ReleaseInv, MoveMeta
    PROVE  ReleaseInv'
<1>1. /\ todo # << >> /\ Head(todo).do = "movemeta" /\ todo' = Tail(todo)
      /\ UNCHANGED <<file, status, active, job, told, listed, remote, deleting, mixed, written>>
  BY DEF MoveMeta, Takes, memory, aside
<1>2. PICK p \in Paths, q \in Paths \ Archives : p = From /\ q = To
  BY <1>1, Next1 DEF Steps, To, From
<1>3. side \in [Paths -> Sidecars] /\ mixed \subseteq Names
  BY DEF ReleaseInv, TypeOK
<1>4. /\ \A x : ~Waits(x) /\ ~Going(x) /\ (Leaving(x) <=> x = p)
      /\ q # p /\ file[p] = Absent
      /\ \A x : Content(x) = IF x = p THEN file[q] ELSE file[x]
      /\ \A x : ~Waits(x)'
  BY <1>1, <1>2, GoesOn DEF Waits, Going, Leaving, Nexts, Content, ReleaseInv, TodoOK
<1>5. /\ \A x, n : Keyed(x, n) => Ided(x, n, side[x].id)
      /\ \A x, n : Keyed(x, n) /\ Sure(x) => Finished(x, n)
  BY <1>4 DEF Ided, Finished, Begun
<1>6. /\ side' \in [Paths -> Sidecars]
      /\ \A x \in Paths \ {p, q} : side'[x] = side[x]
      /\ side[p] # None => side'[q] = side[p]
      /\ side[p] = None => side'[q] = side[q]
      /\ side'[p] = None
  <2>1. side' = IF side[p] = None THEN side ELSE [side EXCEPT ![q] = side[p], ![p] = None]
    BY <1>2 DEF MoveMeta
  <2>2. None \in Sidecars
    BY DEF Sidecars
  <2>. QED BY <1>3, <1>4, <2>1, <2>2
<1>7. CASE side[p] = None
  <2>1. \A x \in Paths : side'[x] = side[x]
    BY <1>6, <1>7
  <2>2. ASSUME NEW x \in Paths, NEW n \in Names
        PROVE  /\ Keyed(x, n)' =>
                    \E o \in Paths : Ided(o, n, side'[x].id) /\ file[x] \in {Content(o), Absent}
               /\ Finished(x, n)' =>
                    \E o \in Paths : Finished(o, n) /\ file[x] \in {Content(o), Absent}
    <3>1. (Keyed(x, n)' => Keyed(x, n) /\ x # p) /\ (Sure(x)' => Sure(x))
      BY <1>1, <1>7, <2>1 DEF Keyed, Sure
    <3>2. Finished(x, n)' => Keyed(x, n)' /\ Sure(x)'
      BY <1>4 DEF Finished, Begun
    <3>. QED BY <1>4, <1>5, <2>1, <3>1, <3>2
  <2>. QED BY <1>1, <1>3, <1>6, <2>2, SidecarMoves
<1>8. CASE side[p] # None
  <2>1. /\ \A n : ~Keyed(p, n)'
        /\ \A n : Keyed(q, n)' => Keyed(p, n)
        /\ \A x \in Paths \ {p, q} : \A n : Keyed(x, n)' => Keyed(x, n)
    BY <1>6, <1>8 DEF Keyed
  <2>2. Sure(q)' => Sure(p)
    <3>1. listed # None => listed.path # q
      BY <1>2 DEF ReleaseInv, TypeOK
    <3>. QED BY <1>1, <1>6, <1>8, <3>1 DEF Sure
  <2>3. \A x \in Paths \ {p, q} : Sure(x)' => Sure(x)
    BY <1>1, <1>6 DEF Sure
  <2>4. \A x, n : Finished(x, n)' => Keyed(x, n)' /\ Sure(x)'
    BY <1>4 DEF Finished, Begun
  <2>5. ASSUME NEW x \in Paths, NEW n \in Names
        PROVE  /\ Keyed(x, n)' =>
                    \E o \in Paths : Ided(o, n, side'[x].id) /\ file[x] \in {Content(o), Absent}
               /\ Finished(x, n)' =>
                    \E o \in Paths : Finished(o, n) /\ file[x] \in {Content(o), Absent}
    <3>1. CASE x = p
      BY <2>1, <2>4, <3>1
    <3>2. CASE x = q
      <4>1. Content(p) = file[x] /\ side'[x] = side[p]
        BY <1>4, <1>6, <1>8, <3>2
      <4>. QED BY <1>5, <2>1, <2>2, <2>4, <3>2, <4>1
    <3>3. CASE x \in Paths \ {p, q}
      BY <1>4, <1>5, <1>6, <2>1, <2>3, <2>4, <3>3
    <3>. QED BY <3>1, <3>2, <3>3
  <2>. QED BY <1>1, <1>3, <1>6, <2>5, SidecarMoves
<1>. QED BY <1>7, <1>8

LEMMA UnlinkSideKeeps ==
    ASSUME ReleaseInv, UnlinkSide
    PROVE  ReleaseInv'
<1>1. /\ todo # << >> /\ Head(todo).do = "unside" /\ todo' = Tail(todo)
      /\ UNCHANGED <<file, status, active, job, told, listed, remote, deleting, mixed, written>>
  BY DEF UnlinkSide, Takes, memory, aside
<1>2. PICK p \in Paths : p = To
  BY <1>1, Next1 DEF Steps, To
<1>3. /\ side' \in [Paths -> Sidecars] /\ side'[p] = None /\ mixed \subseteq Names
      /\ \A x \in Paths \ {p} : side'[x] = side[x]
  <2>1. side' = [side EXCEPT ![p] = None] /\ side \in [Paths -> Sidecars] /\ None \in Sidecars
    BY <1>2 DEF UnlinkSide, ReleaseInv, TypeOK, Sidecars
  <2>. QED BY <2>1 DEF ReleaseInv, TypeOK
<1>4. \A x : /\ ~Waits(x) /\ (Going(x) <=> x = p) /\ Content(x) = file[x]
             /\ ~Waits(x)'
  BY <1>1, <1>2, GoesOn DEF Waits, Going, Leaving, Nexts, Content
<1>5. ASSUME NEW x \in Paths, NEW n \in Names
      PROVE  /\ Keyed(x, n)' => Ided(x, n, side'[x].id)
             /\ Finished(x, n)' => Finished(x, n)
  <2>1. CASE x = p
    BY <1>3, <1>4, <2>1 DEF Keyed, Finished, Begun
  <2>2. CASE x # p
    <3>1. side'[x] = side[x] /\ (Sure(x)' <=> Sure(x)) /\ (Keyed(x, n)' <=> Keyed(x, n))
      BY <1>1, <1>3, <2>2 DEF Sure, Keyed
    <3>. QED BY <1>4, <2>2, <3>1 DEF Ided, Finished, Begun
  <2>. QED BY <2>1, <2>2
<1>. QED BY <1>1, <1>3, <1>4, <1>5, SidecarMoves

\* The new sidecar names the asset whose upload was started.
LEMMA WriteMetaKeeps ==
    ASSUME ReleaseInv, WriteMeta
    PROVE  ReleaseInv'
<1>1. /\ todo # << >> /\ Head(todo).do = "meta" /\ todo' = Tail(todo)
      /\ UNCHANGED <<file, status, active, job, told, listed, remote, deleting, written>>
  BY DEF WriteMeta, Takes, memory, aside
<1>2. PICK p \in Paths : p = To
  BY <1>1, Next1 DEF Steps, To
<1>3. PICK i \in Ids : i = Id
  BY <1>1, IdTypes DEF Waits, Nexts, ReleaseInv
<1>4. /\ side' \in [Paths -> Sidecars] /\ side'[p].key = Asset(p)
      /\ side'[p].status = "uploading" /\ side'[p].id = i
      /\ \A x \in Paths \ {p} : side'[x] = side[x]
  <2> DEFINE new == [id |-> i, key |-> Asset(p), status |-> "uploading"]
  <2>1. new \in Sidecars /\ new.key = Asset(p) /\ new.status = "uploading" /\ new.id = i
    BY Types DEF Sidecars, ReleaseInv
  <2>2. side' = [side EXCEPT ![p] = new] /\ side \in [Paths -> Sidecars]
    BY <1>2, <1>3 DEF WriteMeta, ReleaseInv, TypeOK
  <2> HIDE DEF new
  <2>. QED BY <2>1, <2>2
<1>5. /\ mixed' = IF listed # None /\ listed.path = p THEN mixed \cup {Asset(p)} ELSE mixed
      /\ mixed \subseteq mixed' /\ mixed' \subseteq Names
  <2>1. mixed' = IF listed # None /\ listed.path = p THEN mixed \cup {Asset(p)} ELSE mixed
    BY <1>2 DEF WriteMeta
  <2>. QED BY <2>1, Types DEF ReleaseInv, TypeOK
<1>6. \A x : /\ (Waits(x) <=> x = p) /\ ~Going(x) /\ Content(x) = file[x]
             /\ ~Waits(x)'
  BY <1>1, <1>2, GoesOn DEF Waits, Going, Leaving, Nexts, Content
<1>7. ASSUME NEW x \in Paths, NEW n \in Names \ mixed'
      PROVE  /\ Keyed(x, n)' => Ided(x, n, side'[x].id)
             /\ Finished(x, n)' => Finished(x, n)
  <2>1. CASE x = p
    <3>1. Keyed(x, n)' => Begun(x, n) /\ n = Asset(p)
      BY <1>4, <1>6, <2>1 DEF Keyed, Begun
    <3>2. Finished(x, n)' => Keyed(x, n)' /\ Sure(x)'
      BY <1>6 DEF Finished, Begun
    <3>3. Sure(p)' /\ n = Asset(p) => status[i] = "done"
      BY <1>1, <1>4, <1>5, <1>7 DEF Sure
    <3>. QED BY <1>3, <1>4, <2>1, <3>1, <3>2, <3>3 DEF Ided, Finished
  <2>2. CASE x # p
    <3>1. side'[x] = side[x] /\ (Sure(x)' <=> Sure(x)) /\ (Keyed(x, n)' <=> Keyed(x, n))
      BY <1>1, <1>4, <2>2 DEF Sure, Keyed
    <3>. QED BY <1>6, <2>2, <3>1 DEF Ided, Finished, Begun
  <2>. QED BY <2>1, <2>2
<1>. QED BY <1>1, <1>4, <1>5, <1>6, <1>7, SidecarMoves

\* The deletion begins only of an asset nobody deals with, or is on record; the
\* sidecar that names the asset goes next.
LEMMA DropKeeps ==
    ASSUME ReleaseInv, Drop
    PROVE  ReleaseInv'
<1>1. /\ todo # << >> /\ Head(todo).do = "drop"
      /\ UNCHANGED <<file, side, status, active, job, told, listed, remote, written>>
  BY DEF Drop, disk, memory, aside
<1>2. PICK p \in Paths : p = To
  BY <1>1, Next1 DEF Steps, To
<1>3. /\ \A x : ~Waits(x) /\ ~Going(x) /\ Content(x) = file[x]
      /\ side \in [Paths -> Sidecars] /\ mixed \subseteq Names
  BY <1>1 DEF Waits, Going, Leaving, Nexts, Content, ReleaseInv, TypeOK
<1>4. \A x, n : /\ Keyed(x, n) => Ided(x, n, side[x].id)
                /\ Finished(x, n) <=> Keyed(x, n) /\ Sure(x)
  BY <1>3 DEF Ided, Finished, Begun
<1>5. \A x, n : (Keyed(x, n)' <=> Keyed(x, n)) /\ (Sure(x)' <=> Sure(x))
  BY <1>1 DEF Keyed, Sure
<1>6. CASE side[p] = None
  <2>1. todo' = Tail(Tail(todo)) /\ UNCHANGED <<deleting, mixed>>
    BY <1>2, <1>6 DEF Drop
  <2>2. \A x : ~Waits(x)'
    BY <1>1, <2>1, GoesOn
  <2>3. \A x, n : Finished(x, n)' => Finished(x, n)
    BY <1>4, <1>5, <2>2 DEF Finished, Begun
  <2>4. /\ \A x, n : Keyed(x, n)' => Ided(x, n, side'[x].id)
        /\ side' \in [Paths -> Sidecars]
    BY <1>1, <1>3, <1>4, <1>5
  <2>. QED BY <1>1, <1>3, <2>1, <2>3, <2>4, SidecarMoves
<1>7. CASE side[p] # None
  <2>0. PICK a \in Names : a = side[p].key
    BY <1>3, <1>7 DEF Sidecars
  <2>1. /\ todo' = Tail(todo) /\ deleting' = deleting \cup {a}
        /\ mixed' = IF Busy(a) \/ Claimed(a, p) THEN mixed \cup {a} ELSE mixed
    BY <1>2, <1>7, <2>0 DEF Drop
  <2>2. /\ Chain(todo') /\ ~Nexts("write")'
        /\ \A x : ~Waits(x)' /\ ~Leaving(x)' /\ Content(x)' = file'[x]
    BY <1>1, <2>1, GoesOn
  <2>3. Going(p)'
    <3>1. todo' # << >> /\ Head(todo').do = "unside" /\ Head(todo').to = p
      BY <1>1, <1>2, <2>1, Next1 DEF Opens, Linked, To
    <3>. QED BY <3>1 DEF Going, Nexts, To
  <2>4. TypeOK' /\ JobsOK'
    BY <1>1, <1>3, <2>1 DEF ReleaseInv, TypeOK, JobsOK
  <2>5. TodoOK'
    BY <1>1, <2>2 DEF ReleaseInv, TodoOK
  <2>6. /\ \A x, n : Holds(x, n)' => Keyed(x, n)
        /\ \A x, n, i : Ided(x, n, i)' => Ided(x, n, i)
        /\ \A x, n : Finished(x, n)' => Finished(x, n) /\ x # p
        /\ \A x : Content(x)' = Content(x)
        /\ \A t \in Threads : \A n : On(t, n)' <=> On(t, n)
    BY <1>1, <1>3, <1>4, <1>5, <2>2, <2>3 DEF Holds, Ided, Begun, Finished, On
  <2>7. ASSUME NEW n \in Names \ mixed' PROVE AssetOK(n)'
    <3>1. n \notin mixed /\ ThreadOK(n) /\ DoneOK(n) /\ IdOK(n)
      BY <2>1, <2>7 DEF ReleaseInv, AssetsOK, AssetOK
    <3>2. IdOK(n)'
      <4>1. ASSUME NEW t \in Threads, NEW x \in Paths, Ided(x, n, job[t].id)'
            PROVE  On(t, n)'
        <5>1. PICK i : i = job[t].id /\ Ided(x, n, i)'
          BY <1>1, <4>1 DEF Ided
        <5>. QED BY <2>6, <3>1, <5>1 DEF IdOK
      <4>. QED BY <4>1 DEF IdOK
    <3>3. CASE n # a
      <4>1. n \notin deleting => n \notin deleting'
        BY <2>1, <3>3
      <4>2. \A x : Holds(x, n)' => Holds(x, n)
        BY <2>6 DEF Holds
      <4>3. ThreadOK(n)'
        BY <1>1, <2>6, <3>1, <4>1, <4>2 DEF ThreadOK
      <4>4. DoneOK(n)'
        BY <1>1, <2>6, <3>1, <4>1 DEF DoneOK
      <4>. QED BY <3>2, <4>3, <4>4 DEF AssetOK
    <3>4. CASE n = a
      <4>1. ~Busy(a) /\ ~Claimed(a, p)
        BY <2>1, <2>7, <3>4
      <4>2. \A t \in Threads : ~On(t, n)
        BY <3>4, <4>1 DEF Busy, On, Idle
      <4>3. \A x \in Paths : ~Finished(x, n)'
        BY <1>4, <2>6, <3>4, <4>1 DEF Claimed, Keyed
      <4>4. ThreadOK(n)' /\ DoneOK(n)'
        BY <2>6, <4>2, <4>3 DEF ThreadOK, DoneOK
      <4>. QED BY <3>2, <4>4 DEF AssetOK
    <3>. QED BY <3>3, <3>4
  <2>. QED BY <2>4, <2>5, <2>7 DEF ReleaseInv, AssetsOK
<1>. QED BY <1>6, <1>7

\* An upload begins only of an asset nobody deals with, under an id nobody has,
\* or is on record; the sidecar that names the asset comes next.
LEMMA StartKeeps ==
    ASSUME ReleaseInv, StartThread \/ NoGh
    PROVE  ReleaseInv'
<1>0. PICK word \in {"pending", "failed"} : Queued(word)
  BY DEF StartThread, NoGh
<1>1. /\ todo # << >> /\ Head(todo).do = "start" /\ todo' = Tail(todo)
      /\ status' = [status EXCEPT ![Id] = word]
      /\ mixed' = mixed \cup {n \in Names : Shares(n)}
      /\ told' \subseteq Threads
      /\ UNCHANGED <<file, side, active, listed, remote, deleting, written>>
  BY <1>0, AtWork DEF Queued, Takes, disk, aside, ReleaseInv, TypeOK
<1>2. PICK p \in Paths, i \in Ids : p = To /\ i = Id
  BY <1>1, Next1, Types DEF Steps, To, Id, Ids, ReleaseInv
<1>3. PICK a \in Names : a = Asset(p)
  BY Types DEF ReleaseInv
<1>4. /\ status' \in [Ids -> Statuses \cup {None}]
      /\ \A k \in Ids : status'[k] = "done" => status[k] = "done" /\ k # i
  BY <1>0, <1>1, <1>2 DEF ReleaseInv, TypeOK, Statuses
<1> DEFINE j == [Idle EXCEPT !.pc = "queued", !.id = i, !.path = p]
<1>5. /\ j \in Jobs /\ JobOK(j) /\ j.path = p /\ j.gh = "none" /\ j.id = i
      /\ j.pc # "idle"
  BY <1>2, Types DEF ReleaseInv, Jobs, Labels, JobOK, Idle
<1>6. \/ job' = job
      \/ \E new \in Threads : job[new] = Idle /\ job' = [job EXCEPT ![new] = j]
  BY <1>2 DEF StartThread, NoGh
<1> HIDE DEF j
<1>7. PICK new : /\ job' \in [Threads -> Jobs]
                 /\ \A t \in Threads : \/ t = new /\ job[t] = Idle /\ job'[t] = j
                                       \/ job'[t] = job[t]
                 /\ \A t \in Threads : t # new => job'[t] = job[t]
  BY <1>5, <1>6, Types DEF ReleaseInv
<1>8. TypeOK'
  BY <1>1, <1>4, <1>7 DEF ReleaseInv, TypeOK, Jobs, Labels
<1>9. JobsOK'
  BY <1>5, <1>7 DEF ReleaseInv, JobsOK
<1>10. /\ Chain(todo') /\ todo' # << >> /\ Head(todo').do = "meta" /\ Head(todo').to = p
       /\ Id' = i
  <2>1. /\ Chain(todo') /\ todo' # << >> /\ Head(todo').do = "meta" /\ Head(todo').to = p
        /\ Head(todo').kind = Head(todo).kind
    BY <1>1, <1>2, Next1 DEF Opens, Linked, To
  <2>. QED BY <1>2, <2>1 DEF Id, To
<1>11. /\ \A x : ~Waits(x) /\ ~Going(x) /\ Content(x) = file[x]
       /\ \A x : (Waits(x)' <=> x = p) /\ ~Going(x)' /\ ~Leaving(x)'
       /\ ~Nexts("write")'
  BY <1>1, <1>10 DEF Waits, Going, Leaving, Nexts, Content, To
<1>12. TodoOK'
  BY <1>1, <1>10, <1>11 DEF ReleaseInv, TodoOK
<1>13. /\ \A x, n : Keyed(x, n)' <=> Keyed(x, n)
       /\ \A x, n : Begun(x, n)' <=> x = p /\ n = a
       /\ \A x, n : Holds(x, n)' <=> Keyed(x, n) \/ (x = p /\ n = a)
       /\ \A x, n, k : Ided(x, n, k)' =>
            (Keyed(x, n) /\ side[x].id = k) \/ (x = p /\ n = a /\ k = i)
       /\ \A x : Content(x)' = Content(x)
  BY <1>1, <1>3, <1>10, <1>11 DEF Begun, Holds, Ided, Keyed, Content
<1>14. ASSUME NEW x \in Paths, NEW n, Finished(x, n)'
       PROVE  Finished(x, n) /\ ~(x = p /\ n = a)
  <2>1. ~(Begun(x, n)' /\ status'[Id'] = "done")
    BY <1>2, <1>4, <1>10
  <2>2. Keyed(x, n) /\ Sure(x)' /\ ~(x = p /\ n = a) /\ side[x].id \in Ids
    BY <1>13, <1>14, <2>1, IdTypes DEF Finished, Keyed, ReleaseInv
  <2>3. Sure(x)
    BY <1>1, <1>4, <2>2 DEF Sure
  <2>. QED BY <1>11, <2>2, <2>3 DEF Finished, Begun
<1>15. \A t \in Threads : \A n :
         On(t, n)' => \/ On(t, n) /\ job'[t] = job[t]
                      \/ t = new /\ job'[t] = j /\ n = a
  <2> SUFFICES ASSUME NEW t \in Threads, NEW n, On(t, n)'
               PROVE  \/ On(t, n) /\ job'[t] = job[t]
                      \/ t = new /\ job'[t] = j /\ n = a
    OBVIOUS
  <2>1. CASE job'[t] = job[t]
    BY <2>1 DEF On
  <2>2. CASE t = new /\ job'[t] = j
    BY <1>3, <1>5, <2>2 DEF On
  <2>. QED BY <1>7, <2>1, <2>2
<1>16. ASSUME NEW n \in Names \ mixed' PROVE AssetOK(n)'
  <2>1. n \notin mixed /\ ThreadOK(n) /\ DoneOK(n) /\ IdOK(n) /\ ~Shares(n)
    BY <1>1, <1>16 DEF ReleaseInv, AssetsOK, AssetOK
  <2>2. IdOK(n)'
    <3>1. ASSUME NEW t \in Threads, NEW x \in Paths, Ided(x, n, job[t].id)'
          PROVE  On(t, n)'
      <4>1. PICK k : k = job'[t].id /\ Ided(x, n, k)'
        BY <3>1 DEF Ided
      <4>2. CASE job'[t] = job[t]
        <5>1. CASE Keyed(x, n) /\ side[x].id = k
          <6>1. On(t, n)
            BY <2>1, <4>1, <4>2, <5>1 DEF IdOK, Ided
          <6>. QED BY <4>2, <6>1 DEF On
        <5>2. CASE x = p /\ n = a /\ k = i
          BY <1>2, <1>3, <2>1, <4>1, <4>2, <5>2 DEF Shares
        <5>. QED BY <1>13, <4>1, <5>1, <5>2
      <4>3. CASE job'[t] = j
        <5>1. CASE n = a
          BY <1>3, <1>5, <4>3, <5>1 DEF On
        <5>2. CASE n # a
          <6>1. Keyed(x, n) /\ side[x].id = i
            BY <1>5, <1>13, <4>1, <4>3, <5>2
          <6>. QED BY <1>2, <1>3, <2>1, <5>2, <6>1 DEF Shares, Keyed
        <5>. QED BY <5>1, <5>2
      <4>. QED BY <1>7, <4>2, <4>3
    <3>. QED BY <3>1 DEF IdOK
  <2>3. CASE n # a
    <3>1. /\ \A t \in Threads : On(t, n)' => On(t, n) /\ job'[t] = job[t]
          /\ \A x : Holds(x, n)' => Holds(x, n)
      BY <1>13, <1>15, <2>3 DEF Holds
    <3>2. ThreadOK(n)'
      BY <1>1, <1>13, <2>1, <3>1 DEF ThreadOK
    <3>3. DoneOK(n)'
      BY <1>1, <1>13, <1>14, <2>1, <3>1 DEF DoneOK
    <3>. QED BY <2>2, <3>2, <3>3 DEF AssetOK
  <2>4. CASE n = a
    <3>1. ~Busy(a) /\ ~Claimed(a, p)
      BY <1>2, <1>3, <2>1, <2>4 DEF Shares
    <3>2. a \notin deleting /\ \A t \in Threads : ~On(t, a)
      BY <3>1 DEF Busy, On, Idle
    <3>3. \A x \in Paths : Keyed(x, a) => x = p
      BY <3>1 DEF Claimed, Keyed
    <3>4. \A t \in Threads : On(t, a)' => t = new /\ job'[t] = j
      BY <1>15, <3>2
    <3>5. \A x \in Paths : Holds(x, a)' => x = p
      BY <1>13, <3>3
    <3>6. Uploads(j, file, remote, Content(p))
      BY <1>5, <1>11 DEF Uploads
    <3>7. ThreadOK(a)'
      BY <1>1, <1>13, <3>2, <3>4, <3>5, <3>6 DEF ThreadOK
    <3>8. \A x \in Paths : ~Finished(x, a)'
      <4>1. \A x \in Paths : Finished(x, a) => Keyed(x, a)
        BY <1>11 DEF Finished, Begun
      <4>. QED BY <1>14, <3>3, <4>1
    <3>9. DoneOK(a)'
      BY <3>8 DEF DoneOK
    <3>. QED BY <2>2, <2>4, <3>7, <3>9 DEF AssetOK
  <2>. QED BY <2>3, <2>4
<1>. QED BY <1>8, <1>9, <1>12, <1>16 DEF ReleaseInv, AssetsOK

(***************************************************************************)
(* The theorems                                                            *)
(***************************************************************************)

LEMMA InitRelease == Init => ReleaseInv
<1> SUFFICES ASSUME Init PROVE ReleaseInv
  OBVIOUS
<1>1. TypeOK
  BY ReleaseAssumption DEF Init, TypeOK, Idle, Sidecars, Absent
<1>2. TodoOK
  <2>1. Chain(<< >>)
    BY DEF Chain
  <2>. QED BY <2>1, ReleaseAssumption DEF Init, TodoOK, Nexts, Leaving
<1>3. JobsOK
  BY DEF Init, JobsOK, JobOK, Idle
<1>4. AssetsOK
  <2>1. /\ \A t \in Threads : \A n : ~On(t, n)
        /\ \A p \in Paths : \A n : ~Keyed(p, n) /\ ~Begun(p, n)
    BY DEF Init, On, Idle, Keyed, Begun, Waits, Nexts
  <2>2. \A p \in Paths : \A n, i : ~Finished(p, n) /\ ~Ided(p, n, i)
    BY <2>1 DEF Finished, Ided
  <2>. QED BY <2>1, <2>2 DEF AssetsOK, AssetOK, ThreadOK, DoneOK, IdOK
<1>. QED BY <1>1, <1>2, <1>3, <1>4 DEF ReleaseInv

LEMMA ThreadKeeps ==
    ASSUME ReleaseInv, NEW t \in Threads, Thread(t)
    PROVE  ReleaseInv'
BY CheckFirstKeeps, BeginKeeps, ViewKeeps, ViewFailsKeeps, RegisterKeeps, PollKeeps,
   ReadSideKeeps, WriteSideKeeps DEF Thread

LEMMA NextRelease == ReleaseInv /\ [Next]_vars => ReleaseInv'
<1> SUFFICES ASSUME ReleaseInv, [Next]_vars PROVE ReleaseInv'
  OBVIOUS
<1>1. CASE TodoNext
  BY <1>1, WriteFileKeeps, UnlinkKeeps, RenameFileKeeps, NewMetaKeeps, MoveMetaKeeps, DropKeeps,
     UnlinkSideKeeps, StartKeeps, WriteMetaKeeps DEF TodoNext
<1>2. ASSUME NEW p \in Paths,
             \/ Upload(p) \/ Save(p) \/ UploadBackup(p) \/ Delete(p) \/ DeleteRelease(p)
             \/ CleanSidecar(p)
             \/ \E deleted \in BOOLEAN : Convert(p, deleted)
             \/ \E q \in Paths : Rename(p, q) \/ Move(p, q)
      PROVE  ReleaseInv'
  BY <1>2, RequestsKeep
<1>3. ASSUME NEW t \in Threads, Thread(t) PROVE ReleaseInv'
  BY <1>3, ThreadKeeps
<1>4. ASSUME NEW i \in Ids, Cancel(i) PROVE ReleaseInv'
  BY <1>4, CancelKeeps
<1>5. CASE External
  BY <1>5, GhSends, GhFailsKeeps, GhDeleteKeeps DEF External
<1>6. CASE Crash
  BY <1>6, CrashKeeps
<1>7. CASE UNCHANGED vars
  <2>1. UNCHANGED <<file, side, todo, job, remote, deleting, mixed, written, status, active,
                    told, listed>>
    BY <1>7 DEF vars
  <2>2. /\ status' \in [Ids -> Statuses \cup {None}] /\ active' \in [Ids -> Threads \cup {None}]
        /\ told' \subseteq Threads
    BY <2>1 DEF ReleaseInv, TypeOK
  <2>. QED BY <2>1, <2>2, TablesOnly
<1>8. CASE Listing
  BY <1>8, ListingKeeps
<1>. QED BY <1>1, <1>2, <1>3, <1>4, <1>5, <1>6, <1>7, <1>8 DEF Next

\* The inductive invariant holds of every run: an asset of the release that only
\* one file and one process dealt with is what its sidecar is about
\* (release.py:110-121, 214-300, file_ops.py:526-538).
THEOREM ReleaseSafe == Spec => []ReleaseInv
<1>1. ReleaseInv /\ [][Next]_vars => []ReleaseInv
  BY NextRelease, PTL
<1>. QED BY <1>1, InitRelease, PTL DEF Spec

\* The files, sidecars, tables and threads have the types of release.py:27-45 and
\* 87-121 in every state.
THEOREM TypeCorrect == Spec => []TypeOK
<1>1. ReleaseInv => TypeOK
  BY DEF ReleaseInv
<1>. QED BY <1>1, ReleaseSafe, PTL

\* A file that is marked as backed up is on the release with the content it has:
\* the thread notes "done" in the sidecar that it finds at the place the file was
\* uploaded from (release.py:110-121, 288-300), and a file that is renamed or
\* moved takes it along (file_ops.py:513-538).
THEOREM MarkedIsBackedUp == Spec => []BackedUp
<1>1. ReleaseInv => BackedUp
  <2> SUFFICES ASSUME ReleaseInv, NEW p \in Paths, file[p] # Absent, side[p] # None,
                      side[p].status = "done",
                      \A k \in DOMAIN todo : p \notin {todo[k].from, todo[k].to},
                      side[p].key \notin mixed
               PROVE  remote[side[p].key] = file[p]
    BY DEF BackedUp
  <2>1. PICK n \in Names : n = side[p].key
    BY DEF ReleaseInv, TypeOK, Sidecars
  <2>2. todo # << >> => 1 \in DOMAIN todo /\ Head(todo) = todo[1]
    BY DEF ReleaseInv, TodoOK, Chain
  <2>3. ~Waits(p) /\ ~Going(p) /\ ~Leaving(p)
    BY <2>2 DEF Waits, Going, Leaving, Nexts, To, From
  <2>4. Finished(p, n) /\ Content(p) = file[p]
    BY <2>1, <2>3 DEF Finished, Keyed, Begun, Sure, Content
  <2>5. DoneOK(n)
    BY <2>1 DEF ReleaseInv, AssetsOK, AssetOK
  <2>. QED BY <2>1, <2>4, <2>5 DEF DoneOK
<1>. QED BY <1>1, ReleaseSafe, PTL

(***************************************************************************)
(* Uploads and their threads.  UploadsEnd and CancelledStops are checked   *)
(* by TLC; what they rest on, besides the scheduling, holds for any number *)
(* of files and threads.                                                   *)
(***************************************************************************)

\* The places of a thread that will still say how its upload has ended.
Uploading == {"queued", "begin", "view", "register", "poll"}
Pending   == {"pending", "uploading"}

\* An upload that is said to go on has a thread that will say how it ended, and
\* the thread that a cancellation finds looks at its gh, for an upload of the id.
Said ==
    /\ \A i \in Ids : status[i] \in Pending =>
          \E t \in Threads : job[t].id = i /\ job[t].pc \in Uploading
    /\ \A i \in Ids : active[i] # None => job[active[i]].id = i /\ job[active[i]].pc = "poll"

\* A cancellation that was answered stands until its thread has looked at it.
Stands ==
    \A t \in told :
        /\ job[t].id \in Ids /\ job[t].pc # "begin"
        /\ \A u \in Threads \ {t} : job[u].id # job[t].id
        /\ job[t].pc \in Uploading => status[job[t].id] = "cancelled"

UploadInv == Said /\ Stands

\* What a step owes that takes thread t to j: it ends only with a word on how
\* the upload ended, is in the table as what it is, and leaves what was said of
\* its cancellation.
Owes(t, j) ==
    /\ \A i \in Ids : status'[i] \in Pending =>
          \/ status[i] \in Pending /\ ~(job[t].id = i /\ job[t].pc \in Uploading)
          \/ j.id = i /\ j.pc \in Uploading
    /\ \A i \in Ids : active'[i] # None =>
          \/ active'[i] = active[i] /\ active[i] # t
          \/ active'[i] = t /\ j.id = i /\ j.pc = "poll"
    /\ told' \subseteq told /\ (t \in told' => j.id = job[t].id)
    /\ j.id \in {job[t].id, None} \/ \A u \in told' : job[u].id # j.id
    /\ \A i \in Ids : i # job[t].id => status'[i] = status[i] \/ \A u \in told' : job[u].id # i
    /\ t \in told' => /\ j.pc # "begin"
                      /\ j.pc \in Uploading => /\ job[t].pc \in Uploading
                                               /\ status'[j.id] = status[j.id]

\* A step of one thread, or of its gh.
LEMMA OneThreadSteps ==
    ASSUME UploadInv, TypeOK, NEW t \in Threads, NEW j,
           job' = [job EXCEPT ![t] = j], Owes(t, j)
    PROVE  UploadInv'
<1>. USE DEF Owes
<1>0. \A u \in Threads : job'[u] = IF u = t THEN j ELSE job[u]
  BY DEF TypeOK
<1>1. ASSUME NEW i \in Ids, status'[i] \in Pending
      PROVE  \E u \in Threads : job'[u].id = i /\ job'[u].pc \in Uploading
  <2>1. CASE j.id = i /\ j.pc \in Uploading
    BY <1>0, <2>1
  <2>2. CASE status[i] \in Pending /\ ~(job[t].id = i /\ job[t].pc \in Uploading)
    <3>1. PICK u \in Threads : job[u].id = i /\ job[u].pc \in Uploading
      BY <2>2 DEF UploadInv, Said
    <3>. QED BY <1>0, <2>2, <3>1
  <2>. QED BY <1>1, <2>1, <2>2
<1>2. ASSUME NEW i \in Ids, active'[i] # None
      PROVE  job'[active'[i]].id = i /\ job'[active'[i]].pc = "poll"
  <2>1. active[i] \in Threads \cup {None}
    BY DEF TypeOK
  <2>. QED BY <1>0, <1>2, <2>1 DEF UploadInv, Said
<1>3. ASSUME NEW v \in told'
      PROVE  /\ job'[v].id \in Ids /\ job'[v].pc # "begin"
             /\ \A u \in Threads \ {v} : job'[u].id # job'[v].id
             /\ job'[v].pc \in Uploading => status'[job'[v].id] = "cancelled"
  <2>1. /\ v \in told /\ v \in Threads /\ job[v].id \in Ids /\ job[v].pc # "begin"
        /\ \A u \in Threads \ {v} : job[u].id # job[v].id
        /\ job[v].pc \in Uploading => status[job[v].id] = "cancelled"
    BY <1>3 DEF UploadInv, Stands, TypeOK
  <2>2. CASE v = t
    <3>1. j.id = job[t].id /\ job'[v] = j
      BY <1>0, <1>3, <2>2
    <3>. QED BY <1>0, <1>3, <2>1, <2>2, <3>1
  <2>3. CASE v # t
    <3>1. job'[v] = job[v]
      BY <1>0, <2>1, <2>3
    <3>2. j.id # job[v].id
      BY <1>3, <2>1, <2>3, ReleaseAssumption
    <3>3. status'[job[v].id] = status[job[v].id]
      BY <1>3, <2>1, <2>3
    <3>. QED BY <1>0, <2>1, <3>1, <3>2, <3>3
  <2>. QED BY <2>2, <2>3
<1>. QED BY <1>1, <1>2, <1>3 DEF UploadInv, Said, Stands

\* What the invariants say of one thread, before its step.
LEMMA OfThread ==
    ASSUME ReleaseInv, UploadInv, NEW t \in Threads
    PROVE  /\ job \in [Threads -> Jobs] /\ job[t] \in Jobs /\ JobOK(job[t])
           /\ status \in [Ids -> Statuses \cup {None}]
           /\ active \in [Ids -> Threads \cup {None}]
           /\ told \subseteq Threads /\ None \notin Ids
           /\ \A i \in Ids : active[i] # None =>
                 active[i] # t \/ (job[t].id = i /\ job[t].pc = "poll")
           /\ \A u \in told : job[u].id \in Ids
           /\ \A u \in told \ {t} : job[u].id # job[t].id
           /\ t \in told => /\ job[t].pc # "begin"
                            /\ job[t].pc \in Uploading => status[job[t].id] = "cancelled"
<1>1. /\ job \in [Threads -> Jobs] /\ job[t] \in Jobs /\ JobOK(job[t])
      /\ status \in [Ids -> Statuses \cup {None}]
      /\ active \in [Ids -> Threads \cup {None}]
      /\ told \subseteq Threads /\ None \notin Ids
  BY AtWork, Types DEF ReleaseInv
<1>2. \A i \in Ids : active[i] # None =>
         active[i] # t \/ (job[t].id = i /\ job[t].pc = "poll")
  BY DEF UploadInv, Said
<1>3. /\ \A u \in told : job[u].id \in Ids
      /\ \A u \in told \ {t} : job[u].id # job[t].id
      /\ t \in told => /\ job[t].pc # "begin"
                       /\ job[t].pc \in Uploading => status[job[t].id] = "cancelled"
  BY DEF UploadInv, Stands
<1>. QED BY <1>1, <1>2, <1>3

\* A thread that ends without a word: it was cancelled, or has said it.
LEMMA EndOwes ==
    ASSUME ReleaseInv, UploadInv, NEW t \in Threads, End(t),
           UNCHANGED status, \A i \in Ids : active'[i] \in {active[i], None},
           Cancelled(t) \/ job[t].pc \notin Uploading,
           job[t].pc = "poll" => active'[job[t].id] = None
    PROVE  UploadInv'
<1>1. job' = [job EXCEPT ![t] = Idle] /\ told' = told \ {t}
  BY DEF End
<1>2. Owes(t, Idle)
  BY <1>1, OfThread DEF Owes, Idle, Cancelled, Pending, Uploading
<1>. QED BY <1>1, <1>2, OneThreadSteps DEF ReleaseInv

\* Every step of a thread.
LEMMA ThreadUploads ==
    ASSUME ReleaseInv, UploadInv, NEW t \in Threads, Thread(t)
    PROVE  UploadInv'
<1>of. /\ job \in [Threads -> Jobs] /\ job[t] \in Jobs /\ JobOK(job[t])
       /\ status \in [Ids -> Statuses \cup {None}]
       /\ active \in [Ids -> Threads \cup {None}]
       /\ told \subseteq Threads /\ None \notin Ids
       /\ \A i \in Ids : active[i] # None =>
             active[i] # t \/ (job[t].id = i /\ job[t].pc = "poll")
       /\ \A u \in told : job[u].id \in Ids
       /\ \A u \in told \ {t} : job[u].id # job[t].id
       /\ t \in told => /\ job[t].pc # "begin"
                        /\ job[t].pc \in Uploading => status[job[t].id] = "cancelled"
       /\ TypeOK
  BY OfThread DEF ReleaseInv
<1>1. CASE CheckFirst(t)
  <2>1. CASE Cancelled(t)
    BY <1>1, <2>1, EndOwes DEF CheckFirst, Goes
  <2>2. CASE ~Cancelled(t)
    <3> DEFINE j == [job[t] EXCEPT !.pc = "begin"]
    <3>1. j.id = job[t].id /\ j.pc = "begin"
      BY <1>of DEF Jobs
    <3>2. /\ job' = [job EXCEPT ![t] = j] /\ told' = told /\ job[t].pc = "queued"
          /\ UNCHANGED <<status, active>> /\ t \notin told
      BY <1>1, <1>of, <2>2 DEF CheckFirst, At2, Goes, Cancelled, Uploading
    <3> HIDE DEF j
    <3>3. Owes(t, j)
      BY <1>of, <3>1, <3>2 DEF Owes, Uploading
    <3>. QED BY <1>of, <3>2, <3>3, OneThreadSteps
  <2>. QED BY <2>1, <2>2
<1>2. CASE Begin(t)
  <2> DEFINE j == [job[t] EXCEPT !.pc = "view"]
  <2>1. j.id = job[t].id /\ j.pc = "view"
    BY <1>of DEF Jobs
  <2>2. /\ job' = [job EXCEPT ![t] = j] /\ UNCHANGED <<active, told>> /\ job[t].pc = "begin"
        /\ \A i \in Ids : i # job[t].id => status'[i] = status[i]
    BY <1>2, <1>of DEF Begin, Goes, Says, At2
  <2> HIDE DEF j
  <2>3. Owes(t, j)
    BY <1>of, <2>1, <2>2 DEF Owes, Uploading
  <2>. QED BY <1>of, <2>2, <2>3, OneThreadSteps
<1>3. CASE View(t)
  <2>1. CASE Cancelled(t)
    BY <1>3, <2>1, EndOwes DEF View, Goes
  <2>2. CASE ~Cancelled(t)
    <3> DEFINE j == [job[t] EXCEPT !.pc = "register", !.gh = "opening"]
    <3>1. j.id = job[t].id /\ j.pc = "register"
      BY <1>of DEF Jobs
    <3>2. /\ job' = [job EXCEPT ![t] = j] /\ UNCHANGED <<status, active, told>>
          /\ job[t].pc = "view"
      BY <1>3, <2>2 DEF View, Goes
    <3> HIDE DEF j
    <3>3. Owes(t, j)
      BY <1>of, <3>1, <3>2 DEF Owes, Uploading
    <3>. QED BY <1>of, <3>2, <3>3, OneThreadSteps
  <2>. QED BY <2>1, <2>2
<1>4. CASE ViewFails(t)
  <2> DEFINE j == [job[t] EXCEPT !.pc = "mark", !.gh = "failed"]
  <2>1. j.id = job[t].id /\ j.pc = "mark"
    BY <1>of DEF Jobs
  <2>2. /\ job' = [job EXCEPT ![t] = j] /\ told' = told /\ job[t].pc = "view"
        /\ \A i \in Ids : active'[i] \in {active[i], None}
        /\ \A i \in Ids : status'[i] = IF i = job[t].id THEN "failed" ELSE status[i]
    BY <1>4, <1>of DEF ViewFails, Goes, Says, Pops
  <2> HIDE DEF j
  <2>3. Owes(t, j)
    BY <1>of, <2>1, <2>2 DEF Owes, Pending, Uploading
  <2>. QED BY <1>of, <2>2, <2>3, OneThreadSteps
<1>5. CASE Register(t)
  <2> DEFINE j == [job[t] EXCEPT !.pc = "poll"]
  <2>1. j.id = job[t].id /\ j.pc = "poll"
    BY <1>of DEF Jobs
  <2>2. /\ job' = [job EXCEPT ![t] = j] /\ UNCHANGED <<status, told>> /\ job[t].pc = "register"
        /\ \A i \in Ids : active'[i] = IF i = job[t].id THEN t ELSE active[i]
    BY <1>5, <1>of DEF Register, Goes, At2
  <2> HIDE DEF j
  <2>3. Owes(t, j)
    BY <1>of, <2>1, <2>2 DEF Owes, Uploading
  <2>. QED BY <1>of, <2>2, <2>3, OneThreadSteps
<1>6. CASE Poll(t)
  <2>1. /\ job[t].pc = "poll" /\ job[t].id \in Ids
        /\ \A i \in Ids : active'[i] = IF i = job[t].id THEN None ELSE active[i]
    BY <1>6, <1>of DEF Poll, Goes, Pops, JobOK, Jobs
  <2>2. CASE Cancelled(t)
    BY <1>6, <2>1, <2>2, EndOwes DEF Poll
  <2>3. CASE ~Cancelled(t)
    <3> DEFINE j == [job[t] EXCEPT !.pc = "mark"]
    <3>1. j.id = job[t].id /\ j.pc = "mark"
      BY <1>of DEF Jobs
    <3>2. /\ job' = [job EXCEPT ![t] = j] /\ told' = told
          /\ \A i \in Ids : status'[i] = IF i = job[t].id THEN Outcome(t) ELSE status[i]
      BY <1>6, <1>of, <2>3 DEF Poll, At2, Says
    <3>3. Outcome(t) \notin Pending
      BY DEF Outcome, Pending
    <3> HIDE DEF j
    <3>4. Owes(t, j)
      BY <1>of, <2>1, <3>1, <3>2, <3>3 DEF Owes, Uploading
    <3>. QED BY <1>of, <3>2, <3>4, OneThreadSteps
  <2>. QED BY <2>2, <2>3
<1>7. CASE ReadSide(t)
  <2> DEFINE meta == side[job[t].path]
             j == [job[t] EXCEPT !.pc = "save", !.meta = meta]
  <2>1. CASE meta = None
    BY <1>7, <2>1, EndOwes DEF ReadSide, Goes, Uploading
  <2>2. CASE meta # None
    <3>1. j.id = job[t].id /\ j.pc = "save"
      BY <1>of DEF Jobs
    <3>2. /\ job' = [job EXCEPT ![t] = j] /\ UNCHANGED <<status, active, told>>
          /\ job[t].pc = "mark"
      BY <1>7, <2>2 DEF ReadSide, Goes
    <3> HIDE DEF j
    <3>3. Owes(t, j)
      BY <1>of, <3>1, <3>2 DEF Owes, Uploading
    <3>. QED BY <1>of, <3>2, <3>3, OneThreadSteps
  <2>. QED BY <2>1, <2>2
<1>8. CASE WriteSide(t)
  BY <1>8, EndOwes DEF WriteSide, Goes, Uploading
<1>. QED BY <1>1, <1>2, <1>3, <1>4, <1>5, <1>6, <1>7, <1>8 DEF Thread

\* Every step of the gh of a thread, or of one that has outlived its server.
LEMMA GhUploads ==
    ASSUME ReleaseInv, UploadInv, NEW t \in Threads, GhOpen(t) \/ GhSent(t) \/ GhFails(t)
    PROVE  UploadInv'
<1>1. /\ UNCHANGED <<status, active, told>> /\ Runs(t)
      /\ job \in [Threads -> Jobs] /\ job[t] \in Jobs /\ JobOK(job[t]) /\ TypeOK
  BY OfThread DEF GhOpen, GhSent, GhFails, Runs, ReleaseInv
<1>2. PICK j : /\ job' = [job EXCEPT ![t] = j]
               /\ \/ j.id = job[t].id /\ j.pc = job[t].pc
                  \/ j = Idle /\ job[t].pc = "orphan" /\ job[t].id = None
  <2>1. CASE GhOpen(t)
    <3> DEFINE k == [job[t] EXCEPT !.gh = "sending", !.data = file[job[t].path]]
    <3>1. job' = [job EXCEPT ![t] = k]
      BY <1>1, <2>1 DEF GhOpen
    <3>2. k.id = job[t].id /\ k.pc = job[t].pc
      BY <1>1 DEF Jobs
    <3> HIDE DEF k
    <3>. QED BY <3>1, <3>2
  <2>2. CASE GhSent(t) \/ GhFails(t)
    <3>1. PICK result \in {"ok", "failed"} : Exits(t, result)
      BY <2>2 DEF GhSent, GhFails
    <3>2. job[t].pc = "orphan" => job[t].id = None
      BY <1>1 DEF JobOK
    <3>. QED BY <1>1, <3>1, <3>2, Exit
  <2>. QED BY <2>1, <2>2
<1>3. Owes(t, j)
  BY <1>1, <1>2, OfThread DEF Owes, Idle
<1>. QED BY <1>1, <1>2, <1>3, OneThreadSteps

\* Every action keeps an upload that goes on with its thread, and what was said
\* of its cancellation.
LEMMA UploadStep == ReleaseInv /\ UploadInv /\ ReleaseInv' /\ [Next]_vars => UploadInv'
<1> SUFFICES ASSUME ReleaseInv, UploadInv, ReleaseInv', [Next]_vars PROVE UploadInv'
  OBVIOUS
<1>types. /\ job \in [Threads -> Jobs] /\ TypeOK /\ told \subseteq Threads
          /\ status \in [Ids -> Statuses \cup {None}] /\ None \notin Ids
          /\ active \in [Ids -> Threads \cup {None}]
  BY Types DEF ReleaseInv, TypeOK
<1>quiet. UNCHANGED <<status, active, job, told>> => UploadInv'
  BY DEF UploadInv, Said, Stands
<1>1. ASSUME NEW t \in Threads, Thread(t) \/ GhOpen(t) \/ GhSent(t) \/ GhFails(t)
      PROVE  UploadInv'
  BY <1>1, ThreadUploads, GhUploads
<1>2. CASE StartThread
  <2> DEFINE j == [Idle EXCEPT !.pc = "queued", !.id = Id, !.path = To]
  <2>1. PICK t \in Threads : job[t] = Idle /\ job' = [job EXCEPT ![t] = j]
    BY <1>2 DEF StartThread
  <2>2. j.id = Id /\ j.pc = "queued" /\ job[t].pc = "idle" /\ job[t].id = None
    BY <2>1 DEF Idle
  <2> HIDE DEF j
  <2>3. /\ active' = active /\ told' = {u \in told : job[u].id # Id}
        /\ \A i \in Ids : i # Id => status'[i] = status[i]
    BY <1>2, <1>types DEF StartThread, Queued
  <2>4. Owes(t, j)
    BY <2>2, <2>3, OfThread DEF Owes, Uploading
  <2>. QED BY <1>types, <2>1, <2>4, OneThreadSteps
<1>3. CASE NoGh
  <2>1. /\ \A i \in Ids : status'[i] = IF i = Id THEN "failed" ELSE status[i]
        /\ told' = {u \in told : job[u].id # Id} /\ UNCHANGED <<active, job>>
    BY <1>3, <1>types DEF NoGh, Queued
  <2>. QED BY <2>1 DEF UploadInv, Said, Stands, Pending
<1>4. ASSUME NEW i \in Ids, Cancel(i) PROVE UploadInv'
  <2>1. /\ \A k \in Ids : status'[k] = IF k = i THEN "cancelled" ELSE status[k]
        /\ \A k \in Ids : active'[k] = IF k = i THEN None ELSE active[k]
    BY <1>4, <1>types DEF Cancel
  <2>2. \A t \in Threads : job'[t].id = job[t].id /\ job'[t].pc = job[t].pc
    <3>1. CASE job' = job
      BY <3>1
    <3>2. CASE active[i] # None /\ job' = [job EXCEPT ![active[i]].gh = "killed"]
      <4>1. PICK u \in Threads : u = active[i]
        BY <1>types, <3>2
      <4> DEFINE k == [job[u] EXCEPT !.gh = "killed"]
      <4>2. job' = [job EXCEPT ![u] = k]
        BY <1>types, <3>2, <4>1
      <4>3. k.id = job[u].id /\ k.pc = job[u].pc
        BY <1>types DEF Jobs
      <4> HIDE DEF k
      <4>. QED BY <1>types, <4>2, <4>3
    <3>. QED BY <1>4, <3>1, <3>2 DEF Cancel
  <2>3. ASSUME NEW k \in Ids, status'[k] \in Pending
        PROVE  \E t \in Threads : job'[t].id = k /\ job'[t].pc \in Uploading
    <3>1. status[k] \in Pending
      BY <2>1, <2>3 DEF Pending
    <3>. QED BY <2>2, <3>1 DEF UploadInv, Said
  <2>4. ASSUME NEW k \in Ids, active'[k] # None
        PROVE  job'[active'[k]].id = k /\ job'[active'[k]].pc = "poll"
    <3>1. active'[k] = active[k] /\ active[k] \in Threads
      BY <1>types, <2>1, <2>4
    <3>. QED BY <2>2, <2>4, <3>1 DEF UploadInv, Said
  <2>5. told' = told \cup {t \in Threads : /\ job[t].id = i /\ job[t].pc # "begin"
                                           /\ \A u \in Threads \ {t} : job[u].id # i}
    BY <1>4 DEF Cancel
  <2>6. ASSUME NEW t \in told'
        PROVE  /\ t \in Threads /\ job[t].id \in Ids /\ job[t].pc # "begin"
               /\ \A u \in Threads \ {t} : job[u].id # job[t].id
               /\ job[t].pc \in Uploading => status'[job[t].id] = "cancelled"
    <3>1. CASE t \in told
      BY <1>types, <2>1, <3>1 DEF UploadInv, Stands
    <3>2. CASE t \notin told
      BY <2>1, <2>5, <2>6, <3>2
    <3>. QED BY <3>1, <3>2
  <2>7. Stands'
    BY <2>2, <2>6 DEF Stands
  <2>. QED BY <2>3, <2>4, <2>7 DEF UploadInv, Said
<1>5. CASE Crash
  <2>1. (\A i \in Ids : status'[i] = None /\ active'[i] = None) /\ told' = {}
    BY <1>5 DEF Crash
  <2>2. None \notin Pending
    BY ReleaseAssumption DEF Pending, Statuses
  <2>. QED BY <2>1, <2>2 DEF UploadInv, Said, Stands
<1>6. CASE \/ WriteFile \/ Unlink \/ RenameFile \/ NewMeta \/ MoveMeta
           \/ Drop \/ UnlinkSide \/ WriteMeta
  <2>1. UNCHANGED <<status, active, job, told>>
    BY <1>6 DEF WriteFile, Unlink, RenameFile, NewMeta, MoveMeta, Drop, UnlinkSide, WriteMeta,
                memory
  <2>. QED BY <1>quiet, <2>1
<1>7. ASSUME NEW p \in Paths,
             \/ Upload(p) \/ Save(p) \/ UploadBackup(p) \/ Delete(p) \/ DeleteRelease(p)
             \/ CleanSidecar(p)
             \/ \E deleted \in BOOLEAN : Convert(p, deleted)
             \/ \E q \in Paths : Rename(p, q) \/ Move(p, q)
      PROVE  UploadInv'
  <2>1. UNCHANGED <<status, active, job, told>>
    BY <1>7 DEF Upload, Save, UploadBackup, Delete, DeleteRelease, CleanSidecar, Convert, Rename,
                Move, Request, memory
  <2>. QED BY <1>quiet, <2>1
<1>8. ASSUME NEW n \in Names, GhDelete(n) PROVE UploadInv'
  BY <1>8, <1>quiet DEF GhDelete, memory
<1>9. CASE Listing
  BY <1>9, <1>quiet DEF Listing, ListRead, ListLook, ListWrite, memory
<1>10. CASE UNCHANGED vars
  BY <1>10, <1>quiet DEF vars
<1>. QED
  BY <1>1, <1>2, <1>3, <1>4, <1>5, <1>6, <1>7, <1>8, <1>9, <1>10 DEF Next, TodoNext, External

\* The invariant of the uploads holds in every state.
LEMMA UploadsHold == Spec => []UploadInv
<1>1. Init => UploadInv
  <2>1. None \notin Pending
    BY ReleaseAssumption DEF Pending, Statuses
  <2>. QED BY <2>1 DEF Init, UploadInv, Said, Stands
<1>. QED BY <1>1, UploadStep, ReleaseSafe, PTL DEF Spec

\* For any number of files and threads, through crashes, renames and moves: a
\* file that is shown as uploading has a thread at work under its id that will
\* still say how its upload ended (release.py:163-300, listing.py:157-168), so
\* that only a gh process that hangs can keep it there: the half of UploadsEnd
\* that needs no fairness.
THEOREM ShownHasThread ==
    Spec => [](\A p \in Paths : ShownUploading(p) =>
                  \E t \in Threads : job[t].id = side[p].id /\ job[t].pc \in Uploading)
<1>1. UploadInv /\ TypeOK => \A p \in Paths : ShownUploading(p) =>
          \E t \in Threads : job[t].id = side[p].id /\ job[t].pc \in Uploading
  <2> SUFFICES ASSUME UploadInv, TypeOK, NEW p \in Paths, ShownUploading(p)
               PROVE  \E t \in Threads : job[t].id = side[p].id /\ job[t].pc \in Uploading
    OBVIOUS
  <2>1. side[p].id \in Ids
    BY DEF ShownUploading, TypeOK, Sidecars
  <2>2. status[side[p].id] \in Pending
    BY DEF ShownUploading, Pending
  <2>. QED BY <2>1, <2>2 DEF UploadInv, Said
<1>. QED BY <1>1, UploadsHold, TypeCorrect, PTL

\* For any number of files and threads: the gh of an upload whose cancellation
\* was answered, and stands, still finds the word "cancelled" when its thread
\* looks, and that thread is one that will look (release.py:247-259, 371-395):
\* the half of CancelledStops that needs no fairness.  A gh that has outlived its
\* server is not among them: nobody watches it.
THEOREM CancellationStands ==
    Spec => [](\A t \in told : Runs(t) =>
                  job[t].pc \in {"register", "poll"} /\ status[job[t].id] = "cancelled")
<1>1. ReleaseInv /\ UploadInv => \A t \in told : Runs(t) =>
          job[t].pc \in {"register", "poll"} /\ status[job[t].id] = "cancelled"
  <2> SUFFICES ASSUME ReleaseInv, UploadInv, NEW t \in told, Runs(t)
               PROVE  job[t].pc \in {"register", "poll"} /\ status[job[t].id] = "cancelled"
    OBVIOUS
  <2>1. t \in Threads /\ JobOK(job[t]) /\ job[t].id \in Ids /\ None \notin Ids
    BY Types DEF ReleaseInv, TypeOK, JobsOK, UploadInv, Stands
  <2>2. job[t].pc \in {"register", "poll"}
    BY <2>1 DEF JobOK, Runs
  <2>. QED BY <2>2 DEF UploadInv, Stands, Uploading
<1>. QED BY <1>1, UploadsHold, ReleaseSafe, PTL
=============================================================================
