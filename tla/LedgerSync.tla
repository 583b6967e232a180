----------------------------- MODULE LedgerSync -----------------------------
(***************************************************************************)
(* The chat and the ledger between machines: every machine keeps the       *)
(* branch `ledger` checked out in a worktree and shares it through one     *)
(* remote.  Requests append or delete lines of messages.jsonl or save a    *)
(* snapshot, add and commit; polls fetch and rebase, a sent message is     *)
(* pushed in a thread of its own.  Nothing locks the worktree: each git    *)
(* command is a step, the commands of two threads of a machine interleave, *)
(* and one that meets another at work finds index.lock and does nothing.   *)
(*                                                                         *)
(* A branch is the sequence of the trees its commits give.  A tree holds   *)
(* who created thread.json, the lines of messages.jsonl and the saved      *)
(* snapshots, each a file of its own; so do the index and the worktree.    *)
(* .gitattributes is in place from the start, so two versions of           *)
(* messages.jsonl merge by union.                                          *)
(***************************************************************************)
EXTENDS Integers, Sequences, FiniteSets, SequencesExt

CONSTANTS
    Machines,     \* the machines that share the remote
    Workers,      \* the threads of the servers
    Requesters,   \* the workers that answer a user's requests
    Pollers,      \* the workers that answer /chat/poll
    Host,         \* the machine of a worker
    Messages,     \* the messages to send
    Snapshots,    \* the audit snapshots to save
    Writer,       \* the machine a message or a snapshot is written on
    Resolutions,  \* the ways out of a conflict the user may choose
    Founder,      \* who made thread.json, when it is there from the start
    None,         \* no thread.json
    File,         \* in lines: messages.jsonl exists
    MaxEvents     \* bound of the model: snapshots saved, messages deleted, resolutions
                  \* and crashes

Actions == {"retry", "skip", "reset", "content_merge", "force_push"}

ASSUME LedgerAssumption ==
    /\ Requesters \cup Pollers \subseteq Workers
    /\ Host \in [Workers -> Machines]
    /\ Writer \in [Messages \cup Snapshots -> Machines]
    /\ Messages \cap Snapshots = {}
    /\ Founder \in Machines
    /\ None \notin Machines
    /\ File \notin Messages \cup Snapshots
    /\ Resolutions \subseteq Actions
    /\ MaxEvents \in Nat

VARIABLES
    origin,     \* the branch on the remote
    tracking,   \* [machine -> refs/remotes/origin/ledger]
    branch,     \* [machine -> refs/heads/ledger]
    work,       \* [machine -> the files of .ledger]
    index,      \* [machine -> what is added for the next commit]
    onto,       \* [machine -> what a rebase that stopped is onto, or << >>]
    stash,      \* [machine -> the stash, last entry on top]
    cooldown,   \* [machine -> _rebase_fail_ts is recent]
    pc,         \* [worker -> its next command]
    job,        \* [worker -> what it does, for which message, with which locals]
    sent,       \* the messages and snapshots whose request was answered
    committed,  \* the messages and snapshots put in a commit, and by no content
                \* merge taken back to be added again
    published,  \* those that were ever on the remote
    lost,       \* those a user gave up, and those a step is known to drop
    events      \* the number of saves, deletes, resolutions and crashes so far

remote == <<origin, published>>
repo   == <<tracking, branch, work, index, onto, stash>>
ghosts == <<sent, committed, lost>>
vars   == <<remote, repo, ghosts, cooldown, pc, job, events>>

Trees == [thread: Machines \cup {None}, lines: SUBSET (Messages \cup {File}),
          snaps: SUBSET Snapshots]
Entries == [base : SUBSET (Messages \cup {File}), lines : SUBSET (Messages \cup {File}),
            snaps : SUBSET Snapshots]
Items(tree) == (tree.lines \ {File}) \cup tree.snaps
Tip(m) == Last(branch[m])
Empty == [thread |-> None, lines |-> {}, snaps |-> {}]
Idle == [kind |-> "none", msg |-> None, read |-> Empty, stashed |-> FALSE]

Init ==
    /\ \E t \in {None, Founder} :
         origin = << [Empty EXCEPT !.thread = t] >>
    /\ tracking = [m \in Machines |-> origin]
    /\ branch = [m \in Machines |-> origin]
    /\ work = [m \in Machines |-> Last(origin)]
    /\ index = [m \in Machines |-> Last(origin)]
    /\ onto = [m \in Machines |-> << >>]
    /\ stash = [m \in Machines |-> << >>]
    /\ cooldown = [m \in Machines |-> FALSE]
    /\ pc = [w \in Workers |-> "idle"]
    /\ job = [w \in Workers |-> Idle]
    /\ sent = {} /\ committed = {} /\ published = {} /\ lost = {}
    /\ events = 0

-----------------------------------------------------------------------------
(* What git makes of two versions of a tree.                               *)

\* A merge keeps what a side added and what both have.
ThreeWay(base, ours, theirs) ==
    (ours \cap theirs) \cup (ours \ base) \cup (theirs \ base)

\* The lines of a union merge: what one side deleted may come back when both
\* sides changed the file.
UnionLines(base, ours, theirs) ==
    IF ours = base THEN {theirs}
    ELSE IF theirs = base THEN {ours}
    ELSE { s \in SUBSET (ours \cup theirs) : ThreeWay(base, ours, theirs) \subseteq s }

\* thread.json was made on both sides.
Clash(base, ours, theirs) ==
    theirs.thread # base.thread /\ ours.thread \notin {base.thread, theirs.thread}

\* A commit changes messages.jsonl, which went with a commit that was skipped.
Gone(base, ours, theirs) == File \in base.lines \ ours.lines /\ theirs.lines # base.lines

Merged(base, ours, theirs) ==
    { [thread |-> IF theirs.thread = base.thread THEN ours.thread ELSE theirs.thread,
       lines  |-> s,
       snaps  |-> ThreeWay(base.snaps, ours.snaps, theirs.snaps)] :
        s \in UnionLines(base.lines, ours.lines, theirs.lines) }

\* How many commits two branches have in common.
Fork(a, b) == Cardinality({ i \in DOMAIN a : IsPrefix(SubSeq(a, 1, i), b) })

\* Mutant: reset to the remote instead of a rebase.
ResetInstead(local, upstream, skip) == {upstream}

\* Commit i of local picked on top of s: a commit that changes nothing any more
\* is dropped, and with rebase --skip so is one that conflicts.
Pick(local, i, s, skip) ==
    IF Clash(local[i - 1], Last(s), local[i]) \/ Gone(local[i - 1], Last(s), local[i])
    THEN IF skip THEN {s} ELSE {}
    ELSE { IF t = Last(s) THEN s ELSE Append(s, t) :
             t \in Merged(local[i - 1], Last(s), local[i]) }

\* The branches a rebase of local onto upstream can give: the commits after the
\* fork are picked in turn.
Rebased(local, upstream, skip) ==
    LET fork == Fork(local, upstream)
        upto[i \in fork..Len(local)] ==
            IF i = fork THEN {upstream}
            ELSE UNION { Pick(local, i, s, skip) : s \in upto[i - 1] }
    IN  upto[Len(local)]

\* What goes with the commits after the fork that make thread.json: whatever was
\* added when they were made and, if they make messages.jsonl too, what follows.
WithThread(local, upstream) ==
    LET after == (Fork(local, upstream) + 1)..Len(local)
        made  == { i \in after : local[i].thread # local[i - 1].thread }
        both  == { i \in made : File \in local[i].lines \ local[i - 1].lines }
    IN  UNION { Items(local[i]) \ Items(local[i - 1]) :
                  i \in IF both = {} THEN made ELSE after }

\* A commit after the fork clashes: thread.json is made once in a branch, so
\* the upstream tree decides.
Conflicting(local, upstream) ==
    LET fork == Fork(local, upstream)
    IN  \E i \in (fork + 1)..Len(local) :
          Clash(local[i - 1], Last(upstream), local[i])

\* messages.jsonl is in the index; git stash takes it and reset --hard rewrites it.
Stopped(m) == onto[m] # << >>
Tracked(m) == File \in index[m].lines
Dirty(m)   == index[m] # Tip(m) \/ (Tracked(m) /\ work[m].lines # Tip(m).lines)

\* The worktree when git puts a tree in it: untracked files stay.
CheckedOut(m, tree) ==
    [tree EXCEPT !.lines = IF Tracked(m) \/ File \in @ THEN @ ELSE work[m].lines,
                 !.snaps = @ \cup (work[m].snaps \ index[m].snaps)]

-----------------------------------------------------------------------------
(* Requests.                                                               *)

Goto(w, label) == pc' = [pc EXCEPT ![w] = label]
Start(w, label, kind, msg) ==
    /\ pc[w] = "idle"
    /\ Goto(w, label)
    /\ job' = [job EXCEPT ![w] = [Idle EXCEPT !.kind = kind, !.msg = msg]]
Done(w) == Goto(w, "idle") /\ job' = [job EXCEPT ![w] = Idle]

\* Another thread of the machine is at a command that takes index.lock.
Locked(w) ==
    \E v \in Workers \ {w} :
       /\ Host[v] = Host[w]
       /\ \/ pc[v] \in {"add", "commit", "rebase", "pop", "skip", "reset"}
          \/ pc[v] = "stash" /\ ~cooldown[Host[w]]
          \/ pc[v] \in {"end_rebase", "abort"} /\ Stopped(Host[w])

\* git commit takes all that is added, whoever added it.  It fails, and only a
\* log line says so, while a stopped rebase has unmerged paths.
Commit(m, tree) ==
    IF Stopped(m) \/ tree = Tip(m)
    THEN UNCHANGED <<branch, committed>>
    ELSE /\ branch' = [branch EXCEPT ![m] = Append(@, tree)]
         /\ committed' = committed \cup (Items(tree) \ Items(Tip(m)))

StartSend(w, x) ==
    /\ w \in Requesters /\ Host[w] = Writer[x]
    /\ x \notin sent /\ \A v \in Workers : job[v].msg # x
    /\ Start(w, "thread", "send", x)
    /\ UNCHANGED <<remote, repo, ghosts, cooldown, events>>

\* _ensure_general_thread writes, adds and commits thread.json when there is none.
\* (One step: it happens once in the life of a ledger.)
EnsureThread(w) ==
    LET m == Host[w]
        tree == [index[m] EXCEPT !.thread = m] IN
    /\ pc[w] = "thread" /\ Goto(w, "append")
    /\ IF work[m].thread # None THEN UNCHANGED <<branch, work, index, committed>>
       ELSE /\ work' = [work EXCEPT ![m].thread = m]
            /\ index' = [index EXCEPT ![m] = tree]
            /\ Commit(m, tree)
    /\ UNCHANGED <<remote, tracking, onto, stash, cooldown, job, sent, lost, events>>

\* _append_thread_message, the write.
AppendLine(w) ==
    /\ pc[w] = "append" /\ Goto(w, "add")
    /\ work' = [work EXCEPT ![Host[w]].lines = @ \cup {File, job[w].msg}]
    /\ UNCHANGED <<remote, tracking, branch, index, onto, stash, ghosts, cooldown, job,
                   events>>

\* save_audit_snapshot, the write of a file of its own.
WriteSnapshot(w, x) ==
    /\ w \in Requesters /\ Host[w] = Writer[x]
    /\ x \notin sent /\ \A v \in Workers : job[v].msg # x
    /\ Start(w, "add", "save", x)
    /\ events < MaxEvents /\ events' = events + 1
    /\ work' = [work EXCEPT ![Host[w]].snaps = @ \cup {x}]
    /\ UNCHANGED <<remote, tracking, branch, index, onto, stash, ghosts, cooldown>>

\* ledger_add_and_commit, git add: the file as it is now.  When it fails the
\* commit follows all the same.
Added(m, j) ==
    IF j.kind = "save" THEN [index[m] EXCEPT !.snaps = @ \cup ({j.msg} \cap work[m].snaps)]
    ELSE [index[m] EXCEPT !.lines = work[m].lines]

AddFile(w) ==
    /\ pc[w] = "add" /\ Goto(w, "commit")
    /\ \/ index' = [index EXCEPT ![Host[w]] = Added(Host[w], job[w])]
       \/ Locked(w) /\ UNCHANGED index
    /\ UNCHANGED <<remote, tracking, branch, work, onto, stash, ghosts, cooldown, job,
                   events>>

\* git commit and the answer, which is the same when it failed.  A sent message
\* is pushed in the background, a snapshot or a deletion is not.
CommitIndex(w) ==
    LET m == Host[w] IN
    /\ pc[w] = "commit"
    /\ \/ Commit(m, index[m])
       \/ Locked(w) /\ UNCHANGED <<branch, committed>>
    /\ CASE job[w].kind = "send" ->
              /\ sent' = sent \cup {job[w].msg}
              /\ Goto(w, "fetch")
              /\ job' = [job EXCEPT ![w] = [Idle EXCEPT !.kind = "push"]]
         [] job[w].kind = "save" -> Done(w) /\ sent' = sent \cup {job[w].msg}
         [] job[w].kind = "delete" -> Done(w) /\ UNCHANGED sent
         [] job[w].kind = "content_merge" -> Goto(w, "push") /\ UNCHANGED <<job, sent>>
    /\ UNCHANGED <<remote, tracking, work, index, onto, stash, cooldown, lost, events>>

\* delete_message reads every line of the file ...
StartDelete(w, x) ==
    /\ w \in Requesters /\ events < MaxEvents
    /\ x \in work[Host[w]].lines
    /\ pc[w] = "idle" /\ Goto(w, "rewrite")
    /\ job' = [job EXCEPT ![w] = [Idle EXCEPT !.kind = "delete",
                                              !.msg = x, !.read = work[Host[w]]]]
    /\ events' = events + 1
    /\ UNCHANGED <<remote, repo, ghosts, cooldown>>

\* ... and writes what it read without the message: a line that came between
\* the two is gone with it.
Rewrite(w) ==
    LET m == Host[w]
        kept == job[w].read.lines \ {job[w].msg} IN
    /\ pc[w] = "rewrite" /\ Goto(w, "add")
    /\ work' = [work EXCEPT ![m].lines = kept]
    /\ lost' = lost \cup ((work[m].lines \ kept) \ {File}) \cup {job[w].msg}
    /\ job' = [job EXCEPT ![w] = [Idle EXCEPT !.kind = "delete"]]
    /\ UNCHANGED <<remote, tracking, branch, index, onto, stash, sent, committed,
                   cooldown, events>>

-----------------------------------------------------------------------------
(* Polls, pushes and resolutions, command by command.                      *)

\* A poll pulls (pull_chat).  The fetch and rebase at the head of every request
\* (ensure_worktree) are the same commands with nothing before them to order them
\* by: a poll that comes first stands for them.
StartPoll(w) ==
    /\ w \in Pollers /\ Start(w, "fetch", "poll", None)
    /\ UNCHANGED <<remote, repo, ghosts, cooldown, events>>

\* ledger_resolve_conflict; _content_merge reads the local lines first.
StartResolve(w, action) ==
    /\ w \in Requesters /\ events < MaxEvents /\ pc[w] = "idle"
    /\ Goto(w, "end_rebase")
    /\ job' = [job EXCEPT ![w] = [Idle EXCEPT !.kind = action,
                  !.read = IF action = "content_merge" THEN work[Host[w]] ELSE @]]
    /\ events' = events + 1
    /\ UNCHANGED <<remote, repo, ghosts, cooldown>>

\* git rebase --abort: back to the branch, without what was added to the files
\* of a stopped rebase.
EndRebase(w) ==
    LET m == Host[w]
        tree == CheckedOut(m, Tip(m)) IN
    \/ /\ ~Stopped(m) \/ Locked(w)
       /\ UNCHANGED <<work, index, onto, lost>>
    \/ /\ Stopped(m)
       /\ work' = [work EXCEPT ![m] = tree]
       /\ index' = [index EXCEPT ![m] = Tip(m)]
       /\ onto' = [onto EXCEPT ![m] = << >>]
       /\ lost' = lost \cup (Items(work[m]) \ (Items(tree) \cup Items(Last(onto[m]))))

AbortFirst(w) ==
    /\ pc[w] = "end_rebase"
    /\ EndRebase(w)
    /\ Goto(w, CASE job[w].kind = "content_merge" -> "reset"
                 [] job[w].kind = "force_push" -> "push"
                 [] OTHER -> "fetch")
    /\ UNCHANGED <<remote, tracking, branch, stash, sent, committed, cooldown, job, events>>

\* Mutant: a refspec without +: a branch that was forced is not fetched.
FetchNoForce(w) ==
    LET m == Host[w] IN
    /\ pc[w] = "fetch"
    /\ tracking' = [tracking EXCEPT ![m] = IF IsPrefix(@, origin) THEN origin ELSE @]
    /\ cooldown' = [cooldown EXCEPT ![m] = @ /\ job[w].kind # "retry"]
    /\ Goto(w, CASE job[w].kind = "reset" -> "reset"
                 [] job[w].kind = "skip" -> "skip"
                 [] OTHER -> "stash")
    /\ UNCHANGED <<remote, branch, work, index, onto, stash, ghosts, job, events>>

\* The remote branch becomes origin/ledger, where it was forced as well.
FetchOk(w) ==
    LET m == Host[w] IN
    /\ pc[w] = "fetch"
    /\ tracking' = [tracking EXCEPT ![m] = origin]
    /\ cooldown' = [cooldown EXCEPT ![m] = @ /\ job[w].kind # "retry"]
    /\ Goto(w, CASE job[w].kind = "reset" -> "reset"
                 [] job[w].kind = "skip" -> "skip"
                 [] OTHER -> "stash")
    /\ UNCHANGED <<remote, branch, work, index, onto, stash, ghosts, job, events>>

\* Mutant: the failed fetch of a poll does not end it.
FetchFailsGoesOn(w) ==
    /\ pc[w] = "fetch"
    /\ Goto(w, IF job[w].kind = "push" THEN "stash" ELSE job[w].kind)
    /\ UNCHANGED <<remote, repo, ghosts, cooldown, job, events>>

\* The network is down: a poll and a retry give up, the others go on with what
\* was fetched last, but for a timeout, which nothing catches.
FetchFails(w) ==
    /\ pc[w] = "fetch"
    /\ \/ Done(w)
       \/ /\ job[w].kind \in {"push", "skip", "reset"}
          /\ Goto(w, IF job[w].kind = "push" THEN "stash" ELSE job[w].kind)
          /\ UNCHANGED job
    /\ UNCHANGED <<remote, repo, ghosts, cooldown, events>>

\* Where _safe_rebase returns to: push_ledger_branch pushes whatever it said.
Return(w) == IF job[w].kind = "push" THEN Goto(w, "push") /\ UNCHANGED job ELSE Done(w)

\* Mutant: the changes are discarded (git reset --hard), not stashed.
DiscardChanges(w) ==
    LET m == Host[w] IN
    /\ pc[w] = "stash"
    /\ IF cooldown[m] THEN Return(w) /\ UNCHANGED <<work, index>>
       ELSE /\ Goto(w, "rebase")
            /\ job' = [job EXCEPT ![w].stashed = FALSE]
            /\ IF Stopped(m) THEN UNCHANGED <<work, index>>
               ELSE /\ work' = [work EXCEPT ![m] = CheckedOut(m, Tip(m))]
                    /\ index' = [index EXCEPT ![m] = Tip(m)]
    /\ UNCHANGED <<remote, tracking, branch, onto, stash, ghosts, cooldown, events>>

\* What git stash puts aside: tracked changes and added files.
Changes(m) ==
    [base  |-> Tip(m).lines,
     lines |-> IF Tracked(m) THEN work[m].lines ELSE Tip(m).lines,
     snaps |-> index[m].snaps \ Tip(m).snaps]

\* _safe_rebase: nothing while the cooldown lasts, else stash the changes.
Stash(w) ==
    LET m == Host[w] IN
    /\ pc[w] = "stash"
    /\ IF cooldown[m] THEN Return(w) /\ UNCHANGED <<work, index, stash>>
       ELSE /\ Goto(w, "rebase")
            /\ \/ /\ ~Dirty(m) \/ Stopped(m) \/ Locked(w)
                  /\ job' = [job EXCEPT ![w].stashed = FALSE]
                  /\ UNCHANGED <<work, index, stash>>
               \/ /\ Dirty(m) /\ ~Stopped(m)
                  /\ job' = [job EXCEPT ![w].stashed = TRUE]
                  /\ stash' = [stash EXCEPT ![m] = Append(@, Changes(m))]
                  /\ work' = [work EXCEPT ![m] = CheckedOut(m, Tip(m))]
                  /\ index' = [index EXCEPT ![m] = Tip(m)]
    /\ UNCHANGED <<remote, tracking, branch, onto, ghosts, cooldown, events>>

\* git refuses to begin: changes that are not committed, an untracked file where
\* the remote has one, or a rebase that has stopped.
Obstructed(m) ==
    \/ Dirty(m)
    \/ ~Tracked(m) /\ File \in work[m].lines \cap Last(tracking[m]).lines
    \/ (work[m].snaps \ index[m].snaps) \cap Last(tracking[m]).snaps # {}
Refused(m) == Stopped(m) \/ Obstructed(m)

\* The branch a rebase gives, put in the index and the worktree.
RebaseOnto(m, upstream, skip) ==
    \E new \in Rebased(branch[m], upstream, skip) :
       /\ branch' = [branch EXCEPT ![m] = new]
       /\ index' = [index EXCEPT ![m] = Last(new)]
       /\ work' = [work EXCEPT ![m] = CheckedOut(m, Last(new))]

\* git rebase origin/ledger.
Rebase(w) ==
    LET m == Host[w] IN
    /\ pc[w] = "rebase" /\ ~Refused(m) /\ ~Conflicting(branch[m], tracking[m])
    /\ RebaseOnto(m, tracking[m], FALSE)
    /\ cooldown' = [cooldown EXCEPT ![m] = FALSE]
    /\ IF job[w].stashed THEN Goto(w, "pop") /\ UNCHANGED job ELSE Return(w)
    /\ UNCHANGED <<remote, tracking, onto, stash, ghosts, events>>

\* It fails: refused, or stopped on thread.json with what was picked so far.
RebaseFails(w) ==
    LET m == Host[w] IN
    /\ pc[w] = "rebase" /\ Goto(w, "abort")
    /\ \/ /\ Refused(m) \/ Locked(w)
          /\ UNCHANGED <<work, index, onto>>
       \/ /\ ~Refused(m) /\ Conflicting(branch[m], tracking[m])
          /\ onto' = [onto EXCEPT ![m] = tracking[m]]
          /\ index' = [index EXCEPT ![m] = Last(tracking[m])]
          /\ work' = [work EXCEPT ![m] = CheckedOut(m, Last(tracking[m]))]
    /\ UNCHANGED <<remote, tracking, branch, stash, ghosts, cooldown, job, events>>

\* rebase --abort, the cooldown and the event that shows the conflict.
AbortRebase(w) ==
    /\ pc[w] = "abort"
    /\ EndRebase(w)
    /\ cooldown' = [cooldown EXCEPT ![Host[w]] = TRUE]
    /\ IF job[w].stashed THEN Goto(w, "pop") /\ UNCHANGED job ELSE Return(w)
    /\ UNCHANGED <<remote, tracking, branch, stash, sent, committed, events>>

\* git stash pop refuses an entry when files it changes have changes that are
\* not added, or are there and not tracked, or are no longer in the branch.
Overlaps(m, entry) ==
    \/ entry.snaps \cap work[m].snaps # {}
    \/ /\ entry.lines # entry.base
       /\ work[m].lines # index[m].lines \/ (File \in entry.base /\ ~Tracked(m))

\* It takes the entry on top, whoever put it there, and keeps it when it refuses.
\* A new file is added again, other changes are not.
StashPop(w) ==
    LET m == Host[w]
        entry == Last(stash[m]) IN
    /\ pc[w] = "pop" /\ Return(w)
    /\ \/ /\ stash[m] = << >> \/ Stopped(m) \/ Overlaps(m, entry) \/ Locked(w)
          /\ UNCHANGED <<work, index, stash>>
       \/ /\ stash[m] # << >> /\ ~Stopped(m) /\ ~Overlaps(m, entry)
          /\ stash' = [stash EXCEPT ![m] = Front(@)]
          /\ \E s \in UnionLines(entry.base, work[m].lines, entry.lines) :
                /\ work' = [work EXCEPT ![m].lines = s, ![m].snaps = @ \cup entry.snaps]
                /\ index' = [index EXCEPT
                       ![m].lines = IF Tracked(m) \/ entry.lines = entry.base THEN @
                                    ELSE entry.lines,
                       ![m].snaps = @ \cup entry.snaps]
    /\ UNCHANGED <<remote, tracking, branch, onto, ghosts, cooldown, events>>

\* Mutant: every push is forced.
AlwaysForce(w) ==
    LET m == Host[w] IN
    /\ pc[w] = "push" /\ job[w].kind # "force_push" /\ Done(w)
    /\ cooldown' = [cooldown EXCEPT ![m] = @ /\ job[w].kind = "push"]
    /\ \/ UNCHANGED <<remote, tracking>>
       \/ /\ origin' = branch[m]
          /\ tracking' = [tracking EXCEPT ![m] = branch[m]]
          /\ published' = published \cup Items(Tip(m))
    /\ UNCHANGED <<branch, work, index, onto, stash, ghosts, events>>

\* git push, by push_ledger_branch and by _content_merge: the remote takes only
\* a branch that continues its own.  Or the network is down: nobody tries again.
Push(w) ==
    LET m == Host[w] IN
    /\ pc[w] = "push" /\ job[w].kind # "force_push" /\ Done(w)
    /\ cooldown' = [cooldown EXCEPT ![m] = @ /\ job[w].kind = "push"]
    /\ \/ UNCHANGED <<remote, tracking>>
       \/ /\ IsPrefix(origin, branch[m])
          /\ origin' = branch[m]
          /\ tracking' = [tracking EXCEPT ![m] = branch[m]]
          /\ published' = published \cup Items(Tip(m))
    /\ UNCHANGED <<branch, work, index, onto, stash, ghosts, events>>

ForcePush(w) ==
    LET m == Host[w] IN
    /\ pc[w] = "push" /\ job[w].kind = "force_push" /\ Done(w)
    /\ cooldown' = [cooldown EXCEPT ![m] = FALSE]
    /\ \/ UNCHANGED <<remote, tracking, lost>>
       \/ /\ origin' = branch[m]
          /\ tracking' = [tracking EXCEPT ![m] = branch[m]]
          /\ published' = published \cup Items(Tip(m))
          /\ lost' = lost \cup (Items(Last(origin)) \ Items(Tip(m)))
    /\ UNCHANGED <<branch, work, index, onto, stash, sent, committed, events>>

\* git rebase, then --skip while it stops: the commits that clash are dropped.
SkipCommits(w) ==
    LET m == Host[w]
        upstream == IF Stopped(m) THEN onto[m] ELSE tracking[m]
        clash == Conflicting(branch[m], upstream) IN
    /\ pc[w] = "skip" /\ Done(w)
    /\ cooldown' = [cooldown EXCEPT ![m] = FALSE]
    /\ \/ /\ (~Stopped(m) /\ Obstructed(m)) \/ Locked(w)
          /\ UNCHANGED <<branch, work, index, onto, lost>>
       \/ /\ Stopped(m) \/ ~Obstructed(m)
          /\ RebaseOnto(m, upstream, clash)
          /\ onto' = [onto EXCEPT ![m] = << >>]
          /\ lost' = lost \cup (Items(work[m]) \ (Items(Tip(m)) \cup Items(Last(upstream))
                                                  \cup Items(work'[m])))
                          \cup (IF clash THEN WithThread(branch[m], upstream) ELSE {})
    /\ UNCHANGED <<remote, tracking, stash, sent, committed, events>>

\* git reset --hard origin/ledger, after which a content merge adds again the
\* messages it read.  (Bound of the model: not while a rebase is stopped.)
ResetHard(w) ==
    LET m == Host[w]
        tree == CheckedOut(m, Last(tracking[m]))
        readded == IF job[w].kind = "reset" THEN {} ELSE job[w].read.lines IN
    /\ pc[w] = "reset" /\ ~Stopped(m)
    /\ branch' = [branch EXCEPT ![m] = tracking[m]]
    /\ index' = [index EXCEPT ![m] = Last(tracking[m])]
    /\ work' = [work EXCEPT ![m] = tree]
    /\ lost' = lost \cup ((Items(work[m]) \cup Items(Tip(m))) \ (Items(tree) \cup readded))
    /\ IF job[w].kind = "reset"
       THEN /\ Done(w) /\ cooldown' = [cooldown EXCEPT ![m] = FALSE]
            /\ UNCHANGED committed
       ELSE /\ Goto(w, "readd") /\ UNCHANGED <<job, cooldown>>
            /\ committed' = committed \ (readded \ tree.lines)
    /\ UNCHANGED <<remote, tracking, onto, stash, sent, events>>

\* The reset fails, and the resolution with it.
ResetFails(w) ==
    /\ pc[w] = "reset" /\ Locked(w) /\ Done(w)
    /\ cooldown' = [cooldown EXCEPT ![Host[w]] = @ /\ job[w].kind # "reset"]
    /\ UNCHANGED <<remote, repo, ghosts, events>>

\* _content_merge appends the messages it read that are not there now.
AppendMissing(w) ==
    LET m == Host[w] IN
    /\ pc[w] = "readd"
    /\ IF job[w].read.lines \subseteq work[m].lines
       THEN Goto(w, "push") /\ UNCHANGED work
       ELSE /\ Goto(w, "add")
            /\ work' = [work EXCEPT ![m].lines = @ \cup job[w].read.lines]
    /\ UNCHANGED <<remote, tracking, branch, index, onto, stash, ghosts, cooldown, job,
                   events>>

-----------------------------------------------------------------------------
\* Five minutes after the last failure (_REBASE_COOLDOWN).
CooldownOver(m) ==
    /\ cooldown[m]
    /\ cooldown' = [cooldown EXCEPT ![m] = FALSE]
    /\ UNCHANGED <<remote, repo, ghosts, pc, job, events>>

\* The messages a content merge has taken off the branch and not yet put back.
BeingMerged(m) ==
    UNION { job[w].read.lines \ {File} :
              w \in { v \in Workers : Host[v] = m /\ pc[v] = "readd" } }

\* The server of a machine dies and starts again: its threads, what a content
\* merge holds and the cooldown are gone, the worktree, the stash and a stopped
\* rebase are not.
Crash(m) ==
    /\ events < MaxEvents
    /\ events' = events + 1
    /\ pc' = [w \in Workers |-> IF Host[w] = m THEN "idle" ELSE pc[w]]
    /\ job' = [w \in Workers |-> IF Host[w] = m THEN Idle ELSE job[w]]
    /\ cooldown' = [cooldown EXCEPT ![m] = FALSE]
    /\ lost' = lost \cup BeingMerged(m)
    /\ UNCHANGED <<remote, repo, sent, committed>>

Command(w) ==
    \/ EnsureThread(w) \/ AppendLine(w) \/ AddFile(w) \/ CommitIndex(w) \/ Rewrite(w)
    \/ AbortFirst(w) \/ FetchOk(w) \/ FetchFails(w) \/ Stash(w) \/ Rebase(w)
    \/ RebaseFails(w) \/ AbortRebase(w) \/ StashPop(w) \/ Push(w) \/ ForcePush(w)
    \/ SkipCommits(w) \/ ResetHard(w) \/ ResetFails(w) \/ AppendMissing(w)

Next ==
    \/ \E w \in Workers :
         \/ Command(w) \/ StartPoll(w)
         \/ \E x \in Messages : StartSend(w, x) \/ StartDelete(w, x)
         \/ \E x \in Snapshots : WriteSnapshot(w, x)
         \/ \E action \in Resolutions : StartResolve(w, action)
    \/ \E m \in Machines : CooldownOver(m) \/ Crash(m)

\* An open chat polls again and again and its commands end, a fetch that is tried
\* for ever gets through, a rebase that is tried for ever once finds no index.lock,
\* the cooldown ends; nothing is asked of requests, nor of a push.
Fairness ==
    /\ \A w \in Pollers : /\ WF_vars(StartPoll(w) \/ Command(w))
                          /\ SF_vars(FetchOk(w)) /\ SF_vars(Rebase(w))
    /\ \A m \in Machines : WF_vars(CooldownOver(m))

Spec == Init /\ [][Next]_vars /\ Fairness

-----------------------------------------------------------------------------
(* Properties.                                                             *)

\* Type invariant of the branches, the worktrees and the threads.
TypeOK ==
    /\ origin \in Seq(Trees) \ {<< >>}
    /\ tracking \in [Machines -> Seq(Trees) \ {<< >>}]
    /\ branch \in [Machines -> Seq(Trees) \ {<< >>}]
    /\ work \in [Machines -> Trees]
    /\ index \in [Machines -> Trees]
    /\ onto \in [Machines -> Seq(Trees)]
    /\ stash \in [Machines -> Seq(Entries)]
    /\ cooldown \in [Machines -> BOOLEAN]
    /\ pc \in [Workers -> {"idle", "thread", "append", "add", "commit", "rewrite",
                           "end_rebase", "fetch", "stash", "rebase", "abort", "pop", "push",
                           "skip", "reset", "readd"}]
    /\ job \in [Workers ->
                 [kind : {"none", "send", "save", "delete", "poll", "push"} \cup Actions,
                  msg : Messages \cup Snapshots \cup {None}, read : Trees,
                  stashed : BOOLEAN]]
    /\ sent \cup committed \cup published \cup lost \subseteq Messages \cup Snapshots

\* What a machine has committed stays in its branch over every rebase, retry,
\* skip, push and crash, unless a user deleted it or reset the branch
\* (worktree.py:95-160: rebase onto, never reset to, the remote).
Kept == \A x \in committed : x \in Items(Tip(Writer[x])) \cup lost

\* What the remote once had it keeps: no push of a branch that was rebased, or
\* could not be, takes away what another machine pushed meanwhile
\* (worktree.py:1071-1104), unless it was deleted or a push was forced.
Published == \A x \in published : x \in Items(Last(origin)) \cup lost

\* A message or snapshot whose request was answered is in the worktree, the branch
\* or the stash of its machine: whatever the threads do to the files between a
\* write, its add and its commit, or around a stash and its pop
\* (worktree.py:117-157, 973-982), it is never overwritten, except by a deletion's
\* rewrite, by the abort of a stopped rebase, by a reset or a skipped commit.
Held ==
    \A x \in sent :
        LET m == Writer[x] IN
        \/ x \in Items(Tip(m)) \cup Items(work[m]) \cup BeingMerged(m) \cup lost
        \/ \E i \in 1..Len(stash[m]) : x \in stash[m][i].lines \cup stash[m][i].snaps

\* What is on the remote reaches every machine whose chat is open
\* (sync.py:23-96): again and again it has all of it that is not dropped, unless
\* its branch conflicts with the remote or its file is in the way, which only a
\* user can resolve.
Converges ==
    \A w \in Pollers :
        []<>(LET m == Host[w] IN
             \/ Items(Last(origin)) \subseteq Items(Tip(m)) \cup lost
             \/ Conflicting(branch[m], origin) \/ Obstructed(m))

\* _chat.html:1294: a content merge that ends with its branch on the remote has kept
\* everything this machine had: "Zero data loss."
ZeroDataLoss ==
    [][\A w \in Workers :
         (/\ job[w].kind = "content_merge" /\ pc[w] = "push" /\ pc'[w] = "idle"
          /\ events' = events /\ origin' = branch[Host[w]])
            => Items(job[w].read) \subseteq Items(Last(origin'))]_vars
=============================================================================
