# Verification of the DevOps control plane

The control plane is a Python program: a command line, a Flask server and a
browser front end over one core (`src/src/core`). This directory holds TLA+
modules of the parts of that core in which several actors meet, the
configurations that model-check them, and proofs for all values of their
parameters.

Paths below are relative to `src/src/core/services/` unless they begin with
`src/`.

## 1. The system

### 1.1 Components

| Component | State it keeps | Operations | What makes it correct |
|---|---|---|---|
| Event bus (`event_bus.py`, `src/src/ui/web/routes/events`, `_event_stream.html`) | counter, ring buffer, latest payload per key, a bounded queue per client; in the browser a store, the last event id, the server's instance | publish, subscribe, ready, snapshot, deliver, heartbeat | a client misses, repeats and reorders nothing; a browser ends up showing current data |
| Card cache (`devops/cache.py`, `staleness_watcher.py`) | one JSON file, a lock per key, a file lock, the watcher's tracker | get_cached, invalidate, cascade, recompute_all, poll | what is served without recomputing is current; parallel writers keep each other's entries; outdated cards get marked |
| Plan validation and batch selection (`tool_install/domain/dag.py`), plan executor (`tool_install/orchestration/orchestrator.py`) | completed, failed and running steps | validate, pick ready steps, run a batch, save the end | order of dependencies, one step per package manager, an honest final status, termination |
| Install plan state (`tool_install/execution/plan_state.py`, `src/src/ui/web/routes/audit/tool_execution.py`) | the state file of a plan | execute, resume, cancel, archive | a resumed plan leaves out only what was done; nobody begins to carry out a plan that is cancelled |
| Audit staging (`audit_staging.py`, the call of `ledger/ledger_ops.py`) | pending snapshots in a file | stage, save one, save all, discard | a snapshot has one owner and does not vanish before it is in the ledger's worktree |
| Vault (`vault/core.py`) | plaintext and vault file, passphrases, auto-lock timer | lock, unlock, register, auto-lock, touch, configure | a secret is never lost; an unlocked file is locked again |
| Remediation chains (`tool_install/execution/chain_state.py`) | a stack of install failures in a file | create, escalate, de-escalate, cancel | no cycle, bounded depth |
| Engine (`src/src/core/engine/executor.py`, `use_cases/run.py`), adapters, state file, audit log | project state, log | load, detect, plan, execute, save, audit | every action has one receipt and one log line, whatever fails |
| Reliability (`src/src/core/reliability`) | breaker states, a queue file | allow, success, failure; enqueue, fail, done | an open breaker lets nothing through and closes again |
| Ledger and chat between machines (`ledger/worktree.py`, `ledger/ledger_ops.py`, `chat/chat_ops.py`, `src/src/ui/web/routes/chat`) | the branch `ledger` in a worktree, its remote, git's index, stash and stopped rebase, a cooldown | send, delete, save a snapshot, poll, push, and five ways out of a conflict | a sent message or saved snapshot is never overwritten; what was committed or shared stays; machines catch up with the remote |
| Uploads to the release, content files, backups (`content/release.py`, `content/file_ops.py`, `content/crypto_ops.py`, `backup/extras.py`, `backup/archive.py`) | the files, a sidecar beside each, two tables in memory, a gh process per upload | upload, save, cancel, rename, move, encrypt, decrypt, delete, list | what is marked as backed up is on the release; an upload comes to an end, and a cancelled one stops |
| Browser tab mesh (`_tab_mesh.html`, `_tab_mesh_light.html` in `src/src/ui/web/templates/scripts`) | in every tab a registry of the others | join, ping, prune, leave, kill | open tabs know each other, those that are gone are forgotten |
| Run tracker, notifications, traces | files that requests append to and rewrite | record, trim, dismiss, post | no record is lost between a read and a write |

The rest — detectors, recipes, generators, wrappers of command-line tools,
routes without state, the command line — translates or computes and keeps
nothing; `PROJECT.json` lists it part by part with the reason it is left out.

### 1.2 How the parts meet

The server is one process with a thread per request. `get_cached` publishes
`cache:*` events on the bus, which every open tab receives over one SSE
connection; the watcher thread polls the mtimes of watched files and publishes
`state:stale`. A computed audit card is staged as a pending snapshot, which a
request later commits to a git worktree, the ledger. Tool installs run as
streams that write a plan file at every step, so that a browser or a server that
went away can resume them; they invalidate cards when they are through. Every
request that is not a poll touches the vault's auto-lock timer, which fires in a
thread of its own and locks files.

The ledger worktree is shared by every request that commits to it, by the polls
of open chats, which fetch and rebase, and by the threads that push; its remote
is shared with other machines. Large content files are uploaded by background
threads, while requests go on renaming and deleting the files and the notes kept
beside them. Tabs speak to each other on a BroadcastChannel, without the server.

### 1.3 What is hard

* **Replay against live publishing**: a queue is registered, filled from the
  ring buffer, and read by a generator that numbers its own events when it sends
  them.
* **A value read, then used**: a card's mtime is read before it is computed and
  stamped on it after; a plan file is loaded, changed and written by three
  kinds of request; the passphrases are copied, the files locked one by one, and
  all passphrases cleared.
* **Files written in place**: `write_text` truncates first. A crash, or a
  reader that takes no lock, sees an empty file. This holds for the cache, the
  pending snapshots, the plan files and the vault.
* **Locks that cover less than the operation**: the vault's `_lock` covers
  single accesses to a dictionary; an invalidation does not take the key's
  lock; the ledger has no lock.
* **A tool that keeps state of its own**: git has an index, a stash and a rebase
  that may have stopped; each command of one thread finds what the last command
  of another has left. A release has assets by name only.
* **A network that fails**: a fetch or push that is refused or not answered, a
  tab that crashes without a goodbye, an upload that hangs.
* **One part of several failing**: a step of a batch, a commit of a series of
  saves, the removal of a plaintext.
* **Boundaries**: the oldest event of the buffer, a full queue, the loop guard
  that adds two sets which can overlap, indices of a plan that has lost its
  first steps.

`PROJECT.json` lists these at their lines under `hazards`, with the properties
that watch them.

## 2. The modules

```
EventFeed <- EventBus (the bus, and the refinement)
EventBus, TabMesh <- BrowserProofs
InstallPlan <- InstallPlanProofs
CardCache <- MCCardCache, CardCacheProofs
AuditStaging <- AuditStagingProofs
Vault <- VaultProofs
LedgerSync <- MCLedgerSync, LedgerSyncProofs
ContentRelease <- MCContentRelease, ContentReleaseProofs
PlanGraph <- InstallDag (executor, abstract validation)
InstallDag <- DagRun (with Kahn's loop, and the refinement) <- DagRunProofs
```

Every module opens with what it models and what it abstracts, its constants
(bounds are called `Max...`) and its variables, one comment per variable naming
the attribute or local variable of the code. Variables marked *history* exist
for the properties only. An action is one section of the code that nothing
interrupts: a method under a lock where the code has one, otherwise a single
access to shared state. Definitions commented `Mutant:` are deliberate errors;
they are part of no specification, and each shows that a property notices the
error.

### 2.1 EventBus

`seq`, `buffer`, `latest`, `subscribers` and `queue` are the attributes of
`EventBus`; every public method runs under `_lock` and is one action. The
generator behind a connection runs between the locked sections: `Subscribe`,
`Ready`, `Snapshot`, `Deliver`, `TimeOut`, `Heartbeat`, `Disconnect` are its steps,
`phase` says where it is. `store`, `lastSeq` and `seen` are the browser; `Reload`
is a new page, `Restart` a new server, which counts from 1 again. Payloads are
the sequence number of the event that carried them. Two history variables, `log`
(all that was broadcast) and `pos` (how far a connection has come), let the
properties say *exactly the broadcast events past the position*.

`EventFeed` is the abstract specification: what the tabs are promised, without the
ring buffer, the queues, the subscribers and the table of latest payloads. There is
one log, and an open connection is a cursor in it (`pos`) with a limit up to which
it is fed (`upto`). It begins at the tab's last number or, with the newest data of
every key in the log, at the end; it reads event by event; once it has fallen behind
(`upto` short of the log) nothing more reaches it until it reconnects. When it falls
behind, whether a replay is granted, and how many events there are is left open.
`EventBus` implements it (`ImplementsFeed`): `FeedConn` gives the state of a
connection from the generator's `phase`, `FeedUpto` the limit as position plus
length of the queue. `Deliver` is a `Read`, each publish a `Broadcast`, `TimeOut` a
stutter.

Not modelled: in-process listeners, `stats()`, the boot time in `instance_id`
(boots get distinct ids).

### 2.2 PlanGraph, InstallDag, DagRun

`PlanGraph` has the pure functions: implicit dependencies, ready steps, the
package-manager filter, and what it means for a plan to be valid. A plan ranges
over every value that can come out of `_add_implicit_deps`, with unknown
references, self-references and cycles. `InstallDag` is `execute_plan_dag` with an
abstract test for validity; the steps of a batch return in any order, succeed,
fail or raise. `DagRun` puts the loop of `_validate_dag` before it, a round per
action: the verdict of the loop decides whether the executor starts, and the whole
is shown to implement `InstallDag`.

Not modelled: duplicate step ids (refused by the code first), what a step
executes, and the linear `execute_plan`.

### 2.3 InstallPlan

`file` is the state file of one plan: a status, how many steps of the plan it no
longer lists (`dropped`), and how many it counts as completed. `Runs` are one
execute and several resume requests, which may overlap, because a plan that is
still running is offered for resumption. Every save may fail before or after the
truncation of the file; `Disconnect` closes a stream between two steps. `installed`
is the machine.

Not modelled: the synchronous `execute_plan` and the DAG route, which write the
file with string ids or without `completed_steps`, so that a resumption takes such
a plan from the start; advice to restart a shell or service, which is only sent.

### 2.4 CardCache, MCCardCache

`entry` and `torn` are the cache file: its entries as last written, and whether
it is truncated. `keyLock` and `fileLock` are the locks, `pc` with `loaded`, `stat`,
`seen` and `now` the local variables of `get_cached` in every thread; `todo` is the
worker's list; `polled`, `unpolled` and `lastStale` are the watcher. A file is its
mtime, and the data of a card are the mtimes of the files it was computed from,
so *current* can be said as an equation. `Touch` and `Remove` happen at any time.
`MCCardCache` says which files the cards watch and read.

`EndWrite` and `SaveFails` are the two ways `_save_cache` goes: `write_text` cannot
open the file, or truncates it and fails (a full disk), and the request raises. The
next save then loads an empty cache, and all other entries are gone.

What a card is computed from (`Reads`) need not be what is watched for it (`Watch`):
the watch paths are a proxy (`devops/cache.py:195-197`), with files too deep, hidden
ones and the network left out. Data is compared for the files that are in both.

Not modelled: nested `get_cached` calls of compute functions; the test of
`_worker.is_alive()` and the start of the thread are one step.

### 2.5 AuditStaging

`pending` is the pending file, changed under its lock only. A save takes
snapshots out (`TakeOne`, `TakeAll`) and hands each to `save_audit_snapshot` with no
lock held: `Write` is its file in the worktree, `Return` its end, `Raise` an exception
before the file is there or behind it. `save_all_pending` then puts the snapshot
back, `save_audit` does not. The module ends where the file is written; what git does
with it afterwards, and the fetch, stash, rebase and pop with which
`save_audit_snapshot` begins, is in LedgerSync, where snapshots are files of the same
worktree as the chat's.

Not modelled: two snapshots with one id, which two scans of a card in one second
have; the deletion of saved snapshots.

### 2.6 Vault

`plain[f]` and `sealed[f]` are a secret file and what its vault decrypts to: a
version of the secret, nothing, or a damaged file. Requests and the thread of an
expired timer go through `lock_vault` and `unlock_vault` access by access; a write
truncates and then fills. `timer` and `leaked` are the timer in
`_auto_lock_timer` and those that were overwritten without being cancelled.
`current` is the version its user saved last. `endangered` collects the files to
which something happened that the code does not protect against: two operations
that overlap, a save by the user in the middle of one, a lock of the debris of a
crash.

Not modelled: the limit on unlock attempts, the cipher, the passphrase itself
(a refused one is the failing branch of `Open`), a process of the command line
beside the server.

### 2.7 LedgerSync, MCLedgerSync

Several machines and one remote. A branch is the sequence of the trees of its
commits; a tree is who made `thread.json`, the lines of `messages.jsonl` and the
saved snapshots. `branch`, `tracking`, `work`, `index`, `stash` and `onto` are what
git keeps on a machine: the local branch, the remote-tracking one, the files, what is
added, the stash, and what a stopped rebase is onto. A worker is a thread of a server;
every git command that `worktree.py` runs is one step of it, since nothing locks the
worktree: the write of a line or snapshot (`AppendLine`, `WriteSnapshot`), its add
(`AddFile`) and its commit (`CommitIndex`, which takes whatever anybody has added) are
three steps. Only `EnsureThread`, which happens once in the life of a ledger, is one.

A command that takes git's `index.lock` may find another thread of the machine at such
a command (`Locked`): it is then refused as a whole. For the add and the commit only a
log line says so, and the request is answered as if they had succeeded. `FetchFails`
is a fetch that is refused, after which a push, skip or reset goes on with what was
fetched last, or one that times out, which raises out of them.

What git itself does is external: `Rebased` picks the commits after the fork in turn and
merges each (`UnionLines` for messages, as `.gitattributes` asks for; anything a
union merge can give when both sides changed the file), and `Conflicting` is two
versions of `thread.json`. The abort of a stopped rebase, the stash taken and
popped, the cooldown, the refused push and the five actions of
`ledger_resolve_conflict` follow the code. *lost* is history: what a user deleted,
reset or overwrote; what a commit that the user skipped took along (`WithThread`);
and the losses the code is known for: lines that appear while a deletion rewrites the
file, lines added to the file of a stopped rebase, lines that a content merge has
taken off the branch when the server dies.

Not modelled: flags of messages, messages in git notes, moving a message and
deleting a thread, deletion of snapshots, tags, the creation of branch, worktree and
`.gitattributes`; timeouts of local git commands, an `index.lock` left by a crash, a
lock that is met in the middle of a command, commits that change nothing
(`--allow-empty`), a hard reset in the middle of another thread's stopped rebase. The
fetch, stash, rebase and pop at the head of a request (`ensure_worktree`) are left to
the polls, which run the same commands: a poll that comes between two steps of others
stands for them. One chat thread stands for all.

### 2.8 ContentRelease, MCContentRelease

`file` and `side` are the large files and the sidecars beside them, by folder and
name; `Archives` are the backups. A request is a list of steps, `todo`, taken one at a
time: write, rename, drop the asset, remove the sidecar, start the thread, write the
sidecar. `status` and `active` are `_release_upload_status` and
`_release_active_procs`, by file id, which is the stem of the name (`Stem`: `x.tar.pdf`
and `x.tar.gz` have one), whatever the folder. `job[t]` is an upload thread: its place
in `_do_upload`, the sidecar as it has read it, and its gh process, which opens the
file, deletes the asset of that name (`--clobber`), and puts the new one, or fails, or
hangs. `deleting` are the `delete-asset` processes nobody waits for. `listed` is
`list_backups`, a GET, which reads an archive's sidecar, looks at the table and writes
the sidecar back as done (`ListRead`, `ListLook`, `ListWrite`).

At a crash any of the gh processes may live on (*orphan*), with no thread to look at
it, and delete or replace its asset at any later time.

`mixed` is history: the assets that the code does not keep apart. An asset gets into
it when

* two uploads, an upload and an orphan, or either and a deletion deal with it at once;
* another file, of the same folder or not, has a sidecar that names it, or its file was
  written over in place (`save_content_file`), or a file is put where another's sidecar
  is, or from where another is being uploaded: the thread marks whatever has its place
  (`Replaced`);
* an upload begins with the id of another's sidecar (`Shares`): two files of one stem;
* a request on it was cut short by a crash;
* a sidecar has changed between the moment a thread or the listing read it and the
  moment it is written back, which may bring back one that was deleted.

`told` is history too: the uploads whose cancellation was answered and stands. It is
overwritten by a thread that has looked at the status and not yet noted that it uploads
(`Begin`), or by a new upload of the id.

Not modelled: the release itself, small files, folders, `rename_backup`, the restoring
of files and the inventory, encryption of backups; a content file named
`backup_...`, whose id could be that of a backup.

### 2.9 TabMesh

`inbox[t]` is what a tab has still to handle of the channel, in order; `registry[t][x]`
is the age of the entry of `x` in the registry of `t`. `Tick` ages entries and the
timestamps of messages under way; `SendPing` pings and prunes. A tab is opened,
killed, and gone, with a goodbye (`BeforeUnload`, after which the page may go on) or
without. A light tab answers joins and obeys kills; its own registry is not kept.

Not modelled: tombstones, titles, the service worker, the Chrome debugging port,
which window a navigate opens. Docusaurus pages run the same protocol from
`useTabMesh.ts`.

## 3. Runs

| Run | Instance | Question |
|---|---|---|
| `bus` | one tab, one key, buffer 4, queue 2, six numbers per boot, two boots | is anything lost, doubled or reordered, does a new connection catch up, is the bus one log read by cursors? |
| `dag` | every plan of three steps over one package manager | does the loop decide validity, does the executor keep its promises, does the whole implement the executor? |
| `plan` | three steps, an execute, two resumes | is anything left out that was not done? |
| `plan_resume` | the same | is a resume of a resume right? (it is not) |
| `cache` | two cards, two files that may be absent at first, of which one card watches one only, two requests and the worker, computations and saves that fail, one restart | are hits current, do writers keep each other's entries? |
| `cache_watch` | one card, two requests, the watcher, fairness | are requests answered and outdated cards marked? |
| `staging` | two cards, three scans, two requests, one fault | who owns a snapshot, and can it vanish on its way? |
| `vault` | two files, two requests, the auto-lock, one edit, one fault | is a secret ever lost, is an unlocked file locked again? |
| `ledger` | two machines, on one a request and a poll at once, a message of each, and one snapshot, deletion, resolution or crash | does a message survive index locks, stash, rebase and push, and does it reach a machine whose chat is open? |
| `ledger_merge` | the same, two events, content merges only | does a content merge keep everything? (it does not) |
| `mesh` | two tabs with the full script, one with the light one | is who is gone forgotten, and who is open known? |
| `content` | a file, its encrypted form, a backup of the same stem, two folders and that of the backups, two threads, two contents, three events | is what is marked as backed up on the release, do uploads end, do cancelled ones stop? |

Why these bounds reach the cases that matter:

* **bus**: the buffer of four holds three events that a tab has missed, so that a
  replay overflows the queue of two; six numbers let it evict before that, and a
  replay be refused. One tab and one key suffice because connections do not touch
  each other (a publish treats every queue alike), nor do the data of two keys. The
  proofs are for any number of clients and keys.
* **dag**: three steps hold a chain, a diamond's half, a cycle with a tail, a
  self-loop, and a batch of two beside a blocked step.
* **plan**: two resumes are needed for a resume of a resume, and three steps for
  one to be wrongly left out.
* **cache**: two calls and the worker give a lookup, a save and an invalidation
  at the same time; an edit may come before, between or after the reading of the
  mtime, the computation and the save. A save that breaks off meets the lookup or
  save of the other card.
* **staging**: two scans let a newer snapshot of a card replace one being saved; the
  third is pending beside it.
* **vault**: two requests and the timer give every pair of overlapping
  operations; two files show that the timer outlives the lock of one. The one
  fault is needed at every single step; several are in the proof.
* **ledger**: a request and a poll on one machine give every interleaving of their
  git commands, and the push of the sent message is a third sequence; the second
  machine makes the remote move between a rebase and its push. Each message is
  another's merge partner; the one event may be a snapshot, any resolution or a crash.
  A snapshot together with one of the others, and an open chat on the second machine,
  are in the proofs only.
* **mesh**: three tabs let a third hear what passes between two; an age of one is
  enough, as only *pruned or not* is told apart. One message of a tab under way
  when its timer fires suffices for a ping that overtakes nothing but is late.
* **content**: two uploads of one id or one name can overlap, and a file and a backup
  share an id; three events give an upload, a rename or conversion, and a cancellation
  or crash, or an upload beside the gh process a crash has left over. Listings are no
  events and come at any time.

Deadlock is not checked where the bounded requests may all be used up, or the
executor has returned, or tabs are gone; in the run on the bus it is.

### 3.1 Fairness

* **EventBus**: weak fairness of the generator of each open connection
  (`Ready`, `Snapshot`, `Deliver`, `Heartbeat`): the WSGI server pulls from it as
  long as the browser reads. Not of `TimeOut`, and not of publishing.
* **DagRun**: of the executor as a whole: a subprocess has a timeout,
  so every step returns. Nothing makes a failing step succeed.
* **CardCache**: of each thread's step, of the worker and of the watcher's poll;
  Python's locks are granted in the end because no thread holds one for ever, and
  the run shows that weak fairness of the steps is enough.
* **Vault**: of each request, of the auto-lock thread, and of an armed timer.
* **LedgerSync**: of the polls of an open chat, which begin again and again, and of
  their commands; strong fairness of a fetch, which fails at times, and of a rebase,
  which at times finds `index.lock`; of the cooldown's end. Not of pushes, which
  nobody repeats, nor of any request.
* **ContentRelease**: of each upload thread. Not of gh, which may hang, nor of
  requests.
* **TabMesh**: of time and of every tab's event loop; strong fairness of its
  interval, because the bound on messages under way is the model's and may
  disable it now and then.
* **InstallPlan, AuditStaging**: none; all their properties are safety.

## 4. What the runs show

### 4.1 What holds

* Bus: `QueueIsTail` — the queue of a registered client is exactly the broadcast
  events past its position, and what a dropped client still reads has no gap;
  `ImplementsFeed` — the whole is one log read by cursors; `SnapshotConverges` — a
  connection that begins with a snapshot ends up current, although older events
  arrive behind it; `EventuallyCurrent` — so does a browser that stays connected.
* DAG: `DecidesValid`, `OnlyAfterDependencies`, `OnePerPackageManager`,
  `DoneMeansAllCompleted`; `OnlyBlockedStepsLeft` — a step that could run is left
  only if some step failed and was then repeated with success;
  `ReturnsOrKeepsFailing`; `ImplementsExecutor`.
* Plan: `SkipsOnlyInstalled` for runs resumed from a file that lists all steps,
  whatever was lost or ran in parallel; `DoneMeansInstalled`; `CancelSticks` — as long
  as the file says cancelled, only requests that were under way when it was cancelled
  carry the plan out.
* Cache: `HitsAreCurrent` — the mtime is read *before* the computation, and the
  entry stamped with it; said of the watched files, and not of an entry that got the
  current time because no watched file was there; `EntriesIndependent` — but for a
  rewrite that breaks off; `RequestsAnswered`; `OutdatedIsMarked`.
* Staging: `OneOwner`; `NothingVanishes` — on its way to the ledger's worktree, but for
  the ways it names.
* Vault: `SecretSurvives` for files that were not endangered; `Guarded` — while a
  passphrase is held a timer runs; `AutoLocks`.
* Ledger: `Held` — a message or snapshot that was answered is in the files, the branch
  or the stash of its machine, also when its add or commit met an `index.lock`; `Kept`
  — what was committed stays in the branch over every rebase; `Published` — what the
  remote had it keeps; `Converges` — a machine with an open chat catches up again and
  again, unless its branch conflicts, or any file that is changed and not committed is
  in the way. Each but for what *lost* names.
* Release: `BackedUp` for assets that are not in *mixed*; `UploadsEnd`, but for a gh
  that hangs; `CancelledStops` — as long as the cancellation stands (*told*), whether or
  not gh was registered in time.
* Tabs: `KilledIsOut`; `GoneIsForgotten`, for tabs with the full script; `OpenTabsMeet`.

Where the code does lose, overwrite or miss something, a property that did not except
it would be false. The exceptions are history variables, each fed at the line where
the harm is done: `endangered` and `raced` (vault), `overtaken` and `guessed` (cache),
`lost` (ledger), `mixed` and `told` (release), or premises (`OnlyBlockedStepsLeft`,
`DoneMeansInstalled`). Such a property does not catch the very interleaving it
excepts; it says that the harm does not go beyond. `PROJECT.json` says for each hazard
which part of it is excepted, and the next section what the code does there.

### 4.2 Where documents and code differ

Two runs end in a counterexample to a sentence of the repository; each is a
`finding` in `PROJECT.json` with the quotation.

* `plan_resume`: a resumed run writes a shorter list of steps with a count from
  the beginning of the plan.
* `ledger_merge`: a content merge resets the branch and adds chat messages again,
  and nothing else that was committed on the machine only.

Others were met while modelling, some of them part of the models, without a run
of their own:

* *Event bus.* "The route honors `Last-Event-Id` for seamless reconnection"
  (`src/src/ui/web/routes/events/README.md:481`), but `sys:ready` and heartbeats take
  the next number and overtake what is queued, so the Last-Event-Id of a broken
  connection can be ahead of events never shown. A client dropped for being slow keeps
  its connection and its heartbeats and gets no further event. A browser that
  reconnects to a restarted server, which counts from 1 again, can be given a replay
  where it needs the snapshot.
* *DAG.* "Loop until all done or failure"
  (`tool_install/orchestration/README.md:163`), but a failed step stays ready and is
  run again in every turn; while others depend on it the executor does not return. A
  step that failed once and then succeeded is in both sets; the guard adds their sizes
  and may end early. A restart asked for by a step that ran in the pool is not looked
  at.
* *Plan.* A run under way overwrites a cancellation with its next save, and a resume
  that had loaded the file writes it back as running. The
  cancel and archive routes call `.get` on a value that is a bool.
* *Cache.* `bust_tool_caches` promises "the new state on next poll"
  (`src/src/ui/web/helpers.py:84`), but an invalidation does not wait for a
  computation under way, which then saves what it found before. When no watched file
  exists, an entry gets the time at which its computation ended; a file made during
  the computation is older, and the entry that does not know it is served until
  another edit. Deleting the newest file lowers the maximum mtime, and the older entry
  is served. An edit during a recomputation leaves the new entry unmarked, as the
  tracker holds its mtime already. A reader that meets the truncated file computes
  again; when `write_text` fails behind the truncation (a full disk) the file stays
  empty and the next save keeps its own card only. Keys asked of a worker that is
  about to end are dropped.
* *Staging.* "ledger has its own locking" (`audit_staging.py:243`); it has none, a git
  command refuses while another holds the index, the refusal is only logged, and a
  save returns without a commit. Two scans of a card in one second have one id.
  `save_audit` takes the snapshot out before the ledger write, where
  its docstring says after. A snapshot that is put back replaces a newer one of
  its card. A content merge or reset of the ledger drops saved snapshots that were not
  pushed, and no push follows a save: it waits for that of a chat message or trace.
* *Vault.* `vault/README.md:438` describes `_lock` as "Thread safety for crypto
  operations"; it guards the passphrase table only, and two overlapping locks, a
  lock and an unlock, or two unlocks with a crash can lose a secret. A lock of
  the debris of a crash puts it over the good vault. The signal handler looks for
  a passphrase under a name that does not exist and locks nothing. An auto-lock
  clears passphrases registered while it ran. An overwritten timer that was not
  cancelled still fires.
* *Ledger.* `stash` can take a line that a request has appended and not committed;
  a pop that is refused leaves it in the stash, where nobody looks again. A union
  merge brings back deleted messages. A push that fails is not repeated before the
  next message. `skip` is said to keep the message in the file.
* *Release.* `restore_large_files` asks gh for `.[].name` of an object and restores
  nothing. "Upload timed out (>1 hour)" (`content/release.py:333`) has no timeout
  behind it. The list knows "queued" where the upload says "pending", so a queued
  file is shown as stale; stale is explained as "never uploaded", also after a
  crash or a rename in the middle of an upload. Ids are stems and assets bare names:
  files of two folders overwrite each other's copies, and of two files of one stem the
  listing marks one as backed up when the other's upload is done. The listing of the
  backups writes a sidecar back that it has read, also when it was deleted meanwhile. A
  gh process goes on after the server has died, and may replace the asset after the next
  upload has. A second `rename_backup`
  forgets the name of the asset. Without gh the sidecar still says "uploading". A
  cancellation between the first check and the update of the status is lost.
* *Tabs.* A light tab asks the browser to close it when killed, which the browser
  does only for a window a script has opened; it then lives on as a tab of unknown
  type. Light tabs ignore goodbyes. `msg.hash || entry.hash` keeps a hash that was
  cleared. A goodbye that is taken back leaves the tab unknown until its next ping.

## 5. Proofs

`tlapm` checks each of these for all values of the constants, under the
assumptions named in the modules (constants are numbers, marker values are
distinct from data and statuses; `TimerThread` is not a request).

| Module | Theorems | Argument |
|---|---|---|
| `BrowserProofs` | of the bus `TypeCorrect`, `OrderedLog`, `BufferFaithful`, `QueueFaithful`, `Converges`, `ImplementsOneLog`; of the tabs `MeshTypeCorrect`, `KilledStaysOut`, `ForgottenForGood` | see below |
| `DagRunProofs` | `DependenciesFirst`, `PackageManagersExclusive`, `DoneIsComplete`, `OnlyBlockedLeft`, `BatchIsMaximal`, `OnlyFailuresRepeat`; `DegreesCorrect`, `VerdictCorrect`, `Implementation` | see below |
| `InstallPlanProofs` | `TypeCorrect`, `SkipsAreSound`, `DoneIsInstalled`, `CancellationSticks` | see below |
| `CardCacheProofs` | `TypeCorrect`, `IndependentEntries`, `CurrentHits`, `OneThreadPerCard`, `NoCircularWait`, `AnnouncementStaysDue` | see below |
| `AuditStagingProofs` | `Ownership`, `Retention` | see below |
| `VaultProofs` | `TypeCorrect`, `SecretsSurvive`, `TimerGuards` | see below |
| `LedgerSyncProofs` | `TypeCorrect`, `CommittedKept`, `PublishedKept`, `AnsweredHeld` | see below |
| `ContentReleaseProofs` | `TypeCorrect`, `MarkedIsBackedUp`, `ShownHasThread`, `CancellationStands` | see below |

*EventBus.* `QueueIsTail` and `BufferIsTail` are stated element by element for the
induction (`QueueInv`, `BufferInv`), with the facts that the log is ordered and that
no number exceeds the counter: a replay by number is then a suffix of the log, and
appending to queue and log keeps one a suffix of the other. `Converges` needs what is
still queued (`KeyInv`): for every key with data the last queued event that carries it
has the newest data, and if there is none the store has it. `ImplementsOneLog` has one
lemma per action that does more than a stutter. All of them rest on `QueueInv`, which
makes the head of a queue the event behind the cursor, and on `SuffixBehind`, by which
a replay from the buffer begins where the log passes the tab's last number. `Snapshot`
needs in addition that the table of latest payloads holds what is newest in the whole
log, although the buffer has evicted most of it (`LatestInv`).

*TabMesh.* `KilledIsOut` speaks of registries, but an entry comes from a message that
was sent long before. `OutInv` says of every inbox that behind the goodbye of a killed
tab there is no message of that tab, and that who knows a killed tab, or has any
message of it to handle, has its goodbye still to handle. Messages of one tab are
handled in the order they were sent, which is why a ping that is under way when its
sender is killed does no harm. A tab that opens knows nobody (`NewIsBlank`), so a
goodbye it missed is none it needs. `ForgottenForGood`: an ended tab which is in no
inbox and not in the registry of a tab does not come back there, as what tabs send
names only themselves.

*InstallDag.* What is completed is closed under dependencies. `done` needs an empty
`failed`, and the loop then ends with every step counted or with none ready, which
for a valid plan means none left; two disjoint sets whose sizes add up to `N` hold
every step (`AllCounted`), and otherwise what could run was skipped into `failed`.
For `BatchIsMaximal` the smallest runnable step of a package manager is the one its
lock goes to. `OnlyFailuresRepeat` has a measure (`WorkLeft`): the steps not completed
count most, then the steps of the batch still out, then how far the turn has come; it
needs that a turn of the loop has work (`Busy`). Every step but `Fail` lessens it.

*DagRun.* While Kahn's loop runs (`LoopInv`), the degree of a step is
the number of its dependencies that are not done, and the queue holds every step
whose dependencies are done and that is not, once (`QueueExact`). The steps done
are closed under dependencies and no group of them waits for itself (`Peeled`): a
group with the new step in it either has another step, which does not depend on
the new one, or is the new one alone, which depends on done steps only. When the
queue is empty, either all steps are done and the plan is acyclic, or every step
left depends on one that is left and they are the group that waits for itself
(`VerdictRight`). `InPlanOrder`, a CHOOSE, needs that every set of steps has a list
in the plan's order: the rank of a step among those of the set is a bijection
(`RankBijective`), and its inverse is the list. `Implementation`: the executor and
the loop touch each other's variables nowhere, and the verdict on which `Start`
decides is `Valid`; so every theorem about `InstallDag` holds of the whole.

*InstallPlan.* The property speaks of runs with `dropped = offset`, but runs start
from the file and the file comes from runs; the strengthening (`PlanInv`) says also
of the file, and of what a cancellation has loaded and will write back, that it is
`Truthful`: where it lists all steps of the plan, those it counts as completed are
on the machine. `CancellationSticks`: a run begins by a resume, which reads the file and
refuses a plan that is cancelled, or as the execute request, and then no file has been
written yet that could be cancelled (`CancelInv`). Whatever writes `cancelled` notes who
is under way, and nobody else writes that word.

*CardCache.* `IndependentEntries` needs that the file is truncated exactly while one
thread writes, which has loaded what the file held (`WriteInv`); a write that breaks
off leaves no entry at all. For `CurrentHits` nothing is assumed of what a card
watches or reads. No mtime lies in the future, so an edit is newer than whatever was
read before it; then *every file not newer than m is in the data as it is, or is gone*
(`Knows`) survives every edit. It holds for what a thread has computed with the mtime
from before the computation, and moves into the entry when that is written (`HitInv`);
that no *watched* file is newer then makes the data of those that are also read
current. Of the locks, `LockInv` says who holds one and at which of its lines; a
thread that has a card's lock waits at most for the file, which is held by a thread at
`writing`, which waits for nobody. `AnnouncementStaysDue` is about the watcher's
debounce: while a card is outdated and not marked, the mtime last announced is not the
newest one. An announcement marks the card, and only `cache:done` takes the mark away;
so `DueInv` says of an entry, and of what a thread is about to save, that what was
announced before is in it, unless an edit overtook the computation.

*AuditStaging.* Two requests never hold one snapshot because what is pending is
held by none and scans are numbered. `StagingInv` adds that every snapshot has a
number that was given out (`Numbered`), so that a new scan is new, and what a
request holds at each of its places (`RequestOK`), in particular that behind the
write its snapshot is written, which is why it may let go.

*Vault.* The invariant says for every file that is not endangered where the secret
is while a thread is at each line of lock and unlock (`Relies`): before the vault
is written the plaintext is whole, from then until the plaintext is gone the vault
is; the thread's own copy is the secret while it writes. It needs that at most one
thread works on the file, which is what *not endangered* gives, and that the file
of one thread is not touched by another's step. Three lemmas carry the argument:
a step on a file concerns that file alone (`LocalStep`), a step elsewhere
disturbs nothing (`Elsewhere`), a thread may begin (`Begins`). `Guarded` speaks of
executions in which no two threads were at the timer together. For these
`TimerKept` says what a thread still does to it: one about to cancel has seen no
passphrase, one about to start has a fresh timer in hand, and while a passphrase
is held a timer runs, or somebody is on the way to start one, or the auto-lock is
at work.

*LedgerSync.* Every branch on a machine, on the remote and under a stopped rebase
begins with one commit and only grows, but for what is in *lost* (`Growing`), which
makes a union merge lose nothing of either side (`MergeKeeps`). Only a commit that
makes `thread.json` can clash, and it is dropped only when the user skips it; what it
has besides is then given up (`PickKeeps`). So a rebase, whatever it picks and drops,
gives a branch with all that the local and the remote one have (`RebaseKeeps`:
`Rebased` is a recursive function, and a least commit at which it fails would
contradict the step). `SharedKept` says where what was committed or shared is: in its
writer's branch, and if shared also on the remote and in its writer's copy of it, so
that a reset to that copy cannot take it away. Nobody has a line of another machine
that was never shared (`Known`). For `Held` the file has the branch's lines unless a
rebase is stopped (`WorkOK`), and a stash entry counts for what it adds to its base;
then each command keeps what the machine stores of its own (`Retained`), except the
reset of a content merge, whose thread holds the lines until it adds them again. The
index stands between file and branch: without a stopped rebase what the branch has is
added, and what is added is in the file (`FilesOK`), so that the next commit, whoever
makes it, takes nothing away. A message whose request is not answered yet is owed like
one that is (`Owed`), from its write on; an add or commit that meets an `index.lock`
then leaves it where it was. Of the commits that a user skips, those that make
`thread.json` may carry other things, as a commit takes all that is added; these are
given up (`GivenUp`). Messages, snapshots and the marker for an existing file are
assumed distinct.

*ContentRelease.* For an asset that is not in `mixed`, `ReleaseInv` says three things.
While it is dealt with, it is by one thread or orphan and no deletion, and what it has
sent or will send is what every sidecar naming the asset is about, unless that file is
gone (`ThreadOK`). When a sidecar says *done*, or a listing has made sure that it will
(`Sure`), nobody deals with the asset any more and it is what the sidecar is about
(`DoneOK`). An upload with the id of a sidecar of the asset is an upload of the asset
(`IdOK`), so that the word *done* in the table, which the listing believes, is said of
no other file of the stem. What a sidecar is about (`Content`) is the file beside it,
or between the two steps of a rename the file that has gone ahead. Sidecars that the
request will write or remove next count as written (`Waits`) or removed (`Going`),
which needs that the steps of a request follow each other as they were composed
(`Chain`, kept by `TailChain` and `JoinChains`). Most steps of a request take nothing
from a sidecar but give its content to another or remove it (`FilesMove`); most steps
of a thread change neither files nor release (`ThreadMoves`). No invariant on the
sidecars alone would do: that *done* is true rests on what the thread was sending when
nobody had said so yet. `UploadInv` ties the two tables to the threads: a status that
is pending or uploading has a thread of that id which has not yet said how it ended,
and the entry of the active table belongs to the upload of its id (`Said`); a
cancellation in `told` is in the table for as long as its thread can still look there
(`Stands`). A step of one thread leaves the others' jobs alone (`OneThreadSteps`), so
each action is checked for its own id.

The proof corrected the model: `BackedUp` used to rest on a `mixed` that left out a
file renamed into the place of one that is being uploaded. If gh opens the second
file, and the first is back in its place when the upload ends, its sidecar says
*done* while the release has the other content. It takes six requests, more than
the run allows.

### 5.1 Only model-checked

Every safety property of the passing runs is proved, and both refinements. Liveness
stays with TLC, as fairness and ENABLED are out of the prover's reach. For most of
these properties the part that needs no fairness is a theorem:

| Checked by TLC | Proved for all constants |
|---|---|
| `ReturnsOrKeepsFailing` | `OnlyFailuresRepeat`: every step but a failure comes closer to the return |
| `RequestsAnswered` | `NoCircularWait`: who is waited for can go on |
| `OutdatedIsMarked` | `AnnouncementStaysDue`: no announcement that is still needed is suppressed |
| `EventuallyCurrent` | `Converges`: what has been read to the end is current |
| `AutoLocks` | `TimerGuards`: while a passphrase is held a timer runs |
| `GoneIsForgotten` | `ForgottenForGood`: who was forgotten is not entered again |
| `UploadsEnd` | `ShownHasThread`: who is shown as uploading has a thread that will say how it ended |
| `CancelledStops` | `CancellationStands`: a cancellation that stands is in the table, and its upload has a thread about to look there |
| `OpenTabsMeet`, `Converges` of the ledger | — (both rest on repeated pings and polls alone) |

`ZeroDataLoss` and `ResumesWhereItStopped`, which two runs refute, do not hold.

## 6. Plan

Done, in this order: bus, DAG, plan state, card cache, audit staging, vault, ledger
between machines, tab mesh, release uploads; then `EventFeed` over the bus, and the
invariants of the tab mesh.

Next, to model:

1. *Reliability and Engine*: breaker and retry queue as one module (half-open
   probes by parallel callers, attempts at the limit, a queue file read and
   rewritten), with adapters as the environment; the run of a plan over it, with
   the state file (renamed into place) and the audit log (appended), and an
   abstract specification: every action has exactly one receipt and one log line.
2. *Remediation chains*: escalation and de-escalation as a stack, with the file
   and concurrent requests.
3. *Run tracker and notifications*: append, trim and rewrite of one file by
   parallel requests.
4. *Event bus*: the in-process listeners with the trace recorder as one of them.
5. A composition of the card cache with the bus: an abstract cache whose entry
   changes and whose announcements reach the browsers in order.

Next, to prove:

1. For reliability and engine, that receipts and log lines match the actions
   carried out, whatever the retry queue repeats.
2. For an abstract card cache as in 5. above, the refinement by `CardCache`.

## 7. Running the checks

`tlc -config X.cfg M` checks module M; `PROJECT.json` pairs them. `tlapm
XProofs.tla` checks proofs. Every run ends within a few minutes on two workers.
