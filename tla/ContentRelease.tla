--------------------------- MODULE ContentRelease ---------------------------
(***************************************************************************)
(* Large content files and their copies on a GitHub release.  A request    *)
(* writes, renames, moves, converts (encrypts or decrypts) or deletes a    *)
(* file, and starts a background thread that uploads it under its name     *)
(* with a gh process; deletions on the release are left to a gh process    *)
(* that nobody waits for.  What is known of an upload is kept twice: in    *)
(* memory, by file id, and in a sidecar beside the file, where the thread  *)
(* notes the outcome.                                                      *)
(*                                                                         *)
(* Requests of the user come one at a time, step by step; only a           *)
(* cancellation and the listing of the archives meet another one.  Two     *)
(* files of one stem, and two folders' files of one name, have one id, as  *)
(* in the code.  The release itself is left out: it is found, made, or the *)
(* upload fails.                                                           *)
(***************************************************************************)
EXTENDS Integers, Sequences

CONSTANTS
    Names,        \* the names of files, which are the names of the assets
    Stem,         \* [name -> the name without its ending]
    Paths,        \* pairs of a folder, for large files or backups, and a name
    Archives,     \* those of the paths that are backups
    Originals,    \* bound of the model: the names that files are uploaded with
    Partner,      \* [name -> that of the file encrypted, or decrypted again]
    Threads,      \* bound of the model: the uploads that are alive at once
    MaxWrites,    \* bound of the model: contents written
    MaxEvents,    \* bound of the model: requests, cancellations and crashes
    None

\* What _release_upload_status says of an upload.
Statuses == {"pending", "uploading", "done", "failed", "cancelled"}

Asset(p) == p[2]
Ids    == {"content", "backup"} \X {Stem[n] : n \in Names}
Absent == 0

ASSUME ReleaseAssumption ==
    /\ None \notin Statuses \cup Ids
    /\ Archives \subseteq Paths /\ \A p \in Paths : p[2] \in Names
    /\ Originals \subseteq Names /\ Partner \in [Names -> Names]
    /\ MaxWrites \in Nat /\ MaxEvents \in Nat

VARIABLES
    file,      \* [path -> its content, or Absent]
    side,      \* [path -> its sidecar: file id, asset (key) and status, or None]
    todo,      \* the steps the request still has to take
    status,    \* _release_upload_status: [id -> the status, or None]
    active,    \* _release_active_procs: [id -> the thread whose gh it is, or None]
    job,       \* [thread -> its place, upload, sidecar as read, and gh process]
    listed,    \* the archive whose sidecar list_backups is looking at: its path, the
               \* sidecar as read, and whether its upload is known to be done; or None
    remote,    \* [name -> the content of the asset, or Absent]
    deleting,  \* the names a gh process is about to delete
    mixed,     \* history: the assets that more than one file or process dealt with
    told,      \* history: the threads whose cancellation was answered, and stands
    written, events  \* counters of the bounds

disk   == <<file, side>>
memory == <<status, active, job, told>>
aside  == <<listed, written, events>>
vars   == <<file, side, todo, status, active, job, listed, remote, deleting, mixed, told,
            written, events>>

Idle == [pc |-> "idle", id |-> None, path |-> None, meta |-> None, gh |-> "none", data |-> Absent]

Init ==
    /\ file = [p \in Paths |-> Absent]
    /\ side = [p \in Paths |-> None]
    /\ todo = << >>
    /\ status = [i \in Ids |-> None]
    /\ active = [i \in Ids |-> None]
    /\ job = [t \in Threads |-> Idle]
    /\ remote = [n \in Names |-> Absent]
    /\ listed = None
    /\ deleting = {} /\ mixed = {} /\ told = {}
    /\ written = 0 /\ events = 0

Busy(n) ==
    \/ n \in deleting
    \/ \E t \in Threads : job[t] # Idle /\ Asset(job[t].path) = n
    \/ listed # None /\ listed.meta.key = n
Claimed(n, p) == \E q \in Paths \ {p} : side[q] # None /\ side[q].key = n
Keys(p)       == IF side[p] = None THEN {} ELSE {side[p].key}

\* The sidecar now is the one as it was read, but for what it says of the upload.
Same(now, meta) == now # None /\ now.id = meta.id /\ now.key = meta.key

-----------------------------------------------------------------------------
(* Requests: the steps each of them takes.                                 *)

Step(do, from, to, kind) == [do |-> do, from |-> from, to |-> to, kind |-> kind]
At(do, p)        == Step(do, p, p, "content")
StartUpload(p, kind) == <<Step("start", p, p, kind), Step("meta", p, p, kind)>>
Cleanup(p)       == <<At("drop", p), At("unside", p)>>

Request(steps) ==
    /\ todo = << >> /\ events < MaxEvents
    /\ todo' = steps /\ events' = events + 1
    /\ UNCHANGED <<disk, memory, listed, remote, deleting, mixed, written>>

\* upload_content_file, to a name that is free.
Upload(p) ==
    /\ p \notin Archives /\ Asset(p) \in Originals /\ file[p] = Absent /\ written < MaxWrites
    /\ Request(<<At("write", p)>> \o StartUpload(p, "content"))

\* save_content_file, over what is there; a backup that is made or uploaded.
Save(p) ==
    /\ (p \in Archives <=> file[p] = Absent) /\ written < MaxWrites
    /\ Request(<<At("write", p)>>)

\* upload_backup_to_release: an archive, or a content file once more.
UploadBackup(p) == file[p] # Absent /\ Request(StartUpload(p, "backup"))

\* delete_content_file, delete_backup.
Delete(p) ==
    /\ file[p] # Absent
    /\ Request(Cleanup(p) \o <<At("unlink", p)>>
               \o (IF p \in Archives THEN <<At("unside", p)>> ELSE << >>))

\* delete_backup_release, and the file stays.
DeleteRelease(p) == side[p] # None /\ Request(Cleanup(p))

\* remove_orphaned_sidecar.
CleanSidecar(p) == file[p] # Absent /\ side[p] # None /\ Request(<<At("unside", p)>>)

\* rename_content_file.
Rename(p, q) ==
    /\ file[p] # Absent /\ file[q] = Absent /\ p[1] = q[1] /\ {p, q} \cap Archives = {}
    /\ Request(<<Step("rename", p, q, "content"), Step("newmeta", p, q, "content"),
                 At("unside", p)>>)

\* move_content_file.
Move(p, q) ==
    /\ file[p] # Absent /\ file[q] = Absent /\ p[2] = q[2] /\ {p, q} \cap Archives = {}
    /\ Request(<<Step("rename", p, q, "content"), Step("movemeta", p, q, "content")>>)

\* encrypt_content_file, decrypt_content_file: the result replaces what is there.
Convert(p, deleted) ==
    LET q == <<p[1], Partner[p[2]]>> IN
    /\ file[p] # Absent /\ q \in Paths /\ {p, q} \cap Archives = {} /\ written < MaxWrites
    /\ Request(<<At("write", q)>> \o (IF deleted THEN <<At("unlink", p)>> ELSE << >>)
               \o Cleanup(p) \o StartUpload(q, "content"))

-----------------------------------------------------------------------------
(* The steps of a request.                                                 *)

Takes(do) == todo # << >> /\ Head(todo).do = do /\ todo' = Tail(todo)
To   == Head(todo).to
From == Head(todo).from
Id   == <<Head(todo).kind, Stem[Asset(To)]>>

\* A file put at p is not the one that the sidecar there tells of, nor the one
\* that a thread is uploading from there.
Replaced(p) ==
    Keys(p) \cup (IF \E t \in Threads : job[t].path = p THEN {Asset(p)} ELSE {})

WriteFile ==
    /\ Takes("write")
    /\ written' = written + 1
    /\ file' = [file EXCEPT ![To] = written']
    /\ mixed' = mixed \cup Replaced(To)
    /\ UNCHANGED <<side, memory, listed, remote, deleting, events>>

Unlink ==
    /\ Takes("unlink")
    /\ file' = [file EXCEPT ![To] = Absent]
    /\ UNCHANGED <<side, memory, remote, deleting, mixed, aside>>

RenameFile ==
    /\ Takes("rename")
    /\ file' = [file EXCEPT ![To] = file[From], ![From] = Absent]
    /\ mixed' = mixed \cup Replaced(To)
    /\ UNCHANGED <<side, memory, remote, deleting, aside>>

\* Mutant: the sidecar names the asset after the file's new name.
NewMetaForgets ==
    /\ todo # << >> /\ Head(todo).do = "newmeta"
    /\ IF side[From] = None THEN todo' = Tail(Tail(todo)) /\ UNCHANGED side
       ELSE /\ todo' = Tail(todo)
            /\ side' = [side EXCEPT ![To] = [side[From] EXCEPT !.key = Asset(To)]]
    /\ UNCHANGED <<file, memory, remote, deleting, mixed, aside>>

\* The asset keeps the name it was uploaded by (old_asset_name).
NewMeta ==
    /\ todo # << >> /\ Head(todo).do = "newmeta"
    /\ IF side[From] = None THEN todo' = Tail(Tail(todo)) /\ UNCHANGED side
       ELSE /\ todo' = Tail(todo)
            /\ side' = [side EXCEPT ![To] = side[From]]
    /\ UNCHANGED <<file, memory, remote, deleting, mixed, aside>>

MoveMeta ==
    /\ Takes("movemeta")
    /\ side' = IF side[From] = None THEN side
               ELSE [side EXCEPT ![To] = side[From], ![From] = None]
    /\ UNCHANGED <<file, memory, remote, deleting, mixed, aside>>

\* cleanup_release_sidecar: without a sidecar nothing; else the asset is deleted,
\* some time, and then the sidecar.
Drop ==
    /\ todo # << >> /\ Head(todo).do = "drop"
    /\ IF side[To] = None THEN todo' = Tail(Tail(todo)) /\ UNCHANGED <<deleting, mixed>>
       ELSE LET n == side[To].key IN
            /\ todo' = Tail(todo)
            /\ deleting' = deleting \cup {n}
            /\ mixed' = IF Busy(n) \/ Claimed(n, To) THEN mixed \cup {n} ELSE mixed
    /\ UNCHANGED <<disk, memory, remote, aside>>

UnlinkSide ==
    /\ Takes("unside")
    /\ side' = [side EXCEPT ![To] = None]
    /\ UNCHANGED <<file, memory, remote, deleting, mixed, aside>>

\* The other assets with a sidecar of the upload's id, and its own if somebody
\* deals with it, or an upload with its id.
Shares(n) ==
    \/ n # Asset(To) /\ \E q \in Paths : side[q] # None /\ side[q].key = n /\ side[q].id = Id
    \/ /\ n = Asset(To)
       /\ Busy(n) \/ Claimed(n, To) \/ \E t \in Threads : job[t].id = Id

\* What an upload begins with that gets as far as a status.
Queued(word) ==
    /\ Takes("start")
    /\ status' = [status EXCEPT ![Id] = word]
    /\ mixed' = mixed \cup {n \in Names : Shares(n)}
    /\ told' = {t \in told : job[t].id # Id}
    /\ UNCHANGED <<disk, active, remote, deleting, aside>>

\* upload_to_release_bg.
StartThread ==
    /\ Queued("pending") /\ \E t \in Threads : job[t] = Idle
    /\ LET new == CHOOSE t \in Threads : job[t] = Idle IN
       job' = [job EXCEPT ![new] = [Idle EXCEPT !.pc = "queued", !.id = Id, !.path = To]]

\* There is no gh: the upload has failed before it began, and the sidecar is
\* written all the same.
NoGh == Queued("failed") /\ UNCHANGED job

WriteMeta ==
    /\ Takes("meta")
    /\ side' = [side EXCEPT ![To] = [id |-> Id, key |-> Asset(To), status |-> "uploading"]]
    /\ mixed' = IF listed # None /\ listed.path = To THEN mixed \cup {Asset(To)} ELSE mixed
    /\ UNCHANGED <<file, memory, remote, deleting, aside>>

TodoNext == \/ WriteFile \/ Unlink \/ RenameFile \/ NewMeta \/ MoveMeta
            \/ Drop \/ UnlinkSide \/ StartThread \/ NoGh \/ WriteMeta

-----------------------------------------------------------------------------
(* The upload thread (_do_upload).                                         *)

Goes(t, pc)      == job[t].pc = pc
Cancelled(t)     == status[job[t].id] = "cancelled"
Runs(t)          == job[t].gh \in {"opening", "sending"}
At2(t, pc)       == job' = [job EXCEPT ![t].pc = pc] /\ UNCHANGED told
End(t)           == job' = [job EXCEPT ![t] = Idle] /\ told' = told \ {t}
Says(t, s)       == status' = [status EXCEPT ![job[t].id] = s]
Pops(t)          == active' = [active EXCEPT ![job[t].id] = None]
ThreadOnly       == UNCHANGED <<disk, todo, remote, deleting, mixed, aside>>

CheckFirst(t) ==
    /\ Goes(t, "queued")
    /\ IF Cancelled(t) THEN End(t) ELSE At2(t, "begin")
    /\ UNCHANGED <<status, active>> /\ ThreadOnly

Begin(t) ==
    /\ Goes(t, "begin") /\ Says(t, "uploading") /\ At2(t, "view")
    /\ UNCHANGED active /\ ThreadOnly

\* gh release view, and create when there is none, both with a timeout; then the
\* upload's own gh process is started.
View(t) ==
    /\ Goes(t, "view")
    /\ IF Cancelled(t) THEN End(t)
       ELSE job' = [job EXCEPT ![t].pc = "register", ![t].gh = "opening"] /\ UNCHANGED told
    /\ UNCHANGED <<status, active>> /\ ThreadOnly

\* Mutant: what goes wrong before the upload is only logged.
ViewFailsQuietly(t) ==
    /\ Goes(t, "view") /\ Pops(t) /\ End(t)
    /\ UNCHANGED status /\ ThreadOnly

\* A timeout or a failed create, cancelled or not.
ViewFails(t) ==
    /\ Goes(t, "view") /\ Says(t, "failed") /\ Pops(t)
    /\ job' = [job EXCEPT ![t].pc = "mark", ![t].gh = "failed"]
    /\ UNCHANGED told /\ ThreadOnly

Register(t) ==
    /\ Goes(t, "register") /\ At2(t, "poll")
    /\ active' = [active EXCEPT ![job[t].id] = t]
    /\ UNCHANGED status /\ ThreadOnly

Outcome(t) == IF job[t].gh = "ok" THEN "done" ELSE "failed"

\* Mutant: the loop only waits for gh.
PollBlind(t) ==
    /\ Goes(t, "poll") /\ ~Runs(t)
    /\ Pops(t)
    /\ IF Cancelled(t) THEN End(t) /\ UNCHANGED status ELSE At2(t, "mark") /\ Says(t, Outcome(t))
    /\ ThreadOnly

\* Mutant: the word of the README for an upload that has succeeded.
PollUploaded(t) ==
    /\ Goes(t, "poll") /\ (Runs(t) => Cancelled(t))
    /\ Pops(t)
    /\ IF Cancelled(t) THEN End(t) /\ UNCHANGED status
       ELSE At2(t, "mark") /\ Says(t, IF Outcome(t) = "done" THEN "uploaded" ELSE "failed")
    /\ ThreadOnly

\* A turn of the loop with news: a cancelled upload is killed, or its outcome not
\* looked at; else the outcome is noted.
Poll(t) ==
    /\ Goes(t, "poll") /\ (Runs(t) => Cancelled(t))
    /\ Pops(t)
    /\ IF Cancelled(t) THEN End(t) /\ UNCHANGED status ELSE At2(t, "mark") /\ Says(t, Outcome(t))
    /\ ThreadOnly

\* _update_sidecar: read, and written back whole.
ReadSide(t) ==
    LET meta == side[job[t].path] IN
    /\ Goes(t, "mark")
    /\ IF meta = None THEN End(t)
       ELSE job' = [job EXCEPT ![t].pc = "save", ![t].meta = meta] /\ UNCHANGED told
    /\ UNCHANGED <<status, active>> /\ ThreadOnly

WriteSide(t) ==
    LET p == job[t].path  meta == job[t].meta IN
    /\ Goes(t, "save") /\ End(t)
    /\ side' = [side EXCEPT ![p] = [meta EXCEPT !.status = Outcome(t)]]
    /\ mixed' = IF Same(side[p], meta) /\ meta.key = Asset(p) THEN mixed
                ELSE mixed \cup {meta.key}
    /\ UNCHANGED <<file, todo, status, active, remote, deleting, aside>>

Thread(t) == \/ CheckFirst(t) \/ Begin(t) \/ View(t) \/ ViewFails(t)
             \/ Register(t) \/ Poll(t) \/ ReadSide(t) \/ WriteSide(t)

\* cancel_release_upload: the gh process is killed if its thread has noted it.  A
\* thread that has just looked at the status overwrites it, and another upload of
\* the id may.
Cancel(i) ==
    /\ events < MaxEvents /\ events' = events + 1
    /\ status[i] \in {"pending", "uploading"}
    /\ status' = [status EXCEPT ![i] = "cancelled"]
    /\ active' = [active EXCEPT ![i] = None]
    /\ job' = IF active[i] # None /\ Runs(active[i])
              THEN [job EXCEPT ![active[i]].gh = "killed"] ELSE job
    /\ told' = told \cup {t \in Threads : /\ job[t].id = i /\ job[t].pc # "begin"
                                          /\ \A u \in Threads \ {t} : job[u].id # i}
    /\ UNCHANGED <<disk, todo, listed, remote, deleting, mixed, written>>

-----------------------------------------------------------------------------
(* list_backups: a sidecar is read, the table looked at, and the sidecar   *)
(* written back whole when its upload is done.                             *)

ListRead(p) ==
    /\ p \in Archives /\ listed = None /\ side[p] # None
    /\ listed' = [path |-> p, meta |-> side[p], done |-> FALSE]
    /\ UNCHANGED <<disk, todo, memory, remote, deleting, mixed, written, events>>

ListLook ==
    /\ listed # None /\ ~listed.done
    /\ listed' = IF status[listed.meta.id] = "done" THEN [listed EXCEPT !.done = TRUE] ELSE None
    /\ UNCHANGED <<disk, todo, memory, remote, deleting, mixed, written, events>>

ListWrite ==
    LET p == listed.path  meta == listed.meta IN
    /\ listed # None /\ listed.done /\ listed' = None
    /\ side' = [side EXCEPT ![p] = [meta EXCEPT !.status = "done"]]
    /\ mixed' = IF Same(side[p], meta) THEN mixed ELSE mixed \cup {meta.key}
    /\ UNCHANGED <<file, todo, memory, remote, deleting, written, events>>

Listing == (\E p \in Paths : ListRead(p)) \/ ListLook \/ ListWrite

-----------------------------------------------------------------------------
(* gh, and the server that dies.                                           *)

\* gh release upload --clobber: the file is opened, the old asset deleted ...
GhOpen(t) ==
    LET p == job[t].path IN
    /\ job[t].gh = "opening" /\ file[p] # Absent
    /\ job' = [job EXCEPT ![t].gh = "sending", ![t].data = file[p]]
    /\ remote' = [remote EXCEPT ![Asset(p)] = Absent]
    /\ UNCHANGED <<disk, todo, status, active, told, deleting, mixed, aside>>

\* Nobody takes notice of the end of an upload whose server has died.
Exits(t, result) ==
    job' = [job EXCEPT ![t] = IF @.pc = "orphan" THEN Idle
                              ELSE [@ EXCEPT !.gh = result, !.data = Absent]]

\* ... and the new one put.
GhSent(t) ==
    /\ job[t].gh = "sending" /\ Exits(t, "ok")
    /\ remote' = [remote EXCEPT ![Asset(job[t].path)] = job[t].data]
    /\ UNCHANGED <<disk, todo, status, active, told, deleting, mixed, aside>>

GhFails(t) ==
    /\ Runs(t) /\ Exits(t, "failed")
    /\ UNCHANGED <<disk, todo, status, active, told, remote, deleting, mixed, aside>>

\* gh release delete-asset; one that fails is one that never comes to it.
GhDelete(n) ==
    /\ n \in deleting /\ deleting' = deleting \ {n}
    /\ remote' = [remote EXCEPT ![n] = Absent]
    /\ UNCHANGED <<disk, todo, memory, mixed, aside>>

Orphan(t) == [job[t] EXCEPT !.pc = "orphan", !.id = None, !.meta = None]

\* The threads end with the server.  A gh process goes on without it, unless the
\* signal went to the whole group.
Crash ==
    /\ events < MaxEvents /\ events' = events + 1
    /\ \E left \in SUBSET {t \in Threads : Runs(t)} :
         job' = [t \in Threads |-> IF t \in left THEN Orphan(t) ELSE Idle]
    /\ status' = [i \in Ids |-> None] /\ active' = [i \in Ids |-> None]
    /\ todo' = << >> /\ listed' = None /\ told' = {}
    /\ mixed' = mixed \cup UNION {Keys(todo[k].to) : k \in DOMAIN todo}
    /\ UNCHANGED <<disk, remote, deleting, written>>

External == \/ \E t \in Threads : GhOpen(t) \/ GhSent(t) \/ GhFails(t)
            \/ \E n \in Names : GhDelete(n)

Next ==
    \/ TodoNext
    \/ \E p \in Paths :
         \/ Upload(p) \/ Save(p) \/ UploadBackup(p)
         \/ Delete(p) \/ DeleteRelease(p) \/ CleanSidecar(p)
         \/ \E deleted \in BOOLEAN : Convert(p, deleted)
         \/ \E q \in Paths : Rename(p, q) \/ Move(p, q)
    \/ \E t \in Threads : Thread(t)
    \/ \E i \in Ids : Cancel(i)
    \/ Listing
    \/ External \/ Crash

\* A thread goes on; its gh process may hang.
Fairness == \A t \in Threads : WF_vars(Thread(t))

Spec == Init /\ [][Next]_vars /\ Fairness

-----------------------------------------------------------------------------
(* Properties.                                                             *)

Sidecars == [id : Ids, key : Names, status : {"uploading", "done", "failed"}] \cup {None}

\* Type invariant.
TypeOK ==
    /\ file \in [Paths -> 0..MaxWrites] /\ side \in [Paths -> Sidecars]
    /\ status \in [Ids -> Statuses \cup {None}] /\ active \in [Ids -> Threads \cup {None}]
    /\ remote \in [Names -> 0..MaxWrites] /\ deleting \subseteq Names /\ mixed \subseteq Names
    /\ told \subseteq Threads
    /\ listed \in [path : Archives, meta : Sidecars \ {None}, done : BOOLEAN] \cup {None}
    /\ job \in [Threads -> [pc : {"idle", "queued", "begin", "view", "register", "poll",
                                   "mark", "save", "orphan"},
                            id : Ids \cup {None}, path : Paths \cup {None}, meta : Sidecars,
                            gh : {"none", "opening", "sending", "ok", "failed", "killed"},
                            data : 0..MaxWrites]]

\* A file that is marked as backed up is on the release with the content it has,
\* under whatever name it was uploaded and whatever it was renamed to since
\* (release.py:110-121, file_ops.py:526-538, archive.py:316-327).  Not held to it
\* are the assets in `mixed`: those that another upload, a gh left over by a
\* crash, a deletion, or another file or folder dealt with at the same time; of a
\* file that was written over where it lies, or put where another's sidecar was
\* left; whose id was taken by the upload of another file of the stem; of a
\* request that was cut short; and whose sidecar has changed since the thread, or
\* the listing, read it that writes it back.
BackedUp ==
    \A p \in Paths :
        (/\ file[p] # Absent /\ side[p] # None /\ side[p].status = "done"
         /\ \A k \in DOMAIN todo : p \notin {todo[k].from, todo[k].to})
        => side[p].key \in mixed \/ remote[side[p].key] = file[p]

ShownUploading(p) ==
    /\ file[p] # Absent /\ side[p] # None
    /\ side[p].status = "uploading" /\ status[side[p].id] = "uploading"

\* No file is shown as uploading for ever, but for a gh process that hangs: the
\* loop has no timeout (release.py:247-280, listing.py:157-168).
UploadsEnd ==
    \A p \in Paths :
        []<>(ShownUploading(p) => \E t \in Threads : job[t].id = side[p].id /\ Runs(t))

\* A cancelled upload does not go on, even if its gh process hangs and was not
\* registered when the cancellation looked for it (release.py:371-395).  Not so
\* the one whose thread had looked at its status and not yet noted that it
\* uploads, which overwrites the cancellation (release.py:170-174), nor two
\* uploads of one id, nor one whose id is used anew before it has looked.
CancelledStops ==
    \A t \in Threads : []<>~(t \in told /\ Runs(t))
=============================================================================
