---------------------------- MODULE InstallPlan ----------------------------
(***************************************************************************)
(* Progress of a linear install plan and its state file: the execute and   *)
(* resume requests of ui/web/routes/audit/tool_execution.py, with          *)
(* save/load/resume/cancel/archive of tool_install/execution/              *)
(* plan_state.py.  Steps are numbered 1..N as resolved.                    *)
(*                                                                         *)
(* The "steps" of a state file are the plan without its first few steps    *)
(* (those a resume left out), and its "completed_steps" are always an      *)
(* initial range, so that a file is its status and two numbers.  A run     *)
(* counts as completed what the run before it had (offset) and what it has *)
(* itself done (pos), whereas it saves only the steps that were left.      *)
(***************************************************************************)
EXTENDS Naturals

CONSTANTS
    N,          \* number of steps in the plan
    MaxResumes  \* number of resume requests

ASSUME NAssumption == N \in Nat
ASSUME MaxResumesAssumption == MaxResumes \in Nat

Steps == 1..N
Runs == 0..MaxResumes   \* 0 is the execute request, the others are resumes

VARIABLES
    file,       \* the state file of the plan
    pc,         \* where each request is
    dropped,    \* how many steps of the plan are not in the steps of a run
    offset,     \* completed_count of a resumed run
    pos,        \* steps the run has completed itself
    cancelled,  \* what a cancel request has loaded and not written yet
    under,      \* the runs under way when the plan was cancelled (history)
    installed   \* the steps whose effect is on the machine

vars == <<file, pc, dropped, offset, pos, cancelled, under, installed>>
loops == <<dropped, offset, pos>>

NoFile == [status |-> "none", dropped |-> 0, completed |-> 0]
Corrupt == [NoFile EXCEPT !.status = "corrupt"]
Pending == {"running", "failed"}
Readable == Pending \cup {"done", "cancelled"}

Files == [status : Readable \cup {"none", "corrupt"},
          dropped : 0..N, completed : 0..N]

TypeOK ==
    /\ file \in Files
    /\ pc \in [Runs -> {"new", "resuming", "step", "ran", "failing", "off"}]
    /\ dropped \in [Runs -> 0..N]
    /\ offset \in [Runs -> 0..N]
    /\ pos \in [Runs -> 0..N]
    /\ cancelled \in Files
    /\ under \subseteq Runs
    /\ installed \subseteq Steps
    /\ \A r \in Runs : offset[r] <= dropped[r] /\ dropped[r] + pos[r] <= N

Init ==
    /\ file = NoFile
    /\ pc = [r \in Runs |-> "new"]
    /\ dropped = [r \in Runs |-> 0]
    /\ offset = [r \in Runs |-> 0]
    /\ pos = [r \in Runs |-> 0]
    /\ cancelled = NoFile
    /\ under = {}
    /\ installed = {}

UnderWay(r) == pc[r] \notin {"new", "off"}

Goto(r, label) == pc' = [pc EXCEPT ![r] = label]

\* Writing is not atomic and may fail: nothing was opened, or the file was
\* truncated and not filled.  The executors ignore the error.
Write(content) == file' \in {content, file, Corrupt}

\* Mutant: the steps left out are counted on top of those completed.
ProgressTwice(r, status) ==
    [status |-> status, dropped |-> dropped[r],
     completed |-> dropped[r] + offset[r] + pos[r]]

\* What run r saves of itself.
Progress(r, status) ==
    [status |-> status, dropped |-> dropped[r], completed |-> offset[r] + pos[r]]

(***************************************************************************)
(* A run: the loop over its steps                                          *)
(***************************************************************************)
Execute ==
    /\ pc[0] = "new"
    /\ Goto(0, "step")
    /\ UNCHANGED <<file, loops, cancelled, under, installed>>

Current(r) == dropped[r] + pos[r] + 1

\* The step succeeded, which is not recorded before SaveProgress.
StepOk(r) ==
    /\ pc[r] = "step"
    /\ Current(r) <= N
    /\ installed' = installed \cup {Current(r)}
    /\ pos' = [pos EXCEPT ![r] = @ + 1]
    /\ Goto(r, "ran")
    /\ UNCHANGED <<file, dropped, offset, cancelled, under>>

\* The step reports that it is satisfied already; nothing is saved for it.
StepSkipped(r) ==
    /\ pc[r] = "step"
    /\ Current(r) <= N
    /\ installed' = installed \cup {Current(r)}
    /\ pos' = [pos EXCEPT ![r] = @ + 1]
    /\ UNCHANGED <<file, pc, dropped, offset, cancelled, under>>

\* Mutant: a failed step is counted like a completed one.
StepFailsCounted(r) ==
    /\ pc[r] = "step"
    /\ Current(r) <= N
    /\ pos' = [pos EXCEPT ![r] = @ + 1]
    /\ Goto(r, "failing")
    /\ UNCHANGED <<file, dropped, offset, cancelled, under, installed>>

\* The step failed or raised.
StepFails(r) ==
    /\ pc[r] = "step"
    /\ Current(r) <= N
    /\ Goto(r, "failing")
    /\ UNCHANGED <<file, loops, cancelled, under, installed>>

SaveProgress(r) ==
    /\ pc[r] = "ran"
    /\ Write(Progress(r, "running"))
    /\ Goto(r, "step")
    /\ UNCHANGED <<loops, cancelled, under, installed>>

SaveFailure(r) ==
    /\ pc[r] = "failing"
    /\ Write(Progress(r, "failed"))
    /\ Goto(r, "off")
    /\ UNCHANGED <<loops, cancelled, under, installed>>

\* Mutant: the last step is taken as done when it is reached.
FinishEarly(r) ==
    /\ pc[r] = "step"
    /\ Current(r) >= N
    /\ Write([Progress(r, "done") EXCEPT !.completed = N])
    /\ Goto(r, "off")
    /\ UNCHANGED <<loops, cancelled, under, installed>>

Finish(r) ==
    /\ pc[r] = "step"
    /\ Current(r) > N
    /\ Write(Progress(r, "done"))
    /\ Goto(r, "off")
    /\ UNCHANGED <<loops, cancelled, under, installed>>

\* The browser goes away: the generator is closed where it yields, which is
\* before a step and between a step and its save.
Disconnect(r) ==
    /\ pc[r] \in {"step", "ran", "failing"}
    /\ Goto(r, "off")
    /\ UNCHANGED <<file, loops, cancelled, under, installed>>

(***************************************************************************)
(* resume_plan and the route around it                                     *)
(***************************************************************************)

\* Mutant: a cancelled plan is resumed as well.
ResumeLoadAny(r) ==
    /\ r # 0
    /\ pc[r] = "new"
    /\ file.status \in Pending \cup {"cancelled"}
    /\ file.dropped + file.completed < N
    /\ dropped' = [dropped EXCEPT ![r] = file.dropped + file.completed]
    /\ offset' = [offset EXCEPT ![r] = file.completed]
    /\ pos' = [pos EXCEPT ![r] = 0]
    /\ Goto(r, "resuming")
    /\ UNCHANGED <<file, cancelled, under, installed>>

\* A plan that is finished, cancelled, unreadable or has no steps remaining
\* is refused.
ResumeLoad(r) ==
    /\ r # 0
    /\ pc[r] = "new"
    /\ file.status \in Pending
    /\ file.dropped + file.completed < N
    /\ dropped' = [dropped EXCEPT ![r] = file.dropped + file.completed]
    /\ offset' = [offset EXCEPT ![r] = file.completed]
    /\ pos' = [pos EXCEPT ![r] = 0]
    /\ Goto(r, "resuming")
    /\ UNCHANGED <<file, cancelled, under, installed>>

\* The loaded state is written back as running; its steps are still those
\* the run before had.  An error here ends the request.
ResumeSave(r) ==
    /\ pc[r] = "resuming"
    /\ \/ /\ file' = [status |-> "running", dropped |-> dropped[r] - offset[r],
                      completed |-> offset[r]]
          /\ Goto(r, "step")
       \/ /\ file' \in {file, Corrupt}
          /\ Goto(r, "off")
    /\ UNCHANGED <<loops, cancelled, under, installed>>

(***************************************************************************)
(* cancel_plan, archive_plan, and the end of the process                   *)
(***************************************************************************)
CancelLoad ==
    /\ cancelled = NoFile
    /\ file.status \in Readable
    /\ cancelled' = file
    /\ UNCHANGED <<file, pc, loops, under, installed>>

CancelSave ==
    /\ cancelled # NoFile
    /\ Write([cancelled EXCEPT !.status = "cancelled"])
    /\ cancelled' = NoFile
    /\ under' = {r \in Runs : UnderWay(r)}
    /\ UNCHANGED <<pc, loops, installed>>

Archive ==
    /\ file # NoFile
    /\ file' = NoFile
    /\ UNCHANGED <<pc, loops, cancelled, under, installed>>

Saving ==
    \/ cancelled # NoFile
    \/ \E r \in Runs : \/ pc[r] \in {"ran", "failing", "resuming"}
                       \/ pc[r] = "step" /\ Current(r) > N

Crash ==
    /\ pc' = [r \in Runs |-> IF pc[r] = "new" THEN "new" ELSE "off"]
    /\ \/ file' = file
       \/ Saving /\ file' = Corrupt
    /\ cancelled' = NoFile
    /\ UNCHANGED <<loops, under, installed>>

RunNext(r) ==
    \/ StepOk(r) \/ StepSkipped(r) \/ StepFails(r)
    \/ SaveProgress(r) \/ SaveFailure(r) \/ Finish(r)
    \/ Disconnect(r)
    \/ ResumeLoad(r) \/ ResumeSave(r)

Next ==
    \/ Execute
    \/ \E r \in Runs : RunNext(r)
    \/ CancelLoad \/ CancelSave \/ Archive
    \/ Crash

Spec == Init /\ [][Next]_vars

(***************************************************************************)
(* Properties                                                              *)
(***************************************************************************)

\* resume_plan says that it skips steps "already completed".  It does so for
\* every run resumed from a file with all the steps of the plan (dropped =
\* offset), that is for every plan of which no resumed run has saved
\* progress: whatever crashed, failed to save, ran at the same time or was
\* cancelled, the steps behind such a run are all on the machine.
SkipsOnlyInstalled ==
    \A r \in Runs : dropped[r] = offset[r] => 1..(dropped[r] + pos[r]) \subseteq installed

\* A plan saved as done with all N steps among its completed_steps is
\* installed; a resumed run that skipped too much lists fewer.
DoneMeansInstalled ==
    file.status = "done" /\ file.completed = N => Steps \subseteq installed

\* A cancellation is lost only to requests that were already under way when
\* it was written: such a run does not notice and writes its own status over
\* it, and a resume that had loaded the file writes it back as running.  For
\* as long as the file says cancelled nobody else carries the plan out,
\* whatever runs, resumes, cancellations, failed saves and crashes there are.
CancelSticks ==
    file.status = "cancelled" => {r \in Runs : UnderWay(r)} \subseteq under

\* resume_plan without that restriction: "skips already-completed steps, and
\* returns a new plan dict containing only the remaining steps".
ResumesWhereItStopped ==
    \A r \in Runs : 1..dropped[r] \subseteq installed
=============================================================================
