----------------------------- MODULE InstallDag -----------------------------
(***************************************************************************)
(* The parallel executor of install plans, execute_plan_dag in             *)
(* tool_install/orchestration/orchestrator.py.  Its loop picks the ready   *)
(* steps, runs one of them inline or several in a thread pool, and waits   *)
(* for all before it picks again.  The subprocess behind a step may        *)
(* succeed, fail or raise, in any order within a batch.                    *)
(***************************************************************************)
EXTENDS PlanGraph

VARIABLES
    deps,       \* the plan: depends_on of every step, implicit ones added
    pm,         \* the plan: which package manager a step runs
    restart,    \* the plan: the steps with restart_required
    completed,  \* completed
    failed,     \* failed
    running,    \* the steps of the current batch that have not returned
    inline,     \* the batch is a single step, run without the pool
    pc,         \* "start", "pick", "batch", "returned"
    status      \* how it ended: the saved status, or why none was saved

vars == <<deps, pm, restart, completed, failed, running, inline, pc, status>>
plan == <<deps, pm, restart>>

Outcomes == {"ok", "failed", "raised"}

TypeOK ==
    /\ deps \in [Steps -> SUBSET (Steps \cup {Unknown})]
    /\ pm \in [Steps -> PMs \cup {NoPM}]
    /\ restart \subseteq Steps
    /\ completed \subseteq Steps
    /\ failed \subseteq Steps
    /\ running \subseteq Steps
    /\ inline \in BOOLEAN
    /\ pc \in {"start", "pick", "batch", "returned"}
    /\ status \in {"none", "invalid", "done", "failed", "paused", "raised"}

Init ==
    /\ deps \in PlanDeps
    /\ pm \in [Steps -> PMs \cup {NoPM}]
    /\ restart \in SUBSET Steps
    /\ completed = {}
    /\ failed = {}
    /\ running = {}
    /\ inline = FALSE
    /\ pc = "start"
    /\ status = "none"

Refuse ==
    /\ pc = "start"
    /\ ~Valid(deps)
    /\ pc' = "returned"
    /\ status' = "invalid"
    /\ UNCHANGED <<plan, completed, failed, running, inline>>

Accept ==
    /\ pc = "start"
    /\ Valid(deps)
    /\ pc' = "pick"
    /\ UNCHANGED <<plan, completed, failed, running, inline, status>>

(***************************************************************************)
(* One turn of the while loop up to the start of the batch                 *)
(***************************************************************************)

\* Mutant: the last step is counted as done.
LoopGuardShort == Cardinality(completed) + Cardinality(failed) < N - 1

LoopGuard == Cardinality(completed) + Cardinality(failed) < N

\* Ready steps with a failed dependency are marked failed and not run.
Skipped == {s \in Ready(deps, completed) : deps[s] \cap failed # {}}
Runnable == Ready(deps, completed) \ Skipped

\* The safety filter is applied only when more than one step could run.
Batch ==
    IF Cardinality(Runnable) > 1 THEN EnforceParallelSafety(pm, Runnable)
    ELSE Runnable

\* Mutant: ready steps are run without looking at the steps still failed.
StartBatchLoose ==
    /\ pc = "pick"
    /\ LoopGuard
    /\ LET b == {s \in Steps \ completed :
                    deps[s] \subseteq completed \cup failed}
       IN  /\ b # {}
           /\ running' = b
           /\ inline' = (Cardinality(b) = 1)
    /\ pc' = "batch"
    /\ UNCHANGED <<plan, completed, failed, status>>

StartBatch ==
    /\ pc = "pick"
    /\ LoopGuard
    /\ Runnable # {}
    /\ failed' = failed \cup Skipped
    /\ running' = Batch
    /\ inline' = (Cardinality(Batch) = 1)
    /\ pc' = "batch"
    /\ UNCHANGED <<plan, completed, status>>

\* Mutant: the final status looks at the last failure only.
SaveFinalBlind ==
    /\ pc = "pick"
    /\ \/ ~LoopGuard /\ failed' = failed
       \/ LoopGuard /\ Runnable = {} /\ failed' = failed \cup Skipped
    /\ status' = IF Skipped = {} THEN "done" ELSE "failed"
    /\ pc' = "returned"
    /\ UNCHANGED <<plan, completed, running, inline>>

\* The loop ends because every step is accounted for, or because nothing is
\* ready, or because all that is ready was skipped; the final state is saved.
SaveFinal ==
    /\ pc = "pick"
    /\ \/ ~LoopGuard /\ failed' = failed
       \/ LoopGuard /\ Runnable = {} /\ failed' = failed \cup Skipped
    /\ status' = IF failed' = {} THEN "done" ELSE "failed"
    /\ pc' = "returned"
    /\ UNCHANGED <<plan, completed, running, inline>>

(***************************************************************************)
(* A step of the batch returns                                             *)
(***************************************************************************)

\* Where the executor goes when the last step of the batch is through.  A
\* raised exception leaves the function once the pool has drained, with
\* nothing saved.
AfterBatch(s, verdict) ==
    IF running # {s} THEN pc' = pc
    ELSE pc' = IF verdict = "none" THEN "pick" ELSE "returned"

\* An inline step that asks for a restart pauses the plan; in the pool the
\* request is not looked at.
FinishOk(s) ==
    /\ pc = "batch"
    /\ status = "none"
    /\ s \in running
    /\ running' = running \ {s}
    /\ completed' = completed \cup {s}
    /\ status' = IF inline /\ s \in restart THEN "paused" ELSE "none"
    /\ AfterBatch(s, status')
    /\ UNCHANGED <<plan, failed, inline>>

FinishFailed(s) ==
    /\ pc = "batch"
    /\ status = "none"
    /\ s \in running
    /\ running' = running \ {s}
    /\ failed' = failed \cup {s}
    /\ AfterBatch(s, "none")
    /\ UNCHANGED <<plan, completed, inline, status>>

FinishRaised(s) ==
    /\ pc = "batch"
    /\ status = "none"
    /\ s \in running
    /\ running' = running \ {s}
    /\ status' = "raised"
    /\ AfterBatch(s, "raised")
    /\ UNCHANGED <<plan, completed, failed, inline>>

\* Leaving the pool's with-block waits for the others, whose results are
\* dropped.
Drain(s) ==
    /\ pc = "batch"
    /\ status = "raised"
    /\ s \in running
    /\ running' = running \ {s}
    /\ AfterBatch(s, "raised")
    /\ UNCHANGED <<plan, completed, failed, inline, status>>

Fail == \E s \in Steps : FinishFailed(s)

Next ==
    \/ Refuse \/ Accept \/ StartBatch \/ SaveFinal \/ Fail
    \/ \E s \in Steps : FinishOk(s) \/ FinishRaised(s) \/ Drain(s)

Spec == Init /\ [][Next]_vars

(***************************************************************************)
(* Safety                                                                  *)
(***************************************************************************)

\* A step runs only behind every step it depends on, and what is recorded as
\* completed is closed under dependencies (dag.py:98-122).
OnlyAfterDependencies == \A s \in completed \cup running : deps[s] \subseteq completed

\* Two steps that need the lock of the same package manager never run at the
\* same time (dag.py:155-178).
OnePerPackageManager ==
    \A s, t \in running : s # t => pm[s] = NoPM \/ pm[s] # pm[t]

\* A plan saved as done has run every step, however the loop came to its end:
\* both its guard and its breaks compare sizes and readiness, never the set
\* of steps (orchestrator.py:445-468, 543).
DoneMeansAllCompleted == status = "done" => completed = Steps /\ failed = {}

\* When the loop has come to its end, what was not run is waiting for a step
\* that failed -- unless a step failed and was then repeated with success:
\* the guard counts it twice (orchestrator.py:445).
OnlyBlockedStepsLeft ==
    status \in {"done", "failed"} /\ completed \cap failed = {} =>
        \A s \in Steps \ (completed \cup failed) : ~(deps[s] \subseteq completed)

(***************************************************************************)
(* Liveness                                                                *)
(***************************************************************************)

\* The executor returns unless some step keeps failing for ever.
ReturnsOrKeepsFailing == <>(pc = "returned") \/ []<><<Fail>>_vars
=============================================================================
