------------------------------- MODULE DagRun -------------------------------
(***************************************************************************)
(* execute_plan_dag as a whole: InstallDag's executor, which asks "is this *)
(* plan valid?", with the loop of _validate_dag (tool_install/domain/      *)
(* dag.py) giving the answer: a look for unknown references, then Kahn's   *)
(* algorithm, one action per round.  The two share the plan's dependencies *)
(* only.                                                                   *)
(***************************************************************************)
EXTENDS InstallDag, Sequences

VARIABLES
    inDegree,   \* in_degree
    queue,      \* queue
    processed,  \* processed
    done,       \* history: the steps taken from the queue so far
    vpc,        \* where the validation is: "check", "loop", "returned"
    errors      \* has it an error to report

executor == vars
validation == <<inDegree, queue, processed, done, vpc, errors>>
dagVars == <<executor, validation>>

ValidationTypeOK ==
    /\ deps \in [Steps -> SUBSET (Steps \cup {Unknown})]
    /\ inDegree \in [Steps -> 0..N]
    /\ queue \in Seq(Steps)
    /\ processed \in Nat
    /\ done \subseteq Steps
    /\ vpc \in {"check", "loop", "returned"}
    /\ errors \in BOOLEAN

DagInit ==
    /\ Init
    /\ inDegree = [s \in Steps |-> 0]
    /\ queue = << >>
    /\ processed = 0
    /\ done = {}
    /\ vpc = "check"
    /\ errors = FALSE

(***************************************************************************)
(* _validate_dag                                                           *)
(***************************************************************************)

\* A set of steps as the list the code's loop over the plan makes of it.
InPlanOrder(S) ==
    CHOOSE q \in [1..Cardinality(S) -> S] :
        \A i, j \in 1..Cardinality(S) : i < j => q[i] < q[j]

\* An unknown reference: return before the cycle check.
ReportUnknown ==
    /\ vpc = "check"
    /\ ~KnownRefs(deps)
    /\ errors' = TRUE
    /\ vpc' = "returned"
    /\ UNCHANGED <<inDegree, queue, processed, done>>

\* Count the dependencies and queue the steps that have none.
CountInDegrees ==
    /\ vpc = "check"
    /\ KnownRefs(deps)
    /\ inDegree' = [s \in Steps |-> Cardinality(deps[s])]
    /\ queue' = InPlanOrder({s \in Steps : deps[s] = {}})
    /\ vpc' = "loop"
    /\ UNCHANGED <<processed, done, errors>>

Successors(node) == {s \in Steps : node \in deps[s]}

\* One round of the while loop.
Process ==
    LET node == Head(queue)
    IN  /\ vpc = "loop"
        /\ queue # << >>
        /\ processed' = processed + 1
        /\ done' = done \cup {node}
        /\ inDegree' = [s \in Steps |->
                IF s \in Successors(node) THEN inDegree[s] - 1 ELSE inDegree[s]]
        /\ queue' = Tail(queue) \o
                InPlanOrder({s \in Successors(node) : inDegree[s] = 1})
        /\ UNCHANGED <<vpc, errors>>

\* Mutant: the comparison with the number of steps is off by one.
ReportLenient ==
    /\ vpc = "loop"
    /\ queue = << >>
    /\ errors' = (processed + 1 < N)
    /\ vpc' = "returned"
    /\ UNCHANGED <<inDegree, queue, processed, done>>

\* The queue ran dry: steps that were never reached are on a cycle.
Report ==
    /\ vpc = "loop"
    /\ queue = << >>
    /\ errors' = (processed < N)
    /\ vpc' = "returned"
    /\ UNCHANGED <<inDegree, queue, processed, done>>

Validate ==
    /\ ReportUnknown \/ CountInDegrees \/ Process \/ Report
    /\ UNCHANGED executor

(***************************************************************************)
(* The executor                                                            *)
(***************************************************************************)

\* Mutant: what _validate_dag returns is not looked at.
StartRegardless ==
    /\ vpc = "returned"
    /\ pc = "start"
    /\ pc' = "pick"
    /\ UNCHANGED <<plan, completed, failed, running, inline, status, validation>>

\* "if errors: return", or on to the loop.
Start ==
    /\ vpc = "returned"
    /\ pc = "start"
    /\ \/ errors /\ pc' = "returned" /\ status' = "invalid"
       \/ ~errors /\ pc' = "pick" /\ status' = status
    /\ UNCHANGED <<plan, completed, failed, running, inline, validation>>

Execute ==
    \/ StartBatch /\ UNCHANGED validation
    \/ SaveFinal /\ UNCHANGED validation
    \/ Fail /\ UNCHANGED validation
    \/ \E s \in Steps : FinishOk(s) /\ UNCHANGED validation
    \/ \E s \in Steps : FinishRaised(s) /\ UNCHANGED validation
    \/ \E s \in Steps : Drain(s) /\ UNCHANGED validation

DagNext == Validate \/ Start \/ Execute

DagSpec == DagInit /\ [][DagNext]_dagVars

\* The thread runs, and every subprocess returns: each has a timeout.
DagFairSpec == DagSpec /\ WF_dagVars(DagNext)

(***************************************************************************)
(* Properties, besides those of InstallDag                                 *)
(***************************************************************************)

\* While the loop of _validate_dag runs, the degrees count exactly the
\* dependencies not yet processed, and every queued step is free of them
\* (dag.py:70-90).
DegreesExact ==
    vpc = "loop" =>
        /\ \A s \in Steps : inDegree[s] = Cardinality(deps[s] \ done)
        /\ \A i \in 1..Len(queue) :
              queue[i] \notin done /\ deps[queue[i]] \subseteq done

\* The verdict: a plan is accepted exactly when its references are known and
\* no group of steps waits for itself (dag.py:67-95).
DecidesValid == vpc = "returned" => (errors <=> ~Valid(deps))

\* The whole implements the executor that knows which plans are valid.
ImplementsExecutor == Spec
=============================================================================
