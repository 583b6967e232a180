----------------------------- MODULE PlanGraph ------------------------------
(***************************************************************************)
(* The pure functions on the steps of an install plan                      *)
(* (tool_install/domain/dag.py).  A step is its position in the plan's     *)
(* list, which is also the order the functions go through it; ids are      *)
(* distinct here, the refusal of duplicates is left out.                   *)
(***************************************************************************)
EXTENDS Integers, FiniteSets

CONSTANTS
    N,     \* number of steps in the plan
    PMs    \* package managers whose lock two steps cannot share

ASSUME NAssumption == N \in Nat

Steps == 1..N
Unknown == 0      \* an id in depends_on that no step has
NoPM == "no pm"   \* a command that is not a package manager's

ASSUME PMAssumption == NoPM \notin PMs

\* A step without a depends_on field depends on the step before it.
AddImplicitDeps(listed, dependsOn) ==
    [s \in Steps |->
        IF s \in listed THEN dependsOn[s]
        ELSE IF s = 1 THEN {} ELSE {s - 1}]

\* What plan steps can look like once _add_implicit_deps is through.
PlanDeps ==
    {AddImplicitDeps(listed, d) :
        listed \in SUBSET Steps, d \in [Steps -> SUBSET (Steps \cup {Unknown})]}

KnownRefs(deps) == \A s \in Steps : deps[s] \subseteq Steps

\* No group of steps in which each waits for another of the group.
Acyclic(deps) ==
    \A S \in (SUBSET Steps) \ {{}} : \E s \in S : deps[s] \cap S = {}

\* _validate_dag returns no error; DagRun shows that its loop decides
\* exactly this.
Valid(deps) == KnownRefs(deps) /\ Acyclic(deps)

\* Mutant: a completed step is offered again.
ReadyAgain(deps, completed) == {s \in Steps : deps[s] \subseteq completed}

\* _get_ready_steps with an empty running set, as the executor calls it.
Ready(deps, completed) ==
    {s \in Steps \ completed : deps[s] \subseteq completed}

\* Mutant: a candidate is compared with the one before it only.
EnforceParallelNeighbour(pm, candidates) ==
    {s \in candidates :
        pm[s] # NoPM /\ s - 1 \in candidates => pm[s - 1] # pm[s]}

\* Of the steps of one package manager only the first in plan order stays.
EnforceParallelSafety(pm, candidates) ==
    {s \in candidates :
        pm[s] # NoPM => \A t \in candidates : pm[t] = pm[s] => s <= t}
=============================================================================
