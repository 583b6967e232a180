---------------------------- MODULE MCCardCache -----------------------------
(* Model-checking instance of CardCache: which files the cards are about.    *)
EXTENDS CardCache, TLC

\* Every card reads every file of the instance.
AllFiles == [k \in Keys |-> Files]

\* The docs card reads more than it watches.
ProxyFiles == [k \in Keys |-> IF k = "docs" THEN {"project.yml"} ELSE Files]

Symmetry == Permutations(Calls)
=============================================================================
