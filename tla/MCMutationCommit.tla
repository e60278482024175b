--------------------------- MODULE MCMutationCommit ---------------------------
(* Finite instances of MutationCommit for TLC. *)
EXTENDS MutationCommit, FiniteSets, TLC

\* No two runs of an instance ask for the same change.
MCFingerprint == [run \in Runs |-> run]

\* Requests, keys and runs are only ever compared with one another.
Symmetry == Permutations(Requests) \cup Permutations(Keys) \cup Permutations(Runs)

\* Bound of the run about shared keys: tokens are refreshed and confirmed only.
OnlyConfirming ==
    \A r \in Requests : job[r].kind \in {"none", "refresh", "confirm"}

\* Bound of the run about one run: no more than two requests of a kind.
TwoOfAKind ==
    \A kind \in Kinds : Cardinality({r \in Requests : job[r].kind = kind}) <= 2
===============================================================================
