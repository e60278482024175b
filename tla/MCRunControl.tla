----------------------------- MODULE MCRunControl -----------------------------
(* Finite instances of RunControl for TLC. *)
EXTENDS RunControl, TLC

\* Requests and keys are only ever compared with one another.
Symmetry == Permutations(Requests) \cup Permutations(Keys)
===============================================================================
