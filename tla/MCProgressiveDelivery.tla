------------------------ MODULE MCProgressiveDelivery ------------------------
(* Finite instances of ProgressiveDelivery for TLC. *)
EXTENDS ProgressiveDelivery, TLC

\* One canary stage stands for the three of the code, which differ in their
\* share of the traffic only.
ShortLadder == <<"SHADOW", "CANARY_5", "FULL">>
ShortPercent == [SHADOW |-> 0, CANARY_5 |-> 5, FULL |-> 100]

\* Buckets on both sides of the first share.
TwoBuckets == [run \in Runs |-> IF run = "a" THEN 4 ELSE 5]

\* Schedulers are only ever compared with one another.
Symmetry == Permutations(Schedulers)

\* Bound of the run with two releases: the second one stays in its first
\* window and has no runtime; it competes with the first for the assignment of
\* runs.
RivalStaysInShadow ==
    /\ registered \subseteq Gated
    /\ \A rel \in Releases \ Gated : window[rel] # "elapsed"
==============================================================================
