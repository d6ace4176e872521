----------------------------- MODULE MCJobQueue -----------------------------
(* Finite instances of JobQueue for TLC. *)
EXTENDS JobQueue, TLC

CONSTANTS j1, j2, j3, j4, w1, w2, p1, p2

\* One urgent job among ordinary ones.
MixedPriority == [j \in Jobs |-> IF j = j1 THEN 1 ELSE 5]

\* Every job with the default priority.
FlatPriority == [j \in Jobs |-> 5]

\* With FlatPriority the ids are interchangeable, as tasks and producers are.
FlatSymmetry == Permutations(Jobs) \cup Permutations(Workers) \cup Permutations(Producers)
=============================================================================
