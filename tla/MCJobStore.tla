------------------------------ MODULE MCJobStore ------------------------------
(* Constant values for model checking JobStore. *)
EXTENDS JobStore, TLC

CONSTANTS j1, j2, j3, h1, h2, r1, r2, build, urgent, main, spare

OnePool == [j \in Jobs |-> build]
OneRunnerPool == [rn \in Runners |-> build]
SamePriority == [j \in Jobs |-> 0]
NoLimit == [rn \in Runners |-> 0]
MixedLimits == [rn \in Runners |-> IF rn = main THEN 2 ELSE 1]

StoreSymmetry == Permutations(Jobs) \cup Permutations(Hosts) \cup Permutations(Reservations)
=============================================================================
