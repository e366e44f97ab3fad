------------------------------ MODULE MCJobLease ------------------------------
(* Constant values for model checking JobLease. *)
EXTENDS JobLease, TLC

CONSTANTS j1, j2, h1, h2, r1, r2, build, main

OnePool == [j \in Jobs |-> build]
OneRunnerPool == [rn \in Runners |-> build]
Ranked == [j \in Jobs |-> IF j = j1 THEN 1 ELSE 0]
NoLimit == [rn \in Runners |-> 0]

LeaseSymmetry == Permutations(Hosts) \cup Permutations(Reservations)
=============================================================================
