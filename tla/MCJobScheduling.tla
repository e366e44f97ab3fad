--------------------------- MODULE MCJobScheduling ---------------------------
(* Constant values for model checking JobScheduling. *)
EXTENDS JobScheduling, TLC

CONSTANTS j1, j2, j3, h1, r1, build, urgent, main, spare
CONSTANT MaxJobs   \* bound: so many jobs exist at a time

\* Two pools with a runner each: j3 is a job of the second.
TwoPools == [j \in Jobs |-> IF j = j3 THEN urgent ELSE build]
TwoRunnerPools == [rn \in Runners |-> IF rn = spare THEN urgent ELSE build]
Ranked == [j \in Jobs |-> IF j = j1 THEN 2 ELSE 1]
NoLimit == [rn \in Runners |-> 0]

FewJobs == Cardinality({j \in Jobs : phase[j] # "Absent"}) <= MaxJobs
MCSpec == Init /\ [][Next /\ FewJobs']_vars /\ Fairness
=============================================================================
