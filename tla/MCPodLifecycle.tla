--------------------------- MODULE MCPodLifecycle ---------------------------
(* Model checking of PodLifecycle. *)
EXTENDS PodLifecycle, TLC

CONSTANTS p1, s1, s2

\* At the start the stored pod has the first specification: the two are alike.
MCInit == Init /\ store \in [Pods -> {NoSpec, s1}]
MCSpec == MCInit /\ [][Next]_vars /\ Fairness
=============================================================================
