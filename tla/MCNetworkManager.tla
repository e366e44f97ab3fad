-------------------------- MODULE MCNetworkManager --------------------------
(* Constant values for model checking NetworkManager. *)
EXTENDS NetworkManager, TLC

CONSTANTS lan, crd, k1, k2, k3

\* lan is in config.yaml, crd only in the store.  The first address of each subnet is its
\* gateway and the last one is outside the range, so that it can only be asked for.
Base == [n \in Nets |-> IF n = lan THEN 10 ELSE 20]
LoValue == Base
FirstValue == [n \in Nets |-> Base[n] + 1]
LastValue == [n \in Nets |-> Base[n] + 2]
HiValue == [n \in Nets |-> Base[n] + 3]
\* One address to each network.
OneAddress == FirstValue

KeySymmetry == Permutations(Keys)
=============================================================================
