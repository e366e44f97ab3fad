----------------------------- MODULE Deployments -----------------------------
(***************************************************************************)
(* One Deployment on one node (deployment.go) and the replicas it owns.    *)
(* The HTTP handlers change it between any two steps of the reconcile      *)
(* cycle, which takes no lock, works on the object it read when the cycle  *)
(* began and ends by recreating every stored pod that is not tracked       *)
(* (provider.go, step 3).  A replica is its index.                         *)
(***************************************************************************)
EXTENDS Naturals, FiniteSetsExt

CONSTANTS
  MaxReplicas,   \* bound: largest replica count
  MaxScales,     \* bound: requests
  MaxDepFaults   \* bound: failed calls, lost pods and restarts

ASSUME DepAssumption == {MaxReplicas, MaxScales, MaxDepFaults} \subseteq Nat

VARIABLES
  dep,           \* p.deployments[key]: its replicas, 0 when there is none
  depStored,     \* the stored deployment
  podTracked,    \* the replicas in p.pods
  podStored,     \* the replicas in the Pods bucket
  cycle,         \* the reconcile cycle: step, replicas to create, to remove, to recover or
                 \* to roll; has it still to ask for a new image?
  scales, depFaults

depVars == <<dep, depStored, podTracked, podStored, cycle, scales, depFaults>>

Index == 0..(MaxReplicas - 1)
Wanted(r) == 0..(r - 1)
Waiting == [at |-> "wait", create |-> {}, remove |-> {}, recover |-> {}, check |-> FALSE]

DepTypeOK ==
  /\ dep \in 0..MaxReplicas /\ depStored \in 0..MaxReplicas
  /\ podTracked \subseteq Index /\ podStored \subseteq Index
  /\ cycle \in [at : {"wait", "scale", "roll", "recover"}, create : SUBSET Index,
                remove : SUBSET Index, recover : SUBSET Index, check : BOOLEAN]
  /\ scales \in 0..MaxScales /\ depFaults \in 0..MaxDepFaults

DepInit ==
  /\ dep = 0 /\ depStored = 0 /\ podTracked = {} /\ podStored = {}
  /\ cycle = Waiting /\ scales = 0 /\ depFaults = 0

Request == scales < MaxScales /\ scales' = scales + 1
DepFault == depFaults < MaxDepFaults /\ depFaults' = depFaults + 1

\* A write to the store that fails leaves everything as it was.
CreateDeployment ==
  /\ dep = 0 /\ Request
  /\ \E r \in 1..MaxReplicas : dep' = r /\ depStored' = r
  /\ UNCHANGED <<podTracked, podStored, cycle, depFaults>>
UpdateDeployment ==
  /\ dep # 0 /\ Request
  /\ \E r \in 1..MaxReplicas : r # dep /\ dep' = r /\ depStored' = r
  /\ UNCHANGED <<podTracked, podStored, cycle, depFaults>>

\* handleDeleteDeployment: the replicas, then the object; a delete that the
\* store refuses, of a replica or of the deployment, is only logged.
DeleteDeployment ==
  /\ dep # 0 /\ Request
  /\ dep' = 0 /\ podTracked' = {}
  /\ \/ depStored' = 0 /\ podStored' = podStored \ podTracked /\ UNCHANGED depFaults
     \/ DepFault /\ depStored' = 0
        /\ \E i \in podTracked : podStored' = (podStored \ podTracked) \cup {i}
     \/ DepFault /\ depStored' = depStored /\ podStored' = podStored \ podTracked
  /\ UNCHANGED cycle

\* DELETE of one replica's pod.
DeleteReplica ==
  /\ Request
  /\ \E i \in podTracked : podTracked' = podTracked \ {i} /\ podStored' = podStored \ {i}
  /\ UNCHANGED <<dep, depStored, cycle, depFaults>>

\* reconcileDeployments loads an unknown deployment; reconcileOneDeployment
\* computes what is missing and what is in excess from one look at p.pods.
CycleBegins ==
  /\ cycle.at = "wait"
  /\ dep' = IF dep = 0 THEN depStored ELSE dep
  /\ cycle' = IF dep' = 0 THEN [Waiting EXCEPT !.at = "scale"]
              ELSE [Waiting EXCEPT !.at = "scale", !.create = Wanted(dep') \ podTracked,
                                   !.remove = podTracked \ Wanted(dep'), !.check = TRUE]
  /\ UNCHANGED <<depStored, podTracked, podStored, scales, depFaults>>

\* Create a missing replica: stored first, then CreatePod, which may fail.
CreateReplica ==
  /\ cycle.at = "scale" /\ cycle.create # {}
  /\ LET i == Min(cycle.create) IN
       /\ cycle' = [cycle EXCEPT !.create = @ \ {i}]
       /\ \/ podStored' = podStored \cup {i} /\ podTracked' = podTracked \cup {i}
             /\ UNCHANGED depFaults
          \/ DepFault /\ podStored' = podStored \cup {i} /\ UNCHANGED podTracked
          \/ DepFault /\ UNCHANGED <<podStored, podTracked>>
  /\ UNCHANGED <<dep, depStored, scales>>

\* Mutant of RemoveReplica: the stored pod stays.
RemoveTracked ==
  /\ cycle.at = "scale" /\ cycle.create = {} /\ cycle.remove # {}
  /\ LET i == Max(cycle.remove) IN
       cycle' = [cycle EXCEPT !.remove = @ \ {i}] /\ podTracked' = podTracked \ {i}
  /\ UNCHANGED <<dep, depStored, podStored, scales, depFaults>>

\* Remove an excess replica, the highest first; the error of the store is dropped.
RemoveReplica ==
  /\ cycle.at = "scale" /\ cycle.create = {} /\ cycle.remove # {}
  /\ LET i == Max(cycle.remove) IN
       /\ cycle' = [cycle EXCEPT !.remove = @ \ {i}]
       /\ podTracked' = podTracked \ {i}
       /\ \/ podStored' = podStored \ {i} /\ UNCHANGED depFaults
          \/ DepFault /\ UNCHANGED podStored
  /\ UNCHANGED <<dep, depStored, scales>>

\* An auto-update deployment whose image has changed updates its replicas one by one, those
\* that were tracked when it began.
Scaled == cycle.at = "scale" /\ cycle.create = {} /\ cycle.remove = {}
RollBegins ==
  /\ Scaled /\ cycle.check /\ podTracked # {}
  /\ cycle' = [Waiting EXCEPT !.at = "roll", !.recover = podTracked]
  /\ UNCHANGED <<dep, depStored, podTracked, podStored, scales, depFaults>>
\* rollingUpdateDeployment: UpdatePod tracks the replica, even one that was deleted meanwhile,
\* and does not store it; one that fails has deleted it.  It ends there, or behind a replica
\* that does not come to life.
RollReplica ==
  /\ cycle.at = "roll" /\ cycle.recover # {}
  /\ \E i \in cycle.recover :
       \/ /\ podTracked' = podTracked \cup {i} /\ UNCHANGED depFaults
          /\ cycle' \in {[cycle EXCEPT !.recover = rest] :
                         rest \in {cycle.recover \ {i}, {}}}
       \/ /\ DepFault /\ podTracked' = podTracked \ {i}
          /\ cycle' = [cycle EXCEPT !.recover = {}]
  /\ UNCHANGED <<dep, depStored, podStored, scales>>

\* reconcile step 1: the stored pods ...
LoadPods ==
  /\ Scaled \/ (cycle.at = "roll" /\ cycle.recover = {})
  /\ cycle' = [Waiting EXCEPT !.at = "recover", !.recover = podStored]
  /\ UNCHANGED <<dep, depStored, podTracked, podStored, scales, depFaults>>

\* ... and step 3: each that is not tracked is created, deleted meanwhile or not.
RecoverPod ==
  /\ cycle.at = "recover"
  /\ IF cycle.recover = {} THEN cycle' = Waiting /\ UNCHANGED <<podTracked, depFaults>>
     ELSE LET i == Min(cycle.recover) IN
            /\ cycle' = [cycle EXCEPT !.recover = @ \ {i}]
            /\ \/ podTracked' = podTracked \cup {i} /\ UNCHANGED depFaults
               \/ DepFault /\ UNCHANGED podTracked
  /\ UNCHANGED <<dep, depStored, podStored, scales>>

\* A container that does not start again loses its pod (step 2c).
ReplicaLost ==
  /\ DepFault /\ \E i \in podTracked : podTracked' = podTracked \ {i}
  /\ UNCHANGED <<dep, depStored, podStored, cycle, scales>>

\* A restart forgets the pods and loads the deployments (LoadDeploymentsFromStore).
RestartDeployments ==
  /\ DepFault
  /\ dep' = depStored /\ podTracked' = {} /\ cycle' = Waiting
  /\ UNCHANGED <<depStored, podStored, scales>>

CycleStepD ==
  CycleBegins \/ CreateReplica \/ RemoveReplica \/ RollBegins \/ RollReplica \/ LoadPods
    \/ RecoverPod

DepNext ==
  \/ CreateDeployment \/ UpdateDeployment \/ DeleteDeployment \/ DeleteReplica
  \/ CycleStepD \/ ReplicaLost \/ RestartDeployments

DepSpec == DepInit /\ [][DepNext]_depVars /\ WF_depVars(CycleStepD)

\* Whatever requests, failures and restarts came between the steps of the
\* cycles before, a deployment ends with exactly its replicas, and no other
\* comes back from the store (reconcileOneDeployment against step 3 of
\* reconcile).  A replica deleted while step 3 runs may stay tracked but not
\* stored.
ScaleHolds == <>[](dep # 0 => podTracked = Wanted(dep) /\ podStored \subseteq Wanted(dep))
=============================================================================
