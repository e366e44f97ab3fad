------------------------------ MODULE HostLease ------------------------------
(***************************************************************************)
(* What the job subsystem promises, without reservations, runners, ticks   *)
(* or agents: a job is granted a host that no other job holds, keeps it    *)
(* until it ends, ends once, and gives the host back by ending.            *)
(***************************************************************************)
CONSTANTS Jobs, Hosts, NoJob

VARIABLES
  phase,   \* where each job stands in its life
  lease    \* the job that holds each host, or NoJob

leaseVars == <<phase, lease>>

Ended == {"Completed", "Failed", "TimedOut", "Cancelled"}

LeaseTypeOK ==
  /\ phase \in [Jobs -> {"Absent", "Pending", "Provisioning", "Running"} \cup Ended]
  /\ lease \in [Hosts -> Jobs \cup {NoJob}]

Init ==
  /\ phase = [j \in Jobs |-> "Absent"]
  /\ lease = [h \in Hosts |-> NoJob]

Become(j, ph) == phase' = [phase EXCEPT ![j] = ph]

Submit(j) == phase[j] = "Absent" /\ Become(j, "Pending") /\ UNCHANGED lease

Grant(j, h) ==
  /\ phase[j] = "Pending" /\ lease[h] = NoJob
  /\ Become(j, "Provisioning")
  /\ lease' = [lease EXCEPT ![h] = j]

Start(j) == phase[j] = "Provisioning" /\ Become(j, "Running") /\ UNCHANGED lease

GiveBack(j) == lease' = [h \in Hosts |-> IF lease[h] = j THEN NoJob ELSE lease[h]]

\* A queued job can only be cancelled, a booting one can also fail; to complete or
\* to time out a job must have run.
End(j, outcome) ==
  /\ \/ phase[j] = "Pending" /\ outcome = "Cancelled"
     \/ phase[j] = "Provisioning" /\ outcome \in {"Cancelled", "Failed"}
     \/ phase[j] = "Running" /\ outcome \in Ended
  /\ Become(j, outcome)
  /\ GiveBack(j)

Remove(j) ==
  phase[j] \in Ended \cup {"Pending"} /\ Become(j, "Absent") /\ UNCHANGED lease

Next ==
  \E j \in Jobs :
    \/ Submit(j) \/ Start(j) \/ Remove(j)
    \/ \E h \in Hosts : Grant(j, h)
    \/ \E o \in Ended : End(j, o)

Spec == Init /\ [][Next]_leaseVars
=============================================================================
