------------------------------- MODULE JobLease -------------------------------
(***************************************************************************)
(* JobScheduling without overflow implements HostLease: the host a busy    *)
(* job names is the host it holds.                                         *)
(***************************************************************************)
EXTENDS JobScheduling

\* The busy job that refers to host h, if there is one.
HolderIn(ph, ref, h) ==
  LET holders == {j \in Jobs : ref[j] = h /\ ph[j] \in Busy}
  IN IF holders = {} THEN NoJob ELSE CHOOSE j \in holders : TRUE

leaseBar == [h \in Hosts |-> HolderIn(phase, bmhRef, h)]

Lease == INSTANCE HostLease WITH lease <- leaseBar

(* Every behaviour of the scheduler, its handlers and its agents is one of the
   abstract lease: nothing grants a held host, ends a job twice, runs a job that was
   not provisioned or keeps a host past the end of its job. *)
ImplementsLease == Lease!Spec
=============================================================================
