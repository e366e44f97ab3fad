----------------------------- MODULE MCServices -----------------------------
(***************************************************************************)
(* Managed networks, their DNS servers, the records of the pods, the relay *)
(* of leases and the peers of a cluster, side by side. In every behaviour  *)
(* one of them moves and the others rest, so that their state spaces add   *)
(* up and do not multiply.                                                 *)
(***************************************************************************)
EXTENDS ClusterSync, ManagedNetworks, DnsService, DnsRecords, DnsProxy, LeaseRelay

VARIABLE part      \* the component that moves

Parts == {"cluster", "networks", "dns", "records", "proxy", "leases"}
vars == <<part, clusterVars, netVars, dnsVars, recVars, proxyVars, leaseVars>>

\* A component that rests starts in one state only.
Init ==
  /\ part \in Parts
  /\ ClusterInit /\ NetInit /\ DnsInit /\ RecInit /\ ProxyInit /\ LeaseInit
  /\ part # "leases" => configOn = {} /\ enabled = {} /\ reserved = {}

OthersRest ==
  /\ UNCHANGED part
  /\ part # "cluster"  => UNCHANGED clusterVars
  /\ part # "networks" => UNCHANGED netVars
  /\ part # "dns"      => UNCHANGED dnsVars
  /\ part # "records"  => UNCHANGED recVars
  /\ part # "proxy"    => UNCHANGED proxyVars
  /\ part # "leases"   => UNCHANGED leaseVars

Next ==
  \/ part = "cluster"  /\ ClusterNext /\ OthersRest
  \/ part = "networks" /\ NetNext     /\ OthersRest
  \/ part = "dns"      /\ DnsNext     /\ OthersRest
  \/ part = "records"  /\ RecNext     /\ OthersRest
  \/ part = "proxy"    /\ ProxyNext   /\ OthersRest
  \/ part = "leases"   /\ LeaseNext   /\ OthersRest

\* The fairness of each component's own specification, while it is the one that moves.
Fairness ==
  /\ WF_netVars(part = "networks" /\ RequestStep)
  /\ WF_netVars(part = "networks" /\ CycleStep)
  /\ WF_dnsVars(part = "dns" /\ SeedStep)
  /\ WF_dnsVars(part = "dns" /\ ReconcileDNSConfig)
  /\ WF_dnsVars(part = "dns" /\ HealthCheck)
  /\ WF_dnsVars(part = "dns" /\ RepairDNSLiveness)
  /\ WF_dnsVars(part = "dns" /\ ProbeRestarts)
  /\ WF_dnsVars(part = "dns" /\ RecreateMissing)
  /\ \A w \in Repairers : WF_dnsVars(part = "dns" /\ RepairStep(w))
  /\ WF_recVars(part = "records" /\ CycleRegisters)
  /\ WF_recVars(part = "records" /\ RegisterStep("handler"))
  /\ WF_recVars(part = "records" /\ CleanerStep)
  /\ WF_proxyVars(part = "proxy" /\ ZoneStep)
  /\ WF_proxyVars(part = "proxy" /\ ReconcileAsked)
  /\ WF_proxyVars(part = "proxy" /\ SeedEntry)
  /\ WF_proxyVars(part = "proxy" /\ SweepStep)
  /\ WF_leaseVars(part = "leases" /\ reconcileDHCPLeases)
  /\ WF_leaseVars(part = "leases" /\ OperatorReturns)
  /\ \A n \in LeaseNets : WF_leaseVars(part = "leases" /\ pollDHCPLeases(n))

Spec == Init /\ [][Next]_vars /\ Fairness

\* The types of every component (see each module).
TypeOK ==
  /\ part \in Parts
  /\ ClusterTypeOK /\ NetTypeOK /\ DnsTypeOK /\ RecTypeOK /\ ProxyTypeOK /\ LeaseTypeOK

\* ServiceReturns holds of the component that moves.
DnsServiceReturns == part = "dns" => ServiceReturns
\* AskedIsServed holds of the component that moves.
AskedIsServedAgain == part = "proxy" => AskedIsServed
=============================================================================
