--------------------------- MODULE ManagedNetworks ---------------------------
(***************************************************************************)
(* The life of one Network object (network_crd.go, network_provision.go):  *)
(* its record in memory and in the store, its bridge, address and relay on *)
(* the device, its registration with the IPAM, and the DNS pod that mkube  *)
(* deploys for it while it is managed.  Requests are serialised; the       *)
(* reconciler, which deploys a DNS pod that is missing, takes no lock.     *)
(* A user pod on the network may run.                                      *)
(***************************************************************************)
EXTENDS Naturals

CONSTANTS
  MaxNetFaults,     \* calls that fail, crashes in a request, careless updates
  MaxNetRestarts

ASSUME NetAssumption == MaxNetFaults \in Nat /\ MaxNetRestarts \in Nat

VARIABLES
  netMem, netStore,     \* the record, or NoNet
  registered,           \* is its pool in the IPAM?
  infra,                \* what is on the device
  dnsPod,               \* where the DNS pod is: "tracked" in p.pods, in the "store", a "box"
  dnsConfig,            \* where its ConfigMap is
  userPod,              \* the user's pod: "runs", "tracked"
  req,                  \* the request in progress
  deploy,               \* deploy[w]: how far deployManagedDNS has come in w
  base,                 \* the record that the reconciler's deployment began with
  raced,                \* history: the reconciler deployed while a request was in progress
  netFaults, netRestarts

netVars == <<netMem, netStore, registered, infra, dnsPod, dnsConfig, userPod, req, deploy,
             base, raced, netFaults, netRestarts>>

NoNet == [managed |-> FALSE, provisioned |-> FALSE, gone |-> TRUE]
Nets == [managed : BOOLEAN, provisioned : BOOLEAN, gone : {FALSE}] \cup {NoNet}
Infra == {"bridge", "address", "relay"}
Workers == {"request", "cycle"}
NetTypeOK ==
  /\ netMem \in Nets /\ netStore \in Nets /\ registered \in BOOLEAN
  /\ infra \subseteq Infra /\ dnsPod \subseteq {"tracked", "store", "box"}
  /\ dnsConfig \subseteq {"mem", "store"} /\ userPod \subseteq {"runs", "tracked"}
  /\ req \in {"none", "bridge", "rest", "deploy", "teardown", "deprovision", "check", "reply"}
  /\ deploy \in [Workers -> {"idle", "config", "store", "make", "endpoint"}]
  /\ base \in Nets /\ raced \in BOOLEAN /\ netFaults \in 0 .. MaxNetFaults /\ netRestarts \in 0 .. MaxNetRestarts

Fail == netFaults < MaxNetFaults /\ netFaults' = netFaults + 1
Ok == UNCHANGED netFaults
There(net) == ~net.gone

-----------------------------------------------------------------------------
(* deployManagedDNS: the ConfigMap, the pod in the store, its container, and the network's *)
(* record once more, for the endpoint.  A write that fails ends it.                        *)

Deploying(w, from, to) == deploy[w] = from /\ deploy' = [deploy EXCEPT ![w] = to]
Beside == UNCHANGED <<registered, infra, userPod, req, base, raced, netRestarts>>
WriteConfig(w) ==
  /\ \/ Deploying(w, "config", "store") /\ Ok /\ dnsConfig' = {"mem", "store"}
     \/ Deploying(w, "config", "idle") /\ Fail /\ dnsConfig' = dnsConfig \cup {"mem"}
  /\ UNCHANGED <<netMem, netStore, dnsPod>> /\ Beside
StoreDnsPod(w) ==
  /\ \/ Deploying(w, "store", "make") /\ Ok /\ dnsPod' = dnsPod \cup {"store"}
     \/ Deploying(w, "store", "idle") /\ Fail /\ UNCHANGED dnsPod
  /\ UNCHANGED <<netMem, netStore, dnsConfig>> /\ Beside
MakeDnsPod(w) ==
  /\ \/ Deploying(w, "make", "endpoint") /\ Ok /\ dnsPod' = dnsPod \cup {"box", "tracked"}
     \/ Deploying(w, "make", "idle") /\ Fail /\ UNCHANGED dnsPod
  /\ UNCHANGED <<netMem, netStore, dnsConfig>> /\ Beside
\* The record is the one that the loop or the handler began with.
WriteEndpoint(w) ==
  /\ Deploying(w, "endpoint", "idle")
  /\ \/ Ok /\ netStore' = IF w = "cycle" THEN base ELSE netMem
     \/ Fail /\ UNCHANGED netStore
  /\ UNCHANGED <<netMem, dnsPod, dnsConfig>> /\ Beside
DeployStep(w) == WriteConfig(w) \/ StoreDnsPod(w) \/ MakeDnsPod(w) \/ WriteEndpoint(w)

\* Mutant of TearDown: only a pod that is tracked is torn down.
TearDownTracked ==
  IF "tracked" \in dnsPod THEN dnsPod' = {} /\ dnsConfig' = {}
  ELSE UNCHANGED <<dnsPod, dnsConfig>>
\* teardownManagedDNS: the pod, its record and its ConfigMap.  The container of a pod that is
\* not tracked is removed by an empty id, which is that of no container.
TearDown ==
  /\ dnsPod' = IF "tracked" \in dnsPod THEN {} ELSE dnsPod \cap {"box"}
  /\ dnsConfig' = {}

-----------------------------------------------------------------------------
(* The requests. *)

Step(from, to) == req = from /\ req' = to
CreateNetwork(managed) ==
  /\ ~There(netMem) /\ Step("none", "bridge")
  /\ netMem' = [managed |-> managed, provisioned |-> FALSE, gone |-> FALSE]
  /\ netStore' = netMem' /\ registered' = TRUE
  /\ UNCHANGED <<infra, dnsPod, dnsConfig, userPod, deploy, base, raced, netFaults, netRestarts>>
\* provisionNetwork gives up when the bridge cannot be made, and goes on when the address
\* or the relay cannot.
MakeBridge ==
  /\ \/ Step("bridge", "rest") /\ infra' = infra \cup {"bridge"} /\ Ok
     \/ Step("bridge", "deploy") /\ UNCHANGED infra /\ Fail
  /\ UNCHANGED <<netMem, netStore, registered, dnsPod, dnsConfig, userPod, deploy, base, raced,
                 netRestarts>>
ProvisionRest ==
  /\ Step("rest", "deploy") /\ netMem' = [netMem EXCEPT !.provisioned = TRUE]
  /\ \/ infra' = Infra /\ netStore' = netMem' /\ Ok
     \/ \E made \in SUBSET {"address", "relay"} : infra' = infra \cup made /\ netStore' = netMem' /\ Fail
     \/ infra' = Infra /\ UNCHANGED netStore /\ Fail
  /\ UNCHANGED <<registered, dnsPod, dnsConfig, userPod, deploy, base, raced, netRestarts>>
BeginDeploy ==
  /\ Step("deploy", "reply")
  /\ deploy' = [deploy EXCEPT !["request"] = IF netMem.managed THEN "config" ELSE "idle"]
  /\ UNCHANGED <<netMem, netStore, registered, infra, dnsPod, dnsConfig, userPod, base, raced,
                 netFaults, netRestarts>>

\* A change of "managed" deploys or tears down, within the request.
TransitionDNS(managed) ==
  /\ Step("none", IF managed /\ ~netMem.managed THEN "deploy" ELSE "none")
  /\ IF netMem.managed /\ ~managed THEN TearDown ELSE UNCHANGED <<dnsPod, dnsConfig>>
  /\ raced' = (raced \/ deploy["cycle"] # "idle")
  /\ UNCHANGED <<registered, infra, userPod, deploy, base, netRestarts>>
\* PUT takes the record of the client as it is, the provisioned flag with it: a client that
\* drops the flag is careless.  PATCH starts from the record that is there.
UpdateNetwork(managed, provisioned) ==
  /\ There(netMem)
  /\ netMem' = [managed |-> managed, provisioned |-> provisioned, gone |-> FALSE]
  /\ netStore' = netMem'
  /\ IF provisioned = netMem.provisioned THEN Ok ELSE Fail
  /\ TransitionDNS(managed)
PatchNetwork(managed) ==
  /\ There(netMem) /\ netMem' = [netMem EXCEPT !.managed = managed]
  /\ netStore' = netMem' /\ Ok
  /\ TransitionDNS(managed)

\* DELETE tears down and deprovisions before it looks for pods that use the network.
DeleteNetwork ==
  /\ There(netMem) /\ Step("none", "deprovision")
  /\ IF netMem.managed THEN TearDown ELSE UNCHANGED <<dnsPod, dnsConfig>>
  /\ raced' = (raced \/ deploy["cycle"] # "idle")
  /\ UNCHANGED <<netMem, netStore, registered, infra, userPod, deploy, base, netFaults, netRestarts>>
Deprovision ==
  /\ Step("deprovision", "check")
  /\ IF netMem.provisioned
       THEN \/ infra' = {} /\ Ok
            \/ \E left \in SUBSET infra \ {{}} : infra' = left /\ Fail
       ELSE UNCHANGED infra /\ Ok
  /\ UNCHANGED <<netMem, netStore, registered, dnsPod, dnsConfig, userPod, deploy, base, raced,
                 netRestarts>>
RefuseDelete ==
  /\ Step("check", "none") /\ "tracked" \in userPod
  /\ UNCHANGED <<netMem, netStore, registered, infra, dnsPod, dnsConfig, userPod, deploy,
                 base, raced, netFaults, netRestarts>>
FinishDelete ==
  /\ Step("check", "none") /\ "tracked" \notin userPod
  /\ \/ netStore' = NoNet /\ netMem' = NoNet /\ registered' = FALSE /\ Ok
     \/ Fail /\ UNCHANGED <<netStore, netMem, registered>>
  /\ UNCHANGED <<infra, dnsPod, dnsConfig, userPod, deploy, base, raced, netRestarts>>
Reply ==
  /\ Step("reply", "none") /\ deploy["request"] = "idle"
  /\ UNCHANGED <<netMem, netStore, registered, infra, dnsPod, dnsConfig, userPod, deploy,
                 base, raced, netFaults, netRestarts>>

-----------------------------------------------------------------------------
(* The reconciler and the pods. *)

RecreateDns ==
  /\ There(netMem) /\ netMem.managed /\ "tracked" \notin dnsPod
  /\ Deploying("cycle", "idle", "config") /\ base' = netMem
  /\ raced' = (raced \/ req # "none")
  /\ UNCHANGED <<netMem, netStore, registered, infra, dnsPod, dnsConfig, userPod, req,
                 netFaults, netRestarts>>
\* Step 3 makes or tracks the pods of the store; a box that nothing wants is removed.
TrackDnsPod ==
  /\ deploy["cycle"] = "idle" /\ "store" \in dnsPod /\ "tracked" \notin dnsPod
  /\ \/ dnsPod' = dnsPod \cup {"box", "tracked"} /\ Ok
     \/ Fail /\ UNCHANGED dnsPod
  /\ UNCHANGED <<netMem, netStore, registered, infra, dnsConfig, userPod, req, deploy, base, raced,
                 netRestarts>>
CleanDnsBox ==
  /\ dnsPod = {"box"} /\ dnsPod' = {}
  /\ UNCHANGED <<netMem, netStore, registered, infra, dnsConfig, userPod, req, deploy, base, raced,
                 netFaults, netRestarts>>
\* Someone deletes the DNS pod through the pods API.
DeleteDnsPod ==
  /\ req = "none" /\ "tracked" \in dnsPod /\ Fail /\ dnsPod' = {}
  /\ UNCHANGED <<netMem, netStore, registered, infra, dnsConfig, userPod, req, deploy, base, raced,
                 netRestarts>>
UserPod ==
  /\ req = "none"
  /\ \/ userPod = {} /\ There(netMem) /\ infra = Infra /\ userPod' = {"runs", "tracked"}
     \/ "tracked" \in userPod /\ userPod' = {}
  /\ UNCHANGED <<netMem, netStore, registered, infra, dnsPod, dnsConfig, req, deploy, base, raced,
                 netFaults, netRestarts>>
TrackUserPod ==
  /\ userPod = {"runs"} /\ userPod' = {"runs", "tracked"}
  /\ UNCHANGED <<netMem, netStore, registered, infra, dnsPod, dnsConfig, req, deploy, base, raced,
                 netFaults, netRestarts>>

\* A restart loads the record; LoadNetworksFromStore deploys the pod that is not stored.
RestartNetworks ==
  /\ netRestarts < MaxNetRestarts /\ netRestarts' = netRestarts + 1
  /\ IF req = "none" /\ deploy["cycle"] = "idle" THEN Ok ELSE Fail
  /\ netMem' = netStore /\ registered' = There(netStore) /\ req' = "none"
  /\ dnsPod' = dnsPod \ {"tracked"} /\ userPod' = userPod \ {"tracked"}
  /\ dnsConfig' = IF "store" \in dnsConfig THEN {"mem", "store"} ELSE {}
  /\ deploy' = [w \in Workers |->
       IF w = "cycle" /\ There(netStore) /\ netStore.managed /\ "store" \notin dnsPod
         THEN "config" ELSE "idle"]
  /\ base' = netStore /\ UNCHANGED <<netStore, infra, raced>>

NetInit ==
  /\ netMem = NoNet /\ netStore = NoNet /\ registered = FALSE /\ infra = {} /\ dnsPod = {}
  /\ dnsConfig = {} /\ userPod = {} /\ req = "none" /\ deploy = [w \in Workers |-> "idle"]
  /\ base = NoNet /\ raced = FALSE /\ netFaults = 0 /\ netRestarts = 0
RequestStep ==
  MakeBridge \/ ProvisionRest \/ BeginDeploy \/ Deprovision \/ RefuseDelete \/ FinishDelete
  \/ Reply \/ DeployStep("request")
CycleStep == RecreateDns \/ DeployStep("cycle") \/ TrackDnsPod \/ CleanDnsBox \/ TrackUserPod
NetNext ==
  \/ \E managed \in BOOLEAN :
       CreateNetwork(managed) \/ PatchNetwork(managed)
       \/ \E provisioned \in BOOLEAN : UpdateNetwork(managed, provisioned)
  \/ DeleteNetwork \/ RequestStep \/ CycleStep
  \/ DeleteDnsPod \/ UserPod \/ RestartNetworks
NetSpec ==
  NetInit /\ [][NetNext]_netVars /\ WF_netVars(RequestStep) /\ WF_netVars(CycleStep)

-----------------------------------------------------------------------------
(* Properties. *)

\* A network that has been deleted leaves nothing behind but perhaps the container of a DNS
\* pod that was not tracked, which the checker removes: after any history of restarts,
\* updates and refused deletions, if no call failed and no cycle deployed its DNS pod while
\* it was being deleted.
NothingIsLeft ==
  ~There(netMem) /\ req = "none" /\ netFaults = 0 /\ ~raced /\ deploy["cycle"] = "idle"
    => infra = {} /\ dnsPod \subseteq {"box"} /\ dnsConfig = {}
       /\ ~registered /\ ~There(netStore)

=============================================================================
