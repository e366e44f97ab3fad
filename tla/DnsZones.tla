------------------------------- MODULE DnsZones -------------------------------
(***************************************************************************)
(* The domain zone operator (dzo/operator.go) on one network: zones served *)
(* by the server of the network, or by a MicroDNS container of their own.  *)
(* Every such container asks for the same address, so their records have   *)
(* the same endpoint, and a zone finds its server by that endpoint.  The   *)
(* operator's methods exclude each other (o.mu).                           *)
(***************************************************************************)
EXTENDS FiniteSets, Naturals

CONSTANTS Zones, NoZone, MaxZoneFaults   \* MaxZoneFaults bounds failures and restarts

ZoneKinds == {"none", "shared", "dedicated"}

VARIABLES
  zoneOf,       \* o.state.Zones: how each zone is served
  servers,      \* o.state.Instances that are Managed, by the zone they were made for
  serverBox,    \* the containers on the device
  address,      \* who holds the computed address in IPAM
  savedState,   \* the state file
  zoneFaults

zoneVars == <<zoneOf, servers, serverBox, address, savedState, zoneFaults>>

ZoneTypeOK ==
  /\ zoneOf \in [Zones -> ZoneKinds] /\ servers \subseteq Zones /\ serverBox \subseteq Zones
  /\ address \in Zones \cup {NoZone} /\ zoneFaults \in 0..MaxZoneFaults
  /\ savedState \in [zones : [Zones -> ZoneKinds], servers : SUBSET Zones]

ZoneInit ==
  /\ zoneOf = [z \in Zones |-> "none"] /\ servers = {} /\ serverBox = {}
  /\ address = NoZone /\ zoneFaults = 0
  /\ savedState = [zones |-> zoneOf, servers |-> {}]

ZoneFault == zoneFaults < MaxZoneFaults /\ zoneFaults' = zoneFaults + 1

\* saveState: a failure is only logged.
SavesState ==
  \/ savedState' = [zones |-> zoneOf', servers |-> servers'] /\ UNCHANGED zoneFaults
  \/ ZoneFault /\ UNCHANGED savedState

\* CreateZone on the server of the network.
CreateShared(z) ==
  /\ zoneOf[z] = "none" /\ zoneOf' = [zoneOf EXCEPT ![z] = "shared"]
  /\ UNCHANGED <<servers, serverBox, address>>
  /\ SavesState

\* CreateZone with Dedicated: address, container, start, record, wait, zone.
CreateDedicated(z) ==
  /\ zoneOf[z] = "none" /\ address \in {NoZone, z}
  /\ z \notin serverBox
  /\ serverBox' = serverBox \cup {z} /\ servers' = servers \cup {z} /\ address' = z
  /\ zoneOf' = [zoneOf EXCEPT ![z] = "dedicated"]
  /\ SavesState

\* ... the container cannot be made, or its name is taken by what an earlier
\* attempt left: the address goes, whoever uses it,
DedicatedRefused(z) ==
  /\ zoneOf[z] = "none" /\ address \in {NoZone, z}
  /\ IF z \in serverBox THEN UNCHANGED zoneFaults ELSE ZoneFault
  /\ address' = NoZone
  /\ UNCHANGED <<zoneOf, servers, serverBox, savedState>>

\* ... it does not start (no record), or does not answer in time (a record
\* and no zone): the container stays.
DedicatedFails(z) ==
  /\ zoneOf[z] = "none" /\ address \in {NoZone, z} /\ z \notin serverBox /\ ZoneFault
  /\ serverBox' = serverBox \cup {z} /\ address' = z
  /\ servers' \in {servers, servers \cup {z}}
  /\ UNCHANGED <<zoneOf, savedState>>

\* Mutant of Spared: the zones on the server are not counted.
NeverSpared(s, z) == FALSE

\* removeDedicatedInstance: a server with another zone on it stays.
Spared(s, z) == s # z /\ zoneOf[s] = "dedicated"

\* DeleteZone: a dedicated zone takes one server with its endpoint along, and
\* every server has that endpoint.  The device may refuse the removal.
DeleteZone(z) ==
  /\ zoneOf[z] # "none" /\ zoneOf' = [zoneOf EXCEPT ![z] = "none"]
  /\ \/ /\ zoneOf[z] = "dedicated"
        /\ \E s \in servers :
             /\ ~Spared(s, z)
             /\ servers' = servers \ {s}
             /\ serverBox' \in {serverBox, serverBox \ {s}}
             /\ address' = IF address = s THEN NoZone ELSE address
     \/ /\ zoneOf[z] = "shared" \/ \E s \in servers : Spared(s, z)
        /\ UNCHANGED <<servers, serverBox, address>>
  /\ SavesState

\* Bootstrap loads the state file; the device and its addresses stay.
loadState == zoneOf' = savedState.zones /\ servers' = savedState.servers
RestartZones ==
  /\ ZoneFault
  /\ loadState
  /\ UNCHANGED <<serverBox, address, savedState>>

ZoneNext ==
  \/ \E z \in Zones : CreateShared(z) \/ CreateDedicated(z) \/ DedicatedRefused(z)
                      \/ DedicatedFails(z) \/ DeleteZone(z)
  \/ RestartZones

ZoneSpec == ZoneInit /\ [][ZoneNext]_zoneVars

\* A zone with a server of its own keeps the record of it, although deletions
\* find servers by an endpoint that all of them share, failed attempts leave
\* servers behind and failed saves bring deleted zones back
\* (removeDedicatedInstance).
DedicatedIsServed == \A z \in Zones : zoneOf[z] = "dedicated" => z \in servers
=============================================================================
