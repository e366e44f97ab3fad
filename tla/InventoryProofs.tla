---------------------------- MODULE InventoryProofs ----------------------------
(***************************************************************************)
(* Machine-checked safety of the components that keep an inventory: DNS    *)
(* zones and their servers, volumes, Proxmox containers, the images that   *)
(* pods run on, bare-metal hosts, and the files of a patched ISO image,    *)
(* for every number of each.                                               *)
(***************************************************************************)
EXTENDS DnsZones, VolumeStore, ProxmoxVms, ImageRollout, HostRecords, IsoPatches,
        FiniteSetTheorems, WellFoundedInduction, TLAPS

-----------------------------------------------------------------------------
(* DnsZones: a dedicated zone keeps its server. *)

\* What the state file says is as good as what memory says, so that a restart may load an
\* old one.
SavedIsServed == \A z \in Zones : savedState.zones[z] = "dedicated" => z \in savedState.servers

ZoneInv == zoneOf \in [Zones -> ZoneKinds] /\ savedState.zones \in [Zones -> ZoneKinds]
           /\ DedicatedIsServed /\ SavedIsServed

LEMMA SavesServed ==
  ASSUME ZoneInv, SavesState, zoneOf' \in [Zones -> ZoneKinds], DedicatedIsServed'
  PROVE  ZoneInv'
  BY DEF ZoneInv, SavesState, DedicatedIsServed, SavedIsServed

LEMMA ZoneNextInv == ZoneInv /\ [ZoneNext]_zoneVars => ZoneInv'
  <1> SUFFICES ASSUME ZoneInv, [ZoneNext]_zoneVars PROVE ZoneInv'
    OBVIOUS
  <1> USE DEF ZoneInv, DedicatedIsServed, SavedIsServed, ZoneKinds
  <1>1. ASSUME NEW z \in Zones, CreateShared(z) \/ CreateDedicated(z) PROVE ZoneInv'
    <2>1. zoneOf' \in [Zones -> ZoneKinds] /\ DedicatedIsServed' /\ SavesState
      BY <1>1 DEF CreateShared, CreateDedicated
    <2> QED
      BY <2>1, SavesServed
  <1>2. ASSUME NEW z \in Zones, DedicatedRefused(z) \/ DedicatedFails(z) PROVE ZoneInv'
    BY <1>2 DEF DedicatedRefused, DedicatedFails
  <1>3. ASSUME NEW z \in Zones, DeleteZone(z) PROVE ZoneInv'
    <2>1. zoneOf' \in [Zones -> ZoneKinds] /\ SavesState
      BY <1>3 DEF DeleteZone
    <2>2. ASSUME NEW y \in Zones, zoneOf'[y] = "dedicated" PROVE y \in servers'
      <3>1. y # z /\ zoneOf[y] = "dedicated" /\ y \in servers
        BY <1>3, <2>2 DEF DeleteZone
      <3>2. \A s \in servers : ~Spared(s, z) => s # y
        BY <3>1 DEF Spared
      <3> QED
        BY <1>3, <3>1, <3>2 DEF DeleteZone
    <2> QED
      BY <2>1, <2>2, SavesServed
  <1>4. CASE RestartZones
    BY <1>4 DEF RestartZones, loadState
  <1>5. CASE UNCHANGED zoneVars
    BY <1>5 DEF zoneVars
  <1> QED
    BY <1>1, <1>2, <1>3, <1>4, <1>5 DEF ZoneNext

\* All servers share an endpoint, deletions look for a server by it, attempts that failed
\* leave servers behind, and a failed save brings back what a restart then loads: still no
\* dedicated zone loses the record of its server.
THEOREM DedicatedServedTheorem == ZoneSpec => []DedicatedIsServed
  <1>1. ZoneInit => ZoneInv
    BY DEF ZoneInit, ZoneInv, DedicatedIsServed, SavedIsServed, ZoneKinds
  <1>2. ZoneInv => DedicatedIsServed
    BY DEF ZoneInv
  <1> QED
    BY <1>1, <1>2, ZoneNextInv, PTL DEF ZoneSpec

-----------------------------------------------------------------------------
(* VolumeStore: a claim keeps its data. *)

\* The mount point of the claim leads to the directory of the claim.
ClaimIsMounted == mount = "claim"
VolumeInv == ClaimIsMounted /\ ClaimKeepsData

LEMMA VolumeNextInv == VolumeInv /\ [VolumeNext]_volumeVars => VolumeInv'
  <1> SUFFICES ASSUME VolumeInv, [VolumeNext]_volumeVars PROVE VolumeInv'
    OBVIOUS
  <1> USE DEF VolumeInv, ClaimIsMounted, ClaimKeepsData, Ensured
  <1>1. CASE CreatePVC \/ UpdatePVC
    BY <1>1 DEF CreatePVC, UpdatePVC
  <1>2. ASSUME NEW purge \in BOOLEAN, DeletePVC(purge) PROVE VolumeInv'
    BY <1>2 DEF DeletePVC, ClaimDeleted
  <1>3. CASE ProvisionVolumes
    BY <1>3 DEF ProvisionVolumes, ResolvePVC
  <1>4. CASE PodWrites
    BY <1>4 DEF PodWrites
  <1>5. CASE SubmitPod \/ CreateBox \/ RemoveBox \/ RemovePod \/ TrackPod
    BY <1>5 DEF SubmitPod, CreateBox, RemoveBox, RemovePod, TrackPod
  <1>6. CASE RestartVolumes \/ CollectBegins \/ CollectEnds
    BY <1>6 DEF RestartVolumes, CollectBegins, CollectEnds
  <1>7. CASE UNCHANGED volumeVars
    BY <1>7 DEF volumeVars
  <1> QED
    BY <1>1, <1>2, <1>3, <1>4, <1>5, <1>6, <1>7 DEF VolumeNext

\* Deleting the claim object, failed writes of it, restarts, re-creations of the pod and the
\* collector lose nothing of a claim: only a purge does.
THEOREM ClaimDataTheorem == VolumeSpec => []ClaimKeepsData
  <1>1. VolumeInit => VolumeInv
    BY DEF VolumeInit, VolumeInv, ClaimIsMounted, ClaimKeepsData
  <1>2. VolumeInv => ClaimKeepsData
    BY DEF VolumeInv
  <1> QED
    BY <1>1, <1>2, VolumeNextInv, PTL DEF VolumeSpec

-----------------------------------------------------------------------------
(* ProxmoxVms: a container on the node is known. *)

LEMMA MinIsLeast ==
  ASSUME NEW S \in SUBSET Nat, S # {}
  PROVE  Min(S) \in S /\ \A y \in S : Min(S) <= y
  <1> DEFINE Less == OpToRel(<, Nat)
  <1>1. PICK x \in S : \A y \in S : ~(<<y, x>> \in Less)
    <2>1. IsWellFoundedOn(Less, Nat)
      BY NatLessThanWellFounded
    <2> HIDE DEF Less
    <2> QED
      BY <2>1, WFMin
  <1>2. Less = {ss \in Nat \X Nat : ss[1] < ss[2]}
    BY DEF OpToRel
  <1> HIDE DEF Less
  <1>3. \A y \in S : x <= y
    <2> SUFFICES ASSUME NEW y \in S, y < x PROVE FALSE
      OBVIOUS
    <2>1. <<y, x>> \in Less
      BY <1>2
    <2> QED
      BY <1>1, <2>1
  <1> QED
    BY <1>3 DEF Min

\* The two halves of the table agree: the VMID of a name is held by it, and the names of
\* containers hold no other.  A hostname that was listed once holds one VMID at most.
TableAgrees ==
  /\ \A name \in TableNames : vmIdOf[name] # 0 => vmUsed[vmIdOf[name]] = name
  /\ \A i \in VmIds : vmUsed[i] \in VmNames => vmIdOf[vmUsed[i]] = i
  /\ \A i \in VmIds, j \in VmIds :
       vmUsed[i] \in Hostnames \ vmShared /\ vmUsed[j] = vmUsed[i] => i = j

\* A removal that has not returned yet left its VMID empty, unless a creation overtook it.
RemovedIsGone ==
  \A call \in vmCalls : call.op = "remove" /\ call.task = "done" /\ vmNode[call.id] \in VmNames =>
    call.id \in vmOvertaken

VmInv == VmTypeOK /\ TableAgrees /\ RemovedIsGone /\ EveryVmIsKnown

LEMMA VmNamesApart ==
  /\ \A name \in VmNames : name # NoName /\ name # Stranger /\ name \in TableNames /\ name \notin Hostnames
  /\ \A name \in TableNames : name # NoName
  /\ Hostnames \subseteq TableNames
  /\ \A name \in Owners : VmHostname[name] \in Hostnames /\ name # NoName
  /\ VmIds \subseteq Nat /\ 0 \notin VmIds
  BY VmAssumption DEF TableNames, Owners, Hostnames

\* What holds VMIDs after a creation asked for one.
LEMMA AllocateFacts ==
  ASSUME VmTypeOK, TableAgrees, NEW name \in VmNames, NEW i \in VmIds, Allocate(name, i), vmShared' = vmShared
  PROVE  /\ vmUsed' \in [VmIds -> TableNames \cup {NoName}]
         /\ vmIdOf' \in [TableNames -> VmIds \cup {0}]
         /\ TableAgrees'
         /\ vmUsed'[i] = name /\ vmIdOf'[name] = i
         /\ \A j \in VmIds : vmUsed[j] # NoName => vmUsed'[j] = vmUsed[j]
         /\ \A n \in TableNames : vmIdOf[n] # 0 => vmIdOf'[n] = vmIdOf[n]
  <1> USE VmNamesApart DEF VmTypeOK, TableAgrees
  <1>1. CASE vmIdOf[name] # 0
    BY <1>1 DEF Allocate
  <1>2. CASE vmIdOf[name] = 0
    <2> DEFINE free == {j \in VmIds : vmUsed[j] = NoName}
    <2>1. /\ free # {} /\ i = Min(free)
          /\ vmUsed' = [vmUsed EXCEPT ![i] = name]
          /\ vmIdOf' = [vmIdOf EXCEPT ![name] = i]
      BY <1>2 DEF Allocate
    <2>2. free \in SUBSET Nat
      OBVIOUS
    <2>3. vmUsed[i] = NoName
      <3> HIDE DEF free
      <3>1. i \in free
        BY <2>1, <2>2, MinIsLeast
      <3> QED
        BY <3>1 DEF free
    <2>4. \A j \in VmIds : vmUsed[j] # name
      BY <1>2
    <2>5. ASSUME NEW n \in TableNames, vmIdOf[n] = i PROVE FALSE
      BY <2>3, <2>5
    <2>6. ASSUME NEW n \in TableNames, vmIdOf'[n] # 0 PROVE vmUsed'[vmIdOf'[n]] = n
      <3>1. CASE n = name
        BY <2>1, <3>1
      <3>2. CASE n # name
        BY <2>1, <2>5, <2>6, <3>2
      <3> QED
        BY <3>1, <3>2
    <2>7. ASSUME NEW j \in VmIds, vmUsed'[j] \in VmNames PROVE vmIdOf'[vmUsed'[j]] = j
      BY <2>1, <2>4, <2>7
    <2>8. ASSUME NEW j \in VmIds, NEW k \in VmIds, vmUsed'[j] \in Hostnames \ vmShared, vmUsed'[k] = vmUsed'[j]
          PROVE  j = k
      BY <2>1, <2>8
    <2>9. TableAgrees'
      BY <2>6, <2>7, <2>8
    <2>10. /\ vmUsed' \in [VmIds -> TableNames \cup {NoName}]
           /\ vmIdOf' \in [TableNames -> VmIds \cup {0}]
           /\ vmUsed'[i] = name /\ vmIdOf'[name] = i
      BY <2>1
    <2>11. /\ \A j \in VmIds : vmUsed[j] # NoName => vmUsed'[j] = vmUsed[j]
           /\ \A n \in TableNames : vmIdOf[n] # 0 => vmIdOf'[n] = vmIdOf[n]
      BY <1>2, <2>1, <2>3
    <2> QED
      BY <2>9, <2>10, <2>11
  <1> QED
    BY <1>1, <1>2

\* What holds VMIDs after one was released: no other VMID and no other name has changed.
LEMMA ReleaseFacts ==
  ASSUME VmTypeOK, TableAgrees, NEW name \in TableNames \cup {NoName}, Release(name), vmShared' = vmShared
  PROVE  /\ vmUsed' \in [VmIds -> TableNames \cup {NoName}]
         /\ vmIdOf' \in [TableNames -> VmIds \cup {0}]
         /\ TableAgrees'
         /\ \A j \in VmIds : vmUsed[j] # name => vmUsed'[j] = vmUsed[j]
         /\ \A n \in TableNames : n # name => vmIdOf'[n] = vmIdOf[n]
  <1> USE VmNamesApart DEF VmTypeOK, TableAgrees
  <1>1. CASE name = NoName \/ vmIdOf[name] = 0
    BY <1>1 DEF Release
  <1>2. CASE ~(name = NoName \/ vmIdOf[name] = 0)
    <2>1. name \in TableNames /\ vmIdOf[name] \in VmIds /\ vmUsed[vmIdOf[name]] = name
          /\ vmUsed' = [vmUsed EXCEPT ![vmIdOf[name]] = NoName]
          /\ vmIdOf' = [vmIdOf EXCEPT ![name] = 0]
      BY <1>2 DEF Release
    <2>2. ASSUME NEW n \in TableNames, vmIdOf'[n] # 0 PROVE vmUsed'[vmIdOf'[n]] = n
      BY <2>1, <2>2
    <2>3. ASSUME NEW j \in VmIds, vmUsed'[j] \in VmNames PROVE vmIdOf'[vmUsed'[j]] = j
      BY <2>1, <2>3
    <2>4. ASSUME NEW j \in VmIds, NEW k \in VmIds, vmUsed'[j] \in Hostnames \ vmShared, vmUsed'[k] = vmUsed'[j]
          PROVE  j = k
      BY <2>1, <2>4
    <2> QED
      BY <2>1, <2>2, <2>3, <2>4
  <1> QED
    BY <1>1, <1>2

LEMMA VmInitInv == VmInit => VmInv
  <1> SUFFICES ASSUME VmInit PROVE VmInv
    OBVIOUS
  <1> USE VmNamesApart
  <1>1. VmTypeOK
    BY VmAssumption DEF VmInit, VmTypeOK
  <1> QED
    BY <1>1 DEF VmInit, VmInv, TableAgrees, RemovedIsGone, EveryVmIsKnown

LEMMA VmCreateInv ==
  ASSUME VmInv, NEW name \in VmNames, BeginCreate(name)
  PROVE  VmInv'
  <1> USE VmNamesApart DEF VmInv
  <1>1. PICK i \in VmIds :
          /\ Allocate(name, i)
          /\ IF vmNode[i] # NoName THEN UNCHANGED <<vmCalls, vmNode, vmOvertaken>>
             ELSE /\ Begin("create", i) /\ vmNode' = [vmNode EXCEPT ![i] = name]
                  /\ vmOvertaken' = IF \E call \in vmCalls : call.op = "remove" /\ call.id = i
                                    THEN vmOvertaken \cup {i} ELSE vmOvertaken
    BY DEF BeginCreate
  <1>2. /\ vmFound' = vmFound /\ vmTasks' = vmTasks /\ vmSynced' = vmSynced /\ vmFaults' = vmFaults
        /\ vmShared' = vmShared
    BY DEF BeginCreate
  <1>3. /\ vmUsed' \in [VmIds -> TableNames \cup {NoName}]
        /\ vmIdOf' \in [TableNames -> VmIds \cup {0}]
        /\ TableAgrees'
        /\ vmUsed'[i] = name /\ vmIdOf'[name] = i
        /\ \A j \in VmIds : vmUsed[j] # NoName => vmUsed'[j] = vmUsed[j]
        /\ \A n \in TableNames : vmIdOf[n] # 0 => vmIdOf'[n] = vmIdOf[n]
    BY <1>1, <1>2, AllocateFacts
  <1>4. \/ UNCHANGED <<vmCalls, vmNode, vmOvertaken>>
        \/ /\ vmCalls' = vmCalls \cup {[op |-> "create", id |-> i, task |-> "running"]}
           /\ vmNode' = [vmNode EXCEPT ![i] = name]
           /\ vmOvertaken \subseteq vmOvertaken' /\ vmOvertaken' \subseteq vmOvertaken \cup {i}
           /\ \A call \in vmCalls : call.op = "remove" /\ call.id = i => i \in vmOvertaken'
    BY <1>1 DEF Begin
  <1>5. VmTypeOK'
    <2>1. vmNode' \in [VmIds -> Owners \cup {NoName}] /\ vmCalls' \subseteq Calls /\ vmOvertaken' \subseteq VmIds
      <3>1. CASE UNCHANGED <<vmCalls, vmNode, vmOvertaken>>
        BY <3>1 DEF VmTypeOK
      <3>2. CASE ~UNCHANGED <<vmCalls, vmNode, vmOvertaken>>
        <4>1. [op |-> "create", id |-> i, task |-> "running"] \in Calls
          BY DEF Calls
        <4>2. vmCalls' = vmCalls \cup {[op |-> "create", id |-> i, task |-> "running"]}
              /\ vmNode' = [vmNode EXCEPT ![i] = name] /\ vmOvertaken' \subseteq vmOvertaken \cup {i}
          BY <1>4, <3>2
        <4>3. vmCalls' \subseteq Calls
          BY <4>1, <4>2 DEF VmTypeOK
        <4>4. vmNode' \in [VmIds -> Owners \cup {NoName}] /\ vmOvertaken' \subseteq VmIds
          BY <4>2 DEF VmTypeOK, Owners
        <4> QED
          BY <4>3, <4>4
      <3> QED
        BY <3>1, <3>2
    <2> QED
      BY <1>2, <1>3, <2>1 DEF VmTypeOK
  <1>6. RemovedIsGone'
    <2>1. CASE UNCHANGED <<vmCalls, vmNode, vmOvertaken>>
      BY <2>1 DEF RemovedIsGone
    <2>2. CASE ~UNCHANGED <<vmCalls, vmNode, vmOvertaken>>
      <3> SUFFICES ASSUME NEW call \in vmCalls', call.op = "remove", call.task = "done", vmNode'[call.id] \in VmNames
                   PROVE  call.id \in vmOvertaken'
        BY DEF RemovedIsGone
      <3>1. call \in vmCalls /\ call.id \in VmIds
        BY <1>4, <2>2 DEF VmTypeOK, Calls
      <3>2. CASE call.id = i
        BY <1>4, <2>2, <3>1, <3>2
      <3>3. CASE call.id # i
        BY <1>4, <2>2, <3>1, <3>3 DEF RemovedIsGone, VmTypeOK
      <3> QED
        BY <3>2, <3>3
    <2> QED
      BY <2>1, <2>2
  <1>7. EveryVmIsKnown'
    <2> SUFFICES ASSUME vmSynced, NEW j \in VmIds, vmNode'[j] \in VmNames, j \notin vmOvertaken',
                        VmHostname[vmNode'[j]] \notin vmShared
                 PROVE  vmUsed'[j] \in {vmNode'[j], VmHostname[vmNode'[j]]} /\ vmIdOf'[vmUsed'[j]] = j
      BY <1>2 DEF EveryVmIsKnown
    <2>1. CASE vmNode'[j] = vmNode[j]
      <3>1. vmUsed[j] \in {vmNode[j], VmHostname[vmNode[j]]} /\ vmIdOf[vmUsed[j]] = j
        BY <1>2, <1>4, <2>1 DEF EveryVmIsKnown
      <3>2. vmUsed[j] # NoName /\ vmUsed[j] \in TableNames
        BY <2>1, <3>1, VmAssumption DEF VmTypeOK, Owners, TableNames
      <3> QED
        BY <1>3, <2>1, <3>1, <3>2
    <2>2. CASE vmNode'[j] # vmNode[j]
      <3>1. j = i /\ vmNode'[j] = name
        BY <1>4, <2>2 DEF VmTypeOK
      <3> QED
        BY <1>3, <3>1
    <2> QED
      BY <2>1, <2>2
  <1> QED
    BY <1>3, <1>5, <1>6, <1>7

LEMMA VmRemovedInv ==
  ASSUME VmInv, TaskSucceeds
  PROVE  VmInv'
  <1> USE VmNamesApart DEF VmInv
  <1>1. PICK call \in vmCalls :
          /\ call.task = "done" /\ vmCalls' = vmCalls \ {call}
          /\ IF call.op = "remove" THEN Release(vmUsed[call.id]) ELSE UNCHANGED <<vmUsed, vmIdOf>>
    BY DEF TaskSucceeds
  <1>2. /\ vmNode' = vmNode /\ vmFound' = vmFound /\ vmTasks' = vmTasks /\ vmSynced' = vmSynced
        /\ vmFaults' = vmFaults /\ vmShared' = vmShared /\ vmOvertaken' = vmOvertaken
    BY DEF TaskSucceeds
  <1>3. call.id \in VmIds
    BY DEF VmTypeOK, Calls
  <1>4. CASE call.op # "remove"
    BY <1>1, <1>2, <1>4 DEF VmTypeOK, TableAgrees, RemovedIsGone, EveryVmIsKnown
  <1>5. CASE call.op = "remove"
    <2> DEFINE name == vmUsed[call.id]
    <2>1. name \in TableNames \cup {NoName} /\ Release(name)
      BY <1>1, <1>3, <1>5 DEF VmTypeOK
    <2>2. /\ vmUsed' \in [VmIds -> TableNames \cup {NoName}]
          /\ vmIdOf' \in [TableNames -> VmIds \cup {0}]
          /\ TableAgrees'
          /\ \A j \in VmIds : vmUsed[j] # name => vmUsed'[j] = vmUsed[j]
          /\ \A n \in TableNames : n # name => vmIdOf'[n] = vmIdOf[n]
      BY <1>2, <2>1, ReleaseFacts
    <2>3. VmTypeOK' /\ RemovedIsGone'
      BY <1>1, <1>2, <2>2 DEF VmTypeOK, RemovedIsGone
    <2>4. EveryVmIsKnown'
      <3> SUFFICES ASSUME vmSynced, NEW j \in VmIds, vmNode[j] \in VmNames, j \notin vmOvertaken,
                          VmHostname[vmNode[j]] \notin vmShared
                   PROVE  vmUsed'[j] \in {vmNode[j], VmHostname[vmNode[j]]} /\ vmIdOf'[vmUsed'[j]] = j
        BY <1>2 DEF EveryVmIsKnown
      <3>1. vmUsed[j] \in {vmNode[j], VmHostname[vmNode[j]]} /\ vmIdOf[vmUsed[j]] = j
        BY DEF EveryVmIsKnown
      <3>2. vmUsed[j] \in TableNames
        BY <3>1, VmAssumption DEF VmTypeOK, Owners, TableNames
      <3>3. j # call.id
        BY <1>1, <1>5 DEF RemovedIsGone
      <3>4. ASSUME vmUsed[j] = name PROVE FALSE
        <4>1. CASE vmUsed[j] = vmNode[j]
          BY <1>3, <3>1, <3>3, <3>4, <4>1 DEF TableAgrees
        <4>2. CASE vmUsed[j] = VmHostname[vmNode[j]]
          <5>1. vmUsed[j] \in Hostnames \ vmShared
            BY <4>2 DEF Owners
          <5> QED
            BY <1>3, <3>3, <3>4, <5>1 DEF TableAgrees
        <4> QED
          BY <3>1, <4>1, <4>2
      <3> HIDE DEF name
      <3> QED
        BY <2>2, <3>1, <3>2, <3>4
    <2> QED
      BY <2>2, <2>3, <2>4
  <1> QED
    BY <1>4, <1>5

LEMMA VmRestartInv ==
  ASSUME VmInv, RestartVms
  PROVE  VmInv'
  <1> USE VmNamesApart DEF VmInv
  <1> DEFINE under == [h \in Hostnames |-> {i \in VmIds : vmNode[i] # NoName /\ VmHostname[vmNode[i]] = h}]
  <1>1. /\ vmNode' = vmNode /\ vmFound' = {} /\ vmCalls' = {} /\ vmOvertaken' = {}
        /\ vmTasks' \subseteq Calls /\ vmFaults' \in 0 .. MaxVmFaults
    BY VmAssumption DEF RestartVms, VmFault, VmTypeOK
  <1>2. CASE /\ vmSynced' = TRUE
             /\ vmUsed' = [i \in VmIds |-> IF vmNode[i] = NoName THEN NoName ELSE VmHostname[vmNode[i]]]
             /\ vmIdOf' \in [TableNames -> VmIds \cup {0}]
             /\ \A name \in TableNames :
                  vmIdOf'[name] \in IF name \in Hostnames /\ under[name] # {} THEN under[name] ELSE {0}
             /\ vmShared' = {h \in Hostnames : \E i, j \in under[h] : i # j}
    <2>1. \A i \in VmIds : vmNode[i] # NoName => /\ vmNode[i] \in Owners /\ vmUsed'[i] = VmHostname[vmNode[i]]
                                                 /\ vmUsed'[i] \in Hostnames /\ i \in under[vmUsed'[i]]
      BY <1>2 DEF VmTypeOK
    <2>2. VmTypeOK'
      <3>1. vmUsed' \in [VmIds -> TableNames \cup {NoName}]
        BY <1>2, <2>1
      <3> QED
        BY <1>1, <1>2, <3>1 DEF VmTypeOK
    <2>3. \A h \in Hostnames : \A i \in under[h] : i \in VmIds /\ vmUsed'[i] = h
      BY <1>2
    <2>4. \A name \in TableNames : vmIdOf'[name] # 0 => name \in Hostnames /\ vmIdOf'[name] \in under[name]
      BY <1>2
    <2>5. \A h \in Hostnames \ vmShared' : \A i \in under[h] : \A j \in under[h] : i = j
      BY <1>2
    <2>6. \A i \in VmIds : vmUsed'[i] # NoName => vmNode[i] # NoName
      BY <1>2
    <2> HIDE DEF under
    <2>7. TableAgrees'
      <3>1. \A name \in TableNames : vmIdOf'[name] # 0 => vmUsed'[vmIdOf'[name]] = name
        BY <2>3, <2>4
      <3>2. \A i \in VmIds : vmUsed'[i] \notin VmNames
        BY <2>1, <2>6
      <3>3. ASSUME NEW i \in VmIds, NEW j \in VmIds, vmUsed'[i] \in Hostnames \ vmShared', vmUsed'[j] = vmUsed'[i]
            PROVE  i = j
        <4>1. PICK h \in Hostnames \ vmShared' : vmUsed'[i] = h /\ vmUsed'[j] = h
          BY <3>3
        <4>2. i \in under[h] /\ j \in under[h]
          BY <2>1, <2>6, <4>1
        <4> QED
          BY <2>5, <4>1, <4>2
      <3> QED
        BY <3>1, <3>2, <3>3 DEF TableAgrees
    <2>8. EveryVmIsKnown'
      <3> SUFFICES ASSUME NEW j \in VmIds, vmNode[j] \in VmNames, VmHostname[vmNode[j]] \notin vmShared'
                   PROVE  vmUsed'[j] = VmHostname[vmNode[j]] /\ vmIdOf'[vmUsed'[j]] = j
        BY <1>1 DEF EveryVmIsKnown
      <3>1. vmNode[j] # NoName
        OBVIOUS
      <3>2. vmUsed'[j] = VmHostname[vmNode[j]] /\ vmUsed'[j] \in Hostnames \ vmShared' /\ j \in under[vmUsed'[j]]
        BY <2>1, <3>1
      <3>3. vmIdOf'[vmUsed'[j]] \in under[vmUsed'[j]]
        BY <1>2, <3>2
      <3> QED
        BY <2>5, <3>2, <3>3
    <2> QED
      BY <1>1, <2>2, <2>7, <2>8 DEF RemovedIsGone
  <1>3. CASE /\ vmSynced' = FALSE /\ vmUsed' = [i \in VmIds |-> NoName]
             /\ vmIdOf' = [name \in TableNames |-> 0] /\ vmShared' = {}
    <2>1. VmTypeOK'
      BY <1>1, <1>3 DEF VmTypeOK
    <2> QED
      BY <1>1, <1>3, <2>1 DEF TableAgrees, RemovedIsGone, EveryVmIsKnown
  <1> QED
    BY <1>2, <1>3 DEF RestartVms

LEMMA VmNextInv == VmInv /\ [VmNext]_vmVars => VmInv'
  <1> SUFFICES ASSUME VmInv, [VmNext]_vmVars PROVE VmInv'
    OBVIOUS
  <1> USE VmNamesApart DEF VmInv
  <1>1. CASE FindContainer
    BY <1>1 DEF FindContainer, VmTypeOK, TableAgrees, RemovedIsGone, EveryVmIsKnown
  <1>2. ASSUME NEW i \in VmIds, BeginRemove(i) PROVE VmInv'
    <2>1. /\ vmCalls' \in {vmCalls, vmCalls \cup {[op |-> "remove", id |-> i, task |-> "running"]}}
          /\ vmFound' = vmFound \ {i}
          /\ UNCHANGED <<vmNode, vmUsed, vmIdOf, vmTasks, vmSynced, vmFaults, vmShared, vmOvertaken>>
      BY <1>2 DEF BeginRemove, Removes, Begin
    <2>2. VmTypeOK'
      BY <2>1 DEF VmTypeOK, Calls
    <2>3. RemovedIsGone'
      BY <2>1 DEF RemovedIsGone
    <2> QED
      BY <2>1, <2>2, <2>3 DEF TableAgrees, EveryVmIsKnown
  <1>3. CASE TaskEnds
    <2>1. PICK call \in vmCalls, well \in BOOLEAN :
            /\ call.task = "running" /\ NodeAfter(call, well)
            /\ vmCalls' = (vmCalls \ {call}) \cup {[call EXCEPT !.task = IF well THEN "done" ELSE "failed"]}
            /\ IF well THEN UNCHANGED vmFaults ELSE VmFault
      BY <1>3 DEF TaskEnds
    <2>2. UNCHANGED <<vmUsed, vmIdOf, vmFound, vmTasks, vmSynced, vmShared, vmOvertaken>>
      BY <1>3 DEF TaskEnds
    <2> DEFINE after == [call EXCEPT !.task = IF well THEN "done" ELSE "failed"]
    <2>3. call \in Calls /\ call.id \in VmIds
      BY DEF VmTypeOK, Calls
    <2>4. after \in Calls /\ after.id = call.id /\ after.op = call.op /\ after.task = IF well THEN "done" ELSE "failed"
      BY <2>3 DEF Calls
    <2>5. \A i \in VmIds : vmNode'[i] \in {vmNode[i], NoName}
      BY <2>1, <2>3 DEF NodeAfter, VmTypeOK
    <2>6. VmTypeOK'
      <3>1. vmNode' \in [VmIds -> Owners \cup {NoName}]
        BY <2>1, <2>3 DEF NodeAfter, VmTypeOK
      <3>2. vmCalls' \subseteq Calls
        BY <2>1, <2>4 DEF VmTypeOK
      <3>3. vmFaults' \in 0 .. MaxVmFaults
        BY <2>1, VmAssumption DEF VmFault, VmTypeOK
      <3> QED
        BY <2>2, <3>1, <3>2, <3>3 DEF VmTypeOK
    <2>7. RemovedIsGone'
      <3> SUFFICES ASSUME NEW c \in vmCalls', c.op = "remove", c.task = "done", vmNode'[c.id] \in VmNames
                   PROVE  c.id \in vmOvertaken
        BY <2>2 DEF RemovedIsGone
      <3>1. CASE c = after
        <4>1. well /\ call.op = "remove" /\ c.id = call.id
          BY <2>4, <3>1
        <4>2. vmNode'[c.id] = NoName
          BY <2>1, <2>3, <4>1 DEF NodeAfter, VmTypeOK
        <4> QED
          BY <4>2
      <3>2. CASE c # after
        <4>1. c \in vmCalls /\ c.id \in VmIds
          BY <2>1, <3>2 DEF VmTypeOK, Calls
        <4>2. vmNode[c.id] \in VmNames
          BY <2>5, <4>1
        <4> QED
          BY <4>1, <4>2 DEF RemovedIsGone
      <3> QED
        BY <3>1, <3>2
    <2>8. EveryVmIsKnown'
      BY <2>2, <2>5 DEF EveryVmIsKnown
    <2> QED
      BY <2>2, <2>6, <2>7, <2>8 DEF TableAgrees
  <1>4. CASE LateTask
    <2>1. PICK task \in vmTasks, well \in BOOLEAN : NodeAfter(task, well) /\ vmTasks' = vmTasks \ {task}
      BY <1>4 DEF LateTask
    <2>2. UNCHANGED <<vmUsed, vmIdOf, vmFound, vmCalls, vmSynced, vmFaults, vmShared, vmOvertaken>>
      BY <1>4 DEF LateTask
    <2>3. /\ vmNode' \in [VmIds -> Owners \cup {NoName}]
          /\ \A i \in VmIds : vmNode'[i] \in {vmNode[i], NoName}
      BY <2>1 DEF NodeAfter, VmTypeOK, Calls
    <2>4. VmTypeOK'
      BY <2>1, <2>2, <2>3 DEF VmTypeOK
    <2>5. RemovedIsGone'
      BY <2>2, <2>3 DEF RemovedIsGone, VmTypeOK, Calls
    <2>6. EveryVmIsKnown'
      BY <2>2, <2>3 DEF EveryVmIsKnown
    <2> QED
      BY <2>2, <2>4, <2>5, <2>6 DEF TableAgrees
  <1>5. CASE TaskFails
    BY <1>5 DEF TaskFails, VmTypeOK, TableAgrees, RemovedIsGone, EveryVmIsKnown
  <1>6. CASE TaskOutlasts
    BY <1>6, VmAssumption DEF TaskOutlasts, VmFault, VmTypeOK, TableAgrees, RemovedIsGone, EveryVmIsKnown
  <1>7. CASE StrangerActs
    <2>1. /\ vmNode' \in [VmIds -> Owners \cup {NoName}]
          /\ \A i \in VmIds : vmNode'[i] \in {vmNode[i], NoName, Stranger}
      BY <1>7 DEF StrangerActs, VmTypeOK, Owners
    <2> QED
      BY <1>7, <2>1 DEF StrangerActs, VmTypeOK, Calls, TableAgrees, RemovedIsGone, EveryVmIsKnown
  <1>8. CASE UNCHANGED vmVars
    BY <1>8 DEF vmVars, VmTypeOK, TableAgrees, RemovedIsGone, EveryVmIsKnown
  <1> QED
    BY <1>1, <1>2, <1>3, <1>4, <1>5, <1>6, <1>7, <1>8, VmCreateInv, VmRemovedInv, VmRestartInv DEF VmNext

\* Through calls side by side, tasks that fail, outlast the wait or end late, removals of a
\* VMID that changed hands, and restarts that list the node, a container of mkube's holds its
\* VMID under a name that leads back to it, unless its hostname was listed twice or its
\* creation overtook a removal: the table is two maps that stay inverse to each other.
THEOREM VmsKnownTheorem == VmSpec => []EveryVmIsKnown
  <1>1. VmInv => EveryVmIsKnown
    BY DEF VmInv
  <1> QED
    BY <1>1, VmInitInv, VmNextInv, PTL DEF VmSpec

-----------------------------------------------------------------------------
(* ImageRollout: a redeploy is fresh. *)

\* What was asked for had been pushed.
AskedWasThere == asked <= latest

\* While a redeploy is under way, the tarball of the cache is no older than the request if
\* the pods name it as the cache does, and the one that a thread has pulled and holds the
\* mutex over is there.
CacheIsFresh ==
  /\ ~rewritten /\ rolling["redeploy"].step # "rest" => tarball = 0 \/ tarball >= asked
  /\ \A t \in Rollers : rolling[t].step = "pulled" => tarball # 0

\* The mutex of the cache.
OneInCache ==
  \A s, t \in Rollers :
    rolling[s].step \in {"refresh", "pulled"} /\ rolling[t].step \in {"refresh", "pulled"} => s = t

\* The registry holds something from the start.
LatestIsPushed == latest > 0

RolloutInv == RolloutTypeOK /\ AskedWasThere /\ CacheIsFresh /\ OneInCache /\ LatestIsPushed

LEMMA RolloutTypeNext == RolloutTypeOK /\ [RolloutNext]_rolloutVars => RolloutTypeOK'
  <1> SUFFICES ASSUME RolloutTypeOK, [RolloutNext]_rolloutVars PROVE RolloutTypeOK'
    OBVIOUS
  <1> USE RolloutAssumption DEF RolloutTypeOK, Resting, Rollers, cacheVars, requestVars, restVars
  <1>1. CASE PushImage
    <2>1. {notified', rewritten'} \subseteq BOOLEAN
      <3>1. rewritten' = rewritten
        BY <1>1 DEF PushImage
      <3>2. notified' \in {TRUE, notified}
        BY <1>1, Zenon DEF PushImage
      <3> QED
        BY <3>1, <3>2, Zenon
    <2> QED
      BY <1>1, <2>1 DEF PushImage
  <1>2. CASE ClearImageDigestByRepo
    <2>1. {notified', rewritten'} \subseteq BOOLEAN
      <3>1. rewritten' = rewritten /\ notified' = FALSE
        BY <1>2, Zenon DEF ClearImageDigestByRepo
      <3> QED
        BY <3>1, Zenon
    <2> QED
      BY <1>2, <2>1 DEF ClearImageDigestByRepo
  <1>3. CASE CheckDigest
    BY <1>3 DEF CheckDigest
  <1>4. CASE RefreshImage
    <2>1. \A first \in AutoPods : Stales(AutoPods \ {first}) \subseteq AutoPods
      BY DEF Stales
    <2> QED
      BY <1>4, <2>1 DEF RefreshImage
  <1>5. CASE RedeployRequest
    BY <1>5 DEF RedeployRequest, Redeploys
  <1>6. ASSUME NEW t \in Rollers, PullImage(t) \/ HaltRollout(t) PROVE RolloutTypeOK'
    BY <1>6 DEF PullImage, HaltRollout
  <1>7. ASSUME NEW t \in Rollers, NEW p \in AutoPods, SessionHit(t, p) PROVE RolloutTypeOK'
    BY <1>7 DEF SessionHit, Updated
  <1>8. ASSUME NEW t \in Rollers, NEW p \in AutoPods, EnsureImage(t, p) PROVE RolloutTypeOK'
    BY <1>8 DEF EnsureImage, Updated
  <1>9. CASE RefreshFails
    BY <1>9 DEF RefreshFails
  <1>10. ASSUME NEW t \in Rollers, NEW p \in AutoPods, PullFails(t, p) PROVE RolloutTypeOK'
    BY <1>10 DEF PullFails, Updated
  <1>11. CASE UNCHANGED rolloutVars
    BY <1>11 DEF rolloutVars
  <1> QED
    BY <1>1, <1>2, <1>3, <1>4, <1>5, <1>6, <1>7, <1>8, <1>9, <1>10, <1>11
    DEF RolloutNext, CheckNext, UpdateAny

LEMMA RolloutNextInv == RolloutInv /\ [RolloutNext]_rolloutVars => RolloutInv'
  <1> SUFFICES ASSUME RolloutInv, [RolloutNext]_rolloutVars PROVE RolloutInv'
    OBVIOUS
  <1>0. RolloutTypeOK'
    BY RolloutTypeNext DEF RolloutInv
  <1> USE <1>0, RolloutAssumption
      DEF RolloutInv, RolloutTypeOK, AskedWasThere, CacheIsFresh, OneInCache, LatestIsPushed,
          CacheFree, Resting, Rollers, cacheVars, requestVars, restVars
  <1>1. CASE PushImage
    BY <1>1 DEF PushImage
  <1>2. CASE ClearImageDigestByRepo
    BY <1>2 DEF ClearImageDigestByRepo
  <1>3. CASE CheckDigest
    BY <1>3 DEF CheckDigest
  <1>4. CASE RefreshImage
    BY <1>4 DEF RefreshImage
  <1>5. CASE RedeployRequest
    BY <1>5 DEF RedeployRequest, Redeploys
  <1>6. ASSUME NEW t \in Rollers, PullImage(t) \/ HaltRollout(t) PROVE RolloutInv'
    BY <1>6 DEF PullImage, HaltRollout
  <1>7. ASSUME NEW t \in Rollers, NEW p \in AutoPods, SessionHit(t, p) PROVE RolloutInv'
    BY <1>7 DEF SessionHit, Updated
  <1>8. ASSUME NEW t \in Rollers, NEW p \in AutoPods, EnsureImage(t, p) PROVE RolloutInv'
    BY <1>8 DEF EnsureImage, Updated
  <1>9. CASE RefreshFails
    BY <1>9 DEF RefreshFails
  <1>10. ASSUME NEW t \in Rollers, NEW p \in AutoPods, PullFails(t, p) PROVE RolloutInv'
    BY <1>10 DEF PullFails, Updated
  <1>11. CASE UNCHANGED rolloutVars
    BY <1>11 DEF rolloutVars
  <1> QED
    BY <1>1, <1>2, <1>3, <1>4, <1>5, <1>6, <1>7, <1>8, <1>9, <1>10, <1>11
    DEF RolloutNext, CheckNext, UpdateAny

\* A pod that leaves the redeploy's set was given up, or created from the tarball.
LEMMA RolloutStepFresh ==
  ASSUME RolloutInv, [RolloutNext]_rolloutVars, NEW p \in AutoPods,
         ~rewritten, rolling["redeploy"].step # "rest",
         p \in rolling["redeploy"].pods, p \notin rolling'["redeploy"].pods
  PROVE  running'[p] >= asked \/ running' = running
  <1> USE DEF RolloutInv, RolloutTypeOK, CacheIsFresh, Rollers, cacheVars, requestVars, restVars
  <1>1. CASE PushImage \/ ClearImageDigestByRepo \/ CheckDigest \/ RedeployRequest
    BY <1>1 DEF PushImage, ClearImageDigestByRepo, CheckDigest, RedeployRequest, Redeploys
  <1>2. CASE RefreshImage \/ RefreshFails
    BY <1>2 DEF RefreshImage, RefreshFails
  <1>3. ASSUME NEW t \in Rollers, PullImage(t) \/ HaltRollout(t) \/ \E q \in AutoPods : PullFails(t, q)
        PROVE  running' = running
    BY <1>3 DEF PullImage, HaltRollout, PullFails
  <1>4. ASSUME NEW t \in Rollers, NEW q \in AutoPods, SessionHit(t, q) \/ EnsureImage(t, q)
        PROVE  running'[p] >= asked
    <2>1. t = "redeploy" /\ q = p
      BY <1>4 DEF SessionHit, EnsureImage, Updated
    <2>2. tarball # 0 /\ running'[p] = tarball
      BY <1>4, <2>1 DEF SessionHit, EnsureImage
    <2> QED
      BY <2>2
  <1> QED
    BY <1>1, <1>2, <1>3, <1>4 DEF RolloutNext, CheckNext, UpdateAny, rolloutVars

\* A redeploy never installs an image older than what the registry held when it was asked
\* for, though the reconcile loop pulls, clears and refreshes the same cache entry between
\* its steps, and the registry moves.
THEOREM RedeployFreshTheorem == RolloutSpec => RedeployIsFresh
  <1>1. RolloutInit => RolloutInv
    <2> SUFFICES ASSUME RolloutInit PROVE RolloutInv
      OBVIOUS
    <2>1. {notified, rewritten} \subseteq BOOLEAN
      <3>1. notified = FALSE /\ rewritten \in BOOLEAN
        BY Zenon DEF RolloutInit
      <3> QED
        BY <3>1, Zenon
    <2>2. RolloutTypeOK
      BY <2>1, RolloutAssumption DEF RolloutInit, RolloutTypeOK, Resting, Rollers
    <2> QED
      BY <2>2, RolloutAssumption
      DEF RolloutInit, RolloutInv, AskedWasThere, CacheIsFresh, OneInCache, LatestIsPushed,
          Resting, Rollers
  <1>2. RolloutInv /\ [RolloutNext]_rolloutVars =>
          \A p \in AutoPods :
            ~rewritten /\ rolling["redeploy"].step # "rest"
              /\ p \in rolling["redeploy"].pods /\ p \notin rolling'["redeploy"].pods
              => running'[p] >= asked \/ running' = running
    BY RolloutStepFresh
  <1> QED
    BY <1>1, <1>2, RolloutNextInv, PTL DEF RolloutSpec, RedeployIsFresh

-----------------------------------------------------------------------------
(* HostRecords: hosts, reservations, records and boot configs stay in step. *)

AllCopies == Copies \cup {"dns"}

HostTyped ==
  /\ nameOf \in [BareHosts -> HostNames]
  /\ hostObjs \in [Copies -> [BareHosts -> Host \cup {Absent}]]
  /\ \A c \in Copies, h \in BareHosts : hostObjs[c][h] \in HostOf(h) \cup {Absent}
  /\ resv \in [AllCopies -> [DataNets -> SUBSET AllMacs]]
  /\ inUse \in [Copies -> [BootConfigs -> [there : BOOLEAN, by : SUBSET HostNames]]]
  /\ aRecords \subseteq DataNets \X BareHosts
  /\ bound \in [BareHosts -> BootConfigs \cup {NoHost}]

\* Both copies know the same boot configs; one that is not there has no list.
SameConfigs == \A b \in BootConfigs :
  /\ inUse["store"][b].there = inUse["mem"][b].there
  /\ \A c \in Copies : inUse[c][b].there \/ inUse[c][b].by = {}

\* A host that is not torn: both copies of its object, its reservation, its record and its
\* boot config.
IsStored == \A h \in BareHosts : h \notin torn => hostObjs["mem"][h] = hostObjs["store"][h]
IsReserved == \A h \in BareHosts : Known(h) /\ h \notin torn =>
  \A c \in AllCopies : hostObjs["mem"][h].mac \in resv[c][hostObjs["mem"][h].net]
IsRecorded == \A h \in BareHosts : Known(h) /\ h \notin torn /\ nameOf[h] \notin shared =>
  <<hostObjs["mem"][h].net, h>> \in aRecords
IsListed == \A h \in BareHosts : bound[h] # NoHost /\ h \notin torn =>
  /\ Known(h) /\ hostObjs["mem"][h].ref = bound[h]
  /\ nameOf[h] \notin shared =>
       \A c \in Copies : inUse[c][bound[h]].there /\ nameOf[h] \in inUse[c][bound[h]].by

\* A host that never lost a write has no record elsewhere, and none when it is not known.
NoStrayRecord == \A h \in BareHosts : h \notin scars =>
  /\ hostObjs["mem"][h] = hostObjs["store"][h]
  /\ \A n \in DataNets : <<n, h>> \in aRecords => Known(h) /\ n = hostObjs["mem"][h].net
\* Without a lost write the lists agree and have nobody who does not refer to the config.
NoStrayEntry == scars = {} =>
  /\ inUse["store"] = inUse["mem"]
  /\ \A b \in BootConfigs : \A n \in inUse["mem"][b].by :
       \E h \in BareHosts : Known(h) /\ nameOf[h] = n /\ hostObjs["mem"][h].ref = b
\* Hosts of a name that is not shared are not there at the same time, in any copy.
OneOfAName == \A h, k \in BareHosts : h # k /\ nameOf[h] = nameOf[k] /\ nameOf[h] \notin shared =>
  \A c, d \in Copies : hostObjs[c][h] = Absent \/ hostObjs[d][k] = Absent

HostInv == HostTyped /\ SameConfigs /\ IsStored /\ IsReserved /\ IsRecorded /\ IsListed
           /\ NoStrayRecord /\ NoStrayEntry /\ OneOfAName

LEMMA MacsFacts ==
  /\ \A h \in BareHosts : Macs(h) \subseteq AllMacs
  /\ \A h, k \in BareHosts : h # k => Macs(h) \cap Macs(k) = {}
  /\ \A h \in BareHosts : \A o \in HostOf(h) :
       /\ o \in Host /\ o.mac \in Macs(h) /\ o.mac \in AllMacs /\ o.net \in DataNets
       /\ o.net # NoHost /\ o.ref \in BootConfigs \cup {NoHost} /\ o # Absent
  BY HostAssumption DEF Macs, AllMacs, HostOf, Host, Absent

LEMMA HostInvImplies == HostInv => HostsInStep
  <1> SUFFICES ASSUME HostInv PROVE Reserved /\ ConfigsInUseStay
    BY DEF HostsInStep
  <1>1. DOMAIN resv = AllCopies
    BY DEF HostInv, HostTyped
  <1>2. Reserved
    BY <1>1, MacsFacts
    DEF Reserved, HostInv, HostTyped, IsReserved, IsRecorded, NoStrayRecord, Known, Copies
  <1>3. ConfigsInUseStay
    BY DEF ConfigsInUseStay, HostInv, IsListed, NoStrayEntry
  <1> QED
    BY <1>2, <1>3

LEMMA HostInitInv == HostInit => HostInv
  <1> SUFFICES ASSUME HostInit PROVE HostInv
    OBVIOUS
  <1>1. HostTyped
    BY DEF HostInit, HostTyped, AllCopies
  <1> QED
    BY <1>1
    DEF HostInit, HostInv, SameConfigs, IsStored, IsReserved, IsRecorded, IsListed,
        NoStrayRecord, NoStrayEntry, OneOfAName, Known, Copies

\* Reservations of other MACs stay, where memory and the copy have them.
LEMMA SyncedResvFacts ==
  ASSUME HostTyped, NEW mac \in AllMacs, NEW from, NEW to, NEW lost,
         resv' = SyncedResv(mac, from, to, lost)
  PROVE  /\ resv' \in [AllCopies -> [DataNets -> SUBSET AllMacs]]
         /\ \A m \in AllMacs, c \in AllCopies, n \in DataNets :
              m # mac /\ m \in resv[c][n] /\ m \in resv["mem"][n] => m \in resv'[c][n]
  <1> DEFINE Moved(macs, n) ==
               IF n = to THEN macs \cup {mac}
               ELSE IF n = from /\ mac \in resv["mem"][n] THEN macs \ {mac} ELSE macs
             written == {n \in {from, to} \cap DataNets :
                           (n = to \/ mac \in resv["mem"][n]) /\ <<"store", n>> \notin lost}
             nets == [n \in DataNets |-> Moved(resv["mem"][n], n)]
             Copy(c, n) == CASE c = "mem"   -> nets[n]
                             [] c = "store" -> IF n \in written THEN nets[n] ELSE resv[c][n]
                             [] c = "dns"   -> IF n \in written /\ <<"dns", n>> \notin lost
                                                 THEN Moved(resv[c][n], n) ELSE resv[c][n]
  <1>1. DOMAIN resv = AllCopies
    BY DEF HostTyped
  <1>2. resv' = [c \in AllCopies |-> [n \in DataNets |-> Copy(c, n)]]
    BY <1>1 DEF SyncedResv
  <1>3. \A n \in DataNets, macs \in SUBSET AllMacs : Moved(macs, n) \in SUBSET AllMacs
    OBVIOUS
  <1>4. \A n \in DataNets, c \in AllCopies : resv[c][n] \in SUBSET AllMacs
    BY DEF HostTyped
  <1>5. \A n \in DataNets : nets[n] = Moved(resv["mem"][n], n) /\ nets[n] \in SUBSET AllMacs
    BY <1>3, <1>4 DEF AllCopies, Copies
  <1>6. \A n \in DataNets : \A macs, m : m # mac /\ m \in macs => m \in Moved(macs, n)
    OBVIOUS
  <1> HIDE DEF Moved, written, nets
  <1>7. \A c \in AllCopies, n \in DataNets : Copy(c, n) \in SUBSET AllMacs
    <2> SUFFICES ASSUME NEW c \in AllCopies, NEW n \in DataNets PROVE Copy(c, n) \in SUBSET AllMacs
      OBVIOUS
    <2>1. c = "mem" \/ c = "store" \/ c = "dns"
      BY DEF AllCopies, Copies
    <2> QED
      BY <1>3, <1>4, <1>5, <2>1
  <1>8. \A c \in AllCopies, n \in DataNets : \A m :
          m # mac /\ m \in resv[c][n] /\ m \in resv["mem"][n] => m \in Copy(c, n)
    <2> SUFFICES ASSUME NEW c \in AllCopies, NEW n \in DataNets, NEW m,
                        m # mac, m \in resv[c][n], m \in resv["mem"][n]
                 PROVE  m \in Copy(c, n)
      OBVIOUS
    <2>1. c = "mem" \/ c = "store" \/ c = "dns"
      BY DEF AllCopies, Copies
    <2>2. m \in nets[n]
      BY <1>5, <1>6
    <2>3. m \in Moved(resv[c][n], n)
      BY <1>6
    <2> QED
      BY <2>1, <2>2, <2>3
  <1> HIDE DEF Copy
  <1>9. \A c \in AllCopies, n \in DataNets : resv'[c][n] = Copy(c, n)
    BY <1>2
  <1>10. resv' \in [AllCopies -> [DataNets -> SUBSET AllMacs]]
    BY <1>2, <1>7
  <1> QED
    BY <1>8, <1>9, <1>10

\* Entries of other names stay, in memory and where memory and the store have them.
LEMMA PutUseFacts ==
  ASSUME HostTyped, SameConfigs, NEW n \in HostNames, NEW from, NEW to, NEW lost,
         inUse' = PutUse(n, from, to, lost)
  PROVE  /\ inUse' \in [Copies -> [BootConfigs -> [there : BOOLEAN, by : SUBSET HostNames]]]
         /\ SameConfigs'
         /\ \A c \in Copies, b \in BootConfigs : inUse'[c][b].there = inUse[c][b].there
         /\ \A m \in HostNames, c \in Copies, b \in BootConfigs :
              m # n /\ m \in inUse[c][b].by /\ m \in inUse["mem"][b].by => m \in inUse'[c][b].by
         /\ to \in BootConfigs /\ inUse["mem"][to].there => n \in inUse'["mem"][to].by
         /\ \A b \in BootConfigs : \A m \in inUse'["mem"][b].by :
              IF m = n THEN b = to \/ (b # from /\ m \in inUse["mem"][b].by)
              ELSE m \in inUse["mem"][b].by
         /\ lost = {} /\ inUse["store"] = inUse["mem"] => inUse'["store"] = inUse'["mem"]
  <1> DEFINE use == SyncedUse(n, from, to)
             written == {b \in BootConfigs : /\ use[b] # inUse["mem"][b] \/ (b = from /\ from # to)
                                             /\ <<"config", b>> \notin lost}
             Config == [there : BOOLEAN, by : SUBSET HostNames]
  <1>1. "mem" \in Copies /\ "store" \in Copies /\ "mem" # "store"
        /\ \A c \in Copies : c = "mem" \/ c = "store"
    BY DEF Copies
  <1>2. inUse' = [inUse EXCEPT !["mem"] = use,
                    !["store"] = [b \in BootConfigs |-> IF b \in written THEN use[b] ELSE @[b]]]
    BY DEF PutUse
  <1>3. \A c \in Copies, b \in BootConfigs : inUse[c][b] \in Config
    BY DEF HostTyped
  <1>4. ASSUME NEW b \in BootConfigs
        PROVE  /\ use[b] \in Config /\ use[b].there = inUse["mem"][b].there
               /\ use[b].there \/ use[b].by = {}
               /\ \A m \in HostNames : m # n => (m \in use[b].by <=> m \in inUse["mem"][b].by)
               /\ b = to /\ use[b].there => n \in use[b].by
               /\ n \in use[b].by => b = to \/ (b # from /\ n \in inUse["mem"][b].by)
    <2>1. inUse["mem"][b] \in Config /\ (inUse["mem"][b].there \/ inUse["mem"][b].by = {})
      BY <1>1, <1>3 DEF SameConfigs
    <2>2. use[b] = IF ~inUse["mem"][b].there THEN inUse["mem"][b]
                   ELSE IF b = to THEN [inUse["mem"][b] EXCEPT !.by = @ \cup {n}]
                   ELSE IF b = from THEN [inUse["mem"][b] EXCEPT !.by = @ \ {n}]
                   ELSE inUse["mem"][b]
      BY DEF SyncedUse
    <2> HIDE DEF use
    <2> QED
      BY <2>1, <2>2
  <1>5. use \in [BootConfigs -> Config]
    <2>1. use = [b \in BootConfigs |-> use[b]]
      BY DEF SyncedUse
    <2> QED
      BY <1>4, <2>1
  <1> HIDE DEF use, written
  <1>6. /\ inUse'["mem"] = use
        /\ inUse'["store"] = [b \in BootConfigs |-> IF b \in written THEN use[b]
                                                   ELSE inUse["store"][b]]
        /\ inUse' \in [Copies -> [BootConfigs -> Config]]
    <2>1. inUse \in [Copies -> [BootConfigs -> Config]]
      BY DEF HostTyped
    <2>2. /\ inUse'["mem"] = use
          /\ inUse'["store"] = [b \in BootConfigs |-> IF b \in written THEN use[b]
                                                     ELSE inUse["store"][b]]
          /\ DOMAIN inUse' = Copies /\ inUse' = [c \in Copies |-> inUse'[c]]
      BY <1>1, <1>2, <2>1
    <2>3. inUse'["store"] \in [BootConfigs -> Config]
      BY <1>1, <1>3, <1>4, <2>2
    <2> QED
      BY <1>1, <1>5, <2>2, <2>3
  <1>12. \A b \in BootConfigs : /\ inUse'["mem"][b] = use[b]
                                /\ inUse'["store"][b] \in {use[b], inUse["store"][b]}
    BY <1>6
  <1>13. \A c \in Copies, b \in BootConfigs : inUse'[c][b] \in {use[b], inUse[c][b]}
    BY <1>1, <1>12
  <1>14. \A c \in Copies, b \in BootConfigs : inUse[c][b].there = inUse["mem"][b].there
    BY <1>1 DEF SameConfigs
  <1>15. \A c \in Copies, b \in BootConfigs :
           /\ inUse'[c][b].there = inUse[c][b].there
           /\ inUse'[c][b].there \/ inUse'[c][b].by = {}
    BY <1>4, <1>13, <1>14 DEF SameConfigs
  <1>7. SameConfigs' /\ \A c \in Copies, b \in BootConfigs : inUse'[c][b].there = inUse[c][b].there
    BY <1>1, <1>14, <1>15 DEF SameConfigs
  <1>8. \A m \in HostNames, c \in Copies, b \in BootConfigs :
          m # n /\ m \in inUse[c][b].by /\ m \in inUse["mem"][b].by => m \in inUse'[c][b].by
    BY <1>4, <1>13
  <1>9. lost = {} /\ inUse["store"] = inUse["mem"] => inUse'["store"] = inUse'["mem"]
    <2> SUFFICES ASSUME lost = {}, inUse["store"] = inUse["mem"] PROVE inUse'["store"] = use
      BY <1>6
    <2>1. \A b \in BootConfigs : b \notin written => use[b] = inUse["mem"][b]
      BY DEF written
    <2> QED
      BY <1>5, <1>6, <2>1
  <1>10. \A b \in BootConfigs : \A m \in inUse'["mem"][b].by :
           IF m = n THEN b = to \/ (b # from /\ m \in inUse["mem"][b].by)
           ELSE m \in inUse["mem"][b].by
    BY <1>4, <1>6
  <1>11. to \in BootConfigs /\ inUse["mem"][to].there => n \in inUse'["mem"][to].by
    BY <1>4, <1>6
  <1> QED
    BY <1>6, <1>7, <1>8, <1>9, <1>10, <1>11

LEMMA WriteHostInv ==
  ASSUME HostInv, NEW h \in BareHosts, NEW new \in HostOf(h), WriteHost(h, new)
  PROVE  HostInv'
  <1> DEFINE old == IF Known(h) THEN hostObjs["mem"][h] ELSE Absent
             Lasting(k) == k # h /\ Known(k)
  <1>1. PICK lost : /\ resv' = SyncedResv(new.mac, old.net, new.net, lost)
                    /\ aRecords' = SyncedRecords(h, old.net, new.net, lost)
                    /\ inUse' = PutUse(nameOf[h], old.ref, new.ref, lost)
                    /\ Scar(h, lost)
    BY DEF WriteHost
  <1>2. /\ hostObjs' = Both(hostObjs, h, new) /\ nameOf' = nameOf
        /\ bound' = [bound EXCEPT ![h] = IF new.ref = NoHost THEN NoHost
                        ELSE IF inUse["mem"][new.ref].there THEN new.ref ELSE NoHost]
        /\ torn' = IF Lands(h, new) THEN torn \ {h} ELSE torn \cup {h}
        /\ Meets(h)
    BY DEF WriteHost
  <1>3. /\ nameOf[h] \in HostNames
        /\ new \in Host /\ new.mac \in Macs(h) /\ new.mac \in AllMacs /\ new.net \in DataNets
        /\ new.ref \in BootConfigs \cup {NoHost} /\ new # Absent /\ NoHost \notin BootConfigs
    BY MacsFacts, HostAssumption DEF HostInv, HostTyped
  <1>4. /\ "mem" \in Copies /\ "store" \in Copies /\ "mem" # "store"
        /\ \A c \in Copies : c = "mem" \/ c = "store"
    BY DEF Copies
  <1>5. /\ hostObjs' \in [Copies -> [BareHosts -> Host \cup {Absent}]]
        /\ \A c \in Copies, k \in BareHosts :
             hostObjs'[c][k] = IF k = h THEN new ELSE hostObjs[c][k]
    BY <1>2, <1>3 DEF Both, HostInv, HostTyped
  <1>6. /\ Known(h)' /\ \A k \in BareHosts : k # h => (Known(k)' <=> Known(k))
    BY <1>3, <1>4, <1>5 DEF Known
  <1>7. /\ resv' \in [AllCopies -> [DataNets -> SUBSET AllMacs]]
        /\ \A m \in AllMacs, c \in AllCopies, n \in DataNets :
             m # new.mac /\ m \in resv[c][n] /\ m \in resv["mem"][n] => m \in resv'[c][n]
    BY <1>1, <1>3, SyncedResvFacts DEF HostInv
  <1>8. /\ inUse' \in [Copies -> [BootConfigs -> [there : BOOLEAN, by : SUBSET HostNames]]]
        /\ SameConfigs'
        /\ \A c \in Copies, b \in BootConfigs : inUse'[c][b].there = inUse[c][b].there
        /\ \A m \in HostNames, c \in Copies, b \in BootConfigs :
             m # nameOf[h] /\ m \in inUse[c][b].by /\ m \in inUse["mem"][b].by
               => m \in inUse'[c][b].by
        /\ new.ref \in BootConfigs /\ inUse["mem"][new.ref].there
             => nameOf[h] \in inUse'["mem"][new.ref].by
        /\ \A b \in BootConfigs : \A m \in inUse'["mem"][b].by :
             IF m = nameOf[h] THEN b = new.ref \/ (b # old.ref /\ m \in inUse["mem"][b].by)
             ELSE m \in inUse["mem"][b].by
        /\ lost = {} /\ inUse["store"] = inUse["mem"] => inUse'["store"] = inUse'["mem"]
    BY <1>1, <1>3, PutUseFacts DEF HostInv
  <1>9. bound' \in [BareHosts -> BootConfigs \cup {NoHost}]
    BY <1>2, <1>3 DEF HostInv, HostTyped
  <1>10. /\ aRecords' \subseteq DataNets \X BareHosts
         /\ \A n \in DataNets, k \in BareHosts :
              <<n, k>> \in aRecords' => <<n, k>> \in aRecords \/ (k = h /\ n = new.net)
         /\ \A n \in DataNets : \A k \in BareHosts :
              <<n, k>> \in aRecords /\ k # h /\ k \notin Namesakes(h) => <<n, k>> \in aRecords'
         /\ lost = {} => \A n \in DataNets : <<n, h>> \in aRecords' => n # old.net \/ n = new.net
    <2> HIDE DEF old
    <2> DEFINE here == {n \in DataNets : <<"record", n>> \notin lost}
               added == {<<n, h>> : n \in here \cap {new.net}}
    <2>1. aRecords' =
            {r \in aRecords : /\ r = <<old.net, h>> /\ old.net \in here => old.net = new.net
                              /\ r[1] = new.net /\ new.net \in here => r[2] \notin Namesakes(h)}
              \cup added
      BY <1>1 DEF SyncedRecords
    <2>2. aRecords \subseteq DataNets \X BareHosts
      BY DEF HostInv, HostTyped
    <2>3. lost = {} => here = DataNets
      OBVIOUS
    <2>7. added \subseteq {<<new.net, h>>}
      OBVIOUS
    <2> HIDE DEF here, added
    <2>4. /\ aRecords' \subseteq DataNets \X BareHosts
          /\ \A n \in DataNets, k \in BareHosts :
               <<n, k>> \in aRecords' => <<n, k>> \in aRecords \/ (k = h /\ n = new.net)
      BY <1>3, <2>1, <2>2, <2>7
    <2>5. \A n \in DataNets : \A k \in BareHosts :
            <<n, k>> \in aRecords /\ k # h /\ k \notin Namesakes(h) => <<n, k>> \in aRecords'
      BY <2>1
    <2>6. lost = {} => \A n \in DataNets : <<n, h>> \in aRecords' => n # old.net \/ n = new.net
      BY <1>3, <2>1, <2>3, <2>7
    <2> QED
      BY <2>4, <2>5, <2>6
  <1>11. HostTyped'
    <2>1. \A c \in Copies, k \in BareHosts : hostObjs'[c][k] \in HostOf(k) \cup {Absent}
      BY <1>5 DEF HostInv, HostTyped
    <2> QED
      BY <1>2, <1>5, <1>7, <1>8, <1>9, <1>10, <2>1 DEF HostInv, HostTyped
  <1>12. /\ \A k \in BareHosts : k # h => (k \in torn' <=> k \in torn)
         /\ h \notin torn' => Lands(h, new)
         /\ \A k \in BareHosts : k \notin scars' => k \notin scars
         /\ h \notin scars' => lost = {}
         /\ scars' = {} => scars = {} /\ lost = {}
         /\ \A n : n \notin shared' => n \notin shared
         /\ nameOf[h] \notin shared' => \A k \in Namesakes(h), c \in Copies : hostObjs[c][k] = Absent
    BY <1>1, <1>2 DEF Scar, Meets
  <1> HIDE DEF old
  <1>13. IsStored'
    BY <1>4, <1>5, <1>12 DEF IsStored, HostInv
  <1>14. IsReserved'
    <2> SUFFICES ASSUME NEW k \in BareHosts, Known(k)', k \notin torn', NEW c \in AllCopies
                 PROVE  hostObjs'["mem"][k].mac \in resv'[c][hostObjs'["mem"][k].net]
      BY DEF IsReserved
    <2>1. CASE k = h
      <3>1. DOMAIN resv = AllCopies
        BY DEF HostInv, HostTyped
      <3>2. new.mac \in resv'[c][new.net]
        BY <1>12, <2>1, <3>1 DEF Lands
      <3> QED
        BY <1>4, <1>5, <2>1, <3>2
    <2>2. CASE k # h
      <3>1. hostObjs'["mem"][k] = hostObjs["mem"][k] /\ Known(k) /\ k \notin torn
        BY <1>4, <1>5, <1>6, <1>12, <2>2
      <3>2. hostObjs["mem"][k] \in HostOf(k)
        BY <1>4, <3>1 DEF Known, HostInv, HostTyped
      <3>3. /\ hostObjs["mem"][k].mac \in AllMacs /\ hostObjs["mem"][k].net \in DataNets
            /\ hostObjs["mem"][k].mac # new.mac
        BY <1>3, <2>2, <3>2, MacsFacts
      <3>4. \A d \in AllCopies : hostObjs["mem"][k].mac \in resv[d][hostObjs["mem"][k].net]
        BY <3>1 DEF HostInv, IsReserved
      <3>5. "mem" \in AllCopies
        BY DEF AllCopies, Copies
      <3> QED
        BY <1>7, <3>1, <3>3, <3>4, <3>5
    <2> QED
      BY <2>1, <2>2
  <1>15. \A k \in BareHosts : k # h /\ Known(k) /\ nameOf[k] \notin shared' => nameOf[k] # nameOf[h]
    BY <1>4, <1>12 DEF Namesakes, Known
  <1>16. IsRecorded'
    <2> SUFFICES ASSUME NEW k \in BareHosts, Known(k)', k \notin torn', nameOf[k] \notin shared'
                 PROVE  <<hostObjs'["mem"][k].net, k>> \in aRecords'
      BY <1>2 DEF IsRecorded
    <2>1. CASE k = h
      BY <1>4, <1>5, <1>12, <2>1 DEF Lands
    <2>2. CASE k # h
      <3>1. hostObjs'["mem"][k] = hostObjs["mem"][k] /\ Known(k) /\ k \notin torn
            /\ nameOf[k] \notin shared
        BY <1>4, <1>5, <1>6, <1>12, <2>2
      <3>2. hostObjs["mem"][k].net \in DataNets
        BY <1>4, <3>1, MacsFacts DEF Known, HostInv, HostTyped
      <3>3. k \notin Namesakes(h)
        BY <1>15, <2>2, <3>1 DEF Namesakes
      <3> QED
        BY <1>10, <2>2, <3>1, <3>2, <3>3 DEF HostInv, IsRecorded
    <2> QED
      BY <2>1, <2>2
  <1>17. IsListed'
    <2> SUFFICES ASSUME NEW k \in BareHosts, bound'[k] # NoHost, k \notin torn'
                 PROVE  /\ Known(k)' /\ hostObjs'["mem"][k].ref = bound'[k]
                        /\ nameOf[k] \notin shared' =>
                             \A c \in Copies : /\ inUse'[c][bound'[k]].there
                                               /\ nameOf[k] \in inUse'[c][bound'[k]].by
      BY <1>2 DEF IsListed
    <2>1. CASE k = h
      <3>1. bound'[h] = new.ref /\ new.ref \in BootConfigs /\ inUse["mem"][new.ref].there
        BY <1>2, <1>3, <2>1 DEF HostInv, HostTyped
      <3>2. nameOf[h] \in inUse'["store"][new.ref].by
        BY <1>12, <2>1 DEF Lands
      <3>4. \A c \in Copies : inUse[c][new.ref].there
        BY <1>4, <3>1 DEF HostInv, SameConfigs
      <3>3. \A c \in Copies : inUse'[c][new.ref].there
        BY <1>8, <3>1, <3>4
      <3> QED
        BY <1>4, <1>5, <1>6, <1>8, <2>1, <3>1, <3>2, <3>3
    <2>2. CASE k # h
      <3>1. /\ bound'[k] = bound[k] /\ k \notin torn /\ bound[k] \in BootConfigs
        BY <1>2, <1>9, <1>12, <2>2 DEF HostInv, HostTyped
      <3>2. Known(k)' /\ Known(k) /\ hostObjs'["mem"][k].ref = bound'[k]
        BY <1>4, <1>5, <1>6, <2>2, <3>1 DEF HostInv, IsListed
      <3>3. ASSUME nameOf[k] \notin shared', NEW c \in Copies
            PROVE  inUse'[c][bound[k]].there /\ nameOf[k] \in inUse'[c][bound[k]].by
        <4>1. nameOf[k] # nameOf[h] /\ nameOf[k] \in HostNames /\ nameOf[k] \notin shared
          BY <1>12, <1>15, <2>2, <3>2, <3>3 DEF HostInv, HostTyped
        <4>2. \A d \in Copies : inUse[d][bound[k]].there /\ nameOf[k] \in inUse[d][bound[k]].by
          BY <3>1, <4>1 DEF HostInv, IsListed
        <4> QED
          BY <1>4, <1>8, <3>1, <4>1, <4>2
      <3> QED
        BY <3>1, <3>2, <3>3
    <2> QED
      BY <2>1, <2>2
  <1>18. NoStrayRecord'
    <2> SUFFICES ASSUME NEW k \in BareHosts, k \notin scars'
                 PROVE  /\ hostObjs'["mem"][k] = hostObjs'["store"][k]
                        /\ \A n \in DataNets : <<n, k>> \in aRecords' =>
                             Known(k)' /\ n = hostObjs'["mem"][k].net
      BY DEF NoStrayRecord
    <2>1. k \notin scars
      BY <1>12
    <2>2. CASE k = h
      <3>1. lost = {}
        BY <1>12, <2>2
      <3>2. ASSUME NEW n \in DataNets, <<n, h>> \in aRecords' PROVE n = new.net
        <4>1. <<n, h>> \in aRecords => Known(h) /\ n = hostObjs["mem"][h].net
          BY <2>1, <2>2 DEF HostInv, NoStrayRecord
        <4>2. <<n, h>> \in aRecords => n = old.net
          BY <4>1 DEF old
        <4> QED
          BY <1>10, <3>1, <3>2, <4>2
      <3> QED
        BY <1>4, <1>5, <1>6, <2>2, <3>2
    <2>3. CASE k # h
      BY <1>4, <1>5, <1>6, <1>10, <2>1, <2>3 DEF HostInv, NoStrayRecord
    <2> QED
      BY <2>2, <2>3
  <1>19. NoStrayEntry'
    <2> SUFFICES ASSUME scars' = {}
                 PROVE  /\ inUse'["store"] = inUse'["mem"]
                        /\ \A b \in BootConfigs : \A n \in inUse'["mem"][b].by :
                             \E k \in BareHosts : Known(k)' /\ nameOf[k] = n
                                                  /\ hostObjs'["mem"][k].ref = b
      BY <1>2 DEF NoStrayEntry
    <2>1. scars = {} /\ lost = {}
      BY <1>12
    <2>2. inUse'["store"] = inUse'["mem"]
      BY <1>8, <2>1 DEF HostInv, NoStrayEntry
    <2>3. ASSUME NEW b \in BootConfigs, NEW n \in inUse'["mem"][b].by
          PROVE  \E k \in BareHosts : Known(k)' /\ nameOf[k] = n /\ hostObjs'["mem"][k].ref = b
      <3>1. CASE n = nameOf[h] /\ b = new.ref
        BY <1>4, <1>5, <1>6, <3>1
      <3>2. CASE ~(n = nameOf[h] /\ b = new.ref)
        <4>1. n \in inUse["mem"][b].by /\ (n = nameOf[h] => b # old.ref)
          BY <1>8, <2>3, <3>2
        <4>2. PICK k \in BareHosts : Known(k) /\ nameOf[k] = n /\ hostObjs["mem"][k].ref = b
          BY <2>1, <4>1 DEF HostInv, NoStrayEntry
        <4>3. k # h
          BY <4>1, <4>2 DEF old
        <4> QED
          BY <1>4, <1>5, <1>6, <4>2, <4>3
      <3> QED
        BY <3>1, <3>2
    <2> QED
      BY <2>2, <2>3
  <1>20. OneOfAName'
    <2> SUFFICES ASSUME NEW g \in BareHosts, NEW k \in BareHosts, g # k, nameOf[g] = nameOf[k],
                        nameOf[g] \notin shared', NEW c \in Copies, NEW d \in Copies
                 PROVE  hostObjs'[c][g] = Absent \/ hostObjs'[d][k] = Absent
      BY <1>2 DEF OneOfAName
    <2>1. CASE g = h
      BY <1>5, <1>12, <2>1 DEF Namesakes
    <2>2. CASE k = h
      BY <1>5, <1>12, <2>2 DEF Namesakes
    <2>3. CASE g # h /\ k # h
      BY <1>5, <1>12, <2>3 DEF HostInv, OneOfAName
    <2> QED
      BY <2>1, <2>2, <2>3
  <1> QED
    BY <1>8, <1>11, <1>13, <1>14, <1>16, <1>17, <1>18, <1>19, <1>20 DEF HostInv

LEMMA DeleteHostInv ==
  ASSUME HostInv, NEW h \in BareHosts, DeleteBMH(h)
  PROVE  HostInv'
  <1> DEFINE old == hostObjs["mem"][h]
  <1>1. PICK lost : /\ resv' = SyncedResv(old.mac, old.net, NoHost, lost)
                    /\ aRecords' = SyncedRecords(h, old.net, NoHost, lost)
                    /\ inUse' = PutUse(nameOf[h], old.ref, NoHost, lost)
                    /\ hostObjs' = IF <<"object", h>> \in lost
                                     THEN [hostObjs EXCEPT !["mem"][h] = Absent]
                                     ELSE Both(hostObjs, h, Absent)
                    /\ torn' = IF <<"object", h>> \in lost THEN torn \cup {h} ELSE torn \ {h}
                    /\ Scar(h, lost)
    BY DEF DeleteBMH
  <1>2. /\ Known(h) /\ bound' = [bound EXCEPT ![h] = NoHost]
        /\ UNCHANGED <<nameOf, shared>>
    BY DEF DeleteBMH
  <1>3. /\ "mem" \in Copies /\ "store" \in Copies /\ "mem" # "store"
        /\ \A c \in Copies : c = "mem" \/ c = "store"
    BY DEF Copies
  <1>4. /\ nameOf[h] \in HostNames /\ old.mac \in Macs(h) /\ old.mac \in AllMacs
        /\ old.net \in DataNets /\ NoHost \notin DataNets \cup BootConfigs
    BY <1>2, <1>3, MacsFacts, HostAssumption DEF HostInv, HostTyped, Known
  <1>5. /\ hostObjs' \in [Copies -> [BareHosts -> Host \cup {Absent}]]
        /\ \A c \in Copies, k \in BareHosts :
             k # h => hostObjs'[c][k] = hostObjs[c][k]
        /\ hostObjs'["mem"][h] = Absent
        /\ hostObjs'["store"][h] = IF <<"object", h>> \in lost THEN hostObjs["store"][h] ELSE Absent
    <2>1. hostObjs \in [Copies -> [BareHosts -> Host \cup {Absent}]]
      BY DEF HostInv, HostTyped
    <2>2. CASE <<"object", h>> \in lost
      BY <1>1, <1>3, <2>1, <2>2
    <2>3. CASE <<"object", h>> \notin lost
      BY <1>1, <1>3, <2>1, <2>3 DEF Both
    <2> QED
      BY <2>2, <2>3
  <1>6. ~Known(h)' /\ \A k \in BareHosts : k # h => (Known(k)' <=> Known(k))
    BY <1>3, <1>5 DEF Known
  <1>7. /\ resv' \in [AllCopies -> [DataNets -> SUBSET AllMacs]]
        /\ \A m \in AllMacs, c \in AllCopies, n \in DataNets :
             m # old.mac /\ m \in resv[c][n] /\ m \in resv["mem"][n] => m \in resv'[c][n]
    BY <1>1, <1>4, SyncedResvFacts DEF HostInv
  <1>8. /\ inUse' \in [Copies -> [BootConfigs -> [there : BOOLEAN, by : SUBSET HostNames]]]
        /\ SameConfigs'
        /\ \A c \in Copies, b \in BootConfigs : inUse'[c][b].there = inUse[c][b].there
        /\ \A m \in HostNames, c \in Copies, b \in BootConfigs :
             m # nameOf[h] /\ m \in inUse[c][b].by /\ m \in inUse["mem"][b].by
               => m \in inUse'[c][b].by
        /\ \A b \in BootConfigs : \A m \in inUse'["mem"][b].by :
             m \in inUse["mem"][b].by /\ (m = nameOf[h] => b # old.ref)
        /\ lost = {} /\ inUse["store"] = inUse["mem"] => inUse'["store"] = inUse'["mem"]
    BY <1>1, <1>4, PutUseFacts DEF HostInv
  <1>9. bound' \in [BareHosts -> BootConfigs \cup {NoHost}] /\ bound'[h] = NoHost
        /\ \A k \in BareHosts : k # h => bound'[k] = bound[k]
    BY <1>2 DEF HostInv, HostTyped
  <1>10. /\ aRecords' \subseteq aRecords
         /\ \A n \in DataNets, k \in BareHosts :
              <<n, k>> \in aRecords /\ k # h => <<n, k>> \in aRecords'
         /\ lost = {} => <<old.net, h>> \notin aRecords'
    <2> HIDE DEF old
    <2> DEFINE here == {n \in DataNets : <<"record", n>> \notin lost}
               added == {<<n, h>> : n \in here \cap {NoHost}}
    <2>1. aRecords' =
            {r \in aRecords : /\ r = <<old.net, h>> /\ old.net \in here => old.net = NoHost
                              /\ r[1] = NoHost /\ NoHost \in here => r[2] \notin Namesakes(h)}
              \cup added
      BY <1>1 DEF SyncedRecords
    <2>2. added = {} /\ NoHost \notin here
      BY <1>4
    <2>3. lost = {} => here = DataNets
      OBVIOUS
    <2> HIDE DEF here, added
    <2> QED
      BY <1>4, <2>1, <2>2, <2>3
  <1>11. HostTyped'
    <2>1. \A c \in Copies, k \in BareHosts : hostObjs'[c][k] \in HostOf(k) \cup {Absent}
      <3>1. \A c \in Copies, k \in BareHosts : hostObjs[c][k] \in HostOf(k) \cup {Absent}
        BY DEF HostInv, HostTyped
      <3>2. \A c \in Copies, k \in BareHosts : hostObjs'[c][k] \in {hostObjs[c][k], Absent}
        BY <1>3, <1>5
      <3> QED
        BY <3>1, <3>2
    <2> QED
      BY <1>2, <1>5, <1>7, <1>8, <1>9, <1>10, <2>1 DEF HostInv, HostTyped
  <1>12. /\ \A k \in BareHosts : k # h => (k \in torn' <=> k \in torn)
         /\ h \notin torn' => <<"object", h>> \notin lost
         /\ \A k \in BareHosts : k \notin scars' => k \notin scars
         /\ h \notin scars' => lost = {}
         /\ scars' = {} => scars = {} /\ lost = {}
    BY <1>1 DEF Scar
  <1>13. IsStored'
    BY <1>3, <1>5, <1>12 DEF IsStored, HostInv
  <1>14. IsReserved'
    <2> SUFFICES ASSUME NEW k \in BareHosts, Known(k)', k \notin torn', NEW c \in AllCopies
                 PROVE  hostObjs'["mem"][k].mac \in resv'[c][hostObjs'["mem"][k].net]
      BY DEF IsReserved
    <2>1. /\ hostObjs'["mem"][k] = hostObjs["mem"][k] /\ Known(k) /\ k \notin torn /\ k # h
      BY <1>3, <1>5, <1>6, <1>12
    <2>2. hostObjs["mem"][k] \in HostOf(k)
      BY <1>3, <2>1 DEF Known, HostInv, HostTyped
    <2>3. /\ hostObjs["mem"][k].mac \in AllMacs /\ hostObjs["mem"][k].net \in DataNets
          /\ hostObjs["mem"][k].mac # old.mac
      BY <1>4, <2>1, <2>2, MacsFacts
    <2>4. \A d \in AllCopies : hostObjs["mem"][k].mac \in resv[d][hostObjs["mem"][k].net]
      BY <2>1 DEF HostInv, IsReserved
    <2>5. "mem" \in AllCopies
      BY DEF AllCopies, Copies
    <2> QED
      BY <1>7, <2>1, <2>3, <2>4, <2>5
  <1>15. IsRecorded'
    <2> SUFFICES ASSUME NEW k \in BareHosts, Known(k)', k \notin torn', nameOf[k] \notin shared'
                 PROVE  <<hostObjs'["mem"][k].net, k>> \in aRecords'
      BY <1>2 DEF IsRecorded
    <2>1. hostObjs'["mem"][k] = hostObjs["mem"][k] /\ Known(k) /\ k \notin torn /\ k # h
      BY <1>3, <1>5, <1>6, <1>12
    <2>2. hostObjs["mem"][k].net \in DataNets
      BY <1>3, <2>1, MacsFacts DEF Known, HostInv, HostTyped
    <2> QED
      BY <1>2, <1>10, <2>1, <2>2 DEF HostInv, IsRecorded
  <1>16. IsListed'
    <2> SUFFICES ASSUME NEW k \in BareHosts, bound'[k] # NoHost, k \notin torn'
                 PROVE  /\ Known(k)' /\ hostObjs'["mem"][k].ref = bound'[k]
                        /\ nameOf[k] \notin shared' =>
                             \A c \in Copies : /\ inUse'[c][bound'[k]].there
                                               /\ nameOf[k] \in inUse'[c][bound'[k]].by
      BY <1>2 DEF IsListed
    <2>1. k # h /\ bound'[k] = bound[k] /\ k \notin torn /\ bound[k] \in BootConfigs
      BY <1>9, <1>12
    <2>2. Known(k)' /\ Known(k) /\ hostObjs'["mem"][k].ref = bound'[k]
      BY <1>3, <1>5, <1>6, <2>1 DEF HostInv, IsListed
    <2>3. ASSUME nameOf[k] \notin shared', NEW c \in Copies
          PROVE  inUse'[c][bound[k]].there /\ nameOf[k] \in inUse'[c][bound[k]].by
      <3>1. nameOf[k] # nameOf[h] /\ nameOf[k] \in HostNames /\ nameOf[k] \notin shared
        BY <1>2, <1>3, <2>1, <2>2, <2>3 DEF HostInv, HostTyped, OneOfAName, Known
      <3>2. \A d \in Copies : inUse[d][bound[k]].there /\ nameOf[k] \in inUse[d][bound[k]].by
        BY <2>1, <3>1 DEF HostInv, IsListed
      <3> QED
        BY <1>3, <1>8, <2>1, <3>1, <3>2
    <2> QED
      BY <2>1, <2>2, <2>3
  <1>17. NoStrayRecord'
    <2> SUFFICES ASSUME NEW k \in BareHosts, k \notin scars'
                 PROVE  /\ hostObjs'["mem"][k] = hostObjs'["store"][k]
                        /\ \A n \in DataNets : <<n, k>> \in aRecords' =>
                             Known(k)' /\ n = hostObjs'["mem"][k].net
      BY DEF NoStrayRecord
    <2>1. CASE k = h
      BY <1>5, <1>10, <1>12, <2>1 DEF HostInv, NoStrayRecord
    <2>2. CASE k # h
      BY <1>3, <1>5, <1>6, <1>10, <1>12, <2>2 DEF HostInv, NoStrayRecord
    <2> QED
      BY <2>1, <2>2
  <1>18. NoStrayEntry'
    <2> SUFFICES ASSUME scars' = {}
                 PROVE  /\ inUse'["store"] = inUse'["mem"]
                        /\ \A b \in BootConfigs : \A n \in inUse'["mem"][b].by :
                             \E k \in BareHosts : Known(k)' /\ nameOf[k] = n
                                                  /\ hostObjs'["mem"][k].ref = b
      BY <1>2 DEF NoStrayEntry
    <2>1. inUse'["store"] = inUse'["mem"]
      BY <1>8, <1>12 DEF HostInv, NoStrayEntry
    <2>2. ASSUME NEW b \in BootConfigs, NEW n \in inUse'["mem"][b].by
          PROVE  \E k \in BareHosts : Known(k)' /\ nameOf[k] = n /\ hostObjs'["mem"][k].ref = b
      <3>1. n \in inUse["mem"][b].by /\ (n = nameOf[h] => b # old.ref)
        BY <1>8, <2>2
      <3>2. PICK k \in BareHosts : Known(k) /\ nameOf[k] = n /\ hostObjs["mem"][k].ref = b
        BY <1>12, <3>1 DEF HostInv, NoStrayEntry
      <3>3. k # h
        BY <3>1, <3>2
      <3> QED
        BY <1>3, <1>5, <1>6, <3>2, <3>3
    <2> QED
      BY <2>1, <2>2
  <1>19. OneOfAName'
    <2>1. \A c \in Copies, k \in BareHosts : hostObjs'[c][k] \in {hostObjs[c][k], Absent}
      BY <1>3, <1>5
    <2> QED
      BY <1>2, <2>1 DEF HostInv, OneOfAName
  <1> QED
    BY <1>8, <1>11, <1>13, <1>14, <1>15, <1>16, <1>17, <1>18, <1>19 DEF HostInv

\* Boot configs come when they are not there, and go when no host is on their list; the
\* hosts that a client takes off a list are torn.
LEMMA BootConfigInv ==
  ASSUME HostInv, NEW b \in BootConfigs,
         \/ CreateBootConfig(b) \/ DeleteBootConfig(b)
         \/ \E by \in SUBSET HostNames : SendsList(b, by)
  PROVE  HostInv'
  <1>1. /\ "mem" \in Copies /\ "store" \in Copies
        /\ \A c \in Copies : c = "mem" \/ c = "store"
    BY DEF Copies
  <1>2. PICK there \in BOOLEAN, by \in SUBSET HostNames :
          /\ inUse' = Both(inUse, b, [there |-> there, by |-> by]) /\ (there \/ by = {})
          /\ \/ /\ ~inUse["mem"][b].there /\ by = {} /\ UNCHANGED <<torn, scars>>
             \/ inUse["mem"][b].by = {} /\ by = {} /\ UNCHANGED <<torn, scars>>
             \/ /\ there /\ inUse["mem"][b].there /\ scars' = scars \cup {b}
                /\ torn' = torn \cup {h \in BareHosts : bound[h] = b /\ nameOf[h] \notin by}
    BY DEF CreateBootConfig, DeleteBootConfig, SendsList
  <1>3. UNCHANGED <<nameOf, hostObjs, resv, aRecords, bound, shared>>
    BY DEF CreateBootConfig, DeleteBootConfig, SendsList, ConfigStep
  <1>4. \A c \in Copies : inUse'[c] = [inUse[c] EXCEPT ![b] = [there |-> there, by |-> by]]
    BY <1>2 DEF Both
  <1>5. \A c \in Copies, d \in BootConfigs :
          inUse'[c][d] = IF d = b THEN [there |-> there, by |-> by] ELSE inUse[c][d]
    BY <1>4 DEF HostInv, HostTyped
  <1>6. HostTyped'
    <2>1. inUse' \in [Copies -> [BootConfigs -> [there : BOOLEAN, by : SUBSET HostNames]]]
      <3>1. \A c \in Copies : inUse[c] \in [BootConfigs -> [there : BOOLEAN, by : SUBSET HostNames]]
        BY DEF HostInv, HostTyped
      <3>4. [there |-> there, by |-> by] \in [there : BOOLEAN, by : SUBSET HostNames]
        BY <1>2
      <3>2. \A c \in Copies : inUse'[c] \in [BootConfigs -> [there : BOOLEAN, by : SUBSET HostNames]]
        <4> SUFFICES ASSUME NEW c \in Copies
                     PROVE inUse'[c] \in [BootConfigs -> [there : BOOLEAN, by : SUBSET HostNames]]
          OBVIOUS
        <4>1. /\ inUse[c] \in [BootConfigs -> [there : BOOLEAN, by : SUBSET HostNames]]
              /\ inUse'[c] = [inUse[c] EXCEPT ![b] = [there |-> there, by |-> by]]
          BY <1>4, <3>1
        <4> QED
          BY <3>4, <4>1
      <3>3. inUse' = [c \in Copies |-> inUse'[c]]
        BY <1>2 DEF Both
      <3> QED
        BY <3>2, <3>3
    <2> QED
      BY <1>3, <2>1 DEF HostInv, HostTyped
  <1>7. SameConfigs'
    BY <1>1, <1>2, <1>5 DEF HostInv, SameConfigs
  <1>8. \A k \in BareHosts : k \notin torn' => k \notin torn
    BY <1>2
  <1>9. \A k \in BareHosts : k \notin scars' => k \notin scars
    BY <1>2
  <1>10. IsStored' /\ IsReserved' /\ IsRecorded' /\ OneOfAName' /\ NoStrayRecord'
    BY <1>3, <1>8, <1>9
    DEF HostInv, IsStored, IsReserved, IsRecorded, OneOfAName, NoStrayRecord, Known
  <1>11. IsListed'
    <2> SUFFICES ASSUME NEW k \in BareHosts, bound[k] # NoHost, k \notin torn'
                 PROVE  /\ Known(k) /\ hostObjs["mem"][k].ref = bound[k]
                        /\ nameOf[k] \notin shared =>
                             \A c \in Copies : /\ inUse'[c][bound[k]].there
                                               /\ nameOf[k] \in inUse'[c][bound[k]].by
      BY <1>3 DEF IsListed, Known
    <2>1. /\ Known(k) /\ hostObjs["mem"][k].ref = bound[k] /\ bound[k] \in BootConfigs
          /\ nameOf[k] \notin shared =>
               \A c \in Copies : inUse[c][bound[k]].there /\ nameOf[k] \in inUse[c][bound[k]].by
      BY <1>8 DEF HostInv, HostTyped, IsListed
    <2>2. CASE bound[k] # b
      BY <1>5, <2>1, <2>2
    <2>3. CASE bound[k] = b
      BY <1>1, <1>2, <1>5, <2>1, <2>3
    <2> QED
      BY <2>2, <2>3
  <1>12. NoStrayEntry'
    <2> SUFFICES ASSUME scars' = {}
                 PROVE  /\ inUse'["store"] = inUse'["mem"]
                        /\ \A d \in BootConfigs : \A n \in inUse'["mem"][d].by :
                             \E k \in BareHosts : Known(k) /\ nameOf[k] = n
                                                  /\ hostObjs["mem"][k].ref = d
      BY <1>3 DEF NoStrayEntry, Known
    <2>1. scars = {} /\ by = {}
      BY <1>2
    <2>2. inUse["store"] = inUse["mem"]
      BY <2>1 DEF HostInv, NoStrayEntry
    <2>3. inUse'["store"] = inUse'["mem"]
      BY <1>1, <1>4, <2>2
    <2>4. \A d \in BootConfigs : inUse'["mem"][d].by \subseteq inUse["mem"][d].by
      BY <1>1, <1>5, <2>1
    <2> QED
      BY <2>1, <2>3, <2>4 DEF HostInv, NoStrayEntry
  <1> QED
    BY <1>6, <1>7, <1>10, <1>11, <1>12 DEF HostInv

\* Loading brings nothing that a host that is not torn does not have.
LEMMA LoadHostsInv ==
  ASSUME HostInv, ReloadBMH \/ RestartHosts
  PROVE  HostInv'
  <1>1. /\ "mem" \in Copies /\ "store" \in Copies /\ "mem" # "store"
        /\ \A c \in Copies : c = "mem" \/ c = "store"
    BY DEF Copies
  <1>2. UNCHANGED <<nameOf, aRecords, bound, torn, scars, shared>>
    BY DEF ReloadBMH, RestartHosts
  <1>3. \A h \in BareHosts : hostObjs'["store"][h] = hostObjs["store"][h]
          /\ hostObjs'["mem"][h] \in {hostObjs["mem"][h], hostObjs["store"][h]}
    BY <1>1 DEF ReloadBMH, RestartHosts, HostInv, HostTyped
  <1>4. hostObjs' \in [Copies -> [BareHosts -> Host \cup {Absent}]]
    <2>1. hostObjs \in [Copies -> [BareHosts -> Host \cup {Absent}]]
      BY DEF HostInv, HostTyped
    <2>2. CASE ReloadBMH
      <3>1. [h \in BareHosts |-> IF hostObjs["store"][h] # Absent THEN hostObjs["store"][h]
                                 ELSE hostObjs["mem"][h]] \in [BareHosts -> Host \cup {Absent}]
        BY <1>1, <2>1
      <3> QED
        BY <1>1, <2>1, <2>2, <3>1 DEF ReloadBMH
    <2>3. CASE RestartHosts
      BY <1>1, <2>1, <2>3 DEF RestartHosts
    <2> QED
      BY <2>2, <2>3
  <1>5. /\ resv' \in [AllCopies -> [DataNets -> SUBSET AllMacs]]
        /\ \A c \in AllCopies : resv'[c] \in {resv[c], resv["store"]}
    BY <1>1 DEF ReloadBMH, RestartHosts, HostInv, HostTyped, AllCopies
  <1>6. /\ inUse' \in [Copies -> [BootConfigs -> [there : BOOLEAN, by : SUBSET HostNames]]]
        /\ \A c \in Copies : inUse'[c] \in {inUse[c], inUse["store"]}
        /\ inUse'["store"] = inUse["store"]
    BY <1>1 DEF ReloadBMH, RestartHosts, LoadBootConfigsFromStore, HostInv, HostTyped
  <1>7. HostTyped'
    BY <1>1, <1>2, <1>3, <1>4, <1>5, <1>6 DEF HostInv, HostTyped
  <1>8. SameConfigs'
    BY <1>1, <1>6 DEF HostInv, SameConfigs
  <1>9. \A h \in BareHosts : hostObjs["mem"][h] = hostObjs["store"][h] =>
          hostObjs'["mem"][h] = hostObjs["mem"][h] /\ (Known(h)' <=> Known(h))
    BY <1>3 DEF Known
  <1>10. IsStored' /\ IsRecorded' /\ NoStrayRecord'
    BY <1>2, <1>3, <1>9 DEF HostInv, IsStored, IsRecorded, NoStrayRecord
  <1>11. IsReserved'
    <2>1. "store" \in AllCopies
      BY <1>1 DEF AllCopies
    <2> QED
      BY <1>2, <1>5, <1>9, <2>1 DEF HostInv, IsStored, IsReserved
  <1>12. IsListed'
    BY <1>1, <1>2, <1>6, <1>9 DEF HostInv, IsStored, IsListed
  <1>13. NoStrayEntry'
    <2> SUFFICES ASSUME scars = {}
                 PROVE  /\ inUse'["store"] = inUse'["mem"]
                        /\ \A b \in BootConfigs : \A n \in inUse'["mem"][b].by :
                             \E k \in BareHosts : Known(k)' /\ nameOf[k] = n
                                                  /\ hostObjs'["mem"][k].ref = b
      BY <1>2 DEF NoStrayEntry
    <2>1. inUse'["store"] = inUse'["mem"] /\ inUse'["mem"] = inUse["mem"]
      BY <1>1, <1>6 DEF HostInv, NoStrayEntry
    <2> QED
      BY <1>9, <2>1 DEF HostInv, NoStrayEntry, NoStrayRecord
  <1>14. OneOfAName'
    <2>1. \A c \in Copies, h \in BareHosts : \E d \in Copies : hostObjs'[c][h] = hostObjs[d][h]
      BY <1>1, <1>3
    <2> QED
      BY <1>2, <2>1 DEF HostInv, OneOfAName
  <1> QED
    BY <1>7, <1>8, <1>10, <1>11, <1>12, <1>13, <1>14 DEF HostInv

LEMMA HostNextInv == HostInv /\ [HostNext]_hostVars => HostInv'
  <1> SUFFICES ASSUME HostInv, [HostNext]_hostVars PROVE HostInv'
    OBVIOUS
  <1>1. ASSUME NEW h \in BareHosts, NEW new \in HostOf(h), CreateBMH(h, new) \/ UpdateBMH(h, new)
        PROVE  HostInv'
    BY <1>1, WriteHostInv DEF CreateBMH, UpdateBMH
  <1>2. CASE UNCHANGED hostVars
    <2>1. UNCHANGED <<nameOf, hostObjs, resv, inUse, aRecords, bound, torn, scars, shared>>
      BY <1>2 DEF hostVars
    <2>2. HostTyped' /\ SameConfigs'
      BY <2>1 DEF HostInv, HostTyped, SameConfigs
    <2>3. IsStored' /\ IsReserved' /\ IsRecorded' /\ IsListed'
      BY <2>1 DEF HostInv, IsStored, IsReserved, IsRecorded, IsListed, Known
    <2>4. NoStrayRecord' /\ NoStrayEntry' /\ OneOfAName'
      BY <2>1 DEF HostInv, NoStrayRecord, NoStrayEntry, OneOfAName, Known
    <2> QED
      BY <2>2, <2>3, <2>4 DEF HostInv
  <1> QED
    BY <1>1, <1>2, DeleteHostInv, BootConfigInv, LoadHostsInv DEF HostNext

\* Any sequence of creations, changes of network, MAC and boot config, deletions, reloads and
\* restarts, with any writes lost, leaves each host that is not torn with its MAC reserved in
\* every copy, and one whose name no other host has had with it, with its A record and a boot
\* config that is there and lists it (syncBMHToNetwork, syncBootConfigRef).
THEOREM HostsInStepTheorem == HostSpec => []HostsInStep
  BY HostInitInv, HostNextInv, HostInvImplies, PTL DEF HostSpec

-----------------------------------------------------------------------------
(* IsoPatches: a patched image keeps its files. *)

\* The records that count.
Records == {pos \in Positions : layout[pos] > 0 /\ dirCells[pos].len > 0}
NextCell(L, pos) == IF L[pos] > 0 THEN pos + L[pos] ELSE SectorEnd(pos)

\* Records lie in their sectors one behind the other, from a sector's begin to its first
\* zero, and behind that it is empty.
Packed(L) ==
  /\ L[0] # -1
  /\ \A pos \in Positions : SectorEnd(pos) \in Positions => L[SectorEnd(pos)] # -1
  /\ \A pos \in Positions : L[pos] # -1 => /\ NextCell(L, pos) <= SectorEnd(pos)
                                           /\ NextCell(L, pos) \in Positions => L[NextCell(L, pos)] # -1
  /\ \A pos, q \in Positions : pos < q /\ q < SectorEnd(pos) =>
       /\ L[pos] = 0 => L[q] = 0
       /\ L[pos] > 0 /\ q < pos + L[pos] => L[q] = -1

\* Where a record begins, a reader finds it, or its deleted remains; where none ever was, a zero.
Follows ==
  \A p \in Positions : /\ layout[p] = 0 => dirCells[p].len = 0
                       /\ layout[p] > 0 => dirCells[p] \in Cells /\ dirCells[p].len \in {0, layout[p]}

CellsOK ==
  /\ dirCells = [p \in Positions |-> dirCells[p]] /\ \A p \in Positions : dirCells[p].len \in Nat
  /\ volumeEnd \in Nat /\ layout \in [Positions -> {-1, 0, 2, 3}]

\* The contents of all records, those that no walk comes to among them.
Behind(p, end) == dirCells[p].lba + dirCells[p].size <= end
AllApart ==
  \A p \in Records :
    /\ Behind(p, volumeEnd)
    /\ \A q \in Records : p = q \/ Behind(p, dirCells[q].lba) \/ Behind(q, dirCells[p].lba)

\* Records and files are one to one.
AllTold ==
  /\ \A p \in Records :
       /\ dirCells[p].name \in DOMAIN patchFiles
       /\ patchFiles[dirCells[p].name] = [lba |-> dirCells[p].lba, size |-> dirCells[p].size]
       /\ \A q \in Records : dirCells[q].name = dirCells[p].name => q = p
  /\ \A name \in DOMAIN patchFiles : \E p \in Records : dirCells[p].name = name

\* The property speaks of what a walk over the cells finds, and no step keeps that by
\* itself: that no walk lands inside a record, and that the scan's place is a sector's first
\* zero or one where a record of the same length was, needs the packing.
PatchInv ==
  /\ ragged \in BOOLEAN
  /\ ~ragged => CellsOK /\ Packed(layout) /\ Follows /\ AllApart /\ AllTold

LEMMA DivBounds ==
  ASSUME NEW p \in Nat, NEW S \in Nat, S > 0
  PROVE  p \div S \in Nat /\ (p \div S) * S <= p /\ p < ((p \div S) + 1) * S
  OBVIOUS
LEMMA TimesMonotone ==
  ASSUME NEW a \in Int, NEW b \in Int, NEW S \in Nat, S > 0, a * S < b * S
  PROVE  a < b
  <1> SUFFICES ASSUME b <= a PROVE FALSE
    OBVIOUS
  <1>1. a * S = b * S + (a - b) * S
    OBVIOUS
  <1>2. (a - b) * S >= 0
    OBVIOUS
  <1> QED BY <1>1, <1>2
LEMMA TimesOne ==
  ASSUME NEW a \in Int,  NEW S \in Nat
  PROVE  (a + 1) * S = a * S + S /\ a * S \in Int
  OBVIOUS
LEMMA TimesUp ==
  ASSUME NEW a \in Nat, NEW b \in Nat, NEW S \in Nat, a <= b
  PROVE  a * S <= b * S
  OBVIOUS

\* Sectors.
LEMMA SectorBounds ==
  ASSUME NEW p \in Nat
  PROVE  SectorEnd(p) \in Nat /\ p < SectorEnd(p) /\ SectorEnd(p) <= p + SectorLen
  <1>1. SectorLen \in Nat /\ SectorLen > 0
    BY PatchAssumption
  <1>2. /\ p \div SectorLen \in Nat /\ (p \div SectorLen) * SectorLen <= p
        /\ p < ((p \div SectorLen) + 1) * SectorLen
    BY <1>1, DivBounds
  <1>3. /\ ((p \div SectorLen) + 1) * SectorLen = (p \div SectorLen) * SectorLen + SectorLen
        /\ (p \div SectorLen) * SectorLen \in Int
    BY <1>1, <1>2, TimesOne
  <1> QED
    BY <1>1, <1>2, <1>3 DEF SectorEnd

LEMMA SameSector ==
  ASSUME NEW p \in Nat, NEW q \in Nat, p <= q, q < SectorEnd(p)
  PROVE  SectorEnd(q) = SectorEnd(p)
  <1> DEFINE a == p \div SectorLen
             b == q \div SectorLen
  <1>1. SectorLen \in Nat /\ SectorLen > 0
    BY PatchAssumption
  <1>2. a \in Nat /\ a * SectorLen <= p /\ p < (a + 1) * SectorLen
    BY <1>1, DivBounds
  <1>3. b \in Nat /\ b * SectorLen <= q /\ q < (b + 1) * SectorLen
    BY <1>1, DivBounds
  <1>4. q < (a + 1) * SectorLen
    BY DEF SectorEnd
  <1> HIDE DEF a, b
  <1>5. a * SectorLen \in Int /\ b * SectorLen \in Int
        /\ (a + 1) * SectorLen \in Int /\ (b + 1) * SectorLen \in Int
    BY <1>1, <1>2, <1>3, TimesOne
  <1>6. a * SectorLen < (b + 1) * SectorLen /\ b * SectorLen < (a + 1) * SectorLen
    BY <1>2, <1>3, <1>4, <1>5
  <1>7. a < b + 1 /\ b < a + 1
    BY <1>1, <1>2, <1>3, <1>6, TimesMonotone
  <1>8. a = b
    BY <1>2, <1>3, <1>7
  <1> QED
    BY <1>8 DEF SectorEnd, a, b

LEMMA NewSector ==
  ASSUME NEW p \in Nat, NEW q \in Nat, q < SectorEnd(p)
  PROVE  SectorEnd(q) <= SectorEnd(p)
  <1>1. CASE p <= q
    BY <1>1, SameSector, SectorBounds
  <1>2. CASE q < p /\ p < SectorEnd(q)
    BY <1>2, SameSector, SectorBounds
  <1>3. CASE q < p /\ SectorEnd(q) <= p
    BY <1>3, SectorBounds
  <1> QED
    BY <1>1, <1>2, <1>3, SectorBounds

LEMMA SectorInDir ==
  ASSUME NEW p \in Nat, p < DirSize
  PROVE  SectorEnd(p) <= DirSize
  <1> DEFINE a == p \div SectorLen
  <1>1. SectorLen \in Nat /\ SectorLen > 0 /\ DirSectors \in Nat
    BY PatchAssumption
  <1>2. a \in Nat /\ a * SectorLen <= p
    BY <1>1, DivBounds
  <1>3. DirSize = DirSectors * SectorLen /\ DirSize \in Nat
    BY <1>1 DEF DirSize
  <1> HIDE DEF a
  <1>4. a * SectorLen < DirSectors * SectorLen
    BY <1>1, <1>2, <1>3, TimesOne
  <1>5. a < DirSectors
    BY <1>1, <1>2, <1>4, TimesMonotone
  <1>6. (a + 1) * SectorLen <= DirSectors * SectorLen
    BY <1>1, <1>2, <1>5, TimesUp
  <1> QED
    BY <1>3, <1>6 DEF SectorEnd, a

\* A set of positions that holds each position whose later ones it holds, holds them all:
\* induction over the positions with a set in the place of the predicate.
LEMMA DownwardInduction ==
  ASSUME NEW m \in Nat, NEW S,
         \A p \in 0 .. m : (\A q \in 0 .. m : p < q => q \in S) => p \in S
  PROVE  \A p \in 0 .. m : p \in S
  <1> DEFINE Bad == {k \in Nat : k <= m /\ m - k \notin S}
  <1>1. ASSUME Bad # {} PROVE FALSE
    <2>1. Bad \in SUBSET Nat
      OBVIOUS
    <2>2. PICK k \in Bad : \A j \in Bad : k <= j
      BY <1>1, <2>1, MinIsLeast
    <2>3. k \in Nat /\ k <= m /\ m - k \notin S /\ m - k \in 0 .. m
      OBVIOUS
    <2>4. ASSUME NEW q \in 0 .. m, m - k < q PROVE q \in S
      <3>1. m - q \in Nat /\ m - q <= m /\ m - (m - q) = q /\ m - q < k
        BY <2>3, <2>4
      <3>2. m - q \notin Bad
        BY <2>2, <2>3, <3>1
      <3> QED
        BY <3>1, <3>2
    <2> QED
      BY <2>3, <2>4
  <1>2. ASSUME NEW p \in 0 .. m PROVE p \in S
    <2>1. m - p \in Nat /\ m - p <= m /\ m - (m - p) = p
      OBVIOUS
    <2>2. m - p \notin Bad
      BY <1>1
    <2> QED
      BY <2>1, <2>2
  <1> QED
    BY <1>2

\* The last position that a walk can come to.
Last == DirSize + SectorLen

LEMMA DirNat ==
  /\ SectorLen \in Nat /\ SectorLen >= 3
  /\ DirSize \in Nat /\ DirSize > 0 /\ Last \in Nat /\ DirSize <= Last
  <1>1. SectorLen * DirSectors \in Nat /\ SectorLen * DirSectors > 0
    BY PatchAssumption
  <1> QED
    BY <1>1, PatchAssumption DEF DirSize, Last

LEMMA PositionNat ==
  ASSUME NEW p \in Positions
  PROVE  p \in Nat /\ p < DirSize /\ SectorEnd(p) \in Nat /\ p < SectorEnd(p) /\ SectorEnd(p) <= DirSize
  <1>1. p \in Nat /\ p < DirSize
    BY DirNat DEF Positions
  <1> QED
    BY <1>1, SectorBounds, SectorInDir

\* Both walks go upwards, to the end of the directory or a little behind it.
LEMMA WalkStep ==
  ASSUME CellsOK, NEW pos \in 0 .. Last, ~(pos >= DirSize)
  PROVE  /\ pos \in Positions
         /\ SectorEnd(pos) \in 0 .. Last /\ pos < SectorEnd(pos)
         /\ dirCells[pos].len \in Nat
         /\ dirCells[pos].len > 0 /\ ~(pos + dirCells[pos].len > DirSize) =>
              pos + dirCells[pos].len \in 0 .. Last /\ pos < pos + dirCells[pos].len
  <1>1. pos \in Nat /\ pos < DirSize /\ pos \in Positions
    BY DirNat DEF Positions
  <1>2. dirCells[pos].len \in Nat
    BY <1>1 DEF CellsOK
  <1>3. SectorEnd(pos) \in Nat /\ pos < SectorEnd(pos) /\ SectorEnd(pos) <= DirSize
    BY <1>1, PositionNat
  <1> QED
    BY <1>1, <1>2, <1>3, DirNat DEF Last

\* What ReadDirectory finds from a position on, given what it finds from later ones.
FoundFrom(f, pos) ==
  IF pos >= DirSize THEN {}
  ELSE IF dirCells[pos].len < MinLen \/ pos + dirCells[pos].len > DirSize THEN f[SectorEnd(pos)]
  ELSE {pos} \cup f[pos + dirCells[pos].len]
\* The position that AddFile's scan returns from a position on.
SlotFrom(f, pos, len) ==
  IF pos >= DirSize THEN DirSize
  ELSE IF dirCells[pos].len > 0
    THEN IF pos + dirCells[pos].len > DirSize THEN DirSize ELSE f[pos + dirCells[pos].len]
  ELSE IF SectorEnd(pos) - pos >= len THEN pos
  ELSE f[SectorEnd(pos)]

\* The recursion of each walk has a solution, and with it what the walk returns satisfies
\* its equation.
LEMMA FoundExists ==
  ASSUME CellsOK
  PROVE  \E f : f = [pos \in 0 .. Last |-> FoundFrom(f, pos)]
  <1> DEFINE From(n) == \E f : /\ f = [pos \in 0 .. Last |-> f[pos]]
                               /\ \A pos \in n .. Last : f[pos] = FoundFrom(f, pos)
             S == {n \in 0 .. Last : From(n)}
  <1>1. ASSUME NEW n \in 0 .. Last, \A q \in 0 .. Last : n < q => q \in S PROVE n \in S
    <2>1. PICK f : f = [pos \in 0 .. Last |-> f[pos]] /\ \A pos \in n + 1 .. Last : f[pos] = FoundFrom(f, pos)
      <3>1. CASE n = Last
        <4> WITNESS [pos \in 0 .. Last |-> {}]
        <4> QED
          BY <3>1, DirNat
      <3>2. CASE n # Last
        <4>1. n + 1 \in S
          BY <1>1, <3>2, DirNat
        <4> QED
          BY <4>1
      <3> QED
        BY <3>1, <3>2
    <2> DEFINE g == [pos \in 0 .. Last |-> IF pos = n THEN FoundFrom(f, n) ELSE f[pos]]
    <2>2. ASSUME NEW pos \in n .. Last PROVE FoundFrom(f, pos) = FoundFrom(g, pos)
      <3>1. pos \in 0 .. Last /\ n <= pos
        BY DirNat
      <3>2. CASE pos >= DirSize
        BY <3>2 DEF FoundFrom
      <3>3. CASE ~(pos >= DirSize)
        <4>1. g[SectorEnd(pos)] = f[SectorEnd(pos)]
          BY <3>1, <3>3, WalkStep, DirNat
        <4>2. dirCells[pos].len > 0 /\ ~(pos + dirCells[pos].len > DirSize) =>
                g[pos + dirCells[pos].len] = f[pos + dirCells[pos].len]
          BY <3>1, <3>3, WalkStep, DirNat
        <4>3. dirCells[pos].len \in Int
          BY <3>1, <3>3, WalkStep
        <4> HIDE DEF g
        <4> QED
          <5>1. CASE dirCells[pos].len < MinLen \/ pos + dirCells[pos].len > DirSize
            BY <3>3, <4>1, <5>1 DEF FoundFrom
          <5>2. CASE ~(dirCells[pos].len < MinLen \/ pos + dirCells[pos].len > DirSize)
            <6>1. dirCells[pos].len > 0 /\ ~(pos + dirCells[pos].len > DirSize)
              BY <4>3, <5>2 DEF MinLen
            <6> QED
              BY <3>3, <4>2, <5>2, <6>1 DEF FoundFrom
          <5> QED
            BY <5>1, <5>2
      <3> QED
        BY <3>2, <3>3
    <2>3. ASSUME NEW pos \in n .. Last PROVE g[pos] = FoundFrom(g, pos)
      <3>1. pos = n \/ pos \in n + 1 .. Last
        OBVIOUS
      <3>2. pos \in 0 .. Last
        OBVIOUS
      <3>3. g[pos] = FoundFrom(f, pos)
        BY <2>1, <3>1, <3>2
      <3> QED
        BY <2>2, <3>3
    <2>4. g = [pos \in 0 .. Last |-> g[pos]]
      OBVIOUS
    <2> HIDE DEF g
    <2> QED
      BY <2>3, <2>4
  <1>2. 0 \in S
    <2> HIDE DEF S
    <2>1. \A pos \in 0 .. Last : pos \in S
      BY <1>1, DownwardInduction, DirNat
    <2> QED
      BY <2>1, DirNat
  <1>3. PICK f : f = [pos \in 0 .. Last |-> f[pos]] /\ \A pos \in 0 .. Last : f[pos] = FoundFrom(f, pos)
    BY <1>2
  <1>4. f = [pos \in 0 .. Last |-> FoundFrom(f, pos)]
    BY <1>3
  <1> QED
    BY <1>4

LEMMA ReadWalk ==
  ASSUME CellsOK
  PROVE  \E f : f = [pos \in 0 .. Last |-> FoundFrom(f, pos)] /\ ReadDirectory = f[0]
  <1> DEFINE w == CHOOSE f : f = [pos \in 0 .. Last |-> FoundFrom(f, pos)]
  <1>1. w = [pos \in 0 .. Last |-> FoundFrom(w, pos)]
    <2>1. \E f : f = [pos \in 0 .. Last |-> FoundFrom(f, pos)]
      BY FoundExists
    <2> QED
      BY <2>1, Zenon
  <1>2. ReadDirectory = w[0]
    BY Zenon DEF ReadDirectory, FoundFrom, Last
  <1> HIDE DEF w
  <1> QED
    BY <1>1, <1>2

LEMMA SlotExists ==
  ASSUME CellsOK, NEW len \in Nat
  PROVE  \E f : f = [pos \in 0 .. Last |-> SlotFrom(f, pos, len)]
  <1> DEFINE From(n) == \E f : /\ f = [pos \in 0 .. Last |-> f[pos]]
                               /\ \A pos \in n .. Last : f[pos] = SlotFrom(f, pos, len)
             S == {n \in 0 .. Last : From(n)}
  <1>1. ASSUME NEW n \in 0 .. Last, \A q \in 0 .. Last : n < q => q \in S PROVE n \in S
    <2>1. PICK f : f = [pos \in 0 .. Last |-> f[pos]] /\ \A pos \in n + 1 .. Last : f[pos] = SlotFrom(f, pos, len)
      <3>1. CASE n = Last
        <4> WITNESS [pos \in 0 .. Last |-> {}]
        <4> QED
          BY <3>1, DirNat
      <3>2. CASE n # Last
        <4>1. n + 1 \in S
          BY <1>1, <3>2, DirNat
        <4> QED
          BY <4>1
      <3> QED
        BY <3>1, <3>2
    <2> DEFINE g == [pos \in 0 .. Last |-> IF pos = n THEN SlotFrom(f, n, len) ELSE f[pos]]
    <2>2. ASSUME NEW pos \in n .. Last PROVE SlotFrom(f, pos, len) = SlotFrom(g, pos, len)
      <3>1. pos \in 0 .. Last /\ n <= pos
        BY DirNat
      <3>2. CASE pos >= DirSize
        BY <3>2 DEF SlotFrom
      <3>3. CASE ~(pos >= DirSize)
        <4>1. g[SectorEnd(pos)] = f[SectorEnd(pos)]
          BY <3>1, <3>3, WalkStep, DirNat
        <4>2. dirCells[pos].len > 0 /\ ~(pos + dirCells[pos].len > DirSize) =>
                g[pos + dirCells[pos].len] = f[pos + dirCells[pos].len]
          BY <3>1, <3>3, WalkStep, DirNat
        <4> HIDE DEF g
        <4> QED
          BY <3>3, <4>1, <4>2 DEF SlotFrom
      <3> QED
        BY <3>2, <3>3
    <2>3. ASSUME NEW pos \in n .. Last PROVE g[pos] = SlotFrom(g, pos, len)
      <3>1. pos = n \/ pos \in n + 1 .. Last
        OBVIOUS
      <3>2. pos \in 0 .. Last
        OBVIOUS
      <3>3. g[pos] = SlotFrom(f, pos, len)
        BY <2>1, <3>1, <3>2
      <3> QED
        BY <2>2, <3>3
    <2>4. g = [pos \in 0 .. Last |-> g[pos]]
      OBVIOUS
    <2> HIDE DEF g
    <2> QED
      BY <2>3, <2>4
  <1>2. 0 \in S
    <2> HIDE DEF S
    <2>1. \A pos \in 0 .. Last : pos \in S
      BY <1>1, DownwardInduction, DirNat
    <2> QED
      BY <2>1, DirNat
  <1>3. PICK f : f = [pos \in 0 .. Last |-> f[pos]] /\ \A pos \in 0 .. Last : f[pos] = SlotFrom(f, pos, len)
    BY <1>2
  <1>4. f = [pos \in 0 .. Last |-> SlotFrom(f, pos, len)]
    BY <1>3
  <1> QED
    BY <1>4

LEMMA SlotWalk ==
  ASSUME CellsOK, NEW len \in Nat
  PROVE  \E f : f = [pos \in 0 .. Last |-> SlotFrom(f, pos, len)] /\ FreeSlot(len) = f[0]
  <1> DEFINE w == CHOOSE f : f = [pos \in 0 .. Last |-> SlotFrom(f, pos, len)]
  <1>1. w = [pos \in 0 .. Last |-> SlotFrom(w, pos, len)]
    <2>1. \E f : f = [pos \in 0 .. Last |-> SlotFrom(f, pos, len)]
      BY SlotExists
    <2> QED
      BY <2>1, Zenon
  <1>2. FreeSlot(len) = w[0]
    BY Zenon DEF FreeSlot, SlotFrom, Last
  <1> HIDE DEF w
  <1> QED
    BY <1>1, <1>2

\* ReadDirectory finds the records that no deleted one hides, and nothing else.
LEMMA PackedIsRead ==
  ASSUME CellsOK, Packed(layout), Follows
  PROVE  ReadDirectory = {p \in Records : ~Hidden(p)}
  <1>1. PICK f : f = [pos \in 0 .. Last |-> FoundFrom(f, pos)] /\ ReadDirectory = f[0]
    BY ReadWalk
  <1> DEFINE From(pos) == {q \in Records : pos <= q /\ ~Hidden(q)}
             Walked(pos) == pos < DirSize => layout[pos] # -1 /\ ~Hidden(pos)
             S == {pos \in 0 .. Last : Walked(pos) => f[pos] = From(pos)}
  <1>0. \A p \in Positions : layout[p] \in {-1, 0, 2, 3}
    BY DEF CellsOK
  <1>2. ASSUME NEW pos \in 0 .. Last, \A q \in 0 .. Last : pos < q => q \in S PROVE pos \in S
    <2> SUFFICES ASSUME Walked(pos) PROVE f[pos] = From(pos)
      OBVIOUS
    <2>1. f[pos] = FoundFrom(f, pos)
      BY <1>1
    <2>2. CASE pos >= DirSize
      BY <2>1, <2>2, DirNat DEF FoundFrom, Records, Positions
    <2>3. CASE ~(pos >= DirSize)
      <3>0. /\ pos \in Positions /\ pos \in Nat /\ pos < DirSize
            /\ SectorEnd(pos) \in 0 .. Last /\ SectorEnd(pos) \in Nat /\ pos < SectorEnd(pos) /\ SectorEnd(pos) <= DirSize
            /\ dirCells[pos].len \in {0, layout[pos]} /\ layout[pos] \in {0, 2, 3} /\ ~Hidden(pos)
            /\ layout[pos] = 0 => dirCells[pos].len = 0
        <4>1. pos \in Positions
          BY <2>3, WalkStep
        <4> QED
          BY <1>0, <2>3, <4>1, WalkStep, PositionNat DEF Follows
      <3>1. Walked(SectorEnd(pos))
        <4>1. ASSUME SectorEnd(pos) \in Positions PROVE layout[SectorEnd(pos)] # -1
          BY <3>0, <4>1 DEF Packed
        <4>2. ASSUME NEW q \in Positions, q < SectorEnd(pos), SectorEnd(q) = SectorEnd(SectorEnd(pos)) PROVE FALSE
          BY <3>0, <4>2, NewSector, PositionNat, SectorBounds
        <4> QED
          BY <3>0, <4>1, <4>2, DirNat DEF Hidden, Positions
      <3>2. CASE dirCells[pos].len = 0
        <4>1. ASSUME NEW q \in Records, pos <= q, ~Hidden(q) PROVE SectorEnd(pos) <= q
          <5> SUFFICES ASSUME q < SectorEnd(pos) PROVE FALSE
            BY <3>0, PositionNat DEF Records
          <5>1. q \in Positions /\ q \in Nat /\ pos # q /\ pos < q
            BY <3>2, <4>1, <3>0, PositionNat DEF Records
          <5>2. layout[pos] = 0 => layout[q] = 0
            BY <3>0, <5>1 DEF Packed
          <5>3. layout[pos] > 0 => Hidden(q)
            BY <3>0, <3>2, <5>1, SameSector DEF Hidden
          <5> QED
            BY <3>0, <4>1, <5>2, <5>3 DEF Records
        <4>2. From(pos) = From(SectorEnd(pos))
          <5>0. pos \in Nat /\ SectorEnd(pos) \in Nat /\ pos < SectorEnd(pos)
            BY <3>0
          <5>1. ASSUME NEW q \in Records, SectorEnd(pos) <= q PROVE pos <= q
            <6>1. q \in Nat
              BY PositionNat DEF Records
            <6> HIDE DEF From, Walked, S
            <6> QED
              BY <5>0, <5>1, <6>1
          <5> QED
            BY <4>1, <5>1
        <4>3. f[SectorEnd(pos)] = From(SectorEnd(pos))
          BY <1>2, <3>0, <3>1
        <4>4. FoundFrom(f, pos) = f[SectorEnd(pos)]
          BY <2>3, <3>2 DEF FoundFrom, MinLen
        <4> QED
          BY <2>1, <4>2, <4>3, <4>4
      <3>3. CASE dirCells[pos].len # 0
        <4> DEFINE next == pos + layout[pos]
        <4>0. dirCells[pos].len = layout[pos] /\ layout[pos] \in {2, 3}
          BY <3>0, <3>3
        <4>1. next \in 0 .. Last /\ next \in Nat /\ pos < next /\ next <= SectorEnd(pos) /\ next <= DirSize
          <5>1. next <= SectorEnd(pos)
            BY <3>0, <4>0 DEF Packed, NextCell
          <5> QED
            BY <3>0, <4>0, <5>1, DirNat
        <4>2. next < DirSize => layout[next] # -1
          BY <3>0, <4>0, <4>1, DirNat DEF Packed, NextCell, Positions
        <4>3. \A q \in Positions : pos < q /\ q < next => layout[q] = -1
          <5> SUFFICES ASSUME NEW q \in Positions, pos < q, q < next PROVE layout[q] = -1
            OBVIOUS
          <5>1. q \in Nat
            BY PositionNat
          <5>2. q < SectorEnd(pos) /\ layout[pos] > 0
            BY <3>0, <4>0, <4>1, <5>1
          <5> QED
            BY <3>0, <5>2 DEF Packed
        <4>4. ASSUME NEW q \in Positions, q < next, SectorEnd(q) = SectorEnd(next), layout[q] > 0, dirCells[q].len = 0
              PROVE  FALSE
          <5>0. q \in Nat /\ q < SectorEnd(q) /\ SectorEnd(q) \in Nat /\ next < SectorEnd(next)
            BY <4>1, <4>4, PositionNat, SectorBounds
          <5>1. CASE q < pos
            <6>1. SectorEnd(q) = SectorEnd(pos)
              BY <3>0, <4>1, <4>4, <5>0, <5>1, SameSector
            <6> QED
              BY <3>0, <4>4, <5>1, <6>1 DEF Hidden
          <5>2. CASE q = pos
            BY <3>3, <4>4, <5>2
          <5>3. CASE pos < q
            BY <4>3, <4>4, <5>3
          <5> QED
            BY <3>0, <5>0, <5>1, <5>2, <5>3
        <4>5. Walked(next)
          BY <4>2, <4>4 DEF Hidden
        <4>6. From(pos) = {pos} \cup From(next)
          <5>1. pos \in Records /\ pos <= pos /\ ~Hidden(pos)
            BY <3>0, <4>0 DEF Records
          <5>2. ASSUME NEW q \in Records, pos <= q, q # pos PROVE next <= q
            <6>1. q \in Positions /\ q \in Nat /\ layout[q] > 0
              BY PositionNat DEF Records
            <6> QED
              BY <3>0, <4>1, <4>3, <5>2, <6>1
          <5>3. ASSUME NEW q \in Records, next <= q PROVE pos <= q
            BY <3>0, <4>1, <5>3, PositionNat DEF Records
          <5> HIDE DEF next
          <5> QED
            BY <5>1, <5>2, <5>3
        <4>7. f[next] = From(next)
          BY <1>2, <4>1, <4>5
        <4>8. FoundFrom(f, pos) = {pos} \cup f[next]
          <5>1. /\ pos + dirCells[pos].len = next /\ ~(next > DirSize)
                /\ dirCells[pos].len > 0 /\ ~(dirCells[pos].len < MinLen)
            BY <3>0, <4>0, <4>1, DirNat DEF MinLen
          <5> HIDE DEF next
          <5> QED
            BY <2>3, <5>1 DEF FoundFrom
        <4> QED
          BY <2>1, <4>6, <4>7, <4>8
      <3> QED
        BY <3>2, <3>3
    <2> QED
      BY <2>2, <2>3
  <1>3. 0 \in S
    <2> HIDE DEF S
    <2>1. \A pos \in 0 .. Last : pos \in S
      BY <1>2, DownwardInduction, DirNat
    <2> QED
      BY <2>1, DirNat
  <1>4. Walked(0)
    BY DirNat, PositionNat DEF Packed, Hidden
  <1>5. From(0) = {p \in Records : ~Hidden(p)}
    BY PositionNat DEF Records
  <1> QED
    BY <1>1, <1>3, <1>4, <1>5

\* AddFile's scan returns a zero with room behind it, where a record begins or none ever was,
\* and no such free place comes before it in its sector; or it returns that there is none.
Free(pos, len) ==
  /\ pos \in Positions /\ dirCells[pos].len = 0 /\ SectorEnd(pos) - pos >= len /\ layout[pos] # -1
  /\ \A q \in Positions : q < pos /\ SectorEnd(q) = SectorEnd(pos) => layout[q] # 0

LEMMA SlotIsFree ==
  ASSUME CellsOK, Packed(layout), Follows, NEW len \in Nat, FreeSlot(len) < DirSize
  PROVE  Free(FreeSlot(len), len)
  <1>1. PICK f : f = [pos \in 0 .. Last |-> SlotFrom(f, pos, len)] /\ FreeSlot(len) = f[0]
    BY SlotWalk
  <1> DEFINE NoneBefore(pos) == \A q \in Positions : q < pos /\ SectorEnd(q) = SectorEnd(pos) => layout[q] # 0
             Walked(pos) == pos < DirSize => layout[pos] # -1 /\ NoneBefore(pos)
             S == {pos \in 0 .. Last : Walked(pos) => f[pos] = DirSize \/ Free(f[pos], len)}
  <1>0. \A p \in Positions : layout[p] \in {-1, 0, 2, 3}
    BY DEF CellsOK
  <1>2. ASSUME NEW pos \in 0 .. Last, \A q \in 0 .. Last : pos < q => q \in S PROVE pos \in S
    <2> SUFFICES ASSUME Walked(pos) PROVE f[pos] = DirSize \/ Free(f[pos], len)
      OBVIOUS
    <2>1. f[pos] = SlotFrom(f, pos, len)
      BY <1>1
    <2>2. CASE pos >= DirSize
      BY <2>1, <2>2 DEF SlotFrom
    <2>3. CASE ~(pos >= DirSize)
      <3>0. /\ pos \in Positions /\ pos \in Nat /\ pos < DirSize
            /\ SectorEnd(pos) \in 0 .. Last /\ SectorEnd(pos) \in Nat /\ pos < SectorEnd(pos) /\ SectorEnd(pos) <= DirSize
            /\ dirCells[pos].len \in {0, layout[pos]} /\ layout[pos] \in {0, 2, 3} /\ NoneBefore(pos)
            /\ layout[pos] = 0 => dirCells[pos].len = 0
        <4>1. pos \in Positions
          BY <2>3, WalkStep
        <4> QED
          BY <1>0, <2>3, <4>1, WalkStep, PositionNat DEF Follows
      <3>1. CASE dirCells[pos].len = 0 /\ SectorEnd(pos) - pos >= len
        <4>1. SlotFrom(f, pos, len) = pos
          BY <2>3, <3>1 DEF SlotFrom
        <4> QED
          BY <2>1, <3>0, <3>1, <4>1 DEF Free
      <3>2. CASE dirCells[pos].len = 0 /\ ~(SectorEnd(pos) - pos >= len)
        <4>1. SlotFrom(f, pos, len) = f[SectorEnd(pos)]
          BY <2>3, <3>2 DEF SlotFrom
        <4>2. Walked(SectorEnd(pos))
          <5>1. ASSUME SectorEnd(pos) \in Positions PROVE layout[SectorEnd(pos)] # -1
            BY <3>0, <5>1 DEF Packed
          <5>2. ASSUME NEW q \in Positions, q < SectorEnd(pos), SectorEnd(q) = SectorEnd(SectorEnd(pos)) PROVE FALSE
            BY <3>0, <5>2, NewSector, PositionNat, SectorBounds
          <5> QED
            BY <3>0, <5>1, <5>2, DirNat DEF Positions
        <4> QED
          BY <1>2, <2>1, <3>0, <4>1, <4>2
      <3>3. CASE dirCells[pos].len # 0
        <4> DEFINE next == pos + layout[pos]
        <4>0. dirCells[pos].len = layout[pos] /\ layout[pos] \in {2, 3}
          BY <3>0, <3>3
        <4>1. next \in 0 .. Last /\ next \in Nat /\ pos < next /\ next <= SectorEnd(pos) /\ next <= DirSize
          <5>1. next <= SectorEnd(pos)
            BY <3>0, <4>0 DEF Packed, NextCell
          <5> QED
            BY <3>0, <4>0, <5>1, DirNat
        <4>2. next < DirSize => layout[next] # -1
          BY <3>0, <4>0, <4>1, DirNat DEF Packed, NextCell, Positions
        <4>3. \A q \in Positions : pos < q /\ q < next => layout[q] = -1
          <5> SUFFICES ASSUME NEW q \in Positions, pos < q, q < next PROVE layout[q] = -1
            OBVIOUS
          <5>1. q \in Nat
            BY PositionNat
          <5>2. q < SectorEnd(pos) /\ layout[pos] > 0
            BY <3>0, <4>0, <4>1, <5>1
          <5> QED
            BY <3>0, <5>2 DEF Packed
        <4>4. ASSUME NEW q \in Positions, q < next, SectorEnd(q) = SectorEnd(next)
              PROVE  layout[q] # 0
          <5>0. q \in Nat /\ q < SectorEnd(q) /\ SectorEnd(q) \in Nat /\ next < SectorEnd(next)
            BY <4>1, <4>4, PositionNat, SectorBounds
          <5>1. CASE q < pos
            <6>1. SectorEnd(q) = SectorEnd(pos)
              BY <3>0, <4>1, <4>4, <5>0, <5>1, SameSector
            <6> QED
              BY <3>0, <5>1, <6>1
          <5>2. CASE q = pos
            BY <4>0, <5>2
          <5>3. CASE pos < q
            BY <4>3, <4>4, <5>3
          <5> QED
            BY <3>0, <5>0, <5>1, <5>2, <5>3
        <4>5. Walked(next)
          BY <4>2, <4>4
        <4>6. SlotFrom(f, pos, len) = f[next]
          <5>1. /\ pos + dirCells[pos].len = next /\ ~(next > DirSize)
                /\ dirCells[pos].len > 0 /\ ~(dirCells[pos].len < MinLen)
            BY <3>0, <4>0, <4>1, DirNat DEF MinLen
          <5> HIDE DEF next
          <5> QED
            BY <2>3, <5>1 DEF SlotFrom
        <4>7. next \in S
          BY <1>2, <4>1
        <4> QED
          BY <2>1, <4>5, <4>6, <4>7
      <3> QED
        BY <3>1, <3>2, <3>3
    <2> QED
      BY <2>2, <2>3
  <1>3. 0 \in S
    <2> HIDE DEF S
    <2>1. \A pos \in 0 .. Last : pos \in S
      BY <1>2, DownwardInduction, DirNat
    <2> QED
      BY <2>1, DirNat
  <1>4. Walked(0)
    BY DirNat, PositionNat DEF Packed
  <1> QED
    BY <1>1, <1>3, <1>4, DirNat

\* A record written into the first zero of its sector, with room for it, leaves the
\* directory packed.
LEMMA PackedWritten ==
  ASSUME NEW L \in [Positions -> {-1, 0, 2, 3}], Packed(L), NEW slot \in Positions, L[slot] = 0,
         NEW n \in {2, 3}, SectorEnd(slot) - slot >= n,
         \A q \in Positions : q < slot /\ SectorEnd(q) = SectorEnd(slot) => L[q] # 0,
         NEW K, K = [p \in Positions |-> IF p = slot THEN n ELSE IF p \in slot + 1 .. slot + n - 1 THEN -1 ELSE L[p]]
  PROVE  Packed(K)
  <1>0. \A p \in Positions : p \in Nat /\ SectorEnd(p) \in Nat /\ p < SectorEnd(p)
    <2>1. \A p \in Positions : p \in Nat
      BY DirNat DEF Positions
    <2> QED
      BY <2>1, SectorBounds
  <1>1. \A p, q \in Positions : p <= q /\ q < SectorEnd(p) => SectorEnd(q) = SectorEnd(p)
    BY <1>0, SameSector
  <1>2. \A p \in Positions : slot <= p /\ p < slot + n => L[p] = 0
    BY <1>0 DEF Packed
  <1>3. K[0] # -1
    <2>1. 0 \in Positions
      BY DirNat DEF Positions
    <2> QED
      BY <1>0, <2>1 DEF Packed
  <1>7. ASSUME NEW p \in Positions, SectorEnd(p) \in Positions PROVE K[SectorEnd(p)] # -1
    <2>1. ASSUME slot < SectorEnd(p), SectorEnd(p) < slot + n PROVE FALSE
      BY <1>0, <2>1, NewSector
    <2>2. L[SectorEnd(p)] # -1
      BY <1>7 DEF Packed
    <2> QED
      BY <1>0, <1>7, <2>1, <2>2
  <1>4. \A p \in Positions : K[p] # -1 => L[p] # -1 /\ (p = slot \/ K[p] = L[p])
    BY <1>0
  <1>5. ASSUME NEW p \in Positions, K[p] # -1
        PROVE  NextCell(K, p) <= SectorEnd(p) /\ (NextCell(K, p) \in Positions => K[NextCell(K, p)] # -1)
    <2>1. CASE p = slot
      <3>1. NextCell(K, p) = slot + n /\ slot + n <= SectorEnd(slot)
        BY <1>0, <2>1 DEF NextCell
      <3>2. ASSUME slot + n \in Positions PROVE L[slot + n] # -1
        <4>1. CASE slot + n < SectorEnd(slot)
          BY <1>0, <3>2, <4>1 DEF Packed
        <4>2. CASE slot + n = SectorEnd(slot)
          BY <1>0, <3>2, <4>2 DEF Packed, NextCell
        <4> QED
          BY <1>0, <3>1, <4>1, <4>2
      <3> QED
        BY <1>0, <2>1, <3>1, <3>2
    <2>2. CASE p # slot
      <3>1. K[p] = L[p] /\ L[p] \in {0, 2, 3} /\ NextCell(K, p) = NextCell(L, p)
        BY <1>0, <1>5, <2>2 DEF NextCell
      <3>2. NextCell(L, p) <= SectorEnd(p) /\ (NextCell(L, p) \in Positions => L[NextCell(L, p)] # -1)
        BY <1>0, <3>1 DEF Packed
      <3>3. ASSUME NextCell(L, p) \in slot + 1 .. slot + n - 1, NextCell(L, p) \in Positions PROVE FALSE
        <4>1. p < NextCell(L, p) /\ NextCell(L, p) \in Nat
          BY <1>0, <3>1 DEF NextCell
        <4>2. CASE L[p] > 0
          <5> DEFINE last == p + L[p] - 1
          <5>0. NextCell(L, p) = p + L[p]
            BY <4>2 DEF NextCell
          <5>1. last \in Positions /\ slot <= last /\ last < slot + n /\ p <= last
            <6>1. p \in Nat /\ slot \in Nat /\ L[p] \in {2, 3} /\ p + L[p] \in slot + 1 .. slot + n - 1
                  /\ p + L[p] \in 0 .. DirSize - 1
              BY <1>0, <3>1, <3>3, <4>2, <5>0 DEF Positions
            <6> QED
              BY <6>1, DirNat DEF Positions
          <5>2. L[last] = 0
            BY <1>2, <5>1
          <5>3. last = p \/ L[last] = -1
            BY <1>0, <3>1, <3>2, <4>2, <5>0, <5>1 DEF Packed
          <5> HIDE DEF last
          <5> QED
            BY <3>1, <4>2, <5>2, <5>3
        <4>3. CASE L[p] = 0
          <5>1. NextCell(L, p) = SectorEnd(p)
            BY <4>3 DEF NextCell
          <5>2. slot < SectorEnd(p) /\ SectorEnd(p) < SectorEnd(slot)
            BY <1>0, <3>3, <5>1
          <5>3. CASE p <= slot
            BY <1>0, <1>1, <5>2, <5>3
          <5>4. CASE slot < p
            BY <1>0, <1>1, <5>2, <5>4
          <5> QED
            BY <1>0, <5>3, <5>4
        <4> QED
          BY <3>1, <4>2, <4>3
      <3>4. ASSUME NextCell(L, p) \in Positions PROVE K[NextCell(L, p)] # -1
        BY <3>2, <3>3, <3>4
      <3> QED
        BY <3>1, <3>2, <3>4
    <2> QED
      BY <2>1, <2>2
  <1>6. ASSUME NEW p \in Positions, NEW q \in Positions, p < q, q < SectorEnd(p)
        PROVE  (K[p] = 0 => K[q] = 0) /\ (K[p] > 0 /\ q < p + K[p] => K[q] = -1)
    <2>0. SectorEnd(q) = SectorEnd(p)
      BY <1>0, <1>1, <1>6
    <2>1. K[p] = 0 => K[q] = 0
      <3> SUFFICES ASSUME K[p] = 0 PROVE K[q] = 0
        OBVIOUS
      <3>1. L[p] = 0 /\ L[q] = 0 /\ p # slot /\ p \notin slot + 1 .. slot + n - 1
        BY <1>0, <1>6 DEF Packed
      <3>2. CASE p < slot
        <4>1. slot >= SectorEnd(p)
          BY <1>0, <1>1, <3>1, <3>2
        <4> QED
          BY <1>0, <1>6, <3>1, <4>1
      <3>3. CASE slot < p
        BY <1>0, <1>6, <3>1, <3>3
      <3> QED
        BY <1>0, <3>1, <3>2, <3>3
    <2>2. K[p] > 0 /\ q < p + K[p] => K[q] = -1
      <3> SUFFICES ASSUME K[p] > 0, q < p + K[p] PROVE K[q] = -1
        OBVIOUS
      <3>1. CASE p = slot
        BY <1>0, <1>6, <3>1
      <3>2. CASE p # slot
        <4>1. K[p] = L[p] /\ L[q] = -1
          BY <1>0, <1>6, <3>2 DEF Packed
        <4>2. q # slot
          BY <4>1
        <4> QED
          BY <4>1, <4>2
      <3> QED
        BY <3>1, <3>2
    <2> QED
      BY <2>1, <2>2
  <1> QED
    BY <1>3, <1>5, <1>6, <1>7 DEF Packed

LEMMA RecordIsFull ==
  ASSUME Follows, CellsOK, NEW p \in Records
  PROVE  /\ p \in Positions /\ dirCells[p] \in Cells
         /\ dirCells[p].name \in FileNames /\ dirCells[p].lba \in Nat /\ dirCells[p].size \in Nat
         /\ dirCells[p].len = layout[p]
  BY DEF CellsOK, Records, Follows, Cells

LEMMA PatchAdd ==
  ASSUME PatchInv, NEW name \in FileNames, NEW size \in Sizes, AddFile(name, size)
  PROVE  PatchInv'
  <1> DEFINE n == RecordLen(name)
             slot == FreeSlot(n)
             rec == [len |-> n, name |-> name, lba |-> volumeEnd, size |-> size]
  <1>1. slot < DirSize /\ volumeEnd' = volumeEnd + size /\ name \notin DOMAIN patchFiles
        /\ patchFiles' = [f \in DOMAIN patchFiles \cup {name} |->
                            IF f = name THEN [lba |-> volumeEnd, size |-> size] ELSE patchFiles[f]]
        /\ ragged' = (ragged \/ layout[slot] \notin {0, n})
    BY DEF AddFile, AddAt, Put
  <1>2. dirCells' = Laid(dirCells, slot, n, rec, Inside[name])
        /\ layout' = Laid(layout, slot, n, n, [k \in {1, 2} |-> -1])
    BY DEF AddFile, AddAt
  <1>3. ragged' \in BOOLEAN
    BY <1>1 DEF PatchInv
  <1> SUFFICES ASSUME ~ragged' PROVE CellsOK' /\ Packed(layout)' /\ Follows' /\ AllApart' /\ AllTold'
    BY <1>3 DEF PatchInv
  <1>4. CellsOK /\ Packed(layout) /\ Follows /\ AllApart /\ AllTold /\ layout[slot] \in {0, n}
    BY <1>1 DEF PatchInv
  <1>5. n \in {2, 3} /\ volumeEnd \in Nat /\ size \in Nat /\ name \in FileNames
    BY <1>4 DEF RecordLen, CellsOK, Sizes
  <1>6. Free(slot, n)
    <2>1. n \in Nat
      BY <1>5
    <2> QED
      BY <1>1, <1>4, <2>1, SlotIsFree
  <1>7. slot \in Positions /\ slot \in Nat /\ SectorEnd(slot) \in Nat /\ SectorEnd(slot) - slot >= n
        /\ SectorEnd(slot) <= DirSize /\ dirCells[slot].len = 0
    BY <1>6, PositionNat DEF Free
  <1>8. rec \in Cells /\ rec.len = n /\ rec.name = name /\ rec.lba = volumeEnd /\ rec.size = size
    BY <1>5 DEF Cells
  <1> HIDE DEF rec, slot, n
  <1> DEFINE Over == slot + 1 .. slot + n - 1
  \* Behind the place are no records.
  <1>9. \A p \in Positions : p \in Over => layout[p] \in {-1, 0} /\ p - slot \in {1, 2}
    <2> SUFFICES ASSUME NEW p \in Positions, p \in Over PROVE layout[p] \in {-1, 0} /\ p - slot \in {1, 2}
      OBVIOUS
    <2>1. slot < p /\ p < SectorEnd(slot) /\ p < slot + n /\ p \in Nat /\ p - slot \in {1, 2}
      BY <1>5, <1>7
    <2> QED
      BY <1>4, <1>5, <1>7, <2>1 DEF Packed
  <1>10. \A p \in Positions : layout'[p] = IF p = slot THEN n ELSE IF p \in Over THEN -1 ELSE layout[p]
    BY <1>2, <1>9 DEF Laid
  <1>11. \A p \in Positions :
           /\ p = slot => dirCells'[p] = rec
           /\ p # slot /\ p \in Over => dirCells'[p].len \in Nat
           /\ p # slot /\ p \notin Over => dirCells'[p] = dirCells[p]
    <2>1. \A k \in {1, 2} : Inside[name][k].len \in Nat
      BY <1>5, PatchAssumption DEF Cells
    <2> QED
      BY <1>2, <1>9, <2>1 DEF Laid
  <1>12. CellsOK'
    <2>1. \A p \in Positions : dirCells'[p].len \in Nat
      BY <1>4, <1>5, <1>8, <1>11 DEF CellsOK
    <2>2. dirCells' = [p \in Positions |-> dirCells'[p]]
      BY <1>2 DEF Laid
    <2>3. layout' \in [Positions -> {-1, 0, 2, 3}]
      <3>1. layout' = [p \in Positions |-> layout'[p]]
        BY <1>2 DEF Laid
      <3>2. \A p \in Positions : layout'[p] \in {-1, 0, 2, 3}
        BY <1>4, <1>5, <1>10 DEF CellsOK
      <3> QED
        BY <3>1, <3>2
    <2>4. volumeEnd' \in Nat
      BY <1>1, <1>5
    <2> QED
      BY <2>1, <2>2, <2>3, <2>4 DEF CellsOK
  <1>13. Packed(layout)'
    <2>0. layout \in [Positions -> {-1, 0, 2, 3}]
      BY <1>4 DEF CellsOK
    <2>1. CASE layout[slot] = 0
      <3>1. PICK K : K = layout'
        OBVIOUS
      <3>2. K = [p \in Positions |-> IF p = slot THEN n ELSE IF p \in slot + 1 .. slot + n - 1 THEN -1 ELSE layout[p]]
        <4>1. layout' = [p \in Positions |-> layout'[p]]
          BY <1>2 DEF Laid
        <4> QED
          BY <1>10, <3>1, <4>1
      <3>3. \A q \in Positions : q < slot /\ SectorEnd(q) = SectorEnd(slot) => layout[q] # 0
        BY <1>6 DEF Free
      <3>4. Packed(K)
        BY <1>4, <1>5, <1>7, <2>0, <2>1, <3>2, <3>3, PackedWritten
      <3> QED
        BY <3>1, <3>4
    <2>2. CASE layout[slot] = n
      <3>1. \A p \in Positions : p \in Over => layout[p] = -1
        <4> SUFFICES ASSUME NEW p \in Positions, p \in Over PROVE layout[p] = -1
          OBVIOUS
        <4>1. slot < p /\ p < SectorEnd(slot) /\ p < slot + layout[slot] /\ layout[slot] > 0
          BY <1>5, <1>7, <2>2
        <4> QED
          BY <1>4, <1>7, <4>1 DEF Packed
      <3>2. layout' = layout
        <4>1. \A p \in Positions : layout'[p] = layout[p]
          BY <1>10, <2>2, <3>1
        <4>2. layout' = [p \in Positions |-> layout'[p]]
          BY <1>2 DEF Laid
        <4> QED
          BY <2>0, <4>1, <4>2
      <3> QED
        BY <1>4, <3>2 DEF Packed, NextCell
    <2> QED
      BY <1>4, <2>1, <2>2
  <1>14. Follows'
    <2> SUFFICES ASSUME NEW p \in Positions
                 PROVE  /\ layout'[p] = 0 => dirCells'[p].len = 0
                        /\ layout'[p] > 0 => dirCells'[p] \in Cells /\ dirCells'[p].len \in {0, layout'[p]}
      BY DEF Follows
    <2>1. CASE p = slot
      BY <1>5, <1>8, <1>10, <1>11, <2>1
    <2>2. CASE p # slot /\ p \in Over
      BY <1>10, <2>2
    <2>3. CASE p # slot /\ p \notin Over
      <3>1. layout'[p] = layout[p] /\ dirCells'[p] = dirCells[p]
        BY <1>10, <1>11, <2>3
      <3> QED
        BY <1>4, <3>1 DEF Follows
    <2> QED
      BY <2>1, <2>2, <2>3
  <1>15. slot \in Records' /\ slot \notin Records
    BY <1>5, <1>7, <1>8, <1>10, <1>11 DEF Records
  <1>16. \A p \in Records' : p # slot => p \in Records /\ dirCells'[p] = dirCells[p]
    BY <1>10, <1>11 DEF Records
  <1>17. \A p \in Records : p \in Records' /\ p # slot /\ dirCells'[p] = dirCells[p]
    <2> SUFFICES ASSUME NEW p \in Records PROVE p \in Records' /\ p # slot /\ dirCells'[p] = dirCells[p]
      OBVIOUS
    <2>1. p \in Positions /\ layout[p] > 0 /\ p # slot
      BY <1>15 DEF Records
    <2>2. p \notin Over
      BY <1>9, <2>1
    <2> QED
      BY <1>10, <1>11, <2>1, <2>2 DEF Records
  <1>18. dirCells'[slot] = rec
    BY <1>7, <1>11
  <1> HIDE DEF Over
  <1>19. AllApart'
    <2>1. \A p \in Records' : Behind(p, volumeEnd)'
          /\ (p # slot => p \in Records /\ dirCells'[p] = dirCells[p] /\ Behind(p, volumeEnd))
      <3> SUFFICES ASSUME NEW p \in Records'
                   PROVE  /\ Behind(p, volumeEnd)'
                          /\ p # slot => p \in Records /\ dirCells'[p] = dirCells[p] /\ Behind(p, volumeEnd)
        OBVIOUS
      <3>1. CASE p = slot
        BY <1>1, <1>5, <1>8, <1>18, <3>1 DEF Behind
      <3>2. CASE p # slot
        <4>1. p \in Records /\ dirCells'[p] = dirCells[p]
          BY <1>16, <3>2
        <4>2. Behind(p, volumeEnd) /\ dirCells[p].lba \in Nat /\ dirCells[p].size \in Nat
          BY <1>4, <4>1, RecordIsFull DEF AllApart
        <4> QED
          BY <1>1, <1>5, <4>1, <4>2, <3>2 DEF Behind
      <3> QED
        BY <3>1, <3>2
    <2>2. ASSUME NEW p \in Records', NEW q \in Records', p # q
          PROVE  Behind(p, dirCells[q].lba)' \/ Behind(q, dirCells[p].lba)'
      <3>1. CASE p = slot
        <4>1. dirCells'[p].lba = volumeEnd /\ q # slot
          BY <1>8, <1>18, <2>2, <3>1
        <4> QED
          BY <2>1, <4>1 DEF Behind
      <3>2. CASE q = slot
        <4>1. dirCells'[q].lba = volumeEnd /\ p # slot
          BY <1>8, <1>18, <2>2, <3>2
        <4> QED
          BY <2>1, <4>1 DEF Behind
      <3>3. CASE p # slot /\ q # slot
        <4>1. Behind(p, dirCells[q].lba) \/ Behind(q, dirCells[p].lba)
          BY <1>4, <2>1, <2>2, <3>3 DEF AllApart
        <4> QED
          BY <2>1, <3>3, <4>1 DEF Behind
      <3> QED
        BY <3>1, <3>2, <3>3
    <2> QED
      BY <2>1, <2>2 DEF AllApart
  <1>20. AllTold'
    <2>1. AllTold
      BY <1>4
    <2>6. \A p \in Records' : /\ dirCells'[p].name \in DOMAIN patchFiles'
                              /\ patchFiles'[dirCells'[p].name] = [lba |-> dirCells'[p].lba, size |-> dirCells'[p].size]
      <3> SUFFICES ASSUME NEW p \in Records'
                   PROVE  /\ dirCells'[p].name \in DOMAIN patchFiles'
                          /\ patchFiles'[dirCells'[p].name] = [lba |-> dirCells'[p].lba, size |-> dirCells'[p].size]
        OBVIOUS
      <3>1. CASE p = slot
        BY <1>1, <1>8, <1>18, <3>1
      <3>2. CASE p # slot
        <4>1. p \in Records /\ dirCells'[p] = dirCells[p]
          BY <1>16, <3>2
        <4>2. /\ dirCells[p].name \in DOMAIN patchFiles
              /\ patchFiles[dirCells[p].name] = [lba |-> dirCells[p].lba, size |-> dirCells[p].size]
          BY <2>1, <4>1 DEF AllTold
        <4>3. dirCells[p].name # name
          BY <1>1, <4>2
        <4> QED
          BY <1>1, <4>1, <4>2, <4>3
      <3> QED
        BY <3>1, <3>2
    <2>7. \A p \in Records' : \A q \in Records' : dirCells'[q].name = dirCells'[p].name => q = p
      <3> SUFFICES ASSUME NEW p \in Records', NEW q \in Records', dirCells'[q].name = dirCells'[p].name PROVE q = p
        OBVIOUS
      <3>1. dirCells'[slot].name = name
        BY <1>8, <1>18
      <3>2. \A r \in Records' : r # slot => r \in Records /\ dirCells'[r] = dirCells[r] /\ dirCells[r].name # name
        BY <1>1, <1>16, <2>1 DEF AllTold
      <3>3. CASE p = slot \/ q = slot
        BY <3>1, <3>2, <3>3
      <3>4. CASE p # slot /\ q # slot
        <4>1. p \in Records /\ q \in Records /\ dirCells[q].name = dirCells[p].name
          BY <3>2, <3>4
        <4> QED
          BY <2>1, <4>1 DEF AllTold
      <3> QED
        BY <3>3, <3>4
    <2>8. \A f \in DOMAIN patchFiles' : \E p \in Records' : dirCells'[p].name = f
      <3> SUFFICES ASSUME NEW f \in DOMAIN patchFiles' PROVE \E p \in Records' : dirCells'[p].name = f
        OBVIOUS
      <3>1. CASE f = name
        BY <1>8, <1>15, <1>18, <3>1
      <3>2. CASE f # name
        <4>1. f \in DOMAIN patchFiles
          BY <1>1, <3>2
        <4>2. PICK p \in Records : dirCells[p].name = f
          BY <2>1, <4>1 DEF AllTold
        <4> QED
          BY <1>17, <4>2
      <3> QED
        BY <3>1, <3>2
    <2> QED
      BY <2>6, <2>7, <2>8 DEF AllTold
  <1> QED
    BY <1>12, <1>13, <1>14, <1>19, <1>20

LEMMA RecordMoved ==
  ASSUME NEW rec \in Cells, NEW lba, NEW size
  PROVE  [[rec EXCEPT !.lba = lba] EXCEPT !.size = size]
           = [len |-> rec.len, name |-> rec.name, lba |-> lba, size |-> size]
  <1>1. PICK n \in Nat, f \in FileNames, l \in Nat, z \in Nat : rec = [len |-> n, name |-> f, lba |-> l, size |-> z]
    BY DEF Cells
  <1>2. [rec EXCEPT !.lba = lba] = [len |-> n, name |-> f, lba |-> lba, size |-> z]
    BY <1>1
  <1>3. [[len |-> n, name |-> f, lba |-> lba, size |-> z] EXCEPT !.size = size]
          = [len |-> n, name |-> f, lba |-> lba, size |-> size]
    OBVIOUS
  <1> QED
    BY <1>1, <1>2, <1>3, Zenon

LEMMA FoundIsRecord ==
  ASSUME CellsOK, Packed(layout), Follows, NEW name, NEW pos \in Resolved(name)
  PROVE  pos \in Records /\ dirCells[pos].name = name
  <1>1. pos \in ReadDirectory /\ dirCells[pos].name = name
    BY DEF Resolved, Named
  <1>2. ReadDirectory = {p \in Records : ~Hidden(p)}
    BY PackedIsRead
  <1> QED
    BY <1>1, <1>2

LEMMA PatchReplace ==
  ASSUME PatchInv, NEW name \in FileNames, NEW size \in Sizes, ReplaceFile(name, size)
  PROVE  PatchInv'
  <1>0. ragged' = ragged /\ layout' = layout /\ volumeEnd' = volumeEnd + size
        /\ patchFiles' = [f \in DOMAIN patchFiles \cup {name} |->
                            IF f = name THEN [lba |-> volumeEnd, size |-> size] ELSE patchFiles[f]]
    BY DEF ReplaceFile, Put
  <1> SUFFICES ASSUME ~ragged PROVE CellsOK' /\ Packed(layout)' /\ Follows' /\ AllApart' /\ AllTold'
    BY <1>0 DEF PatchInv
  <1>1. CellsOK /\ Packed(layout) /\ Follows /\ AllApart /\ AllTold
    BY DEF PatchInv
  <1>2. PICK pos \in Resolved(name) : dirCells' = [dirCells EXCEPT ![pos].lba = volumeEnd, ![pos].size = size]
    BY DEF ReplaceFile
  <1>3. pos \in Records /\ dirCells[pos].name = name
    BY <1>1, FoundIsRecord
  <1>4. pos \in Positions /\ dirCells[pos] \in Cells /\ volumeEnd \in Nat /\ size \in Nat
    BY <1>1, <1>3, RecordIsFull DEF CellsOK, Sizes
  <1> DEFINE rec == [len |-> dirCells[pos].len, name |-> name, lba |-> volumeEnd, size |-> size]
  <1>5. dirCells' = [p \in Positions |-> IF p = pos THEN rec ELSE dirCells[p]]
    <2>1. dirCells = [p \in Positions |-> dirCells[p]]
      BY <1>1 DEF CellsOK
    <2>2. [[dirCells[pos] EXCEPT !.lba = volumeEnd] EXCEPT !.size = size] = rec
      BY <1>3, <1>4, RecordMoved
    <2>3. dirCells' = [dirCells EXCEPT ![pos] = [[dirCells[pos] EXCEPT !.lba = volumeEnd] EXCEPT !.size = size]]
      BY <1>2, <1>4, <2>1
    <2> HIDE DEF rec
    <2> QED
      BY <2>1, <2>2, <2>3
  <1>6. rec \in Cells
    BY <1>4 DEF Cells
  <1>7. rec.len = dirCells[pos].len /\ rec.name = name /\ rec.lba = volumeEnd /\ rec.size = size
    OBVIOUS
  <1> HIDE DEF rec
  <1>8. CellsOK' /\ Packed(layout)' /\ Follows'
    <2>1. \A p \in Positions : dirCells'[p].len = dirCells[p].len
      BY <1>5, <1>7
    <2>2. CellsOK'
      <3>1. dirCells' = [p \in Positions |-> dirCells'[p]]
        BY <1>5
      <3> QED
        BY <1>0, <1>1, <1>4, <2>1, <3>1 DEF CellsOK
    <2>3. Follows'
      BY <1>0, <1>1, <1>5, <1>6, <2>1 DEF Follows
    <2> QED
      BY <1>0, <1>1, <2>2, <2>3 DEF Packed, NextCell
  <1>9. Records' = Records /\ dirCells'[pos] = rec /\ \A p \in Records : p # pos => dirCells'[p] = dirCells[p]
    BY <1>0, <1>3, <1>4, <1>5, <1>7 DEF Records
  <1>10. \A p \in Records : dirCells'[p].name = dirCells[p].name
    BY <1>3, <1>7, <1>9
  <1>11. AllApart'
    <2>1. \A p \in Records : Behind(p, volumeEnd)' /\ (p # pos => Behind(p, volumeEnd))
      <3> SUFFICES ASSUME NEW p \in Records PROVE Behind(p, volumeEnd)' /\ (p # pos => Behind(p, volumeEnd))
        OBVIOUS
      <3>1. CASE p = pos
        BY <1>0, <1>4, <1>7, <1>9, <3>1 DEF Behind
      <3>2. CASE p # pos
        <4>1. Behind(p, volumeEnd)
          BY <1>1 DEF AllApart
        <4>2. dirCells[p].lba \in Nat /\ dirCells[p].size \in Nat
          BY <1>1, RecordIsFull
        <4> QED
          BY <1>0, <1>4, <1>9, <3>2, <4>1, <4>2 DEF Behind
      <3> QED
        BY <3>1, <3>2
    <2>2. ASSUME NEW p \in Records, NEW q \in Records, p # q
          PROVE  Behind(p, dirCells[q].lba)' \/ Behind(q, dirCells[p].lba)'
      <3>1. CASE p = pos
        BY <1>7, <1>9, <2>1, <2>2, <3>1 DEF Behind
      <3>2. CASE q = pos
        BY <1>7, <1>9, <2>1, <2>2, <3>2 DEF Behind
      <3>3. CASE p # pos /\ q # pos
        <4>1. Behind(p, dirCells[q].lba) \/ Behind(q, dirCells[p].lba)
          BY <1>1, <2>2 DEF AllApart
        <4> QED
          BY <1>9, <3>3, <4>1 DEF Behind
      <3> QED
        BY <3>1, <3>2, <3>3
    <2> QED
      BY <1>9, <2>1, <2>2 DEF AllApart
  <1>12. AllTold'
    <2>1. AllTold /\ name \in DOMAIN patchFiles
      BY <1>1, <1>3 DEF AllTold
    <2>2. DOMAIN patchFiles' = DOMAIN patchFiles /\ patchFiles'[name] = [lba |-> volumeEnd, size |-> size]
          /\ \A f \in DOMAIN patchFiles : f # name => patchFiles'[f] = patchFiles[f]
      BY <1>0, <2>1
    <2>3. ASSUME NEW p \in Records
          PROVE  /\ dirCells'[p].name \in DOMAIN patchFiles'
                 /\ patchFiles'[dirCells'[p].name] = [lba |-> dirCells'[p].lba, size |-> dirCells'[p].size]
                 /\ \A q \in Records : dirCells'[q].name = dirCells'[p].name => q = p
      <3>1. /\ dirCells[p].name \in DOMAIN patchFiles
            /\ patchFiles[dirCells[p].name] = [lba |-> dirCells[p].lba, size |-> dirCells[p].size]
            /\ \A q \in Records : dirCells[q].name = dirCells[p].name => q = p
        BY <2>1 DEF AllTold
      <3>2. patchFiles'[dirCells'[p].name] = [lba |-> dirCells'[p].lba, size |-> dirCells'[p].size]
        <4>1. CASE p = pos
          BY <1>7, <1>9, <2>2, <4>1
        <4>2. CASE p # pos
          <5>1. dirCells[pos].name # dirCells[p].name
            BY <1>3, <2>1, <4>2 DEF AllTold
          <5> QED
            BY <1>3, <1>9, <2>2, <3>1, <4>2, <5>1
        <4> QED
          BY <4>1, <4>2
      <3> QED
        BY <1>10, <2>2, <3>1, <3>2
    <2>4. \A f \in DOMAIN patchFiles' : \E p \in Records : dirCells'[p].name = f
      BY <1>10, <2>1, <2>2 DEF AllTold
    <2> QED
      BY <1>9, <2>3, <2>4 DEF AllTold
  <1> QED
    BY <1>8, <1>11, <1>12

LEMMA PatchDelete ==
  ASSUME PatchInv, NEW name \in FileNames, DeleteFile(name)
  PROVE  PatchInv'
  <1>0. ragged' = ragged /\ layout' = layout /\ volumeEnd' = volumeEnd
        /\ patchFiles' = [f \in DOMAIN patchFiles \ {name} |-> patchFiles[f]]
    BY DEF DeleteFile
  <1> SUFFICES ASSUME ~ragged PROVE CellsOK' /\ Packed(layout)' /\ Follows' /\ AllApart' /\ AllTold'
    BY <1>0 DEF PatchInv
  <1>1. CellsOK /\ Packed(layout) /\ Follows /\ AllApart /\ AllTold
    BY DEF PatchInv
  <1>2. PICK pos \in Resolved(name) : dirCells' = [dirCells EXCEPT ![pos].len = 0]
    BY DEF DeleteFile
  <1>3. pos \in Records /\ dirCells[pos].name = name
    BY <1>1, FoundIsRecord
  <1>4. pos \in Positions /\ dirCells[pos] \in Cells /\ dirCells[pos].len = layout[pos]
    BY <1>1, <1>3, RecordIsFull
  <1>5. dirCells' = [p \in Positions |-> IF p = pos THEN [dirCells[pos] EXCEPT !.len = 0] ELSE dirCells[p]]
    BY <1>1, <1>2, <1>4 DEF CellsOK
  <1>6. [dirCells[pos] EXCEPT !.len = 0] \in Cells /\ [dirCells[pos] EXCEPT !.len = 0].len = 0
    BY <1>4 DEF Cells
  <1>7. CellsOK' /\ Packed(layout)' /\ Follows'
    <2>1. CellsOK'
      <3>1. dirCells' = [p \in Positions |-> dirCells'[p]]
        BY <1>5
      <3>2. \A p \in Positions : dirCells'[p].len \in Nat
        BY <1>1, <1>5, <1>6 DEF CellsOK
      <3> QED
        BY <1>0, <1>1, <3>1, <3>2 DEF CellsOK
    <2>2. Follows'
      <3> SUFFICES ASSUME NEW p \in Positions
                   PROVE  /\ layout'[p] = 0 => dirCells'[p].len = 0
                          /\ layout'[p] > 0 => dirCells'[p] \in Cells /\ dirCells'[p].len \in {0, layout'[p]}
        BY DEF Follows
      <3>1. CASE p = pos
        BY <1>5, <1>6, <3>1
      <3>2. CASE p # pos
        BY <1>0, <1>1, <1>5, <3>2 DEF Follows
      <3> QED
        BY <3>1, <3>2
    <2> QED
      BY <1>0, <1>1, <2>1, <2>2 DEF Packed, NextCell
  <1>8. Records' = Records \ {pos} /\ \A p \in Records' : dirCells'[p] = dirCells[p]
    BY <1>0, <1>4, <1>5, <1>6 DEF Records
  <1>9. AllApart'
    BY <1>0, <1>1, <1>8 DEF AllApart, Behind
  <1>10. AllTold'
    <2>1. \A p \in Records' : p \in Records /\ p # pos /\ dirCells'[p] = dirCells[p] /\ dirCells[p].name # name
      BY <1>1, <1>3, <1>8 DEF AllTold
    <2>2. \A p \in Records' : /\ dirCells'[p].name \in DOMAIN patchFiles'
                              /\ patchFiles'[dirCells'[p].name] = [lba |-> dirCells'[p].lba, size |-> dirCells'[p].size]
                              /\ \A q \in Records' : dirCells'[q].name = dirCells'[p].name => q = p
      BY <1>0, <1>1, <2>1 DEF AllTold
    <2>3. ASSUME NEW f \in DOMAIN patchFiles' PROVE \E p \in Records' : dirCells'[p].name = f
      <3>1. f \in DOMAIN patchFiles /\ f # name
        BY <1>0
      <3>2. PICK p \in Records : dirCells[p].name = f
        BY <1>1, <3>1 DEF AllTold
      <3>3. p \in Records'
        BY <1>3, <1>8, <3>1, <3>2
      <3> QED
        BY <1>8, <3>2, <3>3
    <2> QED
      BY <2>2, <2>3 DEF AllTold
  <1> QED
    BY <1>7, <1>9, <1>10

LEMMA PatchInvInit == PatchInit => PatchInv
  <1> SUFFICES ASSUME PatchInit PROVE PatchInv
    OBVIOUS
  <1>1. \A p \in Positions : dirCells[p].len = 0 /\ layout[p] = 0
    BY DEF PatchInit, Zero
  <1>2. Records = {} /\ Follows
    BY <1>1 DEF Records, Follows
  <1>3. CellsOK
    BY <1>1 DEF PatchInit, CellsOK
  <1>4. Packed(layout)
    BY <1>1, PositionNat, DirNat DEF Packed, NextCell, Positions
  <1> QED
    BY <1>2, <1>3, <1>4 DEF PatchInv, AllApart, AllTold, PatchInit

LEMMA PatchInvHolds == PatchInv => PatchedImageHolds
  <1> SUFFICES ASSUME PatchInv, ~ragged PROVE ExtentsApart /\ ImageHolds
    BY DEF PatchedImageHolds
  <1>1. CellsOK /\ Packed(layout) /\ Follows /\ AllApart /\ AllTold
    BY DEF PatchInv
  <1>2. ReadDirectory = {p \in Records : ~Hidden(p)}
    BY <1>1, PackedIsRead
  <1>3. ExtentsApart
    BY <1>1, <1>2 DEF AllApart, ExtentsApart, Behind
  <1>4. ASSUME NEW name \in DOMAIN patchFiles
        PROVE  \E pos \in Positions : /\ layout[pos] > 0 /\ dirCells[pos].name = name
                                      /\ Named(name) = IF Hidden(pos) THEN {} ELSE {pos}
    <2>1. PICK pos \in Records : dirCells[pos].name = name
      BY <1>1 DEF AllTold
    <2>2. \A q \in Records : dirCells[q].name = name => q = pos
      BY <1>1, <2>1 DEF AllTold
    <2>3. Named(name) = IF Hidden(pos) THEN {} ELSE {pos}
      BY <1>2, <2>1, <2>2 DEF Named
    <2> QED
      BY <2>1, <2>3 DEF Records
  <1> QED
    BY <1>1, <1>2, <1>3, <1>4 DEF AllTold, ImageHolds

\* For directories of every size, records of both lengths and whatever bytes are inside them:
\* as long as no record was laid in the place of a deleted one of another length, readers of a
\* patched image find exactly its files that no deleted record hides, each once and as it was
\* written last, and their contents share no sector.
THEOREM PatchedImageTheorem == PatchSpec => []PatchedImageHolds
  <1>1. PatchInv /\ [PatchNext]_patchVars => PatchInv'
    <2> SUFFICES ASSUME PatchInv, [PatchNext]_patchVars PROVE PatchInv'
      OBVIOUS
    <2>1. CASE UNCHANGED patchVars
      BY <2>1 DEF patchVars, PatchInv, CellsOK, Follows, AllApart, AllTold, Packed, Records, Behind, NextCell
    <2> QED
      BY <2>1, PatchAdd, PatchReplace, PatchDelete DEF PatchNext
  <1> QED
    BY <1>1, PatchInvInit, PatchInvHolds, PTL DEF PatchSpec
=============================================================================
