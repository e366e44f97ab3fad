--------------------------- MODULE MCInventories ----------------------------
(***************************************************************************)
(* The components that keep an inventory of things elsewhere, side by      *)
(* side: bare-metal hosts, Proxmox containers, DNS zones, volumes, ISO     *)
(* images and their files, and the images pods run on. In every behaviour  *)
(* one of them moves and the others rest, so that their state spaces add   *)
(* up and do not multiply.                                                 *)
(***************************************************************************)
EXTENDS HostRecords, ProxmoxVms, DnsZones, VolumeStore, IsoExport, IsoPatches,
        ImageRollout

CONSTANTS h1, h2, na, g1, f1, v1, p1, p2
\* The first host has had a second boot MAC and moves between the networks.
MacCounts == [h \in BareHosts |-> IF h = h1 THEN 2 ELSE 1]
Nets == [h \in BareHosts |-> IF h = h1 THEN DataNets ELSE {g1}]

\* Inside the records, readers find one more record of f1, one that is too short, and a zero.
Readings ==
  LET At(len) == [len |-> len, name |-> f1, lba |-> 0, size |-> 1]
  IN  [f \in FileNames |-> IF f \in LongNames THEN <<At(1), At(0)>> ELSE <<At(2), At(2)>>]

\* The containers belong to two pods.
PodOf == [name \in Owners |-> IF name = Stranger THEN Stranger ELSE IF name = v1 THEN p1 ELSE p2]

VARIABLE part      \* the component that moves

Parts == {"hosts", "vms", "zones", "volumes", "isos", "patches", "rollout"}
vars == <<part, hostVars, vmVars, zoneVars, volumeVars, isoVars, patchVars,
          rolloutVars>>

Init ==
  /\ part \in Parts
  /\ HostInit /\ VmInit /\ ZoneInit /\ VolumeInit /\ IsoInit /\ PatchInit /\ RolloutInit
  \* What differs at the start does so where it matters; which name is the first host's
  \* does not.
  /\ nameOf[h1] = na /\ (part # "hosts" => nameOf[h2] = na)
  /\ part # "rollout" => digest = 1 /\ ~rewritten

OthersRest ==
  /\ UNCHANGED part
  /\ part # "hosts"   => UNCHANGED hostVars
  /\ part # "vms"     => UNCHANGED vmVars
  /\ part # "zones"   => UNCHANGED zoneVars
  /\ part # "volumes" => UNCHANGED volumeVars
  /\ part # "isos"    => UNCHANGED isoVars
  /\ part # "patches" => UNCHANGED patchVars
  /\ part # "rollout" => UNCHANGED rolloutVars

Next ==
  \/ part = "hosts"   /\ HostNext    /\ OthersRest
  \/ part = "vms"     /\ VmNext      /\ OthersRest
  \/ part = "zones"   /\ ZoneNext    /\ OthersRest
  \/ part = "volumes" /\ VolumeNext  /\ OthersRest
  \/ part = "isos"    /\ IsoNext     /\ OthersRest
  \/ part = "patches" /\ PatchNext   /\ OthersRest
  \/ part = "rollout" /\ RolloutNext /\ OthersRest

\* The fairness of each component's own specification, while it is the one that moves.
Fairness ==
  /\ WF_isoVars(part = "isos" /\ UploadStep)
  /\ WF_isoVars(part = "isos" /\ ScanStep)

Spec == Init /\ [][Next]_vars /\ Fairness

\* The types of every component (see each module).
TypeOK ==
  /\ part \in Parts
  /\ HostTypeOK /\ VmTypeOK /\ ZoneTypeOK /\ VolumeTypeOK /\ IsoTypeOK /\ PatchTypeOK
  /\ RolloutTypeOK
=============================================================================
