----------------------------- MODULE VolumeStore -----------------------------
(***************************************************************************)
(* The data of one pod (pkg/provider/pvc.go, pkg/storage/manager.go).  Its *)
(* container mounts a persistent claim and an ephemeral volume.  The claim *)
(* is an object in memory and in the store, and a directory; the ephemeral *)
(* volume is a directory that the garbage collector of the storage manager *)
(* removes when its container is gone.                                     *)
(***************************************************************************)
EXTENDS Naturals

CONSTANT MaxVolumeFaults      \* failed store writes and restarts

ASSUME VolumeAssumption == MaxVolumeFaults \in Nat

VARIABLES
  box,          \* the container: "none", "mounted" (its mounts are made), "up"
  mount,        \* where the claim's mount point leads: the claim's directory or a volume's
  wanted,       \* is the pod in the store?
  trackedPod,   \* is it in p.pods?
  claims,       \* where the claim object is: {"mem", "store"}
  claimDir,     \* its directory: "absent", "empty", "data"
  volumeDir,    \* the ephemeral volume's directory
  volumeKnown,  \* is the volume in the storage manager's map?
  gc,           \* the collector: "idle", or what it saw of the container
  wroteClaim,   \* history: the pod has written to its claim since the last purge
  volumeFaults

volumeVars == <<box, mount, wanted, trackedPod, claims, claimDir, volumeDir, volumeKnown,
                gc, wroteClaim, volumeFaults>>

Dirs == {"absent", "empty", "data"}
VolumeTypeOK ==
  /\ box \in {"none", "mounted", "up"} /\ mount \in {"claim", "volume"}
  /\ wanted \in BOOLEAN /\ trackedPod \in BOOLEAN /\ claims \subseteq {"mem", "store"}
  /\ claimDir \in Dirs /\ volumeDir \in Dirs /\ volumeKnown \in BOOLEAN
  /\ gc \in {"idle", "sawIt", "sawNone"}
  /\ wroteClaim \in BOOLEAN /\ volumeFaults \in 0 .. MaxVolumeFaults

Ensured(dir) == IF dir = "absent" THEN "empty" ELSE dir
Faulty == volumeFaults < MaxVolumeFaults /\ volumeFaults' = volumeFaults + 1

-----------------------------------------------------------------------------
(* The claims API. *)

\* A failed write refuses the request and changes nothing.
CreatePVC ==
  /\ "mem" \notin claims /\ claims' = {"mem", "store"}
  /\ claimDir' = Ensured(claimDir)
  /\ UNCHANGED <<box, mount, wanted, trackedPod, volumeDir, volumeKnown, gc, wroteClaim,
                 volumeFaults>>
UpdatePVC ==
  /\ "mem" \in claims /\ claims' = {"mem", "store"}
  /\ UNCHANGED <<box, mount, wanted, trackedPod, claimDir, volumeDir, volumeKnown, gc,
                 wroteClaim, volumeFaults>>
ClaimDeleted(purge) ==
  /\ "mem" \in claims
  /\ \/ claims' = {} /\ UNCHANGED volumeFaults
     \/ Faulty /\ claims' = claims \ {"mem"}      \* a failed delete is only logged
  /\ IF purge THEN claimDir' = "absent" /\ wroteClaim' = FALSE
     ELSE UNCHANGED <<claimDir, wroteClaim>>
  /\ UNCHANGED <<box, mount, wanted, trackedPod, volumeDir, volumeKnown, gc>>
\* Refused while a pod in p.pods mounts the claim.
DeletePVC(purge) == ~trackedPod /\ ClaimDeleted(purge)

-----------------------------------------------------------------------------
(* The pod. *)

\* Mutant of ResolvePVC: a claim that is not in memory falls through to the volume.
ResolveEphemeral ==
  IF "mem" \in claims
    THEN claimDir' = Ensured(claimDir) /\ mount' = "claim" /\ UNCHANGED <<claims, volumeFaults>>
    ELSE mount' = "volume" /\ UNCHANGED <<claims, claimDir, volumeFaults>>
\* The mount point of the claim: a claim that is not there is created.
ResolvePVC ==
  /\ claimDir' = Ensured(claimDir) /\ mount' = "claim"
  /\ IF "mem" \in claims THEN UNCHANGED <<claims, volumeFaults>>
     ELSE \/ claims' = {"mem", "store"} /\ UNCHANGED volumeFaults
          \/ Faulty /\ claims' = claims \cup {"mem"}

\* CreatePod: the mounts are made, then the container, then the pod is tracked.  The
\* volume's directory itself appears when the container starts.
ProvisionVolumes ==
  /\ wanted /\ box = "none" /\ gc = "idle"
  /\ ResolvePVC /\ volumeKnown' = TRUE /\ box' = "mounted"
  /\ UNCHANGED <<wanted, trackedPod, volumeDir, gc, wroteClaim>>
CreateBox ==
  /\ box = "mounted" /\ box' = "up" /\ trackedPod' = TRUE
  /\ volumeDir' = Ensured(volumeDir)
  /\ UNCHANGED <<mount, wanted, claims, claimDir, volumeKnown, gc, wroteClaim, volumeFaults>>
\* The program in the container writes to both.
PodWrites ==
  /\ box = "up" /\ wroteClaim' = TRUE /\ volumeDir' = "data"
  /\ IF mount = "claim" THEN claimDir' = "data" ELSE UNCHANGED claimDir
  /\ UNCHANGED <<box, mount, wanted, trackedPod, claims, volumeKnown, gc, volumeFaults>>
\* An update, a redeploy or a repair takes the container away and creates it again.
RemoveBox ==
  /\ box = "up" /\ box' = "none" /\ trackedPod' = FALSE
  /\ UNCHANGED <<mount, wanted, claims, claimDir, volumeDir, volumeKnown, gc, wroteClaim,
                 volumeFaults>>
SubmitPod ==
  /\ ~wanted /\ wanted' = TRUE
  /\ UNCHANGED <<box, mount, trackedPod, claims, claimDir, volumeDir, volumeKnown, gc,
                 wroteClaim, volumeFaults>>
RemovePod ==
  /\ wanted /\ trackedPod /\ wanted' = FALSE /\ trackedPod' = FALSE /\ box' = "none"
  /\ UNCHANGED <<mount, claims, claimDir, volumeDir, volumeKnown, gc, wroteClaim,
                 volumeFaults>>
\* A cycle finds the container of a pod that it does not track.
TrackPod ==
  /\ wanted /\ box = "up" /\ ~trackedPod /\ trackedPod' = TRUE
  /\ UNCHANGED <<box, mount, wanted, claims, claimDir, volumeDir, volumeKnown, gc,
                 wroteClaim, volumeFaults>>

\* A restart of mkube: the claims are loaded, the rest is forgotten.
RestartVolumes ==
  /\ Faulty /\ trackedPod' = FALSE /\ volumeKnown' = FALSE /\ gc' = "idle"
  /\ claims' = IF "store" \in claims THEN {"mem", "store"} ELSE {}
  /\ box' = IF box = "mounted" THEN "none" ELSE box
  /\ UNCHANGED <<mount, wanted, claimDir, volumeDir, wroteClaim>>

\* runGC: the containers are listed, then the volumes of those that were not there are
\* removed.  Provisioning waits meanwhile; creating and removing containers do not.
CollectBegins ==
  /\ gc = "idle" /\ gc' = IF box = "up" THEN "sawIt" ELSE "sawNone"
  /\ UNCHANGED <<box, mount, wanted, trackedPod, claims, claimDir, volumeDir, volumeKnown,
                 wroteClaim, volumeFaults>>
CollectEnds ==
  /\ gc # "idle" /\ gc' = "idle"
  /\ IF gc = "sawNone" /\ volumeKnown
       THEN volumeDir' = "absent" /\ volumeKnown' = FALSE
       ELSE UNCHANGED <<volumeDir, volumeKnown>>
  /\ UNCHANGED <<box, mount, wanted, trackedPod, claims, claimDir, wroteClaim, volumeFaults>>

VolumeInit ==
  /\ box = "none" /\ mount = "claim" /\ wanted = FALSE /\ trackedPod = FALSE /\ claims = {}
  /\ claimDir = "absent" /\ volumeDir = "absent" /\ volumeKnown = FALSE /\ gc = "idle"
  /\ wroteClaim = FALSE /\ volumeFaults = 0
VolumeNext ==
  \/ CreatePVC \/ UpdatePVC \/ \E purge \in BOOLEAN : DeletePVC(purge)
  \/ SubmitPod \/ ProvisionVolumes \/ CreateBox \/ PodWrites \/ RemoveBox \/ RemovePod
  \/ TrackPod \/ RestartVolumes \/ CollectBegins \/ CollectEnds
VolumeSpec == VolumeInit /\ [][VolumeNext]_volumeVars

-----------------------------------------------------------------------------
(* Properties. *)

\* What the pod has written to its claim is there until someone purges the claim: through
\* deletion of the claim object, failed writes, restarts, re-creations and collections.
ClaimKeepsData == wroteClaim => claimDir = "data"
=============================================================================
