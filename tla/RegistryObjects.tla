--------------------------- MODULE RegistryObjects ---------------------------
(***************************************************************************)
(* Registry objects (registry_crd.go) and the ConfigMaps their pods read   *)
(* (configmap.go, syncConfigMapsToDisk): one registry, the ConfigMap made  *)
(* from it, the file that its pod mounts, and the pod.  Handlers hold the  *)
(* request mutex from end to end, the reconcile cycle does not, and mkube  *)
(* may stop between any two of their steps.                                *)
(***************************************************************************)
EXTENDS Naturals

CONSTANTS
  Configs,          \* contents of a registry's configuration
  NoConfig,
  MaxRegFaults,     \* bound: failed writes, failed creations, restarts
  MaxOutages,       \* bound: times the image cannot be pulled
  MaxRegRequests    \* bound: requests

ASSUME RegAssumption == NoConfig \notin Configs

VARIABLES
  regObj,           \* p.registries: NoRegistry, or the spec
  regRow,           \* the same in the REGISTRIES bucket
  cfgMap,           \* the ConfigMap in memory
  cfgRow,           \* the ConfigMap in the store
  cfgFile,          \* the file on disk that the pod mounts
  regPodRow,        \* is the registry's pod stored?
  regPodHere,       \* is it tracked?
  regBox,           \* {the content its container started with}, {} if there is none
  regStep,          \* where the handler in progress stands
  writing,          \* the file was written, the pod is yet to be updated
  syncLost,         \* history: the pod was not updated after all
  imagePulls,       \* can the pod's image be pulled?
  regBound          \* faults, outages and requests so far

regVars == <<regObj, regRow, cfgMap, cfgRow, cfgFile, regPodRow, regPodHere, regBox,
             regStep, writing, syncLost, imagePulls, regBound>>

NoRegistry == [managed |-> FALSE, config |-> NoConfig]
RegistrySpecs == [managed : BOOLEAN, config : Configs]
RegTypeOK ==
  /\ regObj \in RegistrySpecs \cup {NoRegistry} /\ regRow \in RegistrySpecs \cup {NoRegistry}
  /\ {cfgMap, cfgRow, cfgFile} \cup regBox \subseteq Configs \cup {NoConfig}
  /\ {regPodRow, regPodHere, writing, syncLost, imagePulls} \subseteq BOOLEAN
  /\ regStep \in {"idle", "map", "row", "pod", "down", "delete"}
  /\ regBound \in [faults : 0 .. MaxRegFaults, outages : 0 .. MaxOutages, requests : 0 .. MaxRegRequests]

RegFault == regBound.faults < MaxRegFaults /\ regBound' = [regBound EXCEPT !.faults = @ + 1]
RegRequest ==
  /\ regStep = "idle" /\ regBound.requests < MaxRegRequests
  /\ regBound' = [regBound EXCEPT !.requests = @ + 1]

objVars == <<regObj, regRow>>
cfgVars == <<cfgMap, cfgRow>>
podVars == <<regPodHere, regBox, cfgFile>>
syncVars == <<writing, syncLost>>

-----------------------------------------------------------------------------
\* What the volume of the pod holds once it is provisioned.
resolveConfigMapVolume == IF cfgMap = NoConfig THEN cfgFile ELSE cfgMap
\* CreatePod: any container of the name is removed, the image is pulled, the ConfigMap is
\* written to the pod's file, and the container reads it.
CreateRegPod ==
  /\ imagePulls /\ UNCHANGED regBound
  /\ regPodHere' = TRUE /\ cfgFile' = resolveConfigMapVolume /\ regBox' = {cfgFile'}
CreateRegPodFails ==
  /\ \/ ~imagePulls /\ UNCHANGED regBound
     \/ RegFault
  /\ regBox' = {} /\ UNCHANGED cfgFile

\* syncConfigMapsToDisk: a tracked pod's file that differs from its ConfigMap is rewritten.
FileIsOld == regPodHere /\ cfgMap # NoConfig /\ cfgFile # cfgMap
SyncWrites ==
  /\ ~writing /\ FileIsOld
  /\ cfgFile' = cfgMap /\ writing' = TRUE
  /\ UNCHANGED <<objVars, cfgVars, regPodRow, regPodHere, regBox, regStep, syncLost, imagePulls, regBound>>
\* The pods of the rewritten files are then updated (removed and created again), but for
\* those whose image cannot be pulled.
\* Mutant of SyncUpdates: a pod that runs is left alone.
SyncUpdatesNot ==
  /\ writing /\ writing' = FALSE
  /\ UNCHANGED <<objVars, cfgVars, podVars, regPodRow, regStep, syncLost, imagePulls, regBound>>
SyncUpdates ==
  /\ writing /\ writing' = FALSE
  /\ \/ ~regPodHere /\ UNCHANGED <<podVars, syncLost, regBound>>
     \/ regPodHere /\ ~imagePulls /\ syncLost' = TRUE /\ UNCHANGED <<podVars, regBound>>
     \/ regPodHere /\ CreateRegPod /\ UNCHANGED syncLost
     \/ /\ regPodHere /\ imagePulls /\ RegFault /\ UNCHANGED <<syncLost, cfgFile>>
        /\ regPodHere' = FALSE /\ regBox' = {}
  /\ UNCHANGED <<objVars, cfgVars, regPodRow, regStep, imagePulls>>

\* The reconcile cycle: a stored pod is adopted or created, a tracked one whose container
\* is gone is forgotten and created, and one that is not stored is removed.
AdoptOrCreate ==
  /\ regPodRow
  /\ \/ regBox # {} /\ ~regPodHere /\ regPodHere' = TRUE /\ UNCHANGED <<regBox, cfgFile, regBound>>
     \/ regBox = {} /\ CreateRegPod
     \/ regBox = {} /\ CreateRegPodFails /\ regPodHere' = FALSE
  /\ UNCHANGED <<objVars, cfgVars, regPodRow, regStep, syncVars, imagePulls>>
RemoveUnstored ==
  /\ regPodHere /\ ~regPodRow
  /\ regPodHere' = FALSE /\ regBox' = {}
  /\ UNCHANGED <<objVars, cfgVars, cfgFile, regPodRow, regStep, syncVars, imagePulls, regBound>>

-----------------------------------------------------------------------------
\* POST: the row is written, then memory, and a managed registry is deployed.
CreateRegistry ==
  /\ regObj = NoRegistry /\ RegRequest
  /\ \E spec \in RegistrySpecs : /\ regObj' = spec /\ regRow' = spec
                                 /\ regStep' = IF spec.managed THEN "map" ELSE "idle"
  /\ UNCHANGED <<cfgVars, podVars, regPodRow, syncVars, imagePulls>>
\* A registry that stays managed has its ConfigMap rewritten; that it is not stored is ignored.
handleManagedRegistryTransition(old, new) ==
  /\ regStep' = IF new.managed /\ ~old.managed THEN "map"
                ELSE IF ~new.managed /\ old.managed THEN "down" ELSE "idle"
  /\ IF old.managed /\ new.managed /\ cfgMap \notin {NoConfig, new.config}
       THEN cfgMap' = new.config /\ cfgRow' \in {cfgRow, new.config}
       ELSE UNCHANGED cfgVars
\* PUT brings a whole spec, PATCH a part of one.
ReplaceSpec(spec) ==
  /\ regObj' = spec /\ regRow' = spec /\ handleManagedRegistryTransition(regObj, spec)
  /\ UNCHANGED <<podVars, regPodRow, syncVars, imagePulls>>
UpdateRegistry == regObj # NoRegistry /\ RegRequest /\ \E spec \in RegistrySpecs : ReplaceSpec(spec)
PatchRegistry ==
  /\ regObj # NoRegistry /\ RegRequest
  /\ \/ \E c \in Configs : ReplaceSpec([regObj EXCEPT !.config = c])
     \/ \E b \in BOOLEAN : ReplaceSpec([regObj EXCEPT !.managed = b])

\* The ConfigMap's own handlers.  POST makes or replaces it; POST and PATCH go on to write
\* the file, PUT and DELETE leave that to the next cycle.
SetMap(c) ==
  /\ RegRequest /\ cfgMap' = c /\ cfgRow' = c
  /\ UNCHANGED <<objVars, podVars, regPodRow, regStep, syncVars, imagePulls>>
SetMapAndFile(c) ==
  /\ RegRequest /\ cfgMap' = c /\ cfgRow' = c /\ ~writing
  /\ IF regPodHere /\ cfgFile # c THEN cfgFile' = c /\ writing' = TRUE
     ELSE UNCHANGED <<cfgFile, writing>>
  /\ UNCHANGED <<objVars, regPodHere, regBox, regPodRow, regStep, syncLost, imagePulls>>
CreateConfigMap == \E c \in Configs : SetMapAndFile(c)
PutConfigMap == cfgMap # NoConfig /\ \E c \in Configs : SetMap(c)
PatchConfigMap == cfgMap # NoConfig /\ \E c \in Configs \ {cfgMap} : SetMapAndFile(c)
DeleteConfigMap == cfgMap # NoConfig /\ SetMap(NoConfig)
\* DELETE: a managed registry is torn down first.
DeleteRegistry ==
  /\ regObj # NoRegistry /\ RegRequest
  /\ IF regObj.managed THEN regStep' = "delete" /\ UNCHANGED objVars
     ELSE regObj' = NoRegistry /\ regRow' = NoRegistry /\ UNCHANGED regStep
  /\ UNCHANGED <<cfgVars, podVars, regPodRow, syncVars, imagePulls>>

\* deployManagedRegistry: the ConfigMap, the pod's row, the pod.  It stops at the first failure.
DeployMap ==
  /\ regStep = "map" /\ cfgMap' = regObj.config
  /\ \/ cfgRow' = regObj.config /\ regStep' = "row" /\ UNCHANGED regBound
     \/ RegFault /\ regStep' = "idle" /\ UNCHANGED cfgRow
  /\ UNCHANGED <<objVars, podVars, regPodRow, syncVars, imagePulls>>
DeployRow ==
  /\ regStep = "row"
  /\ \/ regPodRow' = TRUE /\ regStep' = "pod" /\ UNCHANGED regBound
     \/ RegFault /\ regStep' = "idle" /\ UNCHANGED regPodRow
  /\ UNCHANGED <<objVars, cfgVars, podVars, syncVars, imagePulls>>
DeployPod ==
  /\ regStep = "pod" /\ regStep' = "idle"
  /\ CreateRegPod \/ (CreateRegPodFails /\ UNCHANGED regPodHere)
  /\ UNCHANGED <<objVars, cfgVars, regPodRow, syncVars, imagePulls>>

\* teardownManagedRegistry: a tracked pod is removed with its row, and the ConfigMap.  A
\* pod that is stored and not tracked is overlooked.
TeardownReg ==
  /\ regStep \in {"down", "delete"} /\ regStep' = "idle"
  /\ IF regPodHere THEN regPodHere' = FALSE /\ regBox' = {} /\ regPodRow' = FALSE
     ELSE UNCHANGED <<regPodHere, regBox, regPodRow>>
  /\ cfgMap' = NoConfig /\ cfgRow' = IF cfgMap = NoConfig THEN cfgRow ELSE NoConfig
  /\ IF regStep = "delete" THEN regObj' = NoRegistry /\ regRow' = NoRegistry ELSE UNCHANGED objVars
  /\ UNCHANGED <<cfgFile, syncVars, imagePulls, regBound>>

\* mkube stops; what is stored is loaded again, and nothing resumes a deployment.
LoadConfigMapsFromStore == cfgMap' = cfgRow
RestartReg ==
  /\ RegFault /\ regObj' = regRow /\ LoadConfigMapsFromStore
  /\ regPodHere' = FALSE /\ regStep' = "idle" /\ writing' = FALSE /\ syncLost' = (syncLost \/ writing)
  /\ UNCHANGED <<regRow, cfgRow, cfgFile, regPodRow, regBox, imagePulls>>
\* The image cannot be pulled for a while.
ImageComesAndGoes ==
  /\ imagePulls' = ~imagePulls
  /\ imagePulls => regBound.outages < MaxOutages
  /\ regBound' = IF imagePulls THEN [regBound EXCEPT !.outages = @ + 1] ELSE regBound
  /\ UNCHANGED <<objVars, cfgVars, podVars, regPodRow, regStep, syncVars>>

RegInit ==
  /\ regObj = NoRegistry /\ regRow = NoRegistry
  /\ cfgMap = NoConfig /\ cfgRow = NoConfig /\ cfgFile = NoConfig /\ regBox = {}
  /\ regPodRow = FALSE /\ regPodHere = FALSE /\ regStep = "idle"
  /\ writing = FALSE /\ syncLost = FALSE /\ imagePulls = TRUE
  /\ regBound = [faults |-> 0, outages |-> 0, requests |-> 0]
RegNext ==
  \/ CreateRegistry \/ UpdateRegistry \/ PatchRegistry \/ DeleteRegistry
  \/ CreateConfigMap \/ PutConfigMap \/ PatchConfigMap \/ DeleteConfigMap
  \/ DeployMap \/ DeployRow \/ DeployPod \/ TeardownReg
  \/ SyncWrites \/ SyncUpdates \/ AdoptOrCreate \/ RemoveUnstored
  \/ RestartReg \/ ImageComesAndGoes

\* The cycle keeps running, handlers end, and the image is there again some day.
RegCycle == SyncWrites \/ SyncUpdates \/ AdoptOrCreate \/ RemoveUnstored
RegHandler == DeployMap \/ DeployRow \/ DeployPod \/ TeardownReg
ImageReturns == ~imagePulls /\ ImageComesAndGoes
RegSpec ==
  /\ RegInit /\ [][RegNext]_regVars
  /\ WF_regVars(RegCycle) /\ WF_regVars(RegHandler) /\ WF_regVars(ImageReturns)

-----------------------------------------------------------------------------
(* Properties. *)

\* A container that is there runs on the ConfigMap that is on its disk, through handlers
\* and cycles that cross, failed writes and restarts, but for an update that was skipped
\* or interrupted between the file and the pod.
FileIsRunning ==
  regBox # {} /\ cfgMap # NoConfig /\ cfgFile = cfgMap /\ ~writing
    => regBox = {cfgMap} \/ syncLost

=============================================================================
