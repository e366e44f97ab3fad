------------------------------ MODULE ProxmoxVms ------------------------------
(***************************************************************************)
(* The Proxmox back end (runtime/proxmox.go, proxmox/client.go, vmid.go):  *)
(* container names are mapped to VMIDs by a table in memory, and every     *)
(* operation is a task of the hypervisor that mkube waits for, but only so *)
(* long.  The hypervisor keeps of a container its VMID and its hostname,   *)
(* which is the name of the pod, and the table is made from those after a  *)
(* restart.  mkube's loops and handlers call the back end side by side,    *)
(* and other people create containers on the node as well.                 *)
(***************************************************************************)
EXTENDS Naturals, FiniteSetsExt

CONSTANTS
  VmNames,        \* names of mkube's containers
  Stranger,       \* everyone else's containers
  VmHostname,      \* VmHostname[name]: the hostname of a container
  NoName,
  OrphanHosts,    \* hostnames that cleanOrphanedContainers takes for names that nothing expects
  VmIds,          \* bound: the range of VMIDs
  MaxVmCalls,     \* bound: calls side by side
  MaxVmFaults     \* bound: tasks that fail, waits that end early, restarts

Owners == VmNames \cup {Stranger}
Hostnames == {VmHostname[name] : name \in Owners}
TableNames == VmNames \cup Hostnames
\* The name of a container is put together from three with underscores, a hostname is a pod's.
ASSUME VmAssumption ==
  /\ Stranger \notin VmNames /\ VmHostname \in [Owners -> Hostnames]
  /\ VmNames \cap Hostnames = {} /\ NoName \notin TableNames \cup Owners
  /\ VmIds \subseteq Nat \ {0} /\ MaxVmCalls \in Nat /\ MaxVmFaults \in Nat

VARIABLES
  vmNode,         \* vmNode[i]: whose container has VMID i on the node, or NoName
  vmUsed,         \* a.used: the name that holds i, or NoName
  vmIdOf,         \* a.names: the VMID of a name, or 0
  vmFound,        \* VMIDs that a caller found and is about to remove
  vmCalls,        \* the calls in progress and how their tasks stand
  vmTasks,        \* tasks that mkube no longer waits for
  vmSynced,       \* did SyncVMIDs succeed when mkube started?
  vmFaults,
  vmShared,       \* history: hostnames under which it listed more than one container
  vmOvertaken     \* history: VMIDs created again before the removal that freed them returned

vmVars == <<vmNode, vmUsed, vmIdOf, vmFound, vmCalls, vmTasks, vmSynced, vmFaults,
            vmShared, vmOvertaken>>

Calls == [op : {"create", "remove"}, id : VmIds, task : {"running", "done", "failed"}]
VmTypeOK ==
  /\ vmNode \in [VmIds -> Owners \cup {NoName}]
  /\ vmUsed \in [VmIds -> TableNames \cup {NoName}]
  /\ vmIdOf \in [TableNames -> VmIds \cup {0}]
  /\ vmFound \subseteq VmIds /\ vmCalls \subseteq Calls /\ vmTasks \subseteq Calls
  /\ vmSynced \in BOOLEAN /\ vmFaults \in 0 .. MaxVmFaults
  /\ vmShared \subseteq Hostnames /\ vmOvertaken \subseteq VmIds

VmFault == vmFaults < MaxVmFaults /\ vmFaults' = vmFaults + 1
\* A container with a task of its own is locked.
Locked(i) == \E call \in vmCalls \cup vmTasks : call.id = i /\ call.task = "running"
Begin(op, i) == /\ Cardinality(vmCalls) < MaxVmCalls
                /\ vmCalls' = vmCalls \cup {[op |-> op, id |-> i, task |-> "running"]}

-----------------------------------------------------------------------------
\* Release: whatever VMID the name has.
Release(name) ==
  IF name = NoName \/ vmIdOf[name] = 0 THEN UNCHANGED <<vmUsed, vmIdOf>>
  ELSE /\ vmUsed' = [vmUsed EXCEPT ![vmIdOf[name]] = NoName]
       /\ vmIdOf' = [vmIdOf EXCEPT ![name] = 0]

\* Allocate: the VMID that the name has, or the lowest one that is free.
Allocate(name, i) ==
  IF vmIdOf[name] # 0 THEN i = vmIdOf[name] /\ UNCHANGED <<vmUsed, vmIdOf>>
  ELSE LET free == {j \in VmIds : vmUsed[j] = NoName}
       IN  /\ free # {} /\ i = Min(free)
           /\ vmUsed' = [vmUsed EXCEPT ![i] = name]
           /\ vmIdOf' = [vmIdOf EXCEPT ![name] = i]
\* CreateContainer: the node takes the VMID at once, or refuses because someone has it.
\* The name keeps its VMID either way.
BeginCreate(name) ==
  /\ \E i \in VmIds :
       /\ Allocate(name, i)
       /\ IF vmNode[i] # NoName THEN UNCHANGED <<vmCalls, vmNode, vmOvertaken>>
          ELSE /\ Begin("create", i) /\ vmNode' = [vmNode EXCEPT ![i] = name]
               /\ vmOvertaken' = IF \E call \in vmCalls : call.op = "remove" /\ call.id = i
                                 THEN vmOvertaken \cup {i} ELSE vmOvertaken
  /\ UNCHANGED <<vmFound, vmTasks, vmSynced, vmFaults, vmShared>>

\* A caller finds a container, by GetContainer or as an orphan in the listing, and keeps its
\* VMID until it has stopped.
FindContainer ==
  /\ \E i \in VmIds : /\ vmNode[i] # NoName /\ vmFound' = vmFound \cup {i}
                      /\ \/ \E name \in VmNames : vmIdOf[name] = i
                         \/ VmHostname[vmNode[i]] \in OrphanHosts
  /\ UNCHANGED <<vmNode, vmUsed, vmIdOf, vmCalls, vmTasks, vmSynced, vmFaults, vmShared, vmOvertaken>>

\* RemoveContainer: the node begins to remove whatever has that VMID now, or refuses.
Removes(i) == /\ i \in vmFound /\ vmFound' = vmFound \ {i}
              /\ IF vmNode[i] = NoName \/ Locked(i) THEN UNCHANGED vmCalls ELSE Begin("remove", i)
              /\ UNCHANGED <<vmNode, vmTasks, vmSynced, vmFaults, vmShared, vmOvertaken>>
\* Mutant of BeginRemove: the VMID is released before the container is gone.
BeginRemoveReleased(i) == Removes(i) /\ Release(vmUsed[i])
BeginRemove(i) == Removes(i) /\ UNCHANGED <<vmUsed, vmIdOf>>

\* The node ends a task, well or not: one that mkube waits for, or one that it gave up.
NodeAfter(task, well) ==
  vmNode' = IF task.op = (IF well THEN "remove" ELSE "create")
            THEN [vmNode EXCEPT ![task.id] = NoName] ELSE vmNode
TaskEnds ==
  /\ \E call \in vmCalls, well \in BOOLEAN :
       /\ call.task = "running" /\ NodeAfter(call, well)
       /\ vmCalls' = (vmCalls \ {call}) \cup {[call EXCEPT !.task = IF well THEN "done" ELSE "failed"]}
       /\ IF well THEN UNCHANGED vmFaults ELSE VmFault
  /\ UNCHANGED <<vmUsed, vmIdOf, vmFound, vmTasks, vmSynced, vmShared, vmOvertaken>>
LateTask ==
  /\ \E task \in vmTasks, well \in BOOLEAN : NodeAfter(task, well) /\ vmTasks' = vmTasks \ {task}
  /\ UNCHANGED <<vmUsed, vmIdOf, vmFound, vmCalls, vmSynced, vmFaults, vmShared, vmOvertaken>>

\* waitForTask has seen the end of a task.  After a removal that went well, RemoveContainer
\* releases the name that holds the VMID.
TaskSucceeds ==
  /\ \E call \in vmCalls :
       /\ call.task = "done" /\ vmCalls' = vmCalls \ {call}
       /\ IF call.op = "remove" THEN Release(vmUsed[call.id]) ELSE UNCHANGED <<vmUsed, vmIdOf>>
  /\ UNCHANGED <<vmNode, vmFound, vmTasks, vmSynced, vmFaults, vmShared, vmOvertaken>>
TaskFails ==
  /\ \E call \in vmCalls : call.task = "failed" /\ vmCalls' = vmCalls \ {call}
  /\ UNCHANGED <<vmNode, vmUsed, vmIdOf, vmFound, vmTasks, vmSynced, vmFaults, vmShared, vmOvertaken>>
\* The wait ends before it has: the time is up, or the node does not answer.
TaskOutlasts ==
  /\ VmFault
  /\ \E call \in vmCalls :
       /\ vmCalls' = vmCalls \ {call}
       /\ vmTasks' = IF call.task = "running" THEN vmTasks \cup {call} ELSE vmTasks
  /\ UNCHANGED <<vmNode, vmUsed, vmIdOf, vmFound, vmSynced, vmShared, vmOvertaken>>

\* SyncVMIDs: what is on the node is marked as used, under its hostname; of several
\* containers with one hostname the last in the listing gets the name.  A failure is only
\* logged.
RestartVms ==
  /\ VmFault /\ UNCHANGED vmNode /\ vmFound' = {} /\ vmCalls' = {}
  /\ vmTasks' = vmTasks \cup {call \in vmCalls : call.task = "running"}
  /\ vmOvertaken' = {}
  /\ \/ LET under == [h \in Hostnames |-> {i \in VmIds : vmNode[i] # NoName /\ VmHostname[vmNode[i]] = h}]
        IN  /\ vmSynced' = TRUE
            /\ vmUsed' = [i \in VmIds |-> IF vmNode[i] = NoName THEN NoName ELSE VmHostname[vmNode[i]]]
            /\ vmIdOf' \in [TableNames -> VmIds \cup {0}]
            /\ \A name \in TableNames :
                 vmIdOf'[name] \in IF name \in Hostnames /\ under[name] # {} THEN under[name] ELSE {0}
            /\ vmShared' = {h \in Hostnames : \E i, j \in under[h] : i # j}
     \/ /\ vmSynced' = FALSE /\ vmUsed' = [i \in VmIds |-> NoName]
        /\ vmIdOf' = [name \in TableNames |-> 0] /\ vmShared' = {}

\* Someone else creates or removes a container.
StrangerActs ==
  /\ \E i \in VmIds : \/ vmNode[i] = NoName /\ vmNode' = [vmNode EXCEPT ![i] = Stranger]
                      \/ vmNode[i] = Stranger /\ ~Locked(i) /\ vmNode' = [vmNode EXCEPT ![i] = NoName]
  /\ UNCHANGED <<vmUsed, vmIdOf, vmFound, vmCalls, vmTasks, vmSynced, vmFaults, vmShared, vmOvertaken>>

VmInit ==
  /\ vmNode = [i \in VmIds |-> NoName] /\ vmUsed = [i \in VmIds |-> NoName]
  /\ vmIdOf = [name \in TableNames |-> 0] /\ vmFound = {} /\ vmCalls = {} /\ vmTasks = {}
  /\ vmSynced = TRUE /\ vmFaults = 0 /\ vmShared = {} /\ vmOvertaken = {}
VmNext ==
  \/ \E name \in VmNames : BeginCreate(name)
  \/ FindContainer \/ \E i \in VmIds : BeginRemove(i)
  \/ TaskEnds \/ TaskSucceeds \/ TaskFails \/ TaskOutlasts \/ LateTask \/ RestartVms \/ StrangerActs
VmSpec == VmInit /\ [][VmNext]_vmVars

-----------------------------------------------------------------------------
(* Properties. *)

\* A container of mkube holds its VMID in the table, under its own name or, since a restart,
\* under its hostname, and that name leads back to it: no other container is created in its
\* place, and what removes it frees its own VMID and no other.  So it is through calls side by
\* side, tasks that fail, outlast their wait and end late, removals of a VMID that has changed
\* hands, and restarts whose listing succeeds and shows no second container of the hostname,
\* as long as no container is created while the removal of its predecessor has not returned
\* (RemoveContainer, VMIDAllocator, SyncVMIDs).
EveryVmIsKnown ==
  vmSynced => \A i \in VmIds :
    vmNode[i] \in VmNames /\ i \notin vmOvertaken /\ VmHostname[vmNode[i]] \notin vmShared =>
      vmUsed[i] \in {vmNode[i], VmHostname[vmNode[i]]} /\ vmIdOf[vmUsed[i]] = i
=============================================================================
