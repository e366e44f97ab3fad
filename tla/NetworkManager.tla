--------------------------- MODULE NetworkManager ---------------------------
(***************************************************************************)
(* The network manager (pkg/network/manager.go) with its address pools     *)
(* (pkg/network/ipam), the ports on the device behind the driver, and the  *)
(* two walkers of the provider that compare them: the resync of the pools  *)
(* from the device and the release of entries whose port is gone.          *)
(*                                                                         *)
(* AllocateInterface and ReleaseInterface hold the manager's mutex.  The   *)
(* first is two actions, because its pool entry exists, and is read by the *)
(* walkers, while the device is still creating the port.  The walkers take *)
(* no lock across their loops: each iteration is an action.                *)
(*                                                                         *)
(* Addresses are integers, a subnet is an interval of them.                *)
(***************************************************************************)
EXTENDS Integers

CONSTANTS
  Nets,            \* names of networks
  Dynamic,         \* those known from Network objects only, not from config.yaml
  Lo, Hi,          \* first and last address of each subnet
  First, Last,     \* allocation range of each pool
  Gateway,         \* gateway of each network
  Keys,            \* veth names
  NoKey, NoNet, NoAddr,
  Faults,          \* device calls that may fail, of FaultKinds
  Overlap          \* may walkers run while pods and networks change?

Subnet(n) == Lo[n] .. Hi[n]
Addr == UNION {Subnet(n) : n \in Nets}

(* "create": adding a port fails.       "update": changing an existing one fails. *)
(* "lost":   it is done, the answer is lost.  "attach": adding to the bridge fails. *)
(* "rollback": so does the removal that follows.  "delete": removing a port fails. *)
(* "list": listing ports fails.         "sync": so does the listing at start-up.   *)
FaultKinds ==
  {"create", "update", "lost", "attach", "rollback", "delete", "list", "sync"}

ASSUME NetsAssumption ==
  /\ Dynamic \subseteq Nets
  /\ Lo \in [Nets -> Int] /\ Hi \in [Nets -> Int]
  /\ First \in [Nets -> Int] /\ Last \in [Nets -> Int]
  /\ \A n \in Nets : First[n] \in Subnet(n) /\ Last[n] \in Subnet(n) /\ First[n] <= Last[n]
  /\ \A n, o \in Nets : n # o => Subnet(n) \cap Subnet(o) = {}
ASSUME NullsAssumption ==
  /\ NoKey \notin Keys /\ NoNet \notin Nets
  /\ \A n \in Nets : NoAddr \notin Subnet(n)
ASSUME ModeAssumption == Faults \subseteq FaultKinds /\ Overlap \in BOOLEAN

VARIABLES
  networks,   \* registered networks (Manager.networks, and the pools of the allocator)
  pool,       \* pool[n][k]: address recorded for k in the pool of n, or NoAddr
  nextIP,     \* where each pool starts looking
  allocs,     \* network the manager believes k is in, or NoNet
  ports,      \* address of the port named k on the device, or NoAddr when there is none
  call,       \* the AllocateInterface that holds the mutex, or NoCall
  walk        \* the walker: its step and what it has left to visit

vars == <<networks, pool, nextIP, allocs, ports, call, walk>>

Static == Nets \ Dynamic
NoCall == [key |-> NoKey, net |-> NoNet, addr |-> NoAddr]
Idle   == [step |-> "idle", left |-> {}, found |-> {}]
NoPool == [k \in Keys |-> NoAddr]

TypeOK ==
  /\ networks \in SUBSET Nets
  /\ pool \in [Nets -> [Keys -> Addr \cup {NoAddr}]]
  /\ nextIP \in [Nets -> Int] /\ \A n \in Nets : nextIP[n] \in First[n] .. Last[n]
  /\ allocs \in [Keys -> Nets \cup {NoNet}]
  /\ ports \in [Keys -> Addr \cup {NoAddr}]
  /\ call \in [key : Keys, net : Nets, addr : Addr] \cup {NoCall}
  /\ walk \in [step : {"idle", "record", "list", "release"},
               left : SUBSET Keys, found : SUBSET (Keys \X Addr)]

-----------------------------------------------------------------------------
(* Guards. *)

Unlocked == call = NoCall
\* The rest of the provider does not run between the steps of a walker.
Quiet == Overlap \/ walk.step = "idle"

(* Addresses. *)

Taken(n, a) == \E k \in Keys : pool[n][k] = a

\* Addresses that allocateFromPool tries before it comes to a.
TriedBefore(n, a) ==
  IF a >= nextIP[n] THEN nextIP[n] .. (a - 1)
                    ELSE (nextIP[n] .. Last[n]) \cup (First[n] .. (a - 1))

After(n, a) == IF a = Last[n] THEN First[n] ELSE a + 1

IsNextFree(n, a) ==
  LET usable(b) == ~Taken(n, b) /\ b # Gateway[n]
  IN  /\ a \in First[n] .. Last[n]
      /\ usable(a)
      /\ \A b \in TriedBefore(n, a) : ~usable(b)

\* What AllocateStatic asks of an address.
MayHold(k, n, a) ==
  /\ a \in Subnet(n) /\ a # Gateway[n]
  /\ \A o \in Keys \ {k} : pool[n][o] # a

-----------------------------------------------------------------------------
(* AllocateInterface. *)

\* The pool entry: ipam Allocate, or AllocateStatic of an address asked for.
Reserve(k, n, a) ==
  /\ Unlocked /\ Quiet
  /\ n \in networks
  /\ \/ /\ IsNextFree(n, a)
        /\ nextIP' = [nextIP EXCEPT ![n] = After(n, a)]
     \/ MayHold(k, n, a) /\ UNCHANGED nextIP
  /\ pool' = [pool EXCEPT ![n][k] = a]
  /\ call' = [key |-> k, net |-> n, addr |-> a]
  /\ UNCHANGED <<networks, allocs, ports, walk>>

\* Mutant of FinishAllocate: the network of a known port is not updated.
FinishAllocateOldNet ==
  /\ call # NoCall
  /\ ports' = [ports EXCEPT ![call.key] = call.addr]
  /\ allocs' = [allocs EXCEPT ![call.key] = IF @ = NoNet THEN call.net ELSE @]
  /\ call' = NoCall
  /\ UNCHANGED <<networks, pool, nextIP, walk>>

\* The port exists, or has been given the new address, and is on the bridge.
FinishAllocate ==
  /\ call # NoCall
  /\ ports' = [ports EXCEPT ![call.key] = call.addr]
  /\ allocs' = [allocs EXCEPT ![call.key] = call.net]
  /\ call' = NoCall
  /\ UNCHANGED <<networks, pool, nextIP, walk>>

\* Every failure gives the pool entry back; they differ in what is on the device.
CreateFails ==
  /\ (IF ports[call.key] = NoAddr THEN "create" ELSE "update") \in Faults
  /\ UNCHANGED ports
AnswerLost ==
  /\ "lost" \in Faults
  /\ ports' = [ports EXCEPT ![call.key] = call.addr]
\* Mutant of AttachFails: the port is left behind.
AttachFailsLeavesPort ==
  /\ "attach" \in Faults
  /\ ports' = [ports EXCEPT ![call.key] = call.addr]
AttachFails ==
  /\ "attach" \in Faults
  /\ ports' = [ports EXCEPT ![call.key] = NoAddr]
RollbackFails ==
  /\ {"attach", "rollback"} \subseteq Faults
  /\ ports' = [ports EXCEPT ![call.key] = call.addr]

AbandonAllocate ==
  /\ call # NoCall
  /\ CreateFails \/ AnswerLost \/ AttachFails \/ RollbackFails
  /\ pool' = [pool EXCEPT ![call.net][call.key] = NoAddr]
  /\ call' = NoCall
  /\ UNCHANGED <<networks, nextIP, allocs, walk>>

-----------------------------------------------------------------------------
(* ReleaseInterface. *)

\* Mutant of Released: no fallback when the manager does not know the port.
ReleasedKnown(k) ==
  /\ ports' = [ports EXCEPT ![k] = NoAddr]
  /\ pool' = [n \in Nets |-> IF allocs[k] = n THEN [pool[n] EXCEPT ![k] = NoAddr] ELSE pool[n]]
  /\ allocs' = [allocs EXCEPT ![k] = NoNet]

\* Its effect when the device removes the port, or has none of that name.
Released(k) ==
  /\ ports' = [ports EXCEPT ![k] = NoAddr]
  /\ pool' = [n \in Nets |-> IF allocs[k] \in {n, NoNet} THEN [pool[n] EXCEPT ![k] = NoAddr]
                                                         ELSE pool[n]]
  /\ allocs' = [allocs EXCEPT ![k] = NoNet]

Release(k) ==
  /\ Unlocked /\ Quiet
  /\ Released(k)
  /\ UNCHANGED <<networks, nextIP, call, walk>>

-----------------------------------------------------------------------------
(* Network objects. *)

RegisterNetwork(n) ==
  /\ Unlocked /\ Quiet
  /\ n \in Dynamic \ networks
  /\ networks' = networks \cup {n}
  /\ pool' = [pool EXCEPT ![n] = NoPool]
  /\ nextIP' = [nextIP EXCEPT ![n] = First[n]]
  /\ UNCHANGED <<allocs, ports, call, walk>>

UnregisterNetwork(n) ==
  /\ Unlocked /\ Quiet
  /\ n \in Dynamic \cap networks
  /\ networks' = networks \ {n}
  /\ pool' = [pool EXCEPT ![n] = NoPool]
  /\ allocs' = [k \in Keys |-> IF allocs[k] = n THEN NoNet ELSE allocs[k]]
  /\ UNCHANGED <<nextIP, ports, call, walk>>

-----------------------------------------------------------------------------
(* The walkers: reconcile step 4, the async consistency check, the repair handler. *)

\* Ports that have an address, as ListPorts returns them.
Listed == {p \in Keys \X Addr : ports[p[1]] = p[2]}

\* A failed listing records nothing and the check goes on.
ListForResync ==
  /\ walk = Idle /\ (Overlap \/ Unlocked)
  /\ \E ps \in {Listed} \cup (IF "list" \in Faults THEN {{}} ELSE {}) :
       walk' = [step |-> "record", left |-> {}, found |-> ps]
  /\ UNCHANGED <<networks, pool, nextIP, allocs, ports, call>>

\* ipam Record and the manager's own entry for one listed port, without the mutex.
RecordPort(k, a) ==
  /\ walk.step = "record" /\ <<k, a>> \in walk.found
  /\ walk' = [walk EXCEPT !.found = @ \ {<<k, a>>}]
  /\ IF \E n \in networks : a \in Subnet(n)
       THEN \E n \in networks :
              /\ a \in Subnet(n)
              /\ pool' = [pool EXCEPT ![n][k] = a]
              /\ allocs' = [allocs EXCEPT ![k] = n]
       ELSE UNCHANGED <<pool, allocs>>
  /\ UNCHANGED <<networks, nextIP, ports, call>>

EndReconcileResync ==
  /\ walk.step = "record" /\ walk.found = {}
  /\ walk' = Idle
  /\ UNCHANGED <<networks, pool, nextIP, allocs, ports, call>>

\* GetAllocations: after the resync in the check, at once in the repair handler.
SnapshotEntries ==
  /\ walk.step \in {"idle", "record"} /\ walk.found = {} /\ (Overlap \/ Unlocked)
  /\ walk' = [step |-> "list", found |-> {},
              left |-> {k \in Keys : \E n \in networks : pool[n][k] # NoAddr}]
  /\ UNCHANGED <<networks, pool, nextIP, allocs, ports, call>>

ListForClean ==
  /\ walk.step = "list"
  /\ walk' = [walk EXCEPT !.step = "release", !.left = {k \in @ : ports[k] = NoAddr}]
  /\ UNCHANGED <<networks, pool, nextIP, allocs, ports, call>>

ListForCleanFails ==
  /\ walk.step = "list" /\ "list" \in Faults
  /\ walk' = Idle
  /\ UNCHANGED <<networks, pool, nextIP, allocs, ports, call>>

CleanEntry(k) ==
  /\ walk.step = "release" /\ k \in walk.left /\ Unlocked
  /\ Released(k)
  /\ walk' = [walk EXCEPT !.left = @ \ {k}]
  /\ UNCHANGED <<networks, nextIP, call>>

CleanEntryFails(k) ==
  /\ walk.step = "release" /\ k \in walk.left /\ Unlocked
  /\ "delete" \in Faults
  /\ walk' = [walk EXCEPT !.left = @ \ {k}]
  /\ UNCHANGED <<networks, pool, nextIP, allocs, ports, call>>

EndClean ==
  /\ walk.step = "release" /\ walk.left = {}
  /\ walk' = Idle
  /\ UNCHANGED <<networks, pool, nextIP, allocs, ports, call>>

-----------------------------------------------------------------------------
(* The device and the process. *)

\* An operator, or a reset of the device, removes a port.
PortLost(k) ==
  /\ ports[k] # NoAddr
  /\ ports' = [ports EXCEPT ![k] = NoAddr]
  /\ UNCHANGED <<networks, pool, nextIP, allocs, call, walk>>

\* syncExistingAllocations of the ports seen, while only the static networks are known.
SyncedPool(seen) ==
  [n \in Nets |-> [k \in Keys |->
    IF n \in Static /\ seen[k] \in Subnet(n) THEN seen[k] ELSE NoAddr]]
SyncedAllocs(seen) ==
  [k \in Keys |-> IF \E n \in Static : seen[k] \in Subnet(n)
                    THEN CHOOSE n \in Static : seen[k] \in Subnet(n) ELSE NoNet]

\* mkube dies and NewManager fills the pools of config.yaml from the device; the
\* networks of the store are registered later (main.go LoadNetworksFromStore).
Restart ==
  /\ networks' = Static
  /\ nextIP' = First
  /\ \E seen \in {ports} \cup (IF "sync" \in Faults THEN {NoPool} ELSE {}) :
       pool' = SyncedPool(seen) /\ allocs' = SyncedAllocs(seen)
  /\ call' = NoCall
  /\ walk' = Idle
  /\ UNCHANGED ports

Init ==
  /\ networks = Static
  /\ pool = [n \in Nets |-> NoPool]
  /\ nextIP = First
  /\ allocs = [k \in Keys |-> NoNet]
  /\ ports = [k \in Keys |-> NoAddr]
  /\ call = NoCall
  /\ walk = Idle

ManagerNext ==
  \/ \E k \in Keys, n \in Nets, a \in Addr : Reserve(k, n, a)
  \/ FinishAllocate
  \/ AbandonAllocate
  \/ \E k \in Keys : Release(k)
  \/ \E n \in Nets : RegisterNetwork(n) \/ UnregisterNetwork(n)

WalkNext ==
  \/ ListForResync
  \/ \E k \in Keys, a \in Addr : RecordPort(k, a)
  \/ EndReconcileResync
  \/ SnapshotEntries
  \/ ListForClean \/ ListForCleanFails
  \/ \E k \in Keys : CleanEntry(k) \/ CleanEntryFails(k)
  \/ EndClean

EnvNext == Restart \/ \E k \in Keys : PortLost(k)

Next == ManagerNext \/ WalkNext \/ EnvNext

Spec == Init /\ [][Next]_vars

\* A device call ends; checks keep being started; the device does not refuse for ever
\* to list its ports or to remove a given one.
Fairness ==
  /\ WF_vars(FinishAllocate \/ AbandonAllocate)
  /\ WF_vars(\E k \in Keys, a \in Addr : RecordPort(k, a))
  /\ WF_vars(EndClean)
  /\ SF_vars(SnapshotEntries)
  /\ SF_vars(ListForClean)
  /\ \A k \in Keys : SF_vars(CleanEntry(k))

FairSpec == Spec /\ Fairness

-----------------------------------------------------------------------------
(* Properties. *)

\* On a network of config.yaml no two ports of the device have the same address: what a
\* retry, a rollback, a restart or a cleanup releases is never an address still in use
\* (manager.go AllocateInterface, ReleaseInterface; ipam.go allocateFromPool).
NoAddressTwice ==
  \A n \in Static : \A k, o \in Keys :
    k # o /\ ports[k] \in Subnet(n) => ports[o] # ports[k]

\* The address of every port on such a network is held in its pool under the port's own
\* name, except that of the port an AllocateInterface is just giving another address.
PortsRecorded ==
  \A n \in Static : \A k \in Keys :
    ports[k] \in Subnet(n) /\ ~(call.key = k /\ call.net = n) => pool[n][k] = ports[k]

\* A release frees the address it takes off the device: none stays behind in a pool
\* because the manager believed the port to be in another network (manager.go:326-335).
ReleaseFreesAddress ==
  [][\A n \in Static : \A k \in Keys :
       ports[k] \in Subnet(n) /\ ports'[k] = NoAddr /\ allocs'[k] = NoNet /\ n \in networks'
         => pool'[n][k] = NoAddr]_vars

\* The entry of a port that is gone does not stay in its pool for ever: the cleanup gets
\* it whatever fails once, or the name is allocated again (consistency.go cleanOrphanedIPAM).
Orphan(k) ==
  /\ ports[k] = NoAddr /\ call.key # k
  /\ \E n \in networks : pool[n][k] # NoAddr
OrphanReleased == \A k \in Keys : Orphan(k) ~> ~Orphan(k)
=============================================================================
