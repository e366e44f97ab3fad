------------------------------ MODULE StoreBoot -----------------------------
(***************************************************************************)
(* How mkube comes by its objects: the boot sequence of cmd/mkube, the     *)
(* loading of the buckets into memory, the one-time imports from the boot  *)
(* manifest and from config.yaml, and the export and import of all objects *)
(* (store/migration.go).  When the store is away at the start, the process *)
(* serves requests without it and attaches it later, with requests coming  *)
(* in between the steps.                                                   *)
(***************************************************************************)
EXTENDS Naturals

CONSTANTS
  MaxWritesB,       \* bound: objects that requests and pods create
  MaxBoots,         \* bound: crashes of the process
  MaxBootFaults     \* bound: calls to the store that fail, losses of its data
ASSUME BootAssumption == {MaxWritesB, MaxBoots, MaxBootFaults} \subseteq Nat

\* Pods are read from their bucket in every cycle.  Networks stand for what config.yaml
\* names at first (registries too), claims for what it does not (deployments, CD-ROMs,
\* reservations, runners, jobs), boot configs for what the export leaves out (hosts too).
Kinds == {"pod", "network", "claim", "bootconfig"}
Mapped == Kinds \ {"pod"}                   \* kept in a map of the provider
Exported == {"pod", "network", "claim"}
\* One object of each kind is users' own, a pod is given by the manifest and a network by
\* config.yaml. The users' network is managed: mkube keeps a DNS pod for it, with a claim.
Managed == <<"network", "made">>
DnsPod == <<"pod", "dns">>
DnsClaim == <<"claim", "dns">>
GivenOf(kind) == {<<kind, "given">>}
Made == Kinds \X {"made"}
Objects == Made \cup GivenOf("pod") \cup GivenOf("network") \cup {DnsPod, DnsClaim}

VARIABLES
  buckets,     \* what the store holds
  memory,      \* what the maps of the provider hold
  boot,        \* the step of the boot sequence that comes next
  attached,    \* has the provider a store?
  serving,     \* is the HTTP server up?
  loading,     \* has the load of this step listed its keys?
  keys,        \* those it has not read yet
  held,        \* the row it has read and not put into its map
  deploying,   \* who is at work on the DNS of the managed network: the load, the cycle
  heldOver,    \* back in memory or in a bucket, deleted while one of these held it
  backup,      \* the last export, kept by the user
  unread,      \* in a bucket by an import, or by a load or a deletion that failed
  deleted,     \* what a request deleted of the users' own, from the store as well
  writes, boots, bootFaults

loadVars == <<loading, keys, held>>
bootVars == <<buckets, memory, boot, attached, serving, loadVars, deploying, heldOver, backup,
              unread, deleted, writes, boots, bootFaults>>

Steps == {"store", "migrate", "claims", "networks", "migrateNetworks", "rest", "up"}
BootTypeOK ==
  /\ {buckets, memory, keys, held, heldOver, backup, unread, deleted} \subseteq SUBSET Objects
  /\ deploying \subseteq {"load", "cycle"}
  /\ boot \in Steps /\ {attached, serving, loading} \subseteq BOOLEAN
  /\ writes \in 0 .. MaxWritesB /\ boots \in 0 .. MaxBoots /\ bootFaults \in 0 .. MaxBootFaults

In(set, kinds) == {o \in set : o[1] \in kinds}
BootFails == bootFaults < MaxBootFaults /\ bootFaults' = bootFaults + 1
BootWorks == UNCHANGED bootFaults
Counters == <<writes, boots>>

-----------------------------------------------------------------------------
(* runSharedServices.  Each step of the store's start comes before the next; the HTTP      *)
(* server starts after the last one, or at once when the store is not there.               *)

Goes(from, to) == boot = from /\ boot' = to
NoLoad == UNCHANGED <<loadVars, deploying, heldOver>>
StoreReached ==
  /\ Goes("store", "migrate") /\ BootWorks /\ NoLoad
  /\ UNCHANGED <<buckets, memory, attached, serving, backup, unread, deleted, Counters>>
StoreAway ==
  /\ boot = "store" /\ ~serving /\ BootFails /\ serving' = TRUE /\ NoLoad
  /\ UNCHANGED <<buckets, memory, boot, attached, backup, unread, deleted, Counters>>
\* MigrateIfEmpty, then SetStore when the process serves already.
MigrateIfEmpty ==
  /\ Goes("migrate", "claims") /\ attached' = TRUE /\ NoLoad
  /\ \/ BootWorks /\ buckets' = buckets \cup (IF In(buckets, {"pod"}) = {} THEN GivenOf("pod") ELSE {})
     \/ BootFails /\ UNCHANGED buckets
  /\ UNCHANGED <<memory, serving, backup, unread, deleted, Counters>>

\* A load lists the keys of a bucket, then reads each row and puts it into the map. No lock
\* is held: requests come in between when the process serves. A call that fails is only
\* logged.
ListKeys(at, kinds) ==
  /\ boot = at /\ ~loading /\ loading' = TRUE
  /\ \/ BootWorks /\ keys' = In(buckets, kinds) /\ unread' = unread \ In(Objects, kinds)
     \/ BootFails /\ keys' = {} /\ unread' = unread \cup In(buckets, kinds)
  /\ UNCHANGED <<buckets, memory, boot, attached, serving, held, deploying, heldOver, backup,
                 deleted, Counters>>
LoadPVCsFromStore == ListKeys("claims", {"claim"})
LoadNetworksFromStore == ListKeys("networks", {"network"})
\* Mutant of LoadRest: the later path to the store forgets them.
LoadRestOnce == ListKeys("rest", IF serving THEN {} ELSE {"bootconfig"})
LoadRest == ListKeys("rest", {"bootconfig"})
ReadRow(o) ==
  /\ o \in keys /\ held = {} /\ keys' = keys \ {o}
  /\ \/ BootWorks /\ held' = {o} \cap buckets /\ UNCHANGED unread
     \/ BootFails /\ unread' = unread \cup {o} /\ UNCHANGED held
  /\ UNCHANGED <<buckets, memory, boot, attached, serving, loading, deploying, heldOver, backup,
                 deleted, Counters>>
PutIntoMap ==
  /\ held # {} /\ held' = {} /\ BootWorks
  /\ memory' = memory \cup held /\ heldOver' = heldOver \cup (held \cap deleted)
  /\ unread' = unread \ held
  /\ UNCHANGED <<buckets, boot, attached, serving, loading, keys, deploying, backup, deleted,
                 Counters>>
Loaded(from, to) ==
  /\ Goes(from, to) /\ loading /\ keys = {} /\ held = {} /\ loading' = FALSE
  /\ UNCHANGED <<attached, keys, held, backup, Counters>>
Unmoved == UNCHANGED <<buckets, memory, deploying, heldOver, unread, deleted>>
EndClaims == Loaded("claims", "networks") /\ BootWorks /\ Unmoved /\ UNCHANGED serving

\* Objects come into memory, and rows into the store when there is one.
Adds(objects, rows) ==
  /\ memory' = memory \cup objects /\ buckets' = buckets \cup rows
  /\ deleted' = deleted \ objects
  /\ heldOver' = (heldOver \ objects) \cup (deleted \cap (rows \ objects))
  /\ unread' = IF attached THEN (unread \ objects) \cup (In(rows, Mapped) \ (memory \cup objects))
               ELSE unread
\* deployManagedDNS, after the creation of `first`: the claim is in memory whether or not its
\* row can be written.  The row of the pod comes after, and when the pod has been created the
\* network, which has its endpoint now, is written again.
DeployDNS(first) ==
  LET due == IF attached THEN {DnsPod, Managed} \cup ({DnsClaim} \ memory) ELSE {} IN
  \E rows \in SUBSET due :
    /\ Managed \in rows => DnsPod \in rows
    /\ IF rows = due THEN BootWorks ELSE BootFails
    /\ Adds(first \cup {DnsClaim}, rows \cup (IF attached THEN first ELSE {}))
\* The loading of networks ends with the DNS pods that have no row. One that is tracked in
\* memory, which can be when the store is late, is left alone.
BeginDeploy ==
  /\ boot = "networks" /\ loading /\ keys = {} /\ held = {}
  /\ Managed \in memory /\ DnsPod \notin buckets /\ "load" \notin deploying
  /\ deploying' = deploying \cup {"load"} /\ BootWorks
  /\ UNCHANGED <<buckets, memory, boot, attached, serving, loadVars, heldOver, backup, unread,
                 deleted, Counters>>
EndNetworks ==
  /\ Loaded("networks", "migrateNetworks") /\ UNCHANGED serving
  /\ IF "load" \in deploying THEN DeployDNS({}) /\ deploying' = deploying \ {"load"}
     ELSE /\ Managed \notin memory \/ DnsPod \in buckets \/ serving
          /\ BootWorks /\ Unmoved
EndRest == Loaded("rest", "up") /\ serving' = TRUE /\ BootWorks /\ Unmoved
\* Mutant of MigrateNetworkConfig: what config.yaml names is put there at every start.
MigrateAlways ==
  /\ Goes("migrateNetworks", "rest") /\ BootWorks /\ NoLoad
  /\ buckets' = buckets \cup {<<"network", "made">>} /\ memory' = memory \cup {<<"network", "made">>}
  /\ UNCHANGED <<attached, serving, backup, unread, deleted, Counters>>
MigrateNetworkConfig ==
  /\ Goes("migrateNetworks", "rest") /\ NoLoad
  /\ IF In(buckets, {"network"}) = {}
       THEN \/ /\ BootWorks /\ buckets' = buckets \cup GivenOf("network")
               /\ memory' = memory \cup GivenOf("network")
            \/ BootFails /\ UNCHANGED <<buckets, memory>>
       ELSE BootWorks /\ UNCHANGED <<buckets, memory>>
  /\ UNCHANGED <<attached, serving, backup, unread, deleted, Counters>>

-----------------------------------------------------------------------------
(* Requests and the cycle. *)

Stands == serving /\ UNCHANGED <<boot, attached, serving, loadVars, boots>>
Serves == Stands /\ UNCHANGED deploying
\* Creation goes to the store first, when there is one; a write that fails ends it. That of
\* a managed network deploys its DNS.
CreateObject(o) ==
  /\ Serves /\ o \in In(Objects, Mapped) \ memory
  /\ writes < MaxWritesB /\ writes' = writes + 1
  /\ IF o = Managed THEN DeployDNS({o})
     ELSE BootWorks /\ Adds({o}, IF attached THEN {o} ELSE {})
  /\ UNCHANGED backup
Drops(objects, rows) ==
  /\ memory' = memory \ objects /\ buckets' = buckets \ rows
  /\ deleted' = deleted \cup (rows \cap Made) /\ unread' = unread \ rows /\ heldOver' = heldOver \ rows
\* A network is deleted from the store first and stays when that fails; its DNS pod goes
\* before, but not the claim, and the network stays too when a pod refers to it. A claim goes
\* from the map first, and its row stays when that fails.
DeleteObject(o) ==
  /\ Serves /\ o \in memory
  /\ \/ BootWorks /\ Drops({o}, IF ~attached THEN {} ELSE IF o = Managed THEN {o, DnsPod} ELSE {o})
     \/ o = Managed /\ attached /\ BootWorks /\ Drops({}, {DnsPod})
     \/ o = Managed /\ attached /\ BootFails /\ Drops({o}, {o})
     \/ /\ BootFails /\ attached /\ o[1] # "network" /\ memory' = memory \ {o}
        /\ unread' = unread \cup {o} /\ UNCHANGED <<buckets, deleted, heldOver>>
  /\ UNCHANGED <<backup, writes>>
\* The rows of pods; the cycle puts those of the manifest back when they are missing, and
\* the DNS pod of a managed network.
CreatePodRow ==
  /\ Serves /\ attached /\ writes < MaxWritesB /\ writes' = writes + 1 /\ BootWorks
  /\ buckets' = buckets \cup {<<"pod", "made">>} /\ deleted' = deleted \ {<<"pod", "made">>}
  /\ UNCHANGED <<memory, unread, heldOver, backup>>
DeletePodRow(o) ==
  /\ Serves /\ attached /\ o \in In(buckets, {"pod"})
  /\ \/ BootWorks /\ buckets' = buckets \ {o} /\ deleted' = deleted \cup ({o} \cap Made)
     \/ BootFails /\ UNCHANGED <<buckets, deleted>>
  /\ UNCHANGED <<memory, unread, heldOver, backup, writes>>
PersistBootPods ==
  /\ Serves /\ attached /\ BootWorks /\ buckets' = buckets \cup GivenOf("pod")
  /\ UNCHANGED <<memory, unread, heldOver, deleted, backup, writes>>
\* reconcileManagedDNSPods takes a network from the map, and no lock while it works on it.
RedeployDNS ==
  /\ Stands /\ UNCHANGED <<backup, writes>>
  /\ \/ /\ "cycle" \notin deploying /\ Managed \in memory
        /\ deploying' = deploying \cup {"cycle"} /\ BootWorks
        /\ UNCHANGED <<buckets, memory, heldOver, unread, deleted>>
     \/ "cycle" \in deploying /\ deploying' = deploying \ {"cycle"} /\ DeployDNS({})
\* A pod that names a claim which is not there makes it, saved or not (resolvePVCVolume).
ResolveClaim ==
  /\ Serves /\ attached /\ In(buckets, {"pod"}) # {} /\ <<"claim", "made">> \notin memory
  /\ \/ BootWorks /\ Adds({<<"claim", "made">>}, {<<"claim", "made">>})
     \/ BootFails /\ Adds({<<"claim", "made">>}, {})
  /\ writes < MaxWritesB /\ writes' = writes + 1 /\ UNCHANGED backup
ExportYAML ==
  /\ Serves /\ attached /\ BootWorks /\ backup' = In(buckets, Exported)
  /\ UNCHANGED <<buckets, memory, unread, heldOver, deleted, writes>>
\* The documents of the backup, by the parser of their kind.
Parsed == In(backup, Exported)
\* The import writes the store and nothing else; rows that cannot be written are skipped.
ImportYAML ==
  /\ Serves /\ attached
  /\ \E got \in SUBSET Parsed :
       /\ IF got = Parsed THEN BootWorks ELSE BootFails
       /\ buckets' = buckets \cup got /\ deleted' = deleted \ got
       /\ unread' = unread \cup (In(got, Mapped) \ memory)
  /\ UNCHANGED <<memory, heldOver, backup, writes>>

-----------------------------------------------------------------------------
(* Faults. *)

Crash ==
  /\ boots < MaxBoots /\ boots' = boots + 1
  /\ memory' = {} /\ boot' = "store" /\ attached' = FALSE /\ serving' = FALSE
  /\ loading' = FALSE /\ keys' = {} /\ held' = {} /\ deploying' = {}
  /\ heldOver' = heldOver \cap buckets
  /\ UNCHANGED <<buckets, backup, unread, deleted, writes, bootFaults>>
StoreLost ==
  /\ BootFails /\ buckets' = {} /\ unread' = {} /\ NoLoad
  /\ UNCHANGED <<memory, boot, attached, serving, backup, deleted, Counters>>

BootInit ==
  /\ buckets = {} /\ memory = {} /\ boot = "store" /\ attached = FALSE /\ serving = FALSE
  /\ loading = FALSE /\ keys = {} /\ held = {} /\ deploying = {} /\ heldOver = {}
  /\ backup = {} /\ unread = {} /\ deleted = {} /\ writes = 0 /\ boots = 0 /\ bootFaults = 0
BootStep ==
  \/ StoreReached \/ StoreAway \/ MigrateIfEmpty \/ LoadPVCsFromStore \/ EndClaims
  \/ LoadNetworksFromStore \/ BeginDeploy \/ EndNetworks \/ MigrateNetworkConfig \/ LoadRest \/ EndRest
  \/ PutIntoMap \/ \E o \in Objects : ReadRow(o)
BootRequest ==
  \/ \E o \in Objects : CreateObject(o) \/ DeleteObject(o) \/ DeletePodRow(o)
  \/ CreatePodRow \/ ExportYAML \/ ImportYAML
BootCycle == PersistBootPods \/ RedeployDNS \/ ResolveClaim
BootNext == BootStep \/ BootRequest \/ BootCycle \/ Crash \/ StoreLost
BootSpec == BootInit /\ [][BootNext]_bootVars

-----------------------------------------------------------------------------
(* Properties. *)

\* Once the boot sequence is through, with the store there at once or attached while
\* requests came in, every stored object is known to the provider, but for what an import
\* brought since or a call that failed left.
StoredIsKnown == boot = "up" => In(buckets, Mapped) \subseteq memory \cup unread
\* What a request deleted from the store does not come back by a crash, a later attachment
\* or a one-time import, but for what the manifest and config.yaml give, what a managed
\* network's DNS needs, and claims that a pod names.  Two do come back: a row that a load held
\* while it was deleted, into memory until the next start, and a network that was deleted
\* while a load or the cycle deployed its DNS, into the store.
DeletedStaysAway ==
  \A o \in deleted : o \in memory \cup buckets => o \in heldOver
=============================================================================
