----------------------------- MODULE DeliveryProofs -----------------------------
(***************************************************************************)
(* Machine-checked safety of the components that deliver images and        *)
(* objects: mkube and its updater, the start of the store, the registry    *)
(* objects, the image registry, the watches of clients, the containers     *)
(* that the updater replaces and the replicas of a deployment, for every   *)
(* bound and every set of contents.                                        *)
(***************************************************************************)
EXTENDS SelfUpdate, StoreBoot, RegistryObjects, ImageRegistry, WatchStreams, ImageUpdater,
        Deployments, SequenceTheorems, WellFoundedInduction, TLAPS

-----------------------------------------------------------------------------
(* SelfUpdate: one of the pair stays. *)

\* mkube works on the container of mkube-update only while it is not being stopped itself:
\* the request that it works for is open as long as mkube-update runs and waits for it.
WorkIsAsked ==
  srv # "idle" /\ ~cancelled
    => Working("mkube") /\ (Working("updater") => upd = "asking")

\* The two are never removed together, so that a reboot brings one of them up.
OneIsThere == \E c \in Pair : box[c] # "gone"

SelfInv == SelfTypeOK /\ OneStays /\ WorkIsAsked /\ OneIsThere

LEMMA SelfInitInv == SelfInit => SelfInv
  <1> SUFFICES ASSUME SelfInit PROVE SelfInv
    OBVIOUS
  <1>1. SelfTypeOK
    <2>1. box \in [Pair -> {"up", "stopping", "stopped", "gone"}]
      BY DEF SelfInit
    <2>2. cancelled \in BOOLEAN /\ gaveUp \in BOOLEAN
      BY Zenon DEF SelfInit
    <2> QED
      BY <2>1, <2>2, SelfAssumption DEF SelfInit, SelfTypeOK
  <1>2. OneStays /\ WorkIsAsked /\ OneIsThere
    BY DEF SelfInit, OneStays, WorkIsAsked, OneIsThere, Working, Pair
  <1> QED
    BY <1>1, <1>2 DEF SelfInv

LEMMA UpdaterStepInv ==
  ASSUME SelfInv, Bootstrap \/ BootstrapFails \/ ReplaceMkube \/ ReplaceGoesOn
                  \/ ReplaceBreaksOff \/ requestSelfUpdate \/ RequestTimesOut
  PROVE  SelfInv'
  <1> USE SelfAssumption
      DEF SelfInv, SelfTypeOK, OneStays, WorkIsAsked, OneIsThere, Working, Pair, Replaces,
          SelfFault, SelfWorks, Becomes, Updater
  <1>1. CASE Bootstrap
    BY <1>1 DEF Bootstrap
  <1>2. CASE BootstrapFails
    BY <1>2 DEF BootstrapFails
  <1>3. CASE ReplaceMkube
    BY <1>3 DEF ReplaceMkube
  <1>4. CASE ReplaceGoesOn
    BY <1>4 DEF ReplaceGoesOn
  <1>5. CASE ReplaceBreaksOff
    BY <1>5 DEF ReplaceBreaksOff
  <1>6. CASE requestSelfUpdate
    BY <1>6 DEF requestSelfUpdate
  <1>7. CASE RequestTimesOut
    BY <1>7 DEF RequestTimesOut
  <1> QED
    BY <1>1, <1>2, <1>3, <1>4, <1>5, <1>6, <1>7

LEMMA SelfNextInv == SelfInv /\ [SelfNext]_selfVars => SelfInv'
  <1> SUFFICES ASSUME SelfInv, [SelfNext]_selfVars PROVE SelfInv'
    OBVIOUS
  <1> USE SelfAssumption
      DEF SelfInv, SelfTypeOK, OneStays, WorkIsAsked, OneIsThere, Working, Pair, Replaces,
          SelfFault, SelfWorks, Becomes, Server
  <1>1. CASE UpdaterStep \/ BootstrapFails \/ ReplaceBreaksOff \/ RequestTimesOut
    BY <1>1, UpdaterStepInv DEF UpdaterStep
  <1>2. CASE replaceContainer
    BY <1>2 DEF replaceContainer
  <1>3. CASE UpdaterStarts
    BY <1>3 DEF UpdaterStarts
  <1>4. CASE replaceContainerFails
    BY <1>4 DEF replaceContainerFails
  <1>5. ASSUME NEW c \in Pair, Stops(c) PROVE SelfInv'
    BY <1>5 DEF Stops
  <1>6. ASSUME NEW c \in Pair, PushImage(c) PROVE SelfInv'
    BY <1>6 DEF PushImage
  <1>7. CASE Reboot
    <2>1. \A c \in Pair : box'[c] = IF box[c] = "gone" THEN "gone" ELSE "up"
      BY <1>7 DEF Reboot
    <2>2. SelfTypeOK'
      <3>1. box' \in [Pair -> {"up", "stopping", "stopped", "gone"}]
        BY <1>7 DEF Reboot
      <3>2. cancelled' \in BOOLEAN /\ gaveUp' \in BOOLEAN
        BY <1>7, Zenon DEF Reboot
      <3> QED
        BY <1>7, <3>1, <3>2 DEF Reboot
    <2>3. (OneStays /\ WorkIsAsked /\ OneIsThere)'
      BY <1>7, <2>1 DEF Reboot
    <2> QED
      BY <2>2, <2>3
  <1>8. CASE UNCHANGED selfVars
    BY <1>8 DEF selfVars
  <1> QED
    BY <1>1, <1>2, <1>3, <1>4, <1>5, <1>6, <1>7, <1>8 DEF SelfNext

\* mkube and mkube-update never stop each other out of existence, however many calls fail,
\* requests time out and reboots come in between: only a mkube-update that could not
\* bootstrap mkube leaves nobody behind.
THEOREM PairSurvivesTheorem == SelfSpec => []OneStays
  <1>1. SelfInv => OneStays
    BY DEF SelfInv
  <1> QED
    BY <1>1, SelfInitInv, SelfNextInv, PTL DEF SelfSpec

-----------------------------------------------------------------------------
(* StoreBoot: what is stored is known, and what was deleted stays away. *)

\* The provider has a store from the migration of the pods on.
AttachedByNow == attached = (boot \notin {"store", "migrate"})

\* The maps hold no pods: their rows are read in every cycle. A load reads what goes there.
NoPodInMemory == \A o \in memory \cup keys \cup held : o[1] \in Mapped

\* A load lists its keys, and is over when it has put every row into its map.
LoadsInTurn ==
  /\ ~loading => keys = {} /\ held = {}
  /\ loading => boot \in {"claims", "networks", "rest"}

\* Known, or about to be: the load that goes on has listed it.
Found(o) == o \in memory \cup unread \cup keys \cup held
\* A bucket is known from the step of the boot sequence that lists its keys.
NotYet(kind) ==
  CASE kind = "claim"      -> boot \in {"store", "migrate"} \/ (boot = "claims" /\ ~loading)
    [] kind = "network"    -> \/ boot \in {"store", "migrate", "claims"}
                              \/ boot = "networks" /\ ~loading
    [] kind = "bootconfig" -> boot # "up" /\ ~(boot = "rest" /\ loading)
LoadedInOrder == \A o \in buckets : o[1] \in Mapped => NotYet(o[1]) \/ Found(o)

\* Of users' own objects only it is said that they stay away.
DeletedAreMade == deleted \subseteq Made

BootInv ==
  /\ BootTypeOK /\ AttachedByNow /\ NoPodInMemory /\ LoadsInTurn /\ LoadedInOrder
  /\ DeletedAreMade /\ DeletedStaysAway

LEMMA ObjectsFacts ==
  /\ \A o \in Objects : o[1] \in Kinds
  /\ \A kind \in Kinds : <<kind, "made">> \in Objects /\ <<kind, "made">> \in Made
  /\ \A kind \in {"pod", "network"} : GivenOf(kind) \subseteq Objects
  /\ \A kind \in Kinds : \A o \in GivenOf(kind) : o[1] = kind /\ o \notin Made
  /\ DnsPod \in Objects /\ DnsPod[1] = "pod" /\ DnsPod \notin Made
  /\ DnsClaim \in Objects /\ DnsClaim[1] = "claim" /\ DnsClaim \notin Made
  /\ Managed \in Objects /\ Managed[1] = "network"
  /\ Mapped = {"network", "claim", "bootconfig"} /\ Kinds = Mapped \cup {"pod"}
  BY DEF Objects, GivenOf, Made, Kinds, Mapped, DnsPod, DnsClaim, Managed

\* The types, of which SMT sees sets and Zenon the Boolean ones.
BootSets ==
  /\ buckets \subseteq Objects /\ memory \subseteq Objects /\ keys \subseteq Objects
  /\ held \subseteq Objects /\ heldOver \subseteq Objects /\ backup \subseteq Objects
  /\ unread \subseteq Objects /\ deleted \subseteq Objects
  /\ boot \in Steps /\ deploying \subseteq {"load", "cycle"}
  /\ writes \in 0 .. MaxWritesB /\ boots \in 0 .. MaxBoots /\ bootFaults \in 0 .. MaxBootFaults
BootFlags == attached \in BOOLEAN /\ serving \in BOOLEAN /\ loading \in BOOLEAN
LEMMA BootTypes ==
  /\ BootTypeOK <=> BootSets /\ BootFlags
  /\ BootTypeOK' <=> BootSets' /\ BootFlags'
  <1>1. {attached, serving, loading} \subseteq BOOLEAN <=> BootFlags
    BY Zenon DEF BootFlags
  <1>2. ({attached, serving, loading} \subseteq BOOLEAN)' <=> BootFlags'
    BY Zenon DEF BootFlags
  <1>3. BootTypeOK <=> BootSets /\ BootFlags
    BY <1>1 DEF BootTypeOK, BootSets
  <1>4. BootTypeOK' <=> BootSets' /\ BootFlags'
    BY <1>2 DEF BootTypeOK, BootSets
  <1> QED
    BY <1>3, <1>4
LEMMA FlagsStay ==
  ASSUME BootFlags, attached' = attached \/ attached' = TRUE \/ attached' = FALSE,
         serving' = serving \/ serving' = TRUE \/ serving' = FALSE,
         loading' = loading \/ loading' = TRUE \/ loading' = FALSE
  PROVE  BootFlags'
  BY Zenon DEF BootFlags

LEMMA BootInitInv == BootInit => BootInv
  <1> SUFFICES ASSUME BootInit PROVE BootInv
    OBVIOUS
  <1>1. BootFlags
    BY Zenon DEF BootInit, BootFlags
  <1>2. BootSets
    BY BootAssumption DEF BootInit, BootSets, Steps
  <1>3. /\ AttachedByNow /\ NoPodInMemory /\ LoadsInTurn /\ LoadedInOrder
        /\ DeletedAreMade /\ DeletedStaysAway
    BY DEF BootInit, AttachedByNow, NoPodInMemory, LoadsInTurn, LoadedInOrder,
           DeletedAreMade, DeletedStaysAway
  <1> QED
    BY <1>1, <1>2, <1>3, BootTypes DEF BootInv


\* Objects that come into memory and the rows that are written for them.
LEMMA AddsStep ==
  ASSUME BootInv, NEW objects, NEW rows, Adds(objects, rows),
         objects \subseteq Objects, rows \subseteq Objects, \A o \in objects : o[1] \in Mapped,
         UNCHANGED <<keys, held, backup, boots>>, boot' \in Steps, BootFlags',
         deploying' \subseteq {"load", "cycle"},
         writes' \in 0 .. MaxWritesB, bootFaults' \in 0 .. MaxBootFaults,
         AttachedByNow', LoadsInTurn', \A kind \in Mapped : NotYet(kind) => NotYet(kind)'
  PROVE  BootInv'
  <1> USE DEF BootInv
  <1>1. /\ memory' = memory \cup objects /\ buckets' = buckets \cup rows
        /\ deleted' = deleted \ objects
        /\ heldOver' = (heldOver \ objects) \cup (deleted \cap (rows \ objects))
        /\ attached => unread' = (unread \ objects) \cup (In(rows, Mapped) \ (memory \cup objects))
        /\ ~attached => unread' = unread
    BY DEF Adds
  <1>2. BootTypeOK'
    <2>1. unread' \subseteq Objects
      BY <1>1, BootTypes DEF BootSets, In
    <2> QED
      BY <1>1, <2>1, BootTypes DEF BootSets
  <1>3. NoPodInMemory'
    BY <1>1 DEF NoPodInMemory
  <1>4. LoadedInOrder'
    <2> SUFFICES ASSUME NEW o \in buckets', o[1] \in Mapped, ~NotYet(o[1])' PROVE Found(o)'
      BY DEF LoadedInOrder
    <2>1. ~NotYet(o[1])
      OBVIOUS
    <2>2. attached
      BY <2>1, ObjectsFacts DEF NotYet, AttachedByNow
    <2>3. CASE o \in rows
      BY <1>1, <2>2, <2>3 DEF Found, In
    <2>4. CASE o \in buckets
      BY <1>1, <2>1, <2>2, <2>4 DEF LoadedInOrder, Found
    <2> QED
      BY <1>1, <2>3, <2>4
  <1>5. (DeletedAreMade /\ DeletedStaysAway)'
    BY <1>1 DEF DeletedAreMade, DeletedStaysAway
  <1> QED
    BY <1>2, <1>3, <1>4, <1>5

\* Objects that leave memory, with their rows when there is a store.
LEMMA DropsStep ==
  ASSUME BootInv, NEW objects, NEW rows, Drops(objects, rows), rows \subseteq Objects,
         objects \subseteq rows \/ ~attached, rows \cap Made \subseteq objects,
         UNCHANGED <<boot, attached, serving, loadVars, deploying, backup, writes, boots>>,
         bootFaults' \in 0 .. MaxBootFaults
  PROVE  BootInv'
  <1> USE DEF BootInv
  <1>1. /\ memory' = memory \ objects /\ buckets' = buckets \ rows
        /\ deleted' = deleted \cup (rows \cap Made) /\ heldOver' = heldOver \ rows
        /\ unread' = unread \ rows /\ UNCHANGED <<loading, keys, held>>
    BY DEF Drops, loadVars
  <1>2. BootTypeOK'
    BY <1>1, BootTypes, FlagsStay DEF BootSets
  <1>3. (AttachedByNow /\ NoPodInMemory /\ LoadsInTurn)'
    BY <1>1 DEF AttachedByNow, NoPodInMemory, LoadsInTurn
  <1>4. LoadedInOrder'
    <2>1. CASE objects \subseteq rows
      BY <1>1, <2>1 DEF LoadedInOrder, Found, NotYet
    <2>2. CASE ~attached
      BY <1>1, <2>2, ObjectsFacts DEF LoadedInOrder, NotYet, AttachedByNow
    <2> QED
      BY <2>1, <2>2
  <1>5. (DeletedAreMade /\ DeletedStaysAway)'
    BY <1>1 DEF DeletedAreMade, DeletedStaysAway
  <1> QED
    BY <1>2, <1>3, <1>4, <1>5

\* deployManagedDNS, in the handler, in the cycle and at the end of a load.
LEMMA DeployStep ==
  ASSUME BootInv, NEW first, DeployDNS(first), first \subseteq Objects,
         \A o \in first : o[1] \in Mapped,
         UNCHANGED <<keys, held, backup, boots>>, boot' \in Steps, BootFlags',
         deploying' \subseteq {"load", "cycle"}, writes' \in 0 .. MaxWritesB,
         AttachedByNow', LoadsInTurn', \A kind \in Mapped : NotYet(kind) => NotYet(kind)'
  PROVE  BootInv'
  <1> DEFINE due == IF attached THEN {DnsPod, Managed} \cup ({DnsClaim} \ memory) ELSE {}
             fed == IF attached THEN first ELSE {}
  <1>1. PICK rows \in SUBSET due :
          (IF rows = due THEN BootWorks ELSE BootFails) /\ Adds(first \cup {DnsClaim}, rows \cup fed)
    BY DEF DeployDNS
  <1>2. bootFaults' \in 0 .. MaxBootFaults
    BY <1>1, BootTypes, BootAssumption DEF BootInv, BootSets, BootWorks, BootFails
  <1>3. /\ due \subseteq {DnsPod, DnsClaim, Managed} /\ fed \subseteq first
        /\ first \cup {DnsClaim} \subseteq Objects /\ rows \cup fed \subseteq Objects
    BY <1>1, ObjectsFacts
  <1>4. \A o \in first \cup {DnsClaim} : o[1] \in Mapped
    BY ObjectsFacts
  <1> HIDE DEF due, fed
  <1> QED
    BY <1>1, <1>2, <1>3, <1>4, AddsStep

LEMMA BootStepInv == BootInv /\ BootStep => BootInv'
  <1> SUFFICES ASSUME BootInv, BootStep PROVE BootInv'
    OBVIOUS
  <1> USE DEF BootInv
  <1>0. BootSets /\ BootFlags /\ BootAssumption
    BY BootTypes, BootAssumption
  <1>1. CASE StoreReached \/ StoreAway
    <2>1. /\ UNCHANGED <<buckets, memory, loading, keys, held, deploying, heldOver, unread, deleted,
                         backup>>
          /\ boot = "store" /\ boot' \in {"store", "migrate"} /\ UNCHANGED <<attached, Counters>>
          /\ serving' = serving \/ serving' = TRUE
          /\ bootFaults' \in 0 .. MaxBootFaults
      BY <1>0, <1>1 DEF StoreReached, StoreAway, NoLoad, loadVars, Goes, BootWorks, BootFails,
                        BootSets, BootAssumption
    <2>2. BootTypeOK'
      BY <1>0, <2>1, BootTypes, FlagsStay DEF BootSets, Steps, Counters
    <2> QED
      BY <2>1, <2>2, ObjectsFacts DEF AttachedByNow, NoPodInMemory, LoadsInTurn, LoadedInOrder,
                                     NotYet, DeletedAreMade, DeletedStaysAway
  <1>2. CASE MigrateIfEmpty
    <2>1. /\ UNCHANGED <<memory, loading, keys, held, deploying, heldOver, unread, deleted, backup>>
          /\ boot = "migrate" /\ boot' = "claims" /\ attached' = TRUE
          /\ UNCHANGED <<serving, Counters>> /\ bootFaults' \in 0 .. MaxBootFaults
          /\ buckets \subseteq buckets' /\ buckets' \subseteq buckets \cup GivenOf("pod")
      BY <1>0, <1>2 DEF MigrateIfEmpty, NoLoad, loadVars, Goes, BootWorks, BootFails, BootSets,
                        BootAssumption
    <2>2. BootTypeOK'
      <3>1. BootFlags'
        BY <1>0, <2>1, FlagsStay
      <3>2. BootSets'
        BY <1>0, <2>1, ObjectsFacts DEF BootSets, Steps, Counters
      <3> QED
        BY <3>1, <3>2, BootTypes
    <2>3. ~loading
      BY <2>1 DEF LoadsInTurn
    <2> QED
      BY <2>1, <2>2, <2>3, ObjectsFacts
         DEF AttachedByNow, NoPodInMemory, LoadsInTurn, LoadedInOrder, NotYet, DeletedAreMade,
             DeletedStaysAway
  <1>3. ASSUME NEW at, NEW kinds, ListKeys(at, kinds),
               \/ at = "claims" /\ kinds = {"claim"}
               \/ at = "networks" /\ kinds = {"network"}
               \/ at = "rest" /\ kinds = {"bootconfig"}
        PROVE  BootInv'
    <2>1. /\ boot = at /\ ~loading /\ loading' = TRUE /\ keys' \subseteq In(buckets, kinds)
          /\ UNCHANGED <<buckets, memory, boot, attached, serving, held, deploying, heldOver,
                         backup, deleted, Counters>>
          /\ unread' \subseteq unread \cup In(buckets, kinds)
          /\ \A o \in unread : o[1] \notin kinds => o \in unread'
          /\ \A o \in In(buckets, kinds) : o \in keys' \cup unread'
          /\ bootFaults' \in 0 .. MaxBootFaults
      BY <1>0, <1>3 DEF ListKeys, In, BootWorks, BootFails, BootSets, BootAssumption
    <2>2. keys = {} /\ held = {}
      BY <2>1 DEF LoadsInTurn
    <2>3. BootTypeOK'
      <3>1. BootFlags'
        BY <1>0, <2>1, FlagsStay
      <3>2. BootSets'
        BY <1>0, <2>1 DEF BootSets, In, Counters
      <3> QED
        BY <3>1, <3>2, BootTypes
    <2>4. (AttachedByNow /\ NoPodInMemory /\ LoadsInTurn /\ DeletedAreMade /\ DeletedStaysAway)'
      BY <1>3, <2>1, ObjectsFacts
         DEF AttachedByNow, NoPodInMemory, LoadsInTurn, DeletedAreMade, DeletedStaysAway, In
    <2>5. LoadedInOrder'
      <3> SUFFICES ASSUME NEW o \in buckets, o[1] \in Mapped, ~NotYet(o[1])' PROVE Found(o)'
        BY <2>1 DEF LoadedInOrder
      <3>1. CASE o[1] \in kinds
        BY <2>1, <3>1 DEF Found, In
      <3>2. CASE o[1] \notin kinds
        <4>1. ~NotYet(o[1])
          BY <1>3, <2>1, <3>2, ObjectsFacts DEF NotYet
        <4> QED
          BY <2>1, <2>2, <3>2, <4>1 DEF Found, LoadedInOrder
      <3> QED
        BY <3>1, <3>2
    <2> QED
      BY <2>3, <2>4, <2>5
  <1>4. ASSUME NEW o \in Objects, ReadRow(o) PROVE BootInv'
    <2>1. /\ o \in keys /\ held = {} /\ keys' = keys \ {o}
          /\ UNCHANGED <<buckets, memory, boot, attached, serving, loading, deploying, heldOver,
                         backup, deleted, Counters>>
          /\ \/ held' = {o} \cap buckets /\ UNCHANGED unread
             \/ unread' = unread \cup {o} /\ UNCHANGED held
          /\ bootFaults' \in 0 .. MaxBootFaults
      BY <1>0, <1>4 DEF ReadRow, BootWorks, BootFails, BootSets, BootAssumption
    <2>2. BootTypeOK'
      BY <1>0, <2>1, BootTypes, FlagsStay DEF BootSets, Counters
    <2>3. (AttachedByNow /\ NoPodInMemory /\ LoadsInTurn /\ DeletedAreMade /\ DeletedStaysAway)'
      BY <2>1 DEF AttachedByNow, NoPodInMemory, LoadsInTurn, DeletedAreMade, DeletedStaysAway
    <2>4. LoadedInOrder'
      BY <2>1 DEF LoadedInOrder, NotYet, Found
    <2> QED
      BY <2>2, <2>3, <2>4
  <1>5. CASE PutIntoMap
    <2>1. /\ held' = {} /\ memory' = memory \cup held
          /\ heldOver' = heldOver \cup (held \cap deleted) /\ unread' = unread \ held
          /\ UNCHANGED <<buckets, boot, attached, serving, loading, keys, deploying, backup, deleted,
                         Counters>>
          /\ UNCHANGED bootFaults
      BY <1>5 DEF PutIntoMap, BootWorks
    <2>2. BootTypeOK'
      BY <1>0, <2>1, BootTypes, FlagsStay DEF BootSets, Counters
    <2>3. (AttachedByNow /\ NoPodInMemory /\ LoadsInTurn)'
      BY <2>1 DEF AttachedByNow, NoPodInMemory, LoadsInTurn
    <2>4. LoadedInOrder'
      BY <2>1 DEF LoadedInOrder, NotYet, Found
    <2>5. (DeletedAreMade /\ DeletedStaysAway)'
      BY <2>1 DEF DeletedAreMade, DeletedStaysAway
    <2> QED
      BY <2>2, <2>3, <2>4, <2>5
  <1>6. ASSUME NEW from, NEW to, Loaded(from, to),
               \/ from = "claims" /\ to = "networks"
               \/ from = "networks" /\ to = "migrateNetworks"
               \/ from = "rest" /\ to = "up"
        PROVE  /\ boot = from /\ boot' = to /\ loading /\ loading' = FALSE /\ boot' \in Steps
               /\ keys = {} /\ held = {} /\ UNCHANGED <<attached, keys, held, backup, Counters>>
               /\ AttachedByNow' /\ LoadsInTurn'
               /\ \A kind \in Mapped : NotYet(kind) => NotYet(kind)'
    BY <1>6, ObjectsFacts DEF Loaded, Goes, AttachedByNow, LoadsInTurn, NotYet, Steps
  <1>7. ASSUME NEW from, NEW to, Loaded(from, to),
               \/ from = "claims" /\ to = "networks"
               \/ from = "networks" /\ to = "migrateNetworks"
               \/ from = "rest" /\ to = "up",
               BootWorks, Unmoved, serving' = serving \/ serving' = TRUE
        PROVE  BootInv'
    <2>1. /\ boot = from /\ boot' = to /\ loading' = FALSE /\ boot' \in Steps
          /\ UNCHANGED <<attached, keys, held, backup, Counters>>
          /\ UNCHANGED <<buckets, memory, deploying, heldOver, unread, deleted, bootFaults>>
          /\ AttachedByNow' /\ LoadsInTurn'
          /\ \A kind \in Mapped : NotYet(kind) => NotYet(kind)'
      BY <1>6, <1>7 DEF Unmoved, BootWorks
    <2>2. BootTypeOK'
      <3>1. BootFlags'
        BY <1>0, <1>7, <2>1, FlagsStay
      <3>2. BootSets'
        BY <1>0, <2>1 DEF BootSets, Counters
      <3> QED
        BY <3>1, <3>2, BootTypes
    <2> QED
      BY <2>1, <2>2 DEF NoPodInMemory, LoadedInOrder, Found, DeletedAreMade, DeletedStaysAway
  <1>8. CASE EndNetworks
    <2>1. CASE Unmoved /\ BootWorks
      BY <1>7, <1>8, <2>1 DEF EndNetworks
    <2>2. CASE DeployDNS({}) /\ deploying' = deploying \ {"load"}
      <3>1. BootFlags'
        BY <1>0, <1>6, <1>8, FlagsStay DEF EndNetworks
      <3>2. /\ UNCHANGED <<keys, held, backup, boots>> /\ boot' \in Steps
            /\ writes' \in 0 .. MaxWritesB /\ AttachedByNow' /\ LoadsInTurn'
            /\ deploying' \subseteq {"load", "cycle"}
            /\ \A kind \in Mapped : NotYet(kind) => NotYet(kind)'
        BY <1>0, <1>6, <1>8, <2>2 DEF EndNetworks, Counters, BootSets
      <3> QED
        BY <2>2, <3>1, <3>2, DeployStep
    <2> QED
      BY <1>8, <2>1, <2>2 DEF EndNetworks
  <1>9. CASE MigrateNetworkConfig
    <2>1. /\ boot = "migrateNetworks" /\ boot' = "rest"
          /\ UNCHANGED <<loading, keys, held, deploying, heldOver, attached, serving, backup, unread,
                         deleted, Counters>>
          /\ \/ UNCHANGED <<buckets, memory>>
             \/ /\ buckets' = buckets \cup GivenOf("network")
                /\ memory' = memory \cup GivenOf("network")
          /\ bootFaults' \in 0 .. MaxBootFaults
      BY <1>0, <1>9 DEF MigrateNetworkConfig, Goes, NoLoad, loadVars, BootWorks, BootFails,
                        BootSets, BootAssumption
    <2>2. BootTypeOK'
      <3>1. BootFlags'
        BY <1>0, <2>1, FlagsStay
      <3>2. BootSets'
        BY <1>0, <2>1, ObjectsFacts DEF BootSets, Steps, Counters
      <3> QED
        BY <3>1, <3>2, BootTypes
    <2>3. ~loading
      BY <2>1 DEF LoadsInTurn
    <2>4. (AttachedByNow /\ NoPodInMemory /\ LoadsInTurn)'
      BY <2>1, <2>3, ObjectsFacts DEF AttachedByNow, NoPodInMemory, LoadsInTurn
    <2>5. LoadedInOrder'
      BY <2>1, <2>3, ObjectsFacts DEF LoadedInOrder, NotYet, Found
    <2>6. (DeletedAreMade /\ DeletedStaysAway)'
      BY <2>1, ObjectsFacts DEF DeletedAreMade, DeletedStaysAway
    <2> QED
      BY <2>2, <2>4, <2>5, <2>6
  <1>10. CASE BeginDeploy
    <2>1. /\ UNCHANGED <<buckets, memory, boot, attached, serving, loading, keys, held, heldOver,
                         backup, unread, deleted, Counters, bootFaults>>
          /\ deploying' = deploying \cup {"load"}
      BY <1>10 DEF BeginDeploy, BootWorks, loadVars
    <2>2. BootTypeOK'
      BY <1>0, <2>1, BootTypes, FlagsStay DEF BootSets, Counters
    <2> QED
      BY <2>1, <2>2
         DEF AttachedByNow, NoPodInMemory, LoadsInTurn, LoadedInOrder, Found, NotYet,
             DeletedAreMade, DeletedStaysAway
  <1> QED
    BY <1>1, <1>2, <1>3, <1>4, <1>5, <1>7, <1>8, <1>9, <1>10
       DEF BootStep, LoadPVCsFromStore, LoadNetworksFromStore, LoadRest, EndClaims, EndRest

\* What a request keeps of the boot sequence.
LEMMA ServesKeeps ==
  ASSUME BootInv, Stands
  PROVE  /\ UNCHANGED <<boot, attached, serving, loading, keys, held, boots>>
         /\ boot' \in Steps /\ BootFlags' /\ AttachedByNow' /\ LoadsInTurn'
         /\ \A kind \in Mapped : NotYet(kind) <=> NotYet(kind)'
  <1>1. UNCHANGED <<boot, attached, serving, loading, keys, held, boots>>
    BY DEF Stands, loadVars
  <1>2. BootFlags'
    BY <1>1, BootTypes, FlagsStay DEF BootInv
  <1>3. boot' \in Steps /\ AttachedByNow' /\ LoadsInTurn'
    BY <1>1, BootTypes DEF BootInv, BootSets, AttachedByNow, LoadsInTurn
  <1> QED
    BY <1>1, <1>2, <1>3 DEF NotYet

LEMMA CreateObjectInv == ASSUME BootInv, NEW o \in Objects, CreateObject(o) PROVE BootInv'
  <1>1. Stands /\ deploying' = deploying /\ BootSets /\ BootAssumption
    BY BootTypes, BootAssumption DEF CreateObject, Serves, BootInv
  <1>2. /\ o[1] \in Mapped /\ writes' \in 0 .. MaxWritesB /\ UNCHANGED backup
        /\ IF o = Managed THEN DeployDNS({o})
           ELSE BootWorks /\ Adds({o}, IF attached THEN {o} ELSE {})
    BY <1>1 DEF CreateObject, In, BootSets, BootAssumption
  <1>3. CASE o = Managed
    <2>1. /\ {o} \subseteq Objects /\ \A x \in {o} : x[1] \in Mapped
          /\ deploying' \subseteq {"load", "cycle"}
      BY <1>1, <1>2 DEF BootSets
    <2> QED
      BY <1>1, <1>2, <1>3, <2>1, ServesKeeps, DeployStep
  <1>4. CASE o # Managed
    <2> DEFINE rows == IF attached THEN {o} ELSE {}
    <2>1. /\ {o} \subseteq Objects /\ rows \subseteq Objects
          /\ \A x \in {o} : x[1] \in Mapped
          /\ deploying' \subseteq {"load", "cycle"}
      BY <1>1, <1>2 DEF BootSets
    <2>2. bootFaults' \in 0 .. MaxBootFaults /\ Adds({o}, rows)
      BY <1>1, <1>2, <1>4 DEF BootWorks, BootSets
    <2> HIDE DEF rows
    <2> QED
      BY <1>1, <1>2, <2>1, <2>2, ServesKeeps, AddsStep
  <1> QED
    BY <1>3, <1>4

LEMMA DeleteObjectInv == ASSUME BootInv, NEW o \in Objects, DeleteObject(o) PROVE BootInv'
  <1> USE DEF BootInv
  <1>1. /\ Serves /\ BootSets /\ BootAssumption /\ o \in memory /\ UNCHANGED <<backup, writes>>
        /\ bootFaults' \in 0 .. MaxBootFaults
    BY BootTypes, BootAssumption
       DEF DeleteObject, BootSets, BootAssumption, BootWorks, BootFails
  <1>2. /\ UNCHANGED <<boot, attached, serving, loadVars, deploying, backup, writes, boots>>
        /\ UNCHANGED <<loading, keys, held>> /\ o[1] \in Mapped
    BY <1>1 DEF Serves, Stands, loadVars, NoPodInMemory
  <1>3. ASSUME NEW objects, NEW rows, Drops(objects, rows), rows \subseteq Objects,
               objects \subseteq rows \/ ~attached, rows \cap Made \subseteq objects
        PROVE  BootInv'
    BY <1>1, <1>2, <1>3, DropsStep
  <1>4. CASE Drops({o}, IF ~attached THEN {} ELSE IF o = Managed THEN {o, DnsPod} ELSE {o})
    <2>1. PICK rows : /\ Drops({o}, rows)
                      /\ rows = IF ~attached THEN {} ELSE IF o = Managed THEN {o, DnsPod} ELSE {o}
      BY <1>4
    <2>2. rows \subseteq Objects /\ ({o} \subseteq rows \/ ~attached) /\ rows \cap Made \subseteq {o}
      BY <2>1, ObjectsFacts
    <2> QED
      BY <1>3, <2>1, <2>2
  <1>5. CASE Drops({}, {DnsPod})
    <2>1. {DnsPod} \subseteq Objects /\ {DnsPod} \cap Made \subseteq {}
      BY ObjectsFacts
    <2> QED
      BY <1>3, <1>5, <2>1
  <1>6. CASE Drops({o}, {o})
    BY <1>3, <1>6
  <1>7. CASE /\ memory' = memory \ {o} /\ unread' = unread \cup {o}
             /\ UNCHANGED <<buckets, deleted, heldOver>>
    <2>1. BootTypeOK'
      BY <1>1, <1>2, <1>7, BootTypes, FlagsStay DEF BootSets
    <2>2. (AttachedByNow /\ NoPodInMemory /\ LoadsInTurn)'
      BY <1>1, <1>2, <1>7 DEF AttachedByNow, NoPodInMemory, LoadsInTurn
    <2>3. LoadedInOrder'
      BY <1>2, <1>7 DEF LoadedInOrder, Found, NotYet
    <2>4. (DeletedAreMade /\ DeletedStaysAway)'
      BY <1>7 DEF DeletedAreMade, DeletedStaysAway
    <2> QED
      BY <2>1, <2>2, <2>3, <2>4
  <1> QED
    BY <1>4, <1>5, <1>6, <1>7 DEF DeleteObject

LEMMA BootRequestInv == BootInv /\ BootRequest => BootInv'
  <1> SUFFICES ASSUME BootInv, BootRequest PROVE BootInv'
    OBVIOUS
  <1> USE DEF BootInv
  <1>0. BootSets /\ BootFlags /\ BootAssumption
    BY BootTypes, BootAssumption
  \* The rows of pods, which no map holds.
  <1>1. ASSUME Serves, bootFaults' \in 0 .. MaxBootFaults, writes' \in 0 .. MaxWritesB,
               NEW row \in Objects, row[1] = "pod", UNCHANGED <<memory, unread, heldOver, backup>>,
               \/ UNCHANGED <<buckets, deleted>>
               \/ buckets' = buckets \cup {row} /\ deleted' = deleted \ {row}
               \/ buckets' = buckets \ {row} /\ deleted' = deleted \cup ({row} \cap Made)
        PROVE  BootInv'
    <2>1. /\ UNCHANGED <<boot, attached, serving, loading, keys, held, deploying, boots>>
          /\ BootFlags' /\ AttachedByNow' /\ LoadsInTurn'
      BY <1>1, ServesKeeps DEF Serves
    <2>2. BootTypeOK'
      <3>1. BootSets'
        BY <1>0, <1>1, <2>1 DEF BootSets
      <3> QED
        BY <2>1, <3>1, BootTypes
    <2>3. row \notin memory
      BY <1>1, ObjectsFacts DEF NoPodInMemory
    <2>4. NoPodInMemory' /\ (DeletedAreMade /\ DeletedStaysAway)'
      BY <1>1, <2>1, <2>3 DEF NoPodInMemory, DeletedAreMade, DeletedStaysAway
    <2>5. LoadedInOrder'
      <3>1. \A kind \in Mapped : NotYet(kind) <=> NotYet(kind)'
        BY <1>1, ServesKeeps DEF Serves
      <3>2. row[1] \notin Mapped
        BY <1>1, ObjectsFacts
      <3>3. \A o \in buckets' : o[1] \in Mapped => o \in buckets
        BY <1>1, <3>2
      <3> QED
        BY <1>1, <2>1, <3>1, <3>3 DEF LoadedInOrder, Found
    <2> QED
      BY <2>1, <2>2, <2>4, <2>5
  <1>2. CASE CreatePodRow
    <2>1. <<"pod", "made">> \in Objects
      BY ObjectsFacts
    <2>2. bootFaults' \in 0 .. MaxBootFaults /\ writes' \in 0 .. MaxWritesB
      BY <1>0, <1>2 DEF CreatePodRow, BootWorks, BootSets, BootAssumption
    <2> QED
      BY <1>1, <1>2, <2>1, <2>2 DEF CreatePodRow
  <1>3. ASSUME NEW o \in Objects, DeletePodRow(o) PROVE BootInv'
    <2>1. o[1] = "pod" /\ bootFaults' \in 0 .. MaxBootFaults /\ writes' \in 0 .. MaxWritesB
      BY <1>0, <1>3 DEF DeletePodRow, In, BootWorks, BootFails, BootSets, BootAssumption
    <2> QED
      BY <1>1, <1>3, <2>1 DEF DeletePodRow
  <1>4. CASE ExportYAML \/ ImportYAML
    <2>1. /\ Serves /\ UNCHANGED <<memory, heldOver, writes>> /\ bootFaults' \in 0 .. MaxBootFaults
          /\ backup' \subseteq Objects
          /\ \E got \in SUBSET Objects :
               /\ buckets' = buckets \cup got /\ deleted' = deleted \ got
               /\ unread' = unread \cup (In(got, Mapped) \ memory)
      <3>1. CASE ExportYAML
        <4>1. In({}, Mapped) = {} /\ {} \in SUBSET Objects
          BY DEF In
        <4>2. /\ buckets' = buckets \cup {} /\ deleted' = deleted \ {}
              /\ unread' = unread \cup (In({}, Mapped) \ memory)
          BY <3>1, <4>1 DEF ExportYAML
        <4>3. backup' \subseteq Objects /\ bootFaults' \in 0 .. MaxBootFaults
          BY <1>0, <3>1 DEF ExportYAML, BootWorks, BootSets, In
        <4> QED
          BY <3>1, <4>1, <4>2, <4>3 DEF ExportYAML
      <3>2. CASE ImportYAML
        <4>1. Parsed \subseteq Objects
          BY <1>0 DEF Parsed, In, BootSets
        <4> QED
          BY <1>0, <3>2, <4>1 DEF ImportYAML, BootWorks, BootFails, BootSets, BootAssumption
      <3> QED
        BY <1>4, <3>1, <3>2
    <2>2. PICK got \in SUBSET Objects :
            /\ buckets' = buckets \cup got /\ deleted' = deleted \ got
            /\ unread' = unread \cup (In(got, Mapped) \ memory)
      BY <2>1
    <2>3. /\ UNCHANGED <<boot, attached, serving, loading, keys, held, deploying, boots>>
          /\ BootFlags' /\ AttachedByNow' /\ LoadsInTurn'
      BY <2>1, ServesKeeps DEF Serves
    <2>4. BootTypeOK'
      <3>1. BootSets'
        BY <1>0, <2>1, <2>2, <2>3 DEF BootSets, In
      <3> QED
        BY <2>3, <3>1, BootTypes
    <2>5. (NoPodInMemory /\ DeletedAreMade /\ DeletedStaysAway)'
      BY <2>1, <2>2, <2>3 DEF NoPodInMemory, DeletedAreMade, DeletedStaysAway
    <2>6. LoadedInOrder'
      BY <2>1, <2>2, <2>3 DEF LoadedInOrder, Found, NotYet, In
    <2> QED
      BY <2>3, <2>4, <2>5, <2>6
  <1> QED
    BY <1>2, <1>3, <1>4, CreateObjectInv, DeleteObjectInv DEF BootRequest

LEMMA BootCycleInv == BootInv /\ BootCycle => BootInv'
  <1> SUFFICES ASSUME BootInv, BootCycle PROVE BootInv'
    OBVIOUS
  <1> USE DEF BootInv
  <1>0. BootSets /\ BootFlags /\ BootAssumption /\ Stands
    BY BootTypes, BootAssumption DEF BootCycle, PersistBootPods, RedeployDNS, ResolveClaim, Serves
  <1>1. CASE PersistBootPods
    <2>1. /\ UNCHANGED <<boot, attached, serving, loading, keys, held, deploying, boots>>
          /\ BootFlags' /\ AttachedByNow' /\ LoadsInTurn'
      BY <1>0, <1>1, ServesKeeps DEF PersistBootPods, Serves
    <2>2. buckets' = buckets \cup GivenOf("pod")
          /\ UNCHANGED <<memory, unread, heldOver, deleted, backup, writes, bootFaults>>
      BY <1>1 DEF PersistBootPods, BootWorks
    <2>3. BootTypeOK'
      <3>1. BootSets'
        BY <1>0, <2>1, <2>2, ObjectsFacts DEF BootSets
      <3> QED
        BY <2>1, <3>1, BootTypes
    <2>4. (NoPodInMemory /\ DeletedAreMade /\ DeletedStaysAway)'
      BY <2>1, <2>2, ObjectsFacts DEF NoPodInMemory, DeletedAreMade, DeletedStaysAway
    <2>5. LoadedInOrder'
      BY <2>1, <2>2, ObjectsFacts DEF LoadedInOrder, Found, NotYet
    <2> QED
      BY <2>1, <2>3, <2>4, <2>5
  <1>2. CASE RedeployDNS
    <2>1. /\ UNCHANGED <<boot, attached, serving, loading, keys, held, boots>>
          /\ BootFlags' /\ AttachedByNow' /\ LoadsInTurn'
          /\ UNCHANGED <<backup, writes>> /\ writes' \in 0 .. MaxWritesB
      BY <1>0, <1>2, ServesKeeps DEF RedeployDNS, BootSets
    <2>2. CASE /\ deploying' = deploying \cup {"cycle"} /\ BootWorks
               /\ UNCHANGED <<buckets, memory, heldOver, unread, deleted>>
      <3>1. BootTypeOK'
        <4>1. BootSets'
          BY <1>0, <2>1, <2>2 DEF BootSets, BootWorks
        <4> QED
          BY <2>1, <4>1, BootTypes
      <3> QED
        BY <2>1, <2>2, <3>1
           DEF NoPodInMemory, LoadedInOrder, Found, NotYet, DeletedAreMade, DeletedStaysAway
    <2>3. CASE deploying' = deploying \ {"cycle"} /\ DeployDNS({})
      <3>1. deploying' \subseteq {"load", "cycle"}
        BY <1>0, <2>3 DEF BootSets
      <3> QED
        BY <1>0, <2>1, <2>3, <3>1, ServesKeeps, DeployStep
    <2> QED
      BY <1>2, <2>2, <2>3 DEF RedeployDNS
  <1>3. CASE ResolveClaim
    <2>1. PICK rows \in {{<<"claim", "made">>}, {}} : Adds({<<"claim", "made">>}, rows)
      BY <1>3 DEF ResolveClaim
    <2>2. /\ writes' \in 0 .. MaxWritesB /\ bootFaults' \in 0 .. MaxBootFaults
          /\ UNCHANGED backup /\ deploying' \subseteq {"load", "cycle"}
      BY <1>0, <1>3 DEF ResolveClaim, Serves, BootWorks, BootFails, BootSets, BootAssumption
    <2>3. {<<"claim", "made">>} \subseteq Objects /\ \A o \in {<<"claim", "made">>} : o[1] \in Mapped
      BY ObjectsFacts
    <2> QED
      BY <1>0, <2>1, <2>2, <2>3, ServesKeeps, AddsStep
  <1> QED
    BY <1>1, <1>2, <1>3 DEF BootCycle

LEMMA BootNextInv == BootInv /\ [BootNext]_bootVars => BootInv'
  <1> SUFFICES ASSUME BootInv, [BootNext]_bootVars PROVE BootInv'
    OBVIOUS
  <1> USE DEF BootInv
  <1>0. BootSets /\ BootFlags /\ BootAssumption
    BY BootTypes, BootAssumption
  <1>1. CASE Crash
    <2>1. /\ memory' = {} /\ boot' = "store" /\ attached' = FALSE /\ serving' = FALSE
          /\ loading' = FALSE /\ keys' = {} /\ held' = {} /\ deploying' = {}
          /\ heldOver' = heldOver \cap buckets
          /\ UNCHANGED <<buckets, backup, unread, deleted, writes, bootFaults>>
          /\ boots' \in 0 .. MaxBoots
      BY <1>0, <1>1 DEF Crash, BootSets, BootAssumption
    <2>2. BootTypeOK'
      <3>1. BootFlags'
        BY <1>0, <2>1, FlagsStay
      <3>2. BootSets'
        BY <1>0, <2>1 DEF BootSets, Steps
      <3> QED
        BY <3>1, <3>2, BootTypes
    <2> QED
      BY <2>1, <2>2, ObjectsFacts
         DEF AttachedByNow, NoPodInMemory, LoadsInTurn, LoadedInOrder, NotYet, DeletedAreMade,
             DeletedStaysAway
  <1>2. CASE StoreLost
    <2>1. /\ buckets' = {} /\ unread' = {} /\ bootFaults' \in 0 .. MaxBootFaults
          /\ UNCHANGED <<memory, boot, attached, serving, loading, keys, held, deploying, heldOver,
                         backup, deleted, Counters>>
      BY <1>0, <1>2 DEF StoreLost, NoLoad, loadVars, BootFails, BootSets, BootAssumption
    <2>2. BootTypeOK'
      <3>1. BootFlags'
        BY <1>0, <2>1, FlagsStay
      <3>2. BootSets'
        BY <1>0, <2>1 DEF BootSets, Counters
      <3> QED
        BY <3>1, <3>2, BootTypes
    <2> QED
      BY <2>1, <2>2
         DEF AttachedByNow, NoPodInMemory, LoadsInTurn, LoadedInOrder, DeletedAreMade,
             DeletedStaysAway
  <1>3. CASE UNCHANGED bootVars
    <2>1. UNCHANGED <<buckets, memory, boot, attached, serving, loading, keys, held, deploying,
                      heldOver, backup, unread, deleted, writes, boots, bootFaults>>
      BY <1>3 DEF bootVars, loadVars
    <2>2. BootTypeOK'
      <3>1. BootFlags'
        BY <1>0, <2>1, FlagsStay
      <3>2. BootSets'
        BY <1>0, <2>1 DEF BootSets
      <3> QED
        BY <3>1, <3>2, BootTypes
    <2> QED
      BY <2>1, <2>2
         DEF AttachedByNow, NoPodInMemory, LoadsInTurn, LoadedInOrder, Found, NotYet,
             DeletedAreMade, DeletedStaysAway
  <1> QED
    BY <1>1, <1>2, <1>3, BootStepInv, BootRequestInv, BootCycleInv DEF BootNext

LEMMA BootInvHolds == BootSpec => []BootInv
  BY BootInitInv, BootNextInv, PTL DEF BootSpec

\* Once the boot sequence is through, the provider knows every stored object, but for what an
\* import brought since or a call that failed left, for every number of crashes, faults and
\* requests that come between the steps of the loads.
THEOREM StoredKnownTheorem == BootSpec => []StoredIsKnown
  <1>1. BootInv => StoredIsKnown
    <2> SUFFICES ASSUME BootInv, boot = "up", NEW o \in buckets, o[1] \in Mapped
                 PROVE  o \in memory \cup unread
      BY DEF StoredIsKnown, In
    <2>1. keys = {} /\ held = {}
      <3>1. ~loading
        BY DEF BootInv, LoadsInTurn
      <3> QED
        BY <3>1 DEF BootInv, LoadsInTurn
    <2>2. ~NotYet(o[1])
      BY ObjectsFacts DEF NotYet
    <2> QED
      BY <2>1, <2>2 DEF BootInv, LoadedInOrder, Found
  <1> QED
    BY <1>1, BootInvHolds, PTL

\* What a request deleted of the users' own objects stays out of the store and of memory, by
\* whatever crash, later attachment, one-time import or redeployment of DNS pods, but for the
\* row that a load held at that moment and the network whose DNS was being deployed.
THEOREM DeletedStaysTheorem == BootSpec => []DeletedStaysAway
  <1>1. BootInv => DeletedStaysAway
    BY DEF BootInv
  <1> QED
    BY <1>1, BootInvHolds, PTL

-----------------------------------------------------------------------------
(* RegistryObjects: a container runs on the file of its pod. *)

\* Whatever the ConfigMap says, a container started with what the file holds, unless the
\* file was just written or an update of the pod was lost.
BoxRunsFile == regBox # {} /\ ~writing => regBox = {cfgFile} \/ syncLost

\* A pod whose file was written is tracked as long as it has a container, so that the
\* update after the write finds it.
WrittenIsTracked == writing /\ regBox # {} => regPodHere

RegInv == BoxRunsFile /\ WrittenIsTracked

LEMMA RegInitInv == RegInit => RegInv
  BY DEF RegInit, RegInv, BoxRunsFile, WrittenIsTracked

LEMMA RegNextInv == RegInv /\ [RegNext]_regVars => RegInv'
  <1> SUFFICES ASSUME RegInv, [RegNext]_regVars PROVE RegInv'
    OBVIOUS
  <1> USE DEF RegInv, BoxRunsFile, WrittenIsTracked, objVars, cfgVars, podVars, syncVars
  <1>1. CASE CreateRegistry \/ UpdateRegistry \/ PatchRegistry \/ DeleteRegistry
    <2>1. CASE CreateRegistry \/ DeleteRegistry
      BY <2>1 DEF CreateRegistry, DeleteRegistry
    <2>2. ASSUME NEW spec, ReplaceSpec(spec) PROVE RegInv'
      BY <2>2 DEF ReplaceSpec
    <2> QED
      BY <1>1, <2>1, <2>2 DEF UpdateRegistry, PatchRegistry
  <1>2. CASE CreateConfigMap \/ PutConfigMap \/ PatchConfigMap \/ DeleteConfigMap
    BY <1>2 DEF CreateConfigMap, PutConfigMap, PatchConfigMap, DeleteConfigMap, SetMap,
                SetMapAndFile
  <1>3. CASE DeployMap \/ DeployRow
    BY <1>3 DEF DeployMap, DeployRow
  <1>4. CASE DeployPod
    BY <1>4 DEF DeployPod, CreateRegPod, CreateRegPodFails
  <1>5. CASE TeardownReg
    BY <1>5 DEF TeardownReg
  <1>6. CASE SyncWrites
    BY <1>6 DEF SyncWrites, FileIsOld
  <1>7. CASE SyncUpdates
    BY <1>7 DEF SyncUpdates, CreateRegPod
  <1>8. CASE AdoptOrCreate
    BY <1>8 DEF AdoptOrCreate, CreateRegPod, CreateRegPodFails
  <1>9. CASE RemoveUnstored
    BY <1>9 DEF RemoveUnstored
  <1>10. CASE RestartReg
    BY <1>10 DEF RestartReg
  <1>11. CASE ImageComesAndGoes
    BY <1>11 DEF ImageComesAndGoes
  <1>12. CASE UNCHANGED regVars
    BY <1>12 DEF regVars
  <1> QED
    BY <1>1, <1>2, <1>3, <1>4, <1>5, <1>6, <1>7, <1>8, <1>9, <1>10, <1>11, <1>12 DEF RegNext

\* No crossing of handlers, cycles, failed writes and restarts leaves a registry running on
\* a ConfigMap other than the one on its disk, but for the updates that mkube skips or is
\* stopped in.
THEOREM FileRunningTheorem == RegSpec => []FileIsRunning
  <1>1. RegInv => FileIsRunning
    BY DEF RegInv, BoxRunsFile, FileIsRunning
  <1> QED
    BY <1>1, RegInitInv, RegNextInv, PTL DEF RegSpec

-----------------------------------------------------------------------------
(* ImageRegistry: what a client can see is whole. *)

LEMMA RegistryTypeInit == RegistryInit => RegistryTypeOK
  <1> SUFFICES ASSUME RegistryInit PROVE RegistryTypeOK
    OBVIOUS
  <1>1. SyncEvents \in BOOLEAN /\ dropped \in BOOLEAN
    BY Zenon DEF RegistryInit
  <1> QED
    BY <1>1, RegistryAssumption
    DEF RegistryInit, RegistryTypeOK, MayContent, NoUpload, NoCopy, Chunks, Readers

LEMMA RegistryMarks ==
  ASSUME SyncEvents \in BOOLEAN, dropped \in BOOLEAN, [RegistryNext]_registryVars
  PROVE  SyncEvents' \in BOOLEAN /\ dropped' \in BOOLEAN
  <1>1. CASE handleManifest
    <2>1. SyncEvents' \in {TRUE, SyncEvents} /\ dropped' \in {FALSE, ~SyncEvents}
      BY <1>1, Zenon DEF handleManifest
    <2> QED
      BY <2>1, Zenon
  <1>2. CASE mirrorImage \/ RegistryRestart \/ \E c \in Contents : UpstreamMoves(c)
    <2>1. SyncEvents' \in {FALSE, SyncEvents} /\ dropped' = FALSE
      BY <1>2, Zenon DEF mirrorImage, RegistryRestart, UpstreamMoves, Events
    <2> QED
      BY <2>1, Zenon
  <1>3. CASE syncImage
    <2>1. SyncEvents' = FALSE /\ dropped' = dropped
      BY <1>3, Zenon DEF syncImage, Marks
    <2> QED
      BY <2>1, Zenon
  <1>4. CASE syncPush
    <2>1. SyncEvents' = SyncEvents /\ dropped' = (dropped /\ syncing = upstream)
      BY <1>4, Zenon DEF syncPush
    <2> QED
      BY <2>1, Zenon
  <1>5. CASE syncFails
    <2>1. SyncEvents' = SyncEvents /\ dropped' = ~SyncEvents
      BY <1>5, Zenon DEF syncFails
    <2> QED
      BY <2>1, Zenon
  <1>6. CASE AppendUpload \/ FinalizeUpload \/ CleanupStaleUploads \/ headManifest
             \/ fetchManifest \/ checkImage \/ pullThroughManifest \/ handlePull
    <2>1. SyncEvents' = SyncEvents /\ dropped' = dropped
      BY <1>6, Zenon DEF AppendUpload, FinalizeUpload, CleanupStaleUploads, headManifest,
                         fetchManifest, checkImage, pullThroughManifest, handlePull, Events, Marks
    <2> QED
      BY <2>1
  <1>7. ASSUME NEW c \in Contents, InitiateUpload(c) \/ pullThroughBlob(c)
        PROVE  SyncEvents' \in BOOLEAN /\ dropped' \in BOOLEAN
    <2>1. SyncEvents' = SyncEvents /\ dropped' = dropped
      BY <1>7, Zenon DEF InitiateUpload, pullThroughBlob, Events, Marks
    <2> QED
      BY <2>1
  <1>8. ASSUME NEW t \in Readers,
               \/ mirrorBlobs(t) \/ PutBlobBegins(t) \/ PutBlob(t)
               \/ CallFails(t) \/ PutBlobFails(t)
        PROVE  SyncEvents' \in BOOLEAN /\ dropped' \in BOOLEAN
    <2>1. SyncEvents' = SyncEvents /\ dropped' = dropped
      BY <1>8, Zenon DEF mirrorBlobs, PutBlobBegins, PutBlob, CallFails, PutBlobFails, Events, Marks
    <2> QED
      BY <2>1
  <1>9. CASE UNCHANGED registryVars
    BY <1>9, Zenon DEF registryVars, Marks
  <1>0. "watcher" \in Readers /\ "puller" \in Readers
    BY DEF Readers
  <1> QED
    BY <1>0, <1>1, <1>2, <1>3, <1>4, <1>5, <1>6, <1>7, <1>8, <1>9
    DEF RegistryNext, ClientNext, WatcherNext, PullerNext, SyncerNext

LEMMA RegistryTypeNext == RegistryTypeOK /\ [RegistryNext]_registryVars => RegistryTypeOK'
  <1> SUFFICES ASSUME RegistryTypeOK, [RegistryNext]_registryVars PROVE RegistryTypeOK'
    OBVIOUS
  <1>0. SyncEvents' \in BOOLEAN /\ dropped' \in BOOLEAN
    BY RegistryMarks DEF RegistryTypeOK
  <1> USE <1>0, RegistryAssumption
      DEF RegistryTypeOK, MayContent, NoUpload, NoCopy, Chunks, Readers, Events, Marks, MayChange,
          New, Copying, CopyStep, Quits
  <1>1. ASSUME NEW c \in Contents, InitiateUpload(c) PROVE RegistryTypeOK'
    BY <1>1 DEF InitiateUpload
  <1>2. CASE AppendUpload
    BY <1>2 DEF AppendUpload
  <1>3. CASE FinalizeUpload
    BY <1>3 DEF FinalizeUpload
  <1>4. CASE CleanupStaleUploads \/ handleManifest
    BY <1>4 DEF CleanupStaleUploads, handleManifest
  <1>5. CASE headManifest \/ fetchManifest
    BY <1>5 DEF headManifest, fetchManifest
  <1>6. ASSUME NEW t \in Readers, mirrorBlobs(t) \/ PutBlobBegins(t) \/ PutBlob(t)
        PROVE  RegistryTypeOK'
    BY <1>6 DEF mirrorBlobs, PutBlobBegins, PutBlob
  <1>7. CASE mirrorImage \/ checkImage
    BY <1>7 DEF mirrorImage, checkImage
  <1>8. CASE pullThroughManifest \/ handlePull
    BY <1>8 DEF pullThroughManifest, handlePull
  <1>9. ASSUME NEW c \in Contents, pullThroughBlob(c) PROVE RegistryTypeOK'
    BY <1>9 DEF pullThroughBlob
  <1>10. CASE syncImage \/ syncPush \/ syncFails
    BY <1>10 DEF syncImage, syncPush, syncFails
  <1>11. CASE RegistryRestart
    BY <1>11 DEF RegistryRestart, LeftBy
  <1>12. ASSUME NEW t \in Readers, CallFails(t) \/ PutBlobFails(t) PROVE RegistryTypeOK'
    BY <1>12 DEF CallFails, PutBlobFails, LeftBy
  <1>13. ASSUME NEW c \in Contents, UpstreamMoves(c) PROVE RegistryTypeOK'
    BY <1>13 DEF UpstreamMoves
  <1>14. CASE UNCHANGED registryVars
    BY <1>14 DEF registryVars
  <1> QED
    BY <1>1, <1>2, <1>3, <1>4, <1>5, <1>6, <1>7, <1>8, <1>9, <1>10, <1>11, <1>12, <1>13, <1>14
    DEF RegistryNext, ClientNext, WatcherNext, PullerNext, SyncerNext

LEMMA BlobsInit == RegistryInit => BlobsAreWhole
  BY DEF RegistryInit, BlobsAreWhole

\* A step that writes no blob and gives up no lock disturbs nothing.
LEMMA LocksStay ==
  ASSUME BlobsAreWhole, UNCHANGED <<blob, cut>>, \A c \in Contents : Locked(c) => Locked(c)'
  PROVE  BlobsAreWhole'
  BY DEF BlobsAreWhole

LEMMA BlobsNext ==
  RegistryTypeOK /\ BlobsAreWhole /\ [RegistryNext]_registryVars => BlobsAreWhole'
  <1> SUFFICES ASSUME RegistryTypeOK, BlobsAreWhole, [RegistryNext]_registryVars
               PROVE  BlobsAreWhole'
    OBVIOUS
  <1> USE DEF Locked, Copying, CopyStep, Quits, Readers, NoCopy, Marks
  <1>0. /\ blob \in [Contents -> {"none", "partial", "whole"}] /\ cut \subseteq Contents
        /\ copier \in [Readers -> [step : {"idle", "fetch", "blobs", "get", "write", "put", "record"},
                                   content : MayContent, digest : MayContent]]
    BY DEF RegistryTypeOK
  <1> USE <1>0
  <1>1. CASE UNCHANGED <<blob, copier, cut>>
    BY <1>1, LocksStay
  <1>2. CASE FinalizeUpload
    BY <1>2 DEF FinalizeUpload, BlobsAreWhole
  <1>3. CASE headManifest \/ fetchManifest \/ mirrorImage \/ checkImage \/ handlePull
    <2>1. UNCHANGED <<blob, cut>> /\ \A t \in Readers : Copying(t, "write") => copier'[t] = copier[t]
      BY <1>3 DEF headManifest, fetchManifest, mirrorImage, checkImage, handlePull
    <2> QED
      BY <2>1, LocksStay
  <1>4. ASSUME NEW c \in Contents, pullThroughBlob(c) PROVE BlobsAreWhole'
    <2>1. UNCHANGED <<blob, cut>> /\ \A t \in Readers : Copying(t, "write") => copier'[t] = copier[t]
      BY <1>4 DEF pullThroughBlob
    <2> QED
      BY <2>1, LocksStay
  <1>5. ASSUME NEW t \in Readers, mirrorBlobs(t) \/ CallFails(t) PROVE BlobsAreWhole'
    <2>1. UNCHANGED <<blob, cut>> /\ \A r \in Readers : Copying(r, "write") => copier'[r] = copier[r]
      BY <1>5 DEF mirrorBlobs, CallFails
    <2> QED
      BY <2>1, LocksStay
  <1>6. ASSUME NEW t \in Readers, PutBlobBegins(t) PROVE BlobsAreWhole'
    <2>1. copier'[t].step = "write" /\ copier'[t].content = copier[t].content
      BY <1>6 DEF PutBlobBegins
    <2>2. \A r \in Readers : Copying(r, "write") => copier'[r] = copier[r]
      BY <1>6 DEF PutBlobBegins
    <2>3. /\ cut' = cut
          /\ \A c \in Contents : blob'[c] = IF c = copier[t].content THEN "partial" ELSE blob[c]
      BY <1>6 DEF PutBlobBegins
    <2> QED
      BY <2>1, <2>2, <2>3 DEF BlobsAreWhole
  <1>7. ASSUME NEW t \in Readers, PutBlob(t) PROVE BlobsAreWhole'
    <2>1. \A r \in Readers : r # t => copier'[r] = copier[r]
      BY <1>7 DEF PutBlob
    <2>2. /\ cut' = cut \ {copier[t].content}
          /\ \A c \in Contents :
               IF c = copier[t].content THEN blob'[c] = "whole" ELSE blob'[c] = blob[c]
      BY <1>7 DEF PutBlob
    <2> QED
      BY <2>1, <2>2 DEF BlobsAreWhole
  <1>8. CASE RegistryRestart
    BY <1>8 DEF RegistryRestart, BlobsAreWhole, LeftBy
  <1>9. ASSUME NEW t \in Readers, PutBlobFails(t) PROVE BlobsAreWhole'
    <2>1. \A r \in Readers : r # t => copier'[r] = copier[r]
      BY <1>9 DEF PutBlobFails
    <2>2. blob' = blob /\ cut' = cut \cup LeftBy({t})
      BY <1>9 DEF PutBlobFails
    <2> QED
      BY <2>1, <2>2 DEF BlobsAreWhole, LeftBy
  <1>10. UNCHANGED registryVars => UNCHANGED <<blob, copier, cut>>
    BY DEF registryVars
  <1>11. AppendUpload \/ CleanupStaleUploads \/ handleManifest \/ pullThroughManifest
         \/ SyncerNext \/ (\E c \in Contents : InitiateUpload(c) \/ UpstreamMoves(c))
           => UNCHANGED <<blob, copier, cut>>
    BY DEF AppendUpload, CleanupStaleUploads, handleManifest, pullThroughManifest,
           SyncerNext, syncImage, syncPush, syncFails, InitiateUpload, UpstreamMoves
  <1> QED
    BY <1>1, <1>2, <1>3, <1>4, <1>5, <1>6, <1>7, <1>8, <1>9, <1>10, <1>11
    DEF RegistryNext, ClientNext, WatcherNext, PullerNext

\* With uploads that lose chunks, two readers that copy the same blob in place, calls and
\* copies that break off and restarts, a client sees part of a blob only while somebody writes
\* it or after a copy of it broke off, and no longer than until one goes through.
THEOREM BlobsWholeTheorem == RegistrySpec => []BlobsAreWhole
  BY RegistryTypeInit, RegistryTypeNext, BlobsInit, BlobsNext, PTL DEF RegistrySpec

\* The two registries serve the same image, no client is about to put a manifest, and what
\* the syncer pushes and the watcher copies is that image.
Meeting ==
  /\ tag = upstream /\ client.step = "idle" /\ syncing \in {NoContent, tag}
  /\ copier["watcher"].step \in {"blobs", "get", "write", "put"}
       => copier["watcher"].content = tag

LEMMA MeetingStep ==
  ASSUME RegistryTypeOK, Meeting, [RegistryNext]_registryVars
  PROVE  Meeting' \/ past' # past
  <1> USE DEF Meeting, Events
  <1>0. /\ "watcher" \in Readers /\ "puller" \in Readers /\ tag # NoContent
        /\ copier \in [Readers -> [step : {"idle", "fetch", "blobs", "get", "write", "put",
                                           "record"},
                                   content : MayContent, digest : MayContent]]
    BY DEF RegistryTypeOK, Readers
  <1>1. ASSUME UNCHANGED <<upstream, tag, client, syncing>>,
               copier'["watcher"].step \in {"blobs", "get", "write", "put"}
                 => copier'["watcher"].content = tag
        PROVE  Meeting'
    BY <1>1
  <1>2. ClientNext => past' # past \/ Meeting'
    <2>1. ASSUME NEW c \in Contents, InitiateUpload(c) PROVE past' # past
      BY <2>1 DEF InitiateUpload, New
    <2>2. CASE CleanupStaleUploads
      <3>1. client'.step = "idle" /\ UNCHANGED <<upstream, tag, copier, syncing>>
        BY <2>2 DEF CleanupStaleUploads
      <3> QED
        BY <3>1
    <2> QED
      BY <2>1, <2>2 DEF ClientNext, AppendUpload, FinalizeUpload, handleManifest
  <1>3. headManifest => Meeting'
    <2> SUFFICES ASSUME headManifest PROVE Meeting'
      OBVIOUS
    <2>1. copier'["watcher"].step = "fetch" /\ UNCHANGED <<upstream, tag, client, syncing>>
      BY <1>0 DEF headManifest
    <2> QED
      BY <1>1, <2>1
  <1>4. fetchManifest => Meeting'
    <2> SUFFICES ASSUME fetchManifest PROVE Meeting'
      OBVIOUS
    <2>1. copier'["watcher"].content = tag /\ UNCHANGED <<upstream, tag, client, syncing>>
      BY <1>0 DEF fetchManifest
    <2> QED
      BY <1>1, <2>1
  <1>5. ASSUME NEW t \in Readers,
               \/ mirrorBlobs(t) \/ PutBlobBegins(t) \/ PutBlob(t) \/ CallFails(t)
               \/ PutBlobFails(t)
        PROVE  Meeting'
    <2>1. UNCHANGED <<upstream, tag, client, syncing>>
      BY <1>5 DEF mirrorBlobs, PutBlobBegins, PutBlob, CallFails, PutBlobFails
    <2>2. \/ \E s : CopyStep(t, s) /\ copier[t].step \in {"blobs", "get", "write"}
          \/ Quits(t)
      BY <1>5 DEF mirrorBlobs, PutBlobBegins, PutBlob, CallFails, PutBlobFails, Copying
    <2>3. CASE Quits(t)
      <3>1. copier'["watcher"] \in {copier["watcher"], NoCopy}
        BY <1>0, <2>3 DEF Quits
      <3> QED
        BY <1>1, <2>1, <3>1 DEF NoCopy
    <2>4. ASSUME NEW s, CopyStep(t, s), copier[t].step \in {"blobs", "get", "write"}
          PROVE  Meeting'
      <3>1. CASE t = "watcher"
        <4>1. copier'["watcher"].content = tag
          BY <1>0, <2>4, <3>1 DEF CopyStep
        <4> QED
          BY <1>1, <2>1, <4>1
      <3>2. CASE t # "watcher"
        <4>1. copier'["watcher"] = copier["watcher"]
          BY <1>0, <2>4, <3>2 DEF CopyStep
        <4> QED
          BY <1>1, <2>1, <4>1
      <3> QED
        BY <3>1, <3>2
    <2> QED
      BY <2>2, <2>3, <2>4
  <1>6. mirrorImage => Meeting'
    <2> SUFFICES ASSUME mirrorImage PROVE Meeting'
      OBVIOUS
    <2>1. tag' = tag /\ UNCHANGED <<upstream, client, syncing>>
      BY DEF mirrorImage, Copying
    <2>2. copier'["watcher"].step = "record"
      BY <1>0 DEF mirrorImage, CopyStep
    <2> QED
      BY <1>1, <2>1, <2>2
  <1>7. checkImage => Meeting'
    <2> SUFFICES ASSUME checkImage PROVE Meeting'
      OBVIOUS
    <2>1. UNCHANGED <<upstream, tag, client, syncing>> /\ copier'["watcher"].step = "idle"
      BY <1>0 DEF checkImage, Quits, NoCopy
    <2> QED
      BY <1>1, <2>1
  <1>8. pullThroughManifest \/ handlePull \/ (\E c \in Contents : pullThroughBlob(c)) => Meeting'
    <2> SUFFICES ASSUME pullThroughManifest \/ handlePull
                          \/ \E c \in Contents : pullThroughBlob(c)
                 PROVE  Meeting'
      OBVIOUS
    <2>1. /\ UNCHANGED <<upstream, tag, client, syncing>>
          /\ copier'["watcher"] = copier["watcher"]
      BY <1>0 DEF pullThroughManifest, handlePull, pullThroughBlob
    <2> QED
      BY <1>1, <2>1
  <1>9. SyncerNext => Meeting'
    BY DEF SyncerNext, syncImage, syncPush, syncFails
  <1>10. RegistryRestart => Meeting'
    <2> SUFFICES ASSUME RegistryRestart PROVE Meeting'
      OBVIOUS
    <2>1. client'.step = "idle" /\ copier'["watcher"].step = "idle"
          /\ UNCHANGED <<upstream, tag>> /\ syncing' = NoContent
      BY <1>0 DEF RegistryRestart, NoCopy
    <2> QED
      BY <2>1
  <1>11. ASSUME NEW c \in Contents, UpstreamMoves(c) PROVE past' # past
    BY <1>11 DEF UpstreamMoves, New
  <1>12. UNCHANGED registryVars => Meeting'
    BY DEF registryVars
  <1> QED
    BY <1>0, <1>2, <1>3, <1>4, <1>5, <1>6, <1>7, <1>8, <1>9, <1>10, <1>11, <1>12
    DEF RegistryNext, WatcherNext, PullerNext

\* Once the two registries serve the same image and nothing older is on its way, they go on
\* doing so until someone pushes a new one: no retry of the watcher, no event of the syncer
\* that comes late, no pull, no failed call and no restart of the registry takes one of them
\* back.  That they come to serve the same image is the other half of RegistriesMeet, which
\* TLC checks.
RegistriesStay == [][Meeting => Meeting' \/ past' # past]_registryVars
THEOREM RegistriesStayTheorem == RegistrySpec => RegistriesStay
  <1>1. RegistryTypeOK /\ [RegistryNext]_registryVars => (Meeting => Meeting' \/ past' # past)
    BY MeetingStep
  <1> QED
    BY <1>1, RegistryTypeInit, RegistryTypeNext, PTL DEF RegistrySpec, RegistriesStay

-----------------------------------------------------------------------------
(* WatchStreams: a client that was sent everything sees what is there. *)

\* What the client will see of k when it has been sent what is queued.
Drained(k) ==
  IF watchQueue[k] = <<>> THEN watchView[k] ELSE watchQueue[k][Len(watchQueue[k])]

StreamShape ==
  /\ objRow \in [ObjKeys -> Entries] /\ objMem \in [ObjKeys -> Entries]
  /\ objKnown \subseteq ObjKeys /\ objUnsaved \subseteq ObjKeys
  /\ objWrite \in [key : ObjKeys, value : Entries, left : {"memory", "bucket"}] \cup {NoWrite}
  /\ watchPhase \in {"off", "listed", "on"} /\ watchView \in [ObjKeys -> Entries]
  /\ watchQueue \in [ObjKeys -> Seq(Entries)]

\* A key that neither the bucket nor memory ever had is nowhere.
Unheard(k) == k \notin objKnown \cup objUnsaved
UnknownIsNowhere ==
  /\ \A k \in ObjKeys \ objKnown : objRow[k] = NoObject /\ (objMem[k] # NoObject => k \in objUnsaved)
  /\ objWrite.left = "memory" => objWrite.key \in objKnown

\* For such a key the watch queues nothing, so that what the listing said of it counts.
ListedUnknown == watchPhase = "listed" => \A k \in ObjKeys : Unheard(k) => watchView[k] = NoObject
WatchDrains ==
  watchPhase = "on" => \A k \in ObjKeys : Drained(k) = objRow[k] \/ k \in objUnsaved

StreamInv == StreamShape /\ UnknownIsNowhere /\ ListedUnknown /\ WatchDrains

\* An entry that is written is the last of the queue.
LEMMA EnteredDrains ==
  ASSUME StreamInv, NEW k \in ObjKeys, NEW value \in Entries, Entered(k, value),
         UNCHANGED <<watchPhase, watchView>>
  PROVE  /\ objRow' \in [ObjKeys -> Entries]
         /\ objKnown' = objKnown \cup {k} /\ objUnsaved' = objUnsaved \ {k}
         /\ watchQueue' \in [ObjKeys -> Seq(Entries)]
         /\ \A i \in ObjKeys \ objKnown' : objRow'[i] = objRow[i]
         /\ ListedUnknown' /\ WatchDrains'
  <1> USE DEF StreamInv, StreamShape
  <1>1. /\ objRow' = [objRow EXCEPT ![k] = value] /\ objKnown' = objKnown \cup {k}
        /\ objUnsaved' = objUnsaved \ {k} /\ objRow' \in [ObjKeys -> Entries]
    BY DEF Entered
  <1>2. watchQueue' \in [ObjKeys -> Seq(Entries)]
    BY DEF Entered
  <1>3. ListedUnknown'
    BY <1>1 DEF ListedUnknown, Unheard
  <1>4. WatchDrains'
    <2> SUFFICES ASSUME watchPhase = "on", NEW i \in ObjKeys
                 PROVE  Drained(i)' = objRow'[i] \/ i \in objUnsaved'
      BY DEF WatchDrains
    <2>1. watchQueue' = [watchQueue EXCEPT ![k] = Append(@, value)]
      BY DEF Entered
    <2>2. CASE i = k
      <3> DEFINE q == watchQueue[k]
      <3>1. q \in Seq(Entries) /\ watchQueue'[k] = Append(q, value)
        BY <2>1
      <3> HIDE DEF q
      <3>2. Append(q, value) # <<>> /\ Append(q, value)[Len(Append(q, value))] = value
        BY <3>1, AppendProperties
      <3> QED
        BY <1>1, <2>2, <3>1, <3>2 DEF Drained
    <2>3. CASE i # k
      BY <1>1, <2>1, <2>3 DEF Drained, WatchDrains
    <2> QED
      BY <2>2, <2>3
  <1> QED
    BY <1>1, <1>2, <1>3, <1>4

\* The watch opens with the last entry of every key that has one.
LEMMA WatchOpens ==
  ASSUME StreamInv, watchPhase' = "on",
         UNCHANGED <<objRow, objKnown, objMem, objUnsaved, objWrite>>,
         watchQueue' = [k \in ObjKeys |-> IF k \in objKnown THEN <<objRow[k]>> ELSE <<>>],
         watchView' \in [ObjKeys -> Entries],
         \A k \in ObjKeys : Unheard(k) => watchView'[k] = NoObject
  PROVE  StreamInv'
  <1> USE DEF StreamInv, StreamShape
  <1>1. watchQueue' \in [ObjKeys -> Seq(Entries)]
    <2>1. \A k \in ObjKeys : <<objRow[k]>> \in Seq(Entries) /\ <<>> \in Seq(Entries)
      OBVIOUS
    <2> QED
      BY <2>1
  <1>2. WatchDrains'
    <2> SUFFICES ASSUME NEW k \in ObjKeys PROVE Drained(k)' = objRow[k] \/ k \in objUnsaved
      BY DEF WatchDrains
    <2>1. CASE k \in objKnown
      BY <2>1 DEF Drained
    <2>2. CASE k \notin objKnown
      BY <2>2 DEF Drained, UnknownIsNowhere, Unheard
    <2> QED
      BY <2>1, <2>2
  <1> QED
    BY <1>1, <1>2 DEF UnknownIsNowhere, ListedUnknown

\* The first half of a request, and the second of one whose first half was in memory.
LEMMA EntryStep ==
  ASSUME StreamInv, NEW k \in ObjKeys, NEW value \in Entries, Entered(k, value),
         objWrite' \in {NoWrite, [key |-> k, value |-> value, left |-> "memory"]},
         UNCHANGED <<objMem, watchPhase, watchView>>
  PROVE  StreamInv'
  <1> USE DEF StreamInv, StreamShape
  <1>1. /\ objRow' \in [ObjKeys -> Entries]
        /\ objKnown' = objKnown \cup {k} /\ objUnsaved' = objUnsaved \ {k}
        /\ watchQueue' \in [ObjKeys -> Seq(Entries)]
        /\ \A i \in ObjKeys \ objKnown' : objRow'[i] = objRow[i]
        /\ ListedUnknown' /\ WatchDrains'
    BY EnteredDrains
  <1>2. StreamShape'
    BY <1>1
  <1>3. UnknownIsNowhere'
    BY <1>1 DEF UnknownIsNowhere, NoWrite
  <1> QED
    BY <1>1, <1>2, <1>3
LEMMA MemoryStep ==
  ASSUME StreamInv, NEW k \in ObjKeys, NEW value \in Entries, MemoryFirst(k, value),
         UNCHANGED <<watchPhase, watchView>>
  PROVE  StreamInv'
  <1> USE DEF StreamInv, StreamShape
  <1>1. /\ objMem' = [objMem EXCEPT ![k] = value] /\ objUnsaved' = objUnsaved \cup ({k} \ objKnown)
        /\ objWrite' = [key |-> k, value |-> value, left |-> "bucket"]
        /\ UNCHANGED <<objRow, objKnown, watchQueue>>
    BY DEF MemoryFirst
  <1>2. StreamShape'
    BY <1>1
  <1>3. UnknownIsNowhere'
    BY <1>1 DEF UnknownIsNowhere
  <1>4. ListedUnknown' /\ WatchDrains'
    BY <1>1 DEF ListedUnknown, WatchDrains, Drained, Unheard
  <1> QED
    BY <1>2, <1>3, <1>4

LEMMA StreamNextInv == StreamInv /\ [StreamNext]_streamVars => StreamInv'
  <1> SUFFICES ASSUME StreamInv, [StreamNext]_streamVars PROVE StreamInv'
    OBVIOUS
  <1> USE DEF StreamInv, StreamShape
  <1>0. NoObject \in Entries /\ ObjValues \subseteq Entries
    BY DEF Entries
  <1>1. ASSUME NEW k \in ObjKeys, NEW value \in Entries, BeginWrite(k, value)
        PROVE  StreamInv'
    <2>1. CASE BucketFirst(k, value)
      BY <1>1, <2>1, EntryStep DEF BeginWrite, BucketFirst
    <2>2. CASE MemoryFirst(k, value)
      BY <1>1, <2>2, MemoryStep DEF BeginWrite
    <2> QED
      BY <1>1, <2>1, <2>2 DEF BeginWrite
  <1>2. ASSUME NEW k \in ObjKeys, BeginDelete(k) \/ \E value \in ObjValues : BeginPut(k, value)
        PROVE  StreamInv'
    BY <1>0, <1>1, <1>2 DEF BeginDelete, BeginPut
  <1>3. CASE EndWrite
    <2>0. /\ objWrite.key \in ObjKeys /\ objWrite.value \in Entries /\ objWrite' = NoWrite
          /\ UNCHANGED <<watchPhase, watchView>>
      BY <1>3 DEF EndWrite
    <2>1. ASSUME objWrite.left = "memory",
                 objMem' = [objMem EXCEPT ![objWrite.key] = objWrite.value],
                 UNCHANGED <<objRow, objKnown, objUnsaved, watchQueue>>
          PROVE  StreamInv'
      <3>1. StreamShape'
        BY <2>0, <2>1
      <3>2. UnknownIsNowhere'
        BY <2>0, <2>1 DEF UnknownIsNowhere, NoWrite
      <3>3. ListedUnknown' /\ WatchDrains'
        BY <2>0, <2>1 DEF ListedUnknown, WatchDrains, Drained, Unheard
      <3> QED
        BY <3>1, <3>2, <3>3
    <2>2. ASSUME Entered(objWrite.key, objWrite.value), UNCHANGED objMem PROVE StreamInv'
      <3>1. PICK k \in ObjKeys, value \in Entries : k = objWrite.key /\ value = objWrite.value
        BY <2>0
      <3> QED
        BY <2>0, <2>2, <3>1, EntryStep
    <2>3. ASSUME UNCHANGED <<objRow, objKnown, objMem, objUnsaved, watchQueue>> PROVE StreamInv'
      <3>1. StreamShape' /\ UnknownIsNowhere'
        BY <2>0, <2>3 DEF UnknownIsNowhere, NoWrite
      <3>2. ListedUnknown' /\ WatchDrains'
        BY <2>0, <2>3 DEF ListedUnknown, WatchDrains, Drained, Unheard
      <3> QED
        BY <3>1, <3>2
    <2> QED
      BY <1>3, <2>1, <2>2, <2>3 DEF EndWrite
  <1>4. CASE ListFirst
    BY <1>4 DEF ListFirst, UnknownIsNowhere, ListedUnknown, WatchDrains, Unheard
  <1>5. CASE WatchAll
    BY <1>5, WatchOpens DEF WatchAll, ListedUnknown
  <1>6. CASE WatchConfigMaps
    BY <1>0, <1>6, WatchOpens DEF WatchConfigMaps
  <1>7. CASE SendEvent
    <2>1. PICK k \in ObjKeys : /\ watchQueue[k] # <<>>
                               /\ watchView' = [watchView EXCEPT ![k] = Head(watchQueue[k])]
                               /\ watchQueue' = [watchQueue EXCEPT ![k] = Tail(watchQueue[k])]
      BY <1>7 DEF SendEvent
    <2>2. watchPhase = "on" /\ UNCHANGED <<objRow, objKnown, objMem, objUnsaved, objWrite, watchPhase>>
      BY <1>7 DEF SendEvent
    <2> DEFINE q == watchQueue[k]
    <2>3. q \in Seq(Entries) /\ q # <<>> /\ watchQueue'[k] = Tail(q) /\ watchView'[k] = Head(q)
      BY <2>1
    <2> HIDE DEF q
    <2>4. Head(q) \in Entries /\ Tail(q) \in Seq(Entries)
      BY <2>3
    <2>5. StreamShape'
      BY <2>1, <2>2, <2>4 DEF q
    <2>6. Drained(k)' = q[Len(q)]
      <3> DEFINE rest == Tail(q)
      <3>1. /\ Len(q) \in Nat \ {0} /\ Len(rest) = Len(q) - 1 /\ rest \in Seq(Entries)
            /\ \A i \in 1 .. Len(rest) : rest[i] = q[i + 1]
        BY <2>3, EmptySeq, HeadTailProperties
      <3>2. Head(q) = q[1]
        BY <2>3
      <3> HIDE DEF rest
      <3>3. ASSUME rest = <<>> PROVE Head(q) = q[Len(q)]
        <4>1. Len(rest) = 0
          BY <3>3, EmptySeq
        <4>2. Len(q) = 1
          BY <3>1, <4>1
        <4> QED
          BY <3>2, <4>2
      <3>4. ASSUME rest # <<>> PROVE rest[Len(rest)] = q[Len(q)]
        <4>1. Len(rest) \in Nat \ {0}
          BY <3>1, <3>4, EmptySeq
        <4>2. Len(rest) \in 1 .. Len(rest) /\ Len(rest) + 1 = Len(q)
          BY <3>1, <4>1
        <4> QED
          BY <3>1, <4>2
      <3>5. watchQueue'[k] = rest
        BY <2>3 DEF rest
      <3> QED
        BY <2>3, <3>3, <3>4, <3>5 DEF Drained
    <2>7. WatchDrains'
      <3>1. \A i \in ObjKeys : Drained(i)' = Drained(i)
        <4>1. Drained(k) = q[Len(q)]
          BY <2>3 DEF Drained, q
        <4> QED
          BY <2>1, <2>6, <4>1 DEF Drained
      <3> QED
        BY <2>2, <3>1 DEF WatchDrains
    <2> QED
      BY <2>2, <2>5, <2>7 DEF UnknownIsNowhere, ListedUnknown, Unheard
  <1>8. NoQueue \in [ObjKeys -> Seq(Entries)]
    BY DEF NoQueue
  <1>9. CASE LoseConnection
    BY <1>8, <1>9 DEF LoseConnection, UnknownIsNowhere, ListedUnknown, WatchDrains
  <1>10. CASE RestartWatched
    BY <1>8, <1>10 DEF RestartWatched, Started, HadBy, UnknownIsNowhere, ListedUnknown,
                       WatchDrains, NoWrite
  <1>11. CASE UNCHANGED streamVars
    BY <1>11 DEF streamVars, UnknownIsNowhere, ListedUnknown, WatchDrains, Drained, Unheard
  <1> QED
    BY <1>2, <1>3, <1>4, <1>5, <1>6, <1>7, <1>9, <1>10, <1>11 DEF StreamNext

\* A client that has been sent what was queued for a key sees of it what the bucket holds,
\* deleted or not, although the handler's listing comes from memory, takes no lock and is
\* older than its watch: there is no change that falls between the two. The exception is a
\* key that memory was given and the bucket never had an entry of (resolvePVCVolume's
\* failed write, and objects made before the store was attached).
ViewIsCurrent ==
  watchPhase = "on" =>
    \A k \in ObjKeys \ objUnsaved : watchQueue[k] = <<>> => watchView[k] = objRow[k]
THEOREM ViewIsCurrentTheorem == StreamSpec => []ViewIsCurrent
  <1>1. StreamInit => StreamInv
    <2> SUFFICES ASSUME StreamInit PROVE StreamInv
      OBVIOUS
    <2>1. NoObject \in Entries /\ NoQueue \in [ObjKeys -> Seq(Entries)]
      BY DEF Entries, NoQueue
    <2>2. StreamShape
      BY <2>1 DEF StreamInit, StreamShape, HadBy
    <2> QED
      BY <2>2 DEF StreamInit, StreamInv, HadBy, UnknownIsNowhere, ListedUnknown, WatchDrains,
                  NoWrite
  <1>2. StreamInv => ViewIsCurrent
    BY DEF StreamInv, WatchDrains, Drained, ViewIsCurrent
  <1> QED
    BY <1>1, <1>2, StreamNextInv, PTL DEF StreamSpec

-----------------------------------------------------------------------------
(* ImageUpdater: a container only goes forward. *)

\* Nothing runs that was not pushed, and what the registry gave for a container is no older
\* than what it was created from: it was fetched after that, in the same attempt.
ImagesArePushed ==
  /\ updating.staged <= newest
  /\ \A t \in 1..Targets : target[t].image <= newest
StagedIsNewer ==
  updating.at \in {"stop", "remove", "create", "start"}
    => /\ updating.staged >= target[updating.t].image \/ updating.t \in fellBack
       /\ updating.staged > 0

UpdInv == UpdTypeOK /\ ImagesArePushed /\ StagedIsNewer

TargetsForward == \A t \in 1..Targets : target'[t].image >= target[t].image \/ t \in fellBack

Steps5 == {"idle", "stage", "stop", "remove", "create", "start"}
Polls == [at : Steps5, prev : 0..MaxDigests, t : 1..Targets, staged : 0..MaxDigests]
Boxes == [state : {"up", "stopped", "gone"}, image : 1..MaxDigests]

LEMMA UpdConstants == Targets \in Nat \ {0} /\ MaxDigests \in Nat \ {0} /\ MaxUpdFaults \in Nat
  BY UpdAssumption

\* Where the poll goes on when a container is done with, or failed.
LEMMA NextTargetType ==
  ASSUME UpdTypeOK, NextTarget
  PROVE  updating' \in Polls /\ updating'.at \in {"idle", "stage"} /\ updating'.staged = 0
  <1> USE UpdConstants DEF UpdTypeOK, Polls, Steps5
  <1>1. CASE updating.t = Targets
    BY <1>1 DEF NextTarget, Polled
  <1>2. CASE updating.t # Targets
    <2>1. updating' = [at |-> "stage", prev |-> updating.prev, t |-> updating.t + 1, staged |-> 0]
      BY <1>2 DEF NextTarget
    <2>2. updating.t + 1 \in 1..Targets /\ updating.prev \in 0..MaxDigests
      BY <1>2
    <2> QED
      BY <2>1, <2>2
  <1> QED
    BY <1>1, <1>2

LEMMA ReplaceFailsType ==
  ASSUME UpdTypeOK, ReplaceFails
  PROVE  updating' \in Polls /\ updating'.at \in {"idle", "stage"} /\ updating'.staged = 0
         /\ known' \in 0..MaxDigests
  <1>1. known' \in 0..MaxDigests
    BY DEF UpdTypeOK, ReplaceFails
  <1>2. CASE replacing
    BY <1>1, <1>2, UpdConstants DEF ReplaceFails, Polled, Polls, Steps5
  <1>3. CASE ~replacing
    BY <1>1, <1>3, NextTargetType DEF ReplaceFails
  <1> QED
    BY <1>2, <1>3

\* A step that leaves the poll between two containers, or before a call of replaceContainer.
LEMMA UpdTypeStep ==
  ASSUME UpdTypeOK, fellBack' \subseteq 1..Targets, skipped' \subseteq 1..Targets, updating' \in Polls, known' \in 0..MaxDigests, newest' \in 1..MaxDigests,
         target' \in [1..Targets -> Boxes], UNCHANGED replacing, updFaults' \in 0..MaxUpdFaults
  PROVE  UpdTypeOK'
  <1>1. replacing' \in BOOLEAN
    BY Zenon DEF UpdTypeOK
  <1> QED
    BY <1>1 DEF UpdTypeOK, Polls, Steps5, Boxes

LEMMA BetweenTargets ==
  ASSUME UpdInv, updating' \in Polls, updating'.at \in {"idle", "stage"},
         known' \in 0..MaxDigests, newest' \in 1..MaxDigests, newest' >= newest,
         updating'.staged = 0, UNCHANGED <<replacing, target>>, updFaults' \in 0..MaxUpdFaults,
         fellBack' \subseteq 1..Targets, skipped' \subseteq 1..Targets
  PROVE  UpdInv' /\ TargetsForward
  <1> USE UpdConstants DEF UpdInv
  <1>1. UpdTypeOK'
    BY UpdTypeStep DEF UpdTypeOK, Boxes
  <1>2. ImagesArePushed' /\ TargetsForward
    BY DEF UpdTypeOK, ImagesArePushed, TargetsForward
  <1>3. StagedIsNewer'
    BY DEF StagedIsNewer
  <1> QED
    BY <1>1, <1>2, <1>3

\* One call of replaceContainer: what becomes of the container is no older than it was.
LEMMA TargetStep ==
  ASSUME UpdInv, NEW made \in Boxes, target' = [target EXCEPT ![updating.t] = made],
         made.image >= target[updating.t].image \/ updating.t \in fellBack,
         made.image <= newest,
         updating' \in Polls, updating'.staged <= newest,
         updating'.at \in {"stop", "remove", "create", "start"}
           => /\ updating'.t = updating.t /\ updating'.staged > 0
              /\ updating'.staged >= made.image \/ updating.t \in fellBack,
         UNCHANGED <<replacing, newest, known, marks, updFaults>>
  PROVE  UpdInv' /\ TargetsForward
  <1> USE UpdConstants DEF UpdInv
  <1>1. target \in [1..Targets -> Boxes] /\ updating.t \in 1..Targets
    BY DEF UpdTypeOK, Boxes
  <1>2. \A t \in 1..Targets :
          target'[t].image = IF t = updating.t THEN made.image ELSE target[t].image
    BY <1>1
  <1>3. UpdTypeOK'
    <2>1. target' \in [1..Targets -> Boxes]
      BY <1>1
    <2>2. UNCHANGED <<replacing, newest, known, fellBack, skipped, updFaults>>
      BY DEF marks
    <2>3. /\ known' \in 0..MaxDigests /\ newest' \in 1..MaxDigests /\ updFaults' \in 0..MaxUpdFaults
          /\ fellBack' \subseteq 1..Targets /\ skipped' \subseteq 1..Targets
      BY <2>2 DEF UpdTypeOK
    <2> QED
      BY <2>1, <2>2, <2>3, UpdTypeStep
  <1>4. \A t \in 1..Targets : target[t].image \in Nat
    BY <1>1 DEF Boxes
  <1>5. ImagesArePushed' /\ TargetsForward
    BY <1>2, <1>4 DEF ImagesArePushed, TargetsForward
  <1>6. StagedIsNewer'
    BY <1>1, <1>2 DEF StagedIsNewer, marks
  <1> QED
    BY <1>3, <1>5, <1>6

\* ... and the poll goes on to the next call.
LEMMA AdvanceStep ==
  ASSUME UpdInv, NEW from, NEW to \in {"remove", "create", "start"},
         NEW state \in {"stopped", "gone"}, NEW image \in 1..MaxDigests,
         updating.at = from, from \in {"stop", "remove", "create"},
         Advance(from, to, [state |-> state, image |-> image]),
         image \in {target[updating.t].image, updating.staged}
  PROVE  UpdInv' /\ TargetsForward
  <1> DEFINE made == [state |-> state, image |-> image]
  <1> USE UpdConstants DEF UpdInv
  <1>1. made \in Boxes /\ made.image = image
    BY DEF Boxes
  <1>2. updating' = [at |-> to, prev |-> updating.prev, t |-> updating.t,
                     staged |-> updating.staged]
    BY DEF Advance, UpdTypeOK
  <1>3. updating' \in Polls
    BY <1>2 DEF UpdTypeOK, Polls, Steps5
  <1>4. /\ updating.staged >= target[updating.t].image \/ updating.t \in fellBack
        /\ updating.staged > 0
        /\ updating.staged <= newest /\ newest \in Nat
        /\ target[updating.t].image \in Nat /\ updating.staged \in Nat
    BY DEF StagedIsNewer, ImagesArePushed, UpdTypeOK
  <1>5. target' = [target EXCEPT ![updating.t] = made]
        /\ UNCHANGED <<replacing, newest, known, marks, updFaults>>
    BY DEF Advance
  <1>6. /\ made.image <= newest
        /\ \/ updating.t \in fellBack
           \/ made.image >= target[updating.t].image /\ updating'.staged >= made.image
    <2>1. target[updating.t].image <= newest
      BY DEF ImagesArePushed, UpdTypeOK
    <2> QED
      BY <1>1, <1>2, <1>4, <2>1
  <1>7. updating'.t = updating.t /\ updating'.staged = updating.staged /\ updating'.staged > 0
    BY <1>2, <1>4
  <1> HIDE DEF made
  <1> QED
    BY <1>1, <1>3, <1>4, <1>5, <1>6, <1>7, TargetStep

LEMMA UpdNextInv == UpdInv /\ [UpdNext]_updVars => UpdInv' /\ TargetsForward
  <1> SUFFICES ASSUME UpdInv, [UpdNext]_updVars PROVE UpdInv' /\ TargetsForward
    OBVIOUS
  <1> USE UpdConstants DEF UpdInv
  <1>0. /\ updating \in Polls /\ target \in [1..Targets -> Boxes] /\ newest \in 1..MaxDigests
        /\ known \in 0..MaxDigests /\ updFaults \in 0..MaxUpdFaults /\ updating.t \in 1..Targets
        /\ updating.staged \in 0..MaxDigests
        /\ fellBack \subseteq 1..Targets /\ skipped \subseteq 1..Targets
    BY DEF UpdTypeOK, Polls, Steps5, Boxes
  <1>1. CASE Push
    BY <1>0, <1>1, UpdTypeStep
       DEF Push, marks, ImagesArePushed, StagedIsNewer, TargetsForward, Boxes
  <1>2. CASE PollDigest
    <2>1. updating' \in {[at |-> at, prev |-> prev, t |-> 1, staged |-> 0] :
                         at \in {"idle", "stage"}, prev \in 0..MaxDigests}
      <3>1. CASE known \in {0, newest}
        BY <1>2, <3>1, UpdConstants DEF PollDigest, Polled
      <3>2. CASE known \notin {0, newest}
        <4>1. updating' = [at |-> "stage", prev |-> known, t |-> 1, staged |-> 0]
          BY <1>2, <3>2 DEF PollDigest, Polled
        <4> QED
          BY <1>0, <4>1
      <3> QED
        BY <3>1, <3>2
    <2>2. updating' \in Polls /\ updating'.at \in {"idle", "stage"} /\ updating'.staged = 0
      BY <2>1 DEF Polls, Steps5
    <2>3. fellBack' \subseteq 1..Targets /\ skipped' \subseteq 1..Targets
      BY <1>0, <1>2 DEF PollDigest, marks
    <2> QED
      BY <1>0, <1>2, <2>2, <2>3, BetweenTargets DEF PollDigest
  <1>3. ASSUME NEW i \in 1..newest, Staged(i), UNCHANGED newest,
               \/ i = newest /\ UNCHANGED fellBack
               \/ fellBack' = fellBack \cup {updating.t},
               updFaults' \in 0..MaxUpdFaults
        PROVE  UpdInv' /\ TargetsForward
    <2>1. /\ updating' = [at |-> "stop", prev |-> updating.prev, t |-> updating.t, staged |-> i]
          /\ UNCHANGED <<replacing, newest, known, target, skipped>>
      BY <1>0, <1>3 DEF Staged, Polls
    <2>2. updating' \in Polls
      BY <1>0, <2>1 DEF Polls, Steps5
    <2>3. fellBack' \subseteq 1..Targets
      BY <1>0, <1>3
    <2>4. UpdTypeOK'
      BY <1>0, <1>3, <2>1, <2>2, <2>3, UpdTypeStep
    <2>5. target[updating.t].image <= newest
      BY <1>0 DEF ImagesArePushed
    <2>6. updating'.staged = i /\ updating'.t = updating.t
      BY <2>1
    <2>7. StagedIsNewer'
      BY <1>0, <1>3, <2>1, <2>5, <2>6 DEF StagedIsNewer
    <2>8. ImagesArePushed' /\ TargetsForward
      BY <1>0, <1>3, <2>1, <2>6 DEF ImagesArePushed, TargetsForward, Boxes
    <2> QED
      BY <2>4, <2>7, <2>8
  <1>15. ASSUME NextTarget \/ ReplaceFails, UNCHANGED known \/ ReplaceFails,
                fellBack' = fellBack, skipped' \in {skipped, skipped \cup {updating.t}},
                UNCHANGED <<replacing, newest, target>>, updFaults' \in 0..MaxUpdFaults
         PROVE  UpdInv' /\ TargetsForward
    <2>1. updating' \in Polls /\ updating'.at \in {"idle", "stage"} /\ updating'.staged = 0
          /\ known' \in 0..MaxDigests
      BY <1>0, <1>15, NextTargetType, ReplaceFailsType
    <2> QED
      BY <1>0, <1>15, <2>1, BetweenTargets
  <1>14. CASE StageTarball
    <2>1. CASE Staged(newest) /\ UNCHANGED fellBack
      <3>1. UNCHANGED <<newest, updFaults>>
        BY <1>14, <2>1 DEF StageTarball, Staged
      <3>2. newest \in 1..newest /\ updFaults' \in 0..MaxUpdFaults
        BY <1>0, <3>1
      <3> QED
        BY <1>3, <2>1, <3>1, <3>2
    <2>2. CASE Skip /\ UNCHANGED <<replacing, newest, target>>
      <3>1. skipped' = skipped \cup {updating.t} /\ UNCHANGED <<known, fellBack, updFaults>>
            /\ NextTarget
        BY <1>14, <2>2 DEF StageTarball, Skip
      <3> QED
        BY <1>0, <1>15, <2>2, <3>1
    <2>3. CASE ReplaceFails /\ UNCHANGED marks /\ UNCHANGED <<replacing, newest, target>>
      <3>1. UNCHANGED <<fellBack, skipped, updFaults>>
        BY <1>14, <2>3 DEF StageTarball, marks
      <3> QED
        BY <1>0, <1>15, <2>3, <3>1
    <2> QED
      BY <1>14, <2>1, <2>2, <2>3 DEF StageTarball
  <1>13. CASE StageFallback
    <2>1. PICK i \in 1..newest : Staged(i)
      BY <1>13 DEF StageFallback
    <2>2. UNCHANGED newest
      BY <2>1 DEF Staged
    <2>3. fellBack' = fellBack \cup {updating.t} /\ updFaults' \in 0..MaxUpdFaults
      BY <1>0, <1>13 DEF StageFallback, UpdFault
    <2> QED
      BY <1>3, <2>1, <2>2, <2>3
  <1>16. target[updating.t] = [state |-> target[updating.t].state,
                              image |-> target[updating.t].image]
        /\ target[updating.t].image \in 1..MaxDigests
    BY <1>0 DEF Boxes
  <1>4. CASE StopTarget
    <2>1. [target[updating.t] EXCEPT !.state = "stopped"]
            = [state |-> "stopped", image |-> target[updating.t].image]
      BY <1>16
    <2>2. updating.at = "stop"
          /\ Advance("stop", "remove", [state |-> "stopped", image |-> target[updating.t].image])
      BY <1>4, <2>1 DEF StopTarget, Advance
    <2> QED
      BY <1>16, <2>2, AdvanceStep
  <1>5. CASE RemoveTarget
    <2>1. [target[updating.t] EXCEPT !.state = "gone"]
            = [state |-> "gone", image |-> target[updating.t].image]
      BY <1>16
    <2>2. updating.at = "remove"
          /\ Advance("remove", "create", [state |-> "gone", image |-> target[updating.t].image])
      BY <1>5, <2>1 DEF RemoveTarget, Advance
    <2> QED
      BY <1>16, <2>2, AdvanceStep
  <1>6. CASE CreateTarget
    <2>1. updating.at = "create"
          /\ Advance("create", "start", [state |-> "stopped", image |-> updating.staged])
      BY <1>6 DEF CreateTarget, Advance
    <2>2. updating.staged \in 1..MaxDigests
      BY <1>0, <2>1 DEF StagedIsNewer
    <2> QED
      BY <2>1, <2>2, AdvanceStep
  <1>7. CASE StartTarget
    <2>1. updating' \in Polls /\ updating'.at \in {"idle", "stage"} /\ updating'.staged = 0
      BY <1>7, NextTargetType DEF StartTarget
    <2> DEFINE made == [state |-> "up", image |-> target[updating.t].image]
    <2>2. made \in Boxes /\ made.image = target[updating.t].image
      BY <1>16 DEF Boxes
    <2>3. target' = [target EXCEPT ![updating.t] = made]
      <3>1. [target[updating.t] EXCEPT !.state = "up"] = made
        BY <1>16
      <3> QED
        BY <1>7, <3>1 DEF StartTarget
    <2>4. UNCHANGED <<replacing, newest, known, marks, updFaults>>
      BY <1>7 DEF StartTarget
    <2>5. made.image >= target[updating.t].image /\ made.image <= newest
      BY <1>0, <1>16, <2>2 DEF ImagesArePushed
    <2>6. updating'.staged <= newest /\ updating'.at \notin {"stop", "remove", "create", "start"}
      BY <1>0, <2>1
    <2> HIDE DEF made
    <2> QED
      BY <2>1, <2>2, <2>3, <2>4, <2>5, <2>6, TargetStep
  <1>8. CASE CallRefused
    <2>1. CASE Skip
      BY <1>0, <1>8, <1>15, <2>1 DEF CallRefused, Skip, UpdFault
    <2>2. CASE ReplaceFails /\ UNCHANGED marks
      BY <1>0, <1>8, <1>15, <2>2 DEF CallRefused, UpdFault, marks
    <2> QED
      BY <1>8, <2>1, <2>2 DEF CallRefused
  <1>9. CASE RestartUpdater
    <2>1. updating' \in Polls /\ updating'.at \in {"idle", "stage"} /\ updating'.staged = 0
      BY <1>9 DEF RestartUpdater, Polled, Polls, Steps5
    <2> QED
      BY <1>0, <1>9, <2>1, BetweenTargets DEF RestartUpdater, UpdFault, marks
  <1>10. CASE UNCHANGED updVars
    BY <1>0, <1>10, UpdTypeStep
       DEF updVars, marks, ImagesArePushed, StagedIsNewer, TargetsForward, Boxes
  <1> QED
    BY <1>1, <1>2, <1>3, <1>4, <1>5, <1>6, <1>7, <1>8, <1>9, <1>10, <1>13, <1>14
       DEF UpdNext, UpdStep

\* mkube-update puts a container back to an image older than the one it was created from only
\* where the attempt took the image from GHCR (prePullTarball), although attempts fail
\* half-way, later polls take them up again and the updater forgets what it saw when it
\* restarts.
NeverOlder == [][TargetsForward]_updVars
THEOREM NeverOlderTheorem == UpdSpec => NeverOlder
  <1>1. UpdInit => UpdInv
    <2> SUFFICES ASSUME UpdInit PROVE UpdInv
      OBVIOUS
    <2>1. updating \in Polls /\ target \in [1..Targets -> Boxes] /\ newest = 1
      BY UpdConstants DEF UpdInit, Polled, Polls, Steps5, Boxes
    <2>2. replacing \in BOOLEAN
      BY Zenon DEF UpdInit
    <2>3. UpdTypeOK
      BY <2>1, <2>2, UpdConstants DEF UpdInit, UpdTypeOK, Polls, Steps5, Boxes
    <2> QED
      BY <2>3, UpdConstants DEF UpdInit, UpdInv, ImagesArePushed, StagedIsNewer, Polled
  <1>2. UpdInv /\ [UpdNext]_updVars => TargetsForward
    BY UpdNextInv
  <1> QED
    BY <1>1, <1>2, UpdNextInv, PTL DEF UpdSpec, NeverOlder

-----------------------------------------------------------------------------
(* Deployments: what is in scale stays in scale. *)

LEMMA LeastIsMember ==
  ASSUME NEW S \in SUBSET Nat, S # {}
  PROVE  Min(S) \in S
  <1> DEFINE Less == OpToRel(<, Nat)
  <1>1. PICK x \in S : \A y \in S : ~(<<y, x>> \in Less)
    <2>1. IsWellFoundedOn(Less, Nat)
      BY NatLessThanWellFounded
    <2> HIDE DEF Less
    <2> QED
      BY <2>1, WFMin
  <1>2. Less = {ss \in Nat \X Nat : ss[1] < ss[2]}
    BY DEF OpToRel
  <1> HIDE DEF Less
  <1>3. \A y \in S : x <= y
    <2> SUFFICES ASSUME NEW y \in S, y < x PROVE FALSE
      OBVIOUS
    <2>1. <<y, x>> \in Less
      BY <1>2
    <2> QED
      BY <1>1, <2>1
  <1> QED
    BY <1>3 DEF Min

Cycles == [at : {"wait", "scale", "roll", "recover"}, create : SUBSET Index,
           remove : SUBSET Index, recover : SUBSET Index, check : BOOLEAN]

LEMMA DepConstants == MaxReplicas \in Nat /\ MaxScales \in Nat /\ MaxDepFaults \in Nat
  BY DepAssumption

LEMMA CyclesFacts ==
  /\ Waiting \in Cycles
  /\ \A S, T, U \in SUBSET Index, at \in {"wait", "scale", "roll", "recover"}, c \in BOOLEAN :
       [at |-> at, create |-> S, remove |-> T, recover |-> U, check |-> c] \in Cycles
  /\ \A c \in Cycles, S \in SUBSET Index :
       /\ [c EXCEPT !.create = S] \in Cycles /\ [c EXCEPT !.remove = S] \in Cycles
       /\ [c EXCEPT !.recover = S] \in Cycles
  <1>1. FALSE \in BOOLEAN
    OBVIOUS
  <1> QED
    BY <1>1 DEF Cycles, Waiting

LEMMA WantedIndex == \A r \in 0..MaxReplicas : Wanted(r) \subseteq Index
  BY DepConstants DEF Wanted, Index

LEMMA DepTypeStep ==
  ASSUME DepTypeOK,
         dep' \in 0..MaxReplicas, depStored' \in 0..MaxReplicas, podTracked' \subseteq Index,
         podStored' \subseteq Index, cycle' \in Cycles,
         scales' = scales \/ Request, depFaults' = depFaults \/ DepFault
  PROVE  DepTypeOK'
  BY DepConstants DEF DepTypeOK, Cycles, Request, DepFault

LEMMA DepTypeNext == DepTypeOK /\ [DepNext]_depVars => DepTypeOK'
  <1> SUFFICES ASSUME DepTypeOK, [DepNext]_depVars PROVE DepTypeOK'
    OBVIOUS
  <1>0. /\ dep \in 0..MaxReplicas /\ depStored \in 0..MaxReplicas /\ podTracked \subseteq Index
        /\ podStored \subseteq Index /\ cycle \in Cycles
        /\ {cycle.create, cycle.remove, cycle.recover} \subseteq SUBSET Index
        /\ cycle.create \subseteq Index /\ cycle.recover \subseteq Index
    BY DEF DepTypeOK, Cycles
  <1>1. \A S \in SUBSET Index : S # {} => Min(S) \in S
    BY DepConstants, LeastIsMember DEF Index
  <1>2. CASE CreateDeployment \/ UpdateDeployment
    BY <1>0, <1>2, DepTypeStep, DepConstants DEF CreateDeployment, UpdateDeployment
  <1>3. CASE DeleteDeployment
    BY <1>0, <1>3, DepTypeStep, DepConstants DEF DeleteDeployment
  <1>4. CASE DeleteReplica
    BY <1>0, <1>4, DepTypeStep DEF DeleteReplica
  <1>5. CASE CycleBegins
    <2>1. dep' \in 0..MaxReplicas /\ UNCHANGED <<depStored, podTracked, podStored, scales, depFaults>>
      BY <1>0, <1>5 DEF CycleBegins
    <2>2. CASE dep' = 0
      <3>1. cycle' = [at |-> "scale", create |-> {}, remove |-> {}, recover |-> {},
                      check |-> FALSE]
        BY <1>5, <2>2 DEF CycleBegins, Waiting
      <3>2. cycle' \in Cycles
        BY <3>1, CyclesFacts
      <3> QED
        BY <1>0, <2>1, <3>2, DepTypeStep
    <2>3. CASE dep' # 0
      <3>1. cycle' = [at |-> "scale", create |-> Wanted(dep') \ podTracked,
                      remove |-> podTracked \ Wanted(dep'), recover |-> {}, check |-> TRUE]
        BY <1>5, <2>3 DEF CycleBegins, Waiting
      <3>2. Wanted(dep') \subseteq Index
        BY <2>1, WantedIndex
      <3>3. cycle' \in Cycles
        BY <1>0, <3>1, <3>2, CyclesFacts
      <3> QED
        BY <1>0, <2>1, <3>3, DepTypeStep
    <2> QED
      BY <2>2, <2>3
  <1>6. CASE CreateReplica
    <2>1. Min(cycle.create) \in Index
      BY <1>0, <1>1, <1>6 DEF CreateReplica
    <2>2. cycle' \in Cycles
      BY <1>0, <1>6, CyclesFacts DEF CreateReplica
    <2> QED
      BY <1>0, <1>6, <2>1, <2>2, DepTypeStep DEF CreateReplica
  <1>7. CASE RemoveReplica
    <2>1. cycle' \in Cycles
      BY <1>0, <1>7, CyclesFacts DEF RemoveReplica
    <2> QED
      BY <1>0, <1>7, <2>1, DepTypeStep DEF RemoveReplica
  <1>8. CASE RollBegins
    <2>1. cycle' = [at |-> "roll", create |-> {}, remove |-> {}, recover |-> podTracked,
                    check |-> FALSE]
      BY <1>8 DEF RollBegins, Waiting
    <2>2. cycle' \in Cycles
      BY <1>0, <2>1, CyclesFacts
    <2> QED
      BY <1>0, <1>8, <2>2, DepTypeStep DEF RollBegins
  <1>9. CASE RollReplica
    <2>1. cycle' \in Cycles /\ podTracked' \subseteq Index
      BY <1>0, <1>9, CyclesFacts DEF RollReplica
    <2> QED
      BY <1>0, <1>9, <2>1, DepTypeStep DEF RollReplica
  <1>10. CASE LoadPods
    <2>1. cycle' = [at |-> "recover", create |-> {}, remove |-> {}, recover |-> podStored,
                    check |-> FALSE]
      BY <1>10 DEF LoadPods, Waiting
    <2>2. cycle' \in Cycles
      BY <1>0, <2>1, CyclesFacts
    <2> QED
      BY <1>0, <1>10, <2>2, DepTypeStep DEF LoadPods
  <1>11. CASE RecoverPod
    <2>1. cycle' \in Cycles /\ podTracked' \subseteq Index
      <3>1. CASE cycle.recover = {}
        BY <1>0, <1>11, <3>1, CyclesFacts DEF RecoverPod
      <3>2. CASE cycle.recover # {}
        <4>1. Min(cycle.recover) \in Index
          BY <1>0, <1>1, <3>2
        <4>2. cycle' = [cycle EXCEPT !.recover = @ \ {Min(cycle.recover)}]
          BY <1>11, <3>2 DEF RecoverPod
        <4>3. podTracked' = podTracked \cup {Min(cycle.recover)} \/ podTracked' = podTracked
          BY <1>11, <3>2 DEF RecoverPod
        <4>4. cycle' \in Cycles
          BY <1>0, <4>2, CyclesFacts
        <4> QED
          BY <1>0, <4>1, <4>3, <4>4
      <3> QED
        BY <3>1, <3>2
    <2> QED
      BY <1>0, <1>11, <2>1, DepTypeStep DEF RecoverPod
  <1>12. CASE ReplicaLost \/ RestartDeployments
    BY <1>0, <1>12, DepTypeStep, CyclesFacts DEF ReplicaLost, RestartDeployments
  <1>13. CASE UNCHANGED depVars
    BY <1>0, <1>13, DepTypeStep DEF depVars
  <1> QED
    BY <1>2, <1>3, <1>4, <1>5, <1>6, <1>7, <1>8, <1>9, <1>10, <1>11, <1>12, <1>13
    DEF DepNext, CycleStepD

\* The deployment has its replicas and no other is stored, and the cycle that is at work
\* neither removes a replica nor has one to create that is not wanted.
InScale ==
  /\ dep # 0 /\ podTracked = Wanted(dep) /\ podStored \subseteq Wanted(dep)
  /\ cycle.create \cup cycle.recover \subseteq Wanted(dep) /\ cycle.remove = {}

LEMMA ScaleStep ==
  ASSUME DepTypeOK, InScale, [DepNext]_depVars, UNCHANGED <<scales, depFaults>>
  PROVE  InScale'
  <1> USE DEF InScale
  <1>0. \A S \in SUBSET Wanted(dep) : S # {} => Min(S) \in S /\ Min(S) \in Wanted(dep)
    <2>1. Wanted(dep) \subseteq Nat
      BY DEF Wanted
    <2> SUFFICES ASSUME NEW S \in SUBSET Wanted(dep), S # {}
                 PROVE  Min(S) \in S /\ Min(S) \in Wanted(dep)
      OBVIOUS
    <2>2. S \in SUBSET Nat
      BY <2>1
    <2>3. Min(S) \in S
      BY <2>2, LeastIsMember
    <2> QED
      BY <2>3
  <1>1. scales' # scales + 1 /\ depFaults' # depFaults + 1
    BY DEF DepTypeOK
  <1>2. CASE CycleBegins
    BY <1>2 DEF CycleBegins, Waiting, Wanted
  <1>3. CASE CreateReplica
    <2>1. PICK i \in cycle.create :
            /\ cycle' = [cycle EXCEPT !.create = @ \ {i}]
            /\ podStored' = podStored \cup {i} /\ podTracked' = podTracked \cup {i}
      BY <1>0, <1>1, <1>3 DEF CreateReplica, DepFault
    <2> QED
      BY <1>3, <2>1 DEF CreateReplica, DepTypeOK
  <1>4. CASE RemoveReplica
    BY <1>4 DEF RemoveReplica
  <1>5. CASE RollBegins
    BY <1>5 DEF RollBegins, Waiting
  <1>6. CASE RollReplica
    <2>1. PICK i \in cycle.recover :
            /\ podTracked' = podTracked \cup {i}
            /\ \E rest \in {cycle.recover \ {i}, {}} : cycle' = [cycle EXCEPT !.recover = rest]
      BY <1>1, <1>6 DEF RollReplica, DepFault
    <2> QED
      BY <1>6, <2>1 DEF RollReplica, DepTypeOK
  <1>7. CASE LoadPods
    BY <1>7 DEF LoadPods, Waiting
  <1>8. CASE RecoverPod
    <2>1. CASE cycle.recover = {}
      BY <1>8, <2>1 DEF RecoverPod, Waiting
    <2>2. CASE cycle.recover # {}
      <3>1. PICK i \in cycle.recover :
              /\ cycle' = [cycle EXCEPT !.recover = @ \ {i}]
              /\ podTracked' = podTracked \cup {i}
        BY <1>0, <1>1, <1>8, <2>2 DEF RecoverPod, DepFault
      <3> QED
        BY <1>8, <3>1 DEF RecoverPod, DepTypeOK
    <2> QED
      BY <2>1, <2>2
  <1>9. CASE CreateDeployment \/ UpdateDeployment \/ DeleteDeployment \/ DeleteReplica
             \/ ReplicaLost \/ RestartDeployments
    BY <1>1, <1>9 DEF CreateDeployment, UpdateDeployment, DeleteDeployment, DeleteReplica,
                      ReplicaLost, RestartDeployments, Request, DepFault
  <1>10. CASE UNCHANGED depVars
    BY <1>10 DEF depVars
  <1> QED
    BY <1>2, <1>3, <1>4, <1>5, <1>6, <1>7, <1>8, <1>9, <1>10 DEF DepNext, CycleStepD

\* A deployment that is in scale stays so until a request changes it or a call fails: no
\* cycle, whatever it read before, brings a replica back that nobody wants, nor removes one.
\* That it comes into scale is the other half of ScaleHolds, which TLC checks.
ScaleStays == [][UNCHANGED <<scales, depFaults>> /\ InScale => InScale']_depVars
THEOREM ScaleStaysTheorem == DepSpec => ScaleStays
  <1>1. DepInit => DepTypeOK
    <2> SUFFICES ASSUME DepInit PROVE DepTypeOK
      OBVIOUS
    <2>1. cycle \in Cycles
      BY CyclesFacts DEF DepInit
    <2> QED
      BY <2>1, DepConstants DEF DepInit, DepTypeOK, Cycles
  <1>2. DepTypeOK /\ [DepNext]_depVars =>
          (UNCHANGED <<scales, depFaults>> /\ InScale => InScale')
    BY ScaleStep
  <1> QED
    BY <1>1, <1>2, DepTypeNext, PTL DEF DepSpec, ScaleStays
=============================================================================
