------------------------ MODULE NetworkManagerProofs ------------------------
(***************************************************************************)
(* That no two ports on the networks of config.yaml ever have the same     *)
(* address and that a release frees the address it takes off the device,   *)
(* for any number of networks, addresses and ports, when the walkers run   *)
(* alone and the device failures that defeat the manager do not happen.    *)
(***************************************************************************)
EXTENDS NetworkManager, TLAPS

\* What the theorems assume: a walker and the rest of the provider do not interleave, and
\* no failed call leaves a port with an address whose entry is given back.
Serial == ~Overlap /\ Faults \cap {"update", "lost", "rollback", "sync"} = {}

\* Entries of a static pool are distinct addresses of its own subnet.
PoolsDistinct ==
  \A n \in Static : \A k \in Keys :
    pool[n][k] # NoAddr =>
      /\ pool[n][k] \in Subnet(n)
      /\ \A o \in Keys : pool[n][o] = pool[n][k] => o = k

\* The address of the allocation in progress is held, and no walker is under way.
CallHolds ==
  call # NoCall =>
    /\ pool[call.net][call.key] = call.addr
    /\ call.addr \in Subnet(call.net)
    /\ walk.step = "idle"

\* A port found by a resync still has the entry that the resync is about to write.
FoundIsRecorded ==
  /\ walk.step # "record" => walk.found = {}
  /\ \A k \in Keys, a \in Addr, n \in Static :
       <<k, a>> \in walk.found /\ a \in Subnet(n) => pool[n][k] = a /\ ports[k] \in {a, NoAddr}
  /\ \A k \in Keys, a \in Addr, n \in Static :
       <<k, a>> \in walk.found /\ ports[k] \in Subnet(n) => ports[k] = a

\* The manager knows which network a port is in.
AllocsMatch ==
  \A n \in Static : \A k \in Keys : ports[k] \in Subnet(n) => allocs[k] = n

\* The inductive invariant.
Ledger ==
  /\ Static \subseteq networks
  /\ PoolsDistinct
  /\ CallHolds
  /\ FoundIsRecorded
  /\ PortsRecorded
  /\ AllocsMatch
  /\ NoAddressTwice

USE NetsAssumption, NullsAssumption

-----------------------------------------------------------------------------
(* Addresses. *)

LEMMA AddrFacts ==
  /\ NoAddr \notin Addr
  /\ \A n \in Nets : Subnet(n) \subseteq Addr
  /\ \A n, o \in Nets : \A a \in Subnet(n) : a \in Subnet(o) => n = o
  /\ Static \subseteq Nets
  BY DEF Addr, Static

LEMMA RangeFacts ==
  ASSUME NEW n \in Nets
  PROVE  /\ First[n] \in First[n] .. Last[n]
         /\ \A a \in First[n] .. Last[n] : a \in Subnet(n) /\ After(n, a) \in First[n] .. Last[n]
  BY DEF Subnet, After

-----------------------------------------------------------------------------
(* Types. *)

LEMMA ReleasedType ==
  ASSUME TypeOK, NEW k \in Keys, Released(k)
  PROVE  /\ pool' \in [Nets -> [Keys -> Addr \cup {NoAddr}]]
         /\ allocs' \in [Keys -> Nets \cup {NoNet}]
         /\ ports' \in [Keys -> Addr \cup {NoAddr}]
  BY DEF TypeOK, Released

LEMMA ReserveType ==
  ASSUME TypeOK, NEW k \in Keys, NEW n \in Nets, NEW a \in Addr, Reserve(k, n, a)
  PROVE  TypeOK'
  <1>1. nextIP' \in [Nets -> Int] /\ \A o \in Nets : nextIP'[o] \in First[o] .. Last[o]
    <2>1. CASE UNCHANGED nextIP
      BY <2>1 DEF TypeOK
    <2>2. CASE a \in First[n] .. Last[n] /\ nextIP' = [nextIP EXCEPT ![n] = After(n, a)]
      <3>1. After(n, a) \in First[n] .. Last[n] /\ After(n, a) \in Int
        BY <2>2, RangeFacts
      <3> QED
        BY <2>2, <3>1 DEF TypeOK
    <2> QED
      BY <2>1, <2>2 DEF Reserve, IsNextFree
  <1>2. pool' \in [Nets -> [Keys -> Addr \cup {NoAddr}]]
    BY DEF TypeOK, Reserve
  <1>3. call' \in [key : Keys, net : Nets, addr : Addr]
    BY DEF Reserve
  <1> QED
    BY <1>1, <1>2, <1>3 DEF TypeOK, Reserve

LEMMA RestartType ==
  ASSUME TypeOK, Restart
  PROVE  TypeOK'
  <1>1. PICK seen : pool' = SyncedPool(seen) /\ allocs' = SyncedAllocs(seen)
    BY DEF Restart
  <1>2. pool' \in [Nets -> [Keys -> Addr \cup {NoAddr}]]
    BY <1>1, AddrFacts DEF SyncedPool
  <1>3. allocs' \in [Keys -> Nets \cup {NoNet}]
    BY <1>1, AddrFacts DEF SyncedAllocs
  <1>4. nextIP' \in [Nets -> Int] /\ \A n \in Nets : nextIP'[n] \in First[n] .. Last[n]
    BY RangeFacts DEF Restart
  <1> QED
    BY <1>2, <1>3, <1>4, AddrFacts DEF TypeOK, Restart, Idle

LEMMA TypeStep == TypeOK /\ [Next]_vars => TypeOK'
  <1> SUFFICES ASSUME TypeOK, [Next]_vars PROVE TypeOK'
    OBVIOUS
  <1>1. ASSUME NEW k \in Keys, NEW n \in Nets, NEW a \in Addr, Reserve(k, n, a) PROVE TypeOK'
    BY <1>1, ReserveType
  <1>2. ASSUME FinishAllocate PROVE TypeOK'
    BY <1>2 DEF TypeOK, FinishAllocate
  <1>3. ASSUME AbandonAllocate PROVE TypeOK'
    BY <1>3 DEF TypeOK, AbandonAllocate, CreateFails, AnswerLost, AttachFails, RollbackFails
  <1>4. ASSUME NEW k \in Keys, Release(k) PROVE TypeOK'
    BY <1>4, ReleasedType DEF TypeOK, Release
  <1>5. ASSUME NEW n \in Nets, RegisterNetwork(n) PROVE TypeOK'
    BY <1>5, RangeFacts DEF TypeOK, RegisterNetwork, NoPool
  <1>6. ASSUME NEW n \in Nets, UnregisterNetwork(n) PROVE TypeOK'
    BY <1>6 DEF TypeOK, UnregisterNetwork, NoPool
  <1>7. ASSUME ListForResync PROVE TypeOK'
    BY <1>7 DEF TypeOK, ListForResync, Listed
  <1>8. ASSUME NEW k \in Keys, NEW a \in Addr, RecordPort(k, a) PROVE TypeOK'
    <2>1. walk' = [step |-> walk.step, left |-> walk.left, found |-> walk.found \ {<<k, a>>}]
      BY <1>8 DEF RecordPort, TypeOK
    <2>2. walk' \in [step : {"idle", "record", "list", "release"},
                     left : SUBSET Keys, found : SUBSET (Keys \X Addr)]
      BY <2>1 DEF TypeOK
    <2>3. pool' \in [Nets -> [Keys -> Addr \cup {NoAddr}]] /\ allocs' \in [Keys -> Nets \cup {NoNet}]
      <3>1. CASE UNCHANGED <<pool, allocs>>
        BY <3>1 DEF TypeOK
      <3>2. ASSUME NEW n \in Nets, pool' = [pool EXCEPT ![n][k] = a], allocs' = [allocs EXCEPT ![k] = n]
            PROVE  /\ pool' \in [Nets -> [Keys -> Addr \cup {NoAddr}]]
                   /\ allocs' \in [Keys -> Nets \cup {NoNet}]
        BY <3>2 DEF TypeOK
      <3> QED
        BY <1>8, <3>1, <3>2 DEF RecordPort, TypeOK
    <2> QED
      BY <1>8, <2>2, <2>3 DEF TypeOK, RecordPort
  <1>9. ASSUME EndReconcileResync \/ EndClean \/ ListForCleanFails PROVE TypeOK'
    BY <1>9 DEF TypeOK, EndReconcileResync, EndClean, ListForCleanFails, Idle
  <1>10. ASSUME SnapshotEntries PROVE TypeOK'
    BY <1>10 DEF TypeOK, SnapshotEntries
  <1>11. ASSUME ListForClean PROVE TypeOK'
    BY <1>11 DEF TypeOK, ListForClean
  <1>12. ASSUME NEW k \in Keys, CleanEntry(k) PROVE TypeOK'
    BY <1>12, ReleasedType DEF TypeOK, CleanEntry
  <1>13. ASSUME NEW k \in Keys, CleanEntryFails(k) PROVE TypeOK'
    BY <1>13 DEF TypeOK, CleanEntryFails
  <1>14. ASSUME NEW k \in Keys, PortLost(k) PROVE TypeOK'
    BY <1>14 DEF TypeOK, PortLost
  <1>15. ASSUME Restart PROVE TypeOK'
    BY <1>15, RestartType
  <1>16. ASSUME UNCHANGED vars PROVE TypeOK'
    BY <1>16 DEF TypeOK, vars
  <1> QED
    BY <1>1, <1>2, <1>3, <1>4, <1>5, <1>6, <1>7, <1>8, <1>9, <1>10, <1>11, <1>12, <1>13,
       <1>14, <1>15, <1>16 DEF Next, ManagerNext, WalkNext, EnvNext

(* Every reachable state is well typed, whatever fails and whatever overlaps: in
   particular the cursor of a pool never leaves its range. *)
THEOREM NetworkTypeCorrect == Spec => []TypeOK
  <1>1. Init => TypeOK
    BY RangeFacts, AddrFacts DEF Init, TypeOK, NoPool, Idle
  <1> QED
    BY <1>1, TypeStep, PTL DEF Spec

-----------------------------------------------------------------------------
(* The ledger. *)

\* While nobody allocates and no walker records, a step that only takes a port off the
\* device, and entries of that port out of the pools, keeps the ledger.
LEMMA RemovalKeeps ==
  ASSUME TypeOK, Ledger, NEW k \in Keys,
         ports' = [ports EXCEPT ![k] = NoAddr],
         \A n \in Nets : \A o \in Keys :
           pool'[n][o] = pool[n][o] \/ (o = k /\ pool'[n][o] = NoAddr),
         \A o \in Keys : o # k => allocs'[o] = allocs[o],
         call' = NoCall,
         call = NoCall \/ (call.key = k /\ pool'[call.net][k] = NoAddr)
  PROVE  PoolsDistinct' /\ CallHolds' /\ PortsRecorded' /\ AllocsMatch' /\ NoAddressTwice'
  <1>1. \A n \in Static : NoAddr \notin Subnet(n)
    BY AddrFacts
  <1>2. PoolsDistinct'
    BY AddrFacts DEF Ledger, PoolsDistinct
  <1>3. CallHolds'
    BY DEF CallHolds
  <1>4. PortsRecorded'
    <2>1. \A n \in Static : \A o \in Keys :
            ports'[o] \in Subnet(n) => o # k /\ ports'[o] = ports[o] /\ pool'[n][o] = pool[n][o]
      BY <1>1, AddrFacts DEF TypeOK
    <2>2. \A o \in Keys : o # k => call.key # o
      BY DEF NoCall
    <2> QED
      BY <2>1, <2>2 DEF Ledger, PortsRecorded
  <1>5. AllocsMatch'
    BY <1>1 DEF Ledger, AllocsMatch, TypeOK
  <1>6. NoAddressTwice'
    BY <1>1, AddrFacts DEF Ledger, NoAddressTwice, TypeOK
  <1> QED
    BY <1>2, <1>3, <1>4, <1>5, <1>6

LEMMA ReleasedEffect ==
  ASSUME TypeOK, NEW k \in Keys, Released(k)
  PROVE  /\ ports' = [ports EXCEPT ![k] = NoAddr]
         /\ \A n \in Nets : \A o \in Keys :
              pool'[n][o] = pool[n][o] \/ (o = k /\ pool'[n][o] = NoAddr)
         /\ \A o \in Keys : o # k => allocs'[o] = allocs[o]
  BY DEF Released, TypeOK

LEMMA ReserveKeeps ==
  ASSUME TypeOK, Ledger, Serial, NEW k \in Keys, NEW n \in Nets, NEW a \in Addr,
         Reserve(k, n, a)
  PROVE  Ledger'
  <1>1. walk.step = "idle" /\ walk.found = {}
    BY DEF Reserve, Quiet, Serial, Ledger, FoundIsRecorded
  <1>2. a \in Subnet(n) /\ \A o \in Keys : o # k => pool[n][o] # a
    BY RangeFacts DEF Reserve, IsNextFree, Taken, MayHold
  <1>3. \A m \in Nets : \A o \in Keys :
          pool'[m][o] = IF m = n /\ o = k THEN a ELSE pool[m][o]
    BY DEF Reserve, TypeOK
  <1>4. call' = [key |-> k, net |-> n, addr |-> a]
    BY DEF Reserve
  <1>5. PoolsDistinct'
    BY <1>2, <1>3, AddrFacts DEF Ledger, PoolsDistinct
  <1>6. CallHolds'
    BY <1>1, <1>2, <1>3, <1>4 DEF CallHolds, Reserve
  <1>7. FoundIsRecorded'
    BY <1>1 DEF FoundIsRecorded, Reserve
  <1>8. PortsRecorded'
    <2>1. \A o \in Keys : call.key # o
      BY DEF Reserve, Unlocked, NoCall
    <2> QED
      BY <1>3, <1>4, <2>1, AddrFacts DEF Ledger, PortsRecorded, Reserve
  <1> QED
    BY <1>5, <1>6, <1>7, <1>8 DEF Ledger, Reserve, AllocsMatch, NoAddressTwice

LEMMA FinishKeeps ==
  ASSUME TypeOK, Ledger, FinishAllocate
  PROVE  Ledger'
  <1> DEFINE k == call.key
             n == call.net
             a == call.addr
  <1>1. call # NoCall /\ k \in Keys /\ n \in Nets /\ a \in Addr
    BY DEF FinishAllocate, TypeOK
  <1>2. pool[n][k] = a /\ a \in Subnet(n) /\ walk.found = {} /\ walk.step = "idle"
    BY <1>1 DEF Ledger, CallHolds, FoundIsRecorded
  <1>3. \A o \in Keys : ports'[o] = (IF o = k THEN a ELSE ports[o])
                        /\ allocs'[o] = (IF o = k THEN n ELSE allocs[o])
    BY DEF FinishAllocate, TypeOK
  <1> HIDE DEF k, n, a
  <1>4. call' = NoCall /\ UNCHANGED <<networks, pool, walk>>
    BY DEF FinishAllocate
  <1>5. \A m \in Static : a \in Subnet(m) => m = n
    BY <1>1, <1>2, AddrFacts
  <1>6. \A m \in Static : \A o \in Keys \ {k} : ports[o] \in Subnet(m) => pool[m][o] = ports[o]
    BY DEF Ledger, PortsRecorded, k
  <1>7. PortsRecorded'
    BY <1>2, <1>3, <1>4, <1>5, <1>6 DEF PortsRecorded
  <1>8. \A m \in Static : \A o \in Keys \ {k} : ports[o] \in Subnet(m) => ports[o] # a
    BY <1>1, <1>2, <1>5, <1>6, AddrFacts DEF Ledger, PoolsDistinct
  <1>9. NoAddressTwice'
    BY <1>3, <1>5, <1>8 DEF Ledger, NoAddressTwice
  <1>10. AllocsMatch'
    BY <1>3, <1>5 DEF Ledger, AllocsMatch
  <1>11. PoolsDistinct' /\ CallHolds' /\ FoundIsRecorded'
    BY <1>2, <1>4 DEF Ledger, PoolsDistinct, CallHolds, FoundIsRecorded
  <1> QED
    BY <1>4, <1>7, <1>9, <1>10, <1>11 DEF Ledger

LEMMA AbandonKeeps ==
  ASSUME TypeOK, Ledger, Serial, AbandonAllocate
  PROVE  Ledger'
  <1> DEFINE k == call.key
  <1>1. call # NoCall /\ k \in Keys /\ call.net \in Nets
    BY DEF AbandonAllocate, TypeOK
  <1>2. walk.found = {} /\ walk.step = "idle"
    BY <1>1 DEF Ledger, CallHolds, FoundIsRecorded
  <1>3. ports' = [ports EXCEPT ![k] = NoAddr]
    <2>1. CASE CreateFails
      <3>1. ports[k] = NoAddr /\ ports' = ports
        BY <2>1 DEF CreateFails, Serial
      <3> QED
        BY <3>1, <1>1 DEF TypeOK
    <2>2. CASE AttachFails
      BY <2>2 DEF AttachFails
    <2> QED
      BY <2>1, <2>2 DEF AbandonAllocate, Serial, AnswerLost, RollbackFails
  <1>4. /\ \A n \in Nets : \A o \in Keys :
             pool'[n][o] = pool[n][o] \/ (o = k /\ pool'[n][o] = NoAddr)
        /\ pool'[call.net][k] = NoAddr
        /\ allocs' = allocs /\ call' = NoCall
    BY <1>1 DEF AbandonAllocate, TypeOK
  <1> HIDE DEF k
  <1>5. PoolsDistinct' /\ CallHolds' /\ PortsRecorded' /\ AllocsMatch' /\ NoAddressTwice'
    <2>1. call.key = k
      BY DEF k
    <2> QED
      BY <1>1, <1>3, <1>4, <2>1, RemovalKeeps
  <1>6. FoundIsRecorded'
    BY <1>2 DEF AbandonAllocate, FoundIsRecorded
  <1> QED
    BY <1>5, <1>6 DEF Ledger, AbandonAllocate

LEMMA ReleaseKeeps ==
  ASSUME TypeOK, Ledger, Serial, NEW k \in Keys, Release(k)
  PROVE  Ledger'
  <1>1. walk.step = "idle" /\ walk.found = {} /\ call = NoCall /\ Released(k)
    BY DEF Release, Quiet, Unlocked, Serial, Ledger, FoundIsRecorded
  <1>2. call' = NoCall /\ UNCHANGED <<networks, walk>>
    BY <1>1 DEF Release
  <1>3. PoolsDistinct' /\ CallHolds' /\ PortsRecorded' /\ AllocsMatch' /\ NoAddressTwice'
    BY <1>1, <1>2, ReleasedEffect, RemovalKeeps
  <1>4. FoundIsRecorded'
    BY <1>1, <1>2 DEF FoundIsRecorded
  <1> QED
    BY <1>2, <1>3, <1>4 DEF Ledger

LEMMA CleanKeeps ==
  ASSUME TypeOK, Ledger, NEW k \in Keys, CleanEntry(k)
  PROVE  Ledger'
  <1>1. walk.step = "release" /\ walk.found = {} /\ call = NoCall /\ Released(k)
    BY DEF CleanEntry, Unlocked, Ledger, FoundIsRecorded
  <1>2. call' = NoCall /\ networks' = networks /\ walk'.found = {}
    BY <1>1 DEF CleanEntry, TypeOK
  <1>3. PoolsDistinct' /\ CallHolds' /\ PortsRecorded' /\ AllocsMatch' /\ NoAddressTwice'
    BY <1>1, <1>2, ReleasedEffect, RemovalKeeps
  <1>4. FoundIsRecorded'
    BY <1>2 DEF FoundIsRecorded
  <1> QED
    BY <1>2, <1>3, <1>4 DEF Ledger

LEMMA PortLostKeeps ==
  ASSUME TypeOK, Ledger, NEW k \in Keys, PortLost(k)
  PROVE  Ledger'
  <1>1. \A o \in Keys : ports'[o] = IF o = k THEN NoAddr ELSE ports[o]
    BY DEF PortLost, TypeOK
  <1>2. UNCHANGED <<networks, pool, allocs, call, walk>>
    BY DEF PortLost
  <1>3. \A n \in Static : NoAddr \notin Subnet(n)
    BY AddrFacts
  <1>4. PoolsDistinct' /\ CallHolds'
    BY <1>2 DEF Ledger, PoolsDistinct, CallHolds
  <1>5. FoundIsRecorded'
    BY <1>1, <1>2, <1>3 DEF Ledger, FoundIsRecorded
  <1>6. PortsRecorded' /\ AllocsMatch' /\ NoAddressTwice'
    BY <1>1, <1>2, <1>3 DEF Ledger, PortsRecorded, AllocsMatch, NoAddressTwice
  <1> QED
    BY <1>2, <1>4, <1>5, <1>6 DEF Ledger

LEMMA NetworkObjectKeeps ==
  ASSUME TypeOK, Ledger, Serial, NEW n \in Nets, RegisterNetwork(n) \/ UnregisterNetwork(n)
  PROVE  Ledger'
  <1>1. n \notin Static /\ walk.step = "idle" /\ walk.found = {} /\ call = NoCall
    BY DEF RegisterNetwork, UnregisterNetwork, Static, Quiet, Unlocked, Serial, Ledger,
       FoundIsRecorded
  <1>2. UNCHANGED <<ports, call, walk>>
    BY DEF RegisterNetwork, UnregisterNetwork
  <1>3. \A m \in Static : pool'[m] = pool[m]
    BY <1>1, AddrFacts DEF RegisterNetwork, UnregisterNetwork, TypeOK
  <1>4. \A k \in Keys : allocs[k] # n => allocs'[k] = allocs[k]
    BY DEF RegisterNetwork, UnregisterNetwork, TypeOK
  <1>5. Static \subseteq networks'
    BY <1>1 DEF RegisterNetwork, UnregisterNetwork, Ledger
  <1>6. CallHolds' /\ FoundIsRecorded'
    BY <1>1, <1>2 DEF CallHolds, FoundIsRecorded
  <1>7. PoolsDistinct' /\ PortsRecorded' /\ NoAddressTwice'
    BY <1>2, <1>3 DEF Ledger, PoolsDistinct, PortsRecorded, NoAddressTwice
  <1>8. AllocsMatch'
    BY <1>1, <1>2, <1>4 DEF Ledger, AllocsMatch
  <1> QED
    BY <1>5, <1>6, <1>7, <1>8 DEF Ledger

LEMMA RecordKeeps ==
  ASSUME TypeOK, Ledger, NEW k \in Keys, NEW a \in Addr, RecordPort(k, a)
  PROVE  Ledger'
  <1>1. call = NoCall /\ <<k, a>> \in walk.found
    BY DEF RecordPort, Ledger, CallHolds
  <1>2. walk'.step = walk.step /\ walk'.found \subseteq walk.found
        /\ UNCHANGED <<networks, ports, call>>
    BY DEF RecordPort, TypeOK
  <1>3. \A m \in Static : a \in Subnet(m) => pool[m][k] = a
    BY <1>1 DEF Ledger, FoundIsRecorded
  <1>4. \A m \in Static : ports[k] \in Subnet(m) => ports[k] = a
    BY <1>1 DEF Ledger, FoundIsRecorded
  <1>5. /\ \A m \in Static : \A o \in Keys : pool'[m][o] = pool[m][o]
        /\ \A o \in Keys \ {k} : allocs'[o] = allocs[o]
        /\ \A m \in Static : a \in Subnet(m) => allocs'[k] = m
    <2>1. CASE \E n \in networks : a \in Subnet(n)
      <3>1. PICK n \in networks : /\ a \in Subnet(n)
                                  /\ pool' = [pool EXCEPT ![n][k] = a]
                                  /\ allocs' = [allocs EXCEPT ![k] = n]
        BY <2>1 DEF RecordPort
      <3>2. n \in Nets
        BY DEF TypeOK
      <3>3. \A m \in Static : a \in Subnet(m) => m = n
        BY <3>1, <3>2, AddrFacts
      <3>4. \A m \in Static : \A o \in Keys : pool'[m][o] = pool[m][o]
        BY <1>3, <3>1, <3>2, AddrFacts DEF TypeOK
      <3>5. /\ \A o \in Keys \ {k} : allocs'[o] = allocs[o]
            /\ allocs'[k] = n
        BY <3>1 DEF TypeOK
      <3> QED
        BY <3>3, <3>4, <3>5
    <2>2. CASE ~ \E n \in networks : a \in Subnet(n)
      BY <2>2 DEF RecordPort, Ledger
    <2> QED
      BY <2>1, <2>2
  <1>6. PoolsDistinct' /\ PortsRecorded' /\ NoAddressTwice'
    BY <1>2, <1>5 DEF Ledger, PoolsDistinct, PortsRecorded, NoAddressTwice
  <1>7. AllocsMatch'
    BY <1>2, <1>4, <1>5 DEF Ledger, AllocsMatch
  <1>8. CallHolds'
    BY <1>1, <1>2 DEF CallHolds
  <1>9. FoundIsRecorded'
    BY <1>2, <1>5 DEF Ledger, FoundIsRecorded, RecordPort
  <1> QED
    BY <1>2, <1>6, <1>7, <1>8, <1>9 DEF Ledger

LEMMA ResyncListKeeps ==
  ASSUME TypeOK, Ledger, Serial, ListForResync
  PROVE  Ledger'
  <1>1. call = NoCall /\ UNCHANGED <<networks, pool, nextIP, allocs, ports, call>>
    BY DEF ListForResync, Unlocked, Serial
  <1>2. walk'.step = "record" /\ walk'.found \subseteq Listed
    BY DEF ListForResync
  <1>3. \A k \in Keys, a \in Addr : <<k, a>> \in Listed => ports[k] = a
    BY DEF Listed
  <1>4. \A n \in Static : \A k \in Keys : ports[k] \in Subnet(n) => pool[n][k] = ports[k]
    BY <1>1 DEF Ledger, PortsRecorded, NoCall
  <1>5. FoundIsRecorded'
    BY <1>1, <1>2, <1>3, <1>4 DEF FoundIsRecorded
  <1>6. PoolsDistinct' /\ CallHolds' /\ PortsRecorded' /\ AllocsMatch' /\ NoAddressTwice'
    BY <1>1 DEF Ledger, PoolsDistinct, CallHolds, PortsRecorded, AllocsMatch, NoAddressTwice
  <1> QED
    BY <1>1, <1>5, <1>6 DEF Ledger

LEMMA WalkerKeeps ==
  ASSUME TypeOK, Ledger, Serial,
         \/ EndReconcileResync \/ SnapshotEntries \/ ListForClean \/ ListForCleanFails
         \/ EndClean \/ \E k \in Keys : CleanEntryFails(k)
  PROVE  Ledger'
  <1>1. UNCHANGED <<networks, pool, nextIP, allocs, ports, call>>
    BY DEF EndReconcileResync, SnapshotEntries, ListForClean, ListForCleanFails, EndClean,
       CleanEntryFails
  <1>2. walk.found = {} \/ walk.step = "record"
    BY DEF Ledger, FoundIsRecorded
  <1>3. call = NoCall \/ walk.step = "idle"
    BY DEF Ledger, CallHolds
  <1>4. walk'.found = {} /\ call = NoCall
    <2>1. CASE EndReconcileResync \/ ListForCleanFails \/ EndClean
      BY <2>1, <1>3 DEF EndReconcileResync, ListForCleanFails, EndClean, Idle
    <2>2. CASE SnapshotEntries
      BY <2>2 DEF SnapshotEntries, Serial, Unlocked
    <2>3. CASE ListForClean
      BY <2>3, <1>2, <1>3 DEF ListForClean, TypeOK
    <2>4. ASSUME NEW k \in Keys, CleanEntryFails(k) PROVE walk'.found = {} /\ call = NoCall
      BY <2>4, <1>2, <1>3 DEF CleanEntryFails, TypeOK
    <2> QED
      BY <2>1, <2>2, <2>3, <2>4
  <1>5. FoundIsRecorded' /\ CallHolds'
    BY <1>1, <1>4 DEF FoundIsRecorded, CallHolds
  <1>6. PoolsDistinct' /\ PortsRecorded' /\ AllocsMatch' /\ NoAddressTwice'
    BY <1>1 DEF Ledger, PoolsDistinct, PortsRecorded, AllocsMatch, NoAddressTwice
  <1> QED
    BY <1>1, <1>5, <1>6 DEF Ledger

LEMMA RestartKeeps ==
  ASSUME TypeOK, Ledger, Serial, Restart
  PROVE  Ledger'
  <1>1. /\ networks' = Static /\ call' = NoCall /\ walk' = Idle /\ ports' = ports
        /\ pool' = SyncedPool(ports) /\ allocs' = SyncedAllocs(ports)
    <2>1. \A seen \in {ports} \cup (IF "sync" \in Faults THEN {NoPool} ELSE {}) : seen = ports
      BY DEF Serial
    <2> QED
      BY <2>1 DEF Restart
  <1>2. \A n \in Static : \A k \in Keys :
          pool'[n][k] = IF ports[k] \in Subnet(n) THEN ports[k] ELSE NoAddr
    BY <1>1, AddrFacts DEF SyncedPool
  <1>3. PoolsDistinct'
    BY <1>2, AddrFacts DEF Ledger, NoAddressTwice, PoolsDistinct
  <1>4. CallHolds' /\ FoundIsRecorded'
    BY <1>1 DEF CallHolds, FoundIsRecorded, Idle
  <1>5. PortsRecorded' /\ NoAddressTwice'
    BY <1>1, <1>2 DEF Ledger, PortsRecorded, NoAddressTwice
  <1>6. AllocsMatch'
    <2> SUFFICES ASSUME NEW n \in Static, NEW k \in Keys, ports[k] \in Subnet(n)
                 PROVE  allocs'[k] = n
      BY <1>1 DEF AllocsMatch
    <2>1. \A m \in Static : ports[k] \in Subnet(m) => m = n
      BY AddrFacts
    <2>2. (CHOOSE m \in Static : ports[k] \in Subnet(m)) = n
      BY <2>1
    <2> QED
      BY <1>1, <2>2 DEF SyncedAllocs
  <1> QED
    BY <1>1, <1>3, <1>4, <1>5, <1>6 DEF Ledger

LEMMA LedgerStep == TypeOK /\ Ledger /\ Serial /\ [Next]_vars => Ledger'
  <1> SUFFICES ASSUME TypeOK, Ledger, Serial, [Next]_vars PROVE Ledger'
    OBVIOUS
  <1>1. ASSUME ManagerNext PROVE Ledger'
    BY <1>1, ReserveKeeps, FinishKeeps, AbandonKeeps, ReleaseKeeps, NetworkObjectKeeps
       DEF ManagerNext
  <1>2. ASSUME WalkNext PROVE Ledger'
    BY <1>2, ResyncListKeeps, RecordKeeps, WalkerKeeps, CleanKeeps DEF WalkNext
  <1>3. ASSUME EnvNext PROVE Ledger'
    BY <1>3, PortLostKeeps, RestartKeeps DEF EnvNext
  <1>4. ASSUME UNCHANGED vars PROVE Ledger'
    BY <1>4 DEF vars, Ledger, PoolsDistinct, CallHolds, FoundIsRecorded, PortsRecorded,
       AllocsMatch, NoAddressTwice
  <1> QED
    BY <1>1, <1>2, <1>3, <1>4 DEF Next

THEOREM LedgerInvariant ==
  ASSUME Serial
  PROVE  Spec => [](TypeOK /\ Ledger)
  <1>1. Init => Ledger
    BY AddrFacts DEF Init, NoPool, Idle, Ledger, PoolsDistinct, CallHolds, FoundIsRecorded,
       PortsRecorded, AllocsMatch, NoAddressTwice
  <1> QED
    BY <1>1, LedgerStep, NetworkTypeCorrect, PTL DEF Spec

(* No two ports on the networks of config.yaml have the same address, whatever is
   allocated, moved to another network, released, lost or restarted in which order. *)
THEOREM NoAddressTwiceTheorem ==
  ASSUME Serial
  PROVE  Spec => []NoAddressTwice
  <1>1. Ledger => NoAddressTwice
    BY DEF Ledger
  <1> QED
    BY <1>1, LedgerInvariant, PTL

(* The address of every such port is held in its pool under the port's name. *)
THEOREM PortsRecordedTheorem ==
  ASSUME Serial
  PROVE  Spec => []PortsRecorded
  <1>1. Ledger => PortsRecorded
    BY DEF Ledger
  <1> QED
    BY <1>1, LedgerInvariant, PTL

(* A release never leaves behind the entry of the address it took off the device. *)
THEOREM ReleaseFreesAddressTheorem ==
  ASSUME Serial
  PROVE  Spec => ReleaseFreesAddress
  <1> DEFINE Freed == \A n \in Static : \A k \in Keys :
               ports[k] \in Subnet(n) /\ ports'[k] = NoAddr /\ allocs'[k] = NoNet
                 /\ n \in networks' => pool'[n][k] = NoAddr
  <1>1. TypeOK /\ Ledger /\ [Next]_vars => [Freed]_vars
    <2> SUFFICES ASSUME TypeOK, Ledger, Next, NEW n \in Static, NEW k \in Keys,
                        ports[k] \in Subnet(n), ports'[k] = NoAddr, allocs'[k] = NoNet
                 PROVE  pool'[n][k] = NoAddr
      OBVIOUS
    <2>1. allocs[k] = n /\ n \in Nets /\ n # NoNet /\ NoAddr \notin Subnet(n)
      BY AddrFacts DEF Ledger, AllocsMatch
    <2>2. PICK j \in Keys : Released(j) \/ ports'[k] = ports[k] \/ allocs'[k] = allocs[k]
      BY DEF Next, ManagerNext, WalkNext, EnvNext, Reserve, FinishAllocate, AbandonAllocate,
         Release, RegisterNetwork, UnregisterNetwork, ListForResync, RecordPort,
         EndReconcileResync, SnapshotEntries, ListForClean, ListForCleanFails, CleanEntry,
         CleanEntryFails, EndClean, PortLost, Restart, TypeOK
    <2>3. Released(j) /\ j = k
      BY <2>1, <2>2 DEF Released, TypeOK
    <2> QED
      BY <2>1, <2>3 DEF Released, TypeOK
  <1> QED
    BY <1>1, LedgerInvariant, PTL DEF Spec, ReleaseFreesAddress
=============================================================================
