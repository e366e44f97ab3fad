----------------------------- MODULE ServiceProofs -----------------------------
(***************************************************************************)
(* Machine-checked safety of the services around the pods: the stores of   *)
(* two peers, the life of a managed network, its DNS server, the records   *)
(* of it that users edit, and those that lead to a pod, for every bound.   *)
(***************************************************************************)
EXTENDS ClusterSync, ManagedNetworks, DnsService, DnsProxy, DnsRecords, FiniteSetTheorems, TLAPS

-----------------------------------------------------------------------------
(* ClusterSync: the peers agree when they have settled. *)

Agree == \A n \in Peers : held[n] = held[Peer(n)]

\* While the stores count as settled they agree, and whatever a resync carries is what they
\* hold; or the one write since is on its way, and the stores differ by it alone.
SettledAgree ==
  settled =>
    \/ /\ pushes = {} /\ Agree
       /\ \A n \in Peers : resync[n].step \in {"merge", "sent"} => resync[n].val = held[n]
    \/ /\ Resyncing = {}
       /\ \E e \in pushes : pushes = {e} /\ e.to \in Peers /\ held[Peer(e.to)] = e.val

\* How far a resync has come that nothing disturbs: it is alone, it carries what the peer
\* held and then what is held here, and from the merge on nothing is there that is not here.
AloneSettles ==
  \A n \in Peers : resync[n].alone =>
    /\ pushes = {} /\ Resyncing = {n}
    /\ resync[n].step = "merge" => resync[n].val = held[Peer(n)]
    /\ resync[n].step \in {"build", "sent"} => held[n] # NoPod \/ held[Peer(n)] = NoPod
    /\ resync[n].step = "sent" => resync[n].val = held[n]

ClusterInv == ClusterTypeOK /\ SettledAgree /\ AloneSettles

LEMMA PeerFacts ==
  \A n \in Peers : Peer(n) \in Peers /\ Peer(n) # n /\ Peer(Peer(n)) = n
                   /\ \A m \in Peers : m = n \/ m = Peer(n)
  BY ClusterAssumption DEF Peer

Resyncs == [step : {"none", "pull", "merge", "build", "sent"}, val : Held, alone : BOOLEAN]

LEMMA ResyncsFacts ==
  /\ NoResync \in Resyncs
  /\ \A r \in Resyncs : [r EXCEPT !.alone = FALSE] \in Resyncs
  <1>1. FALSE \in BOOLEAN
    OBVIOUS
  <1>2. NoPod \in Held
    BY DEF Held
  <1> QED
    BY <1>1, <1>2 DEF Resyncs, NoResync

LEMMA ClusterTypeInit == ClusterInit => ClusterTypeOK
  <1> SUFFICES ASSUME ClusterInit PROVE ClusterTypeOK
    OBVIOUS
  <1>1. linkUp \in BOOLEAN /\ settled \in BOOLEAN
    BY Zenon DEF ClusterInit
  <1> QED
    BY <1>1, ResyncsFacts, ClusterAssumption DEF Resyncs, ClusterInit, ClusterTypeOK, Held

LEMMA WriteType ==
  ASSUME ClusterTypeOK, NEW n \in Peers, NEW val \in Held, Write(n, val),
         hosts' \subseteq Peers, UNCHANGED <<broken, linkUp, peerUp, cuts>>
  PROVE  ClusterTypeOK'
  <1> USE ClusterAssumption, PeerFacts DEF ClusterTypeOK, Write
  <1>1. settled' \in BOOLEAN
    BY Zenon
  <1>2. pushes' \subseteq [to : Peers, val : Held, id : 1 .. MaxWrites]
    OBVIOUS
  <1>3. resync' \in [Peers -> Resyncs]
    BY ResyncsFacts DEF Resyncs
  <1> QED
    BY <1>1, <1>2, <1>3 DEF Resyncs

LEMMA ClusterTypeNext == ClusterTypeOK /\ [ClusterNext]_clusterVars => ClusterTypeOK'
  <1> SUFFICES ASSUME ClusterTypeOK, [ClusterNext]_clusterVars PROVE ClusterTypeOK'
    OBVIOUS
  <1> USE ClusterAssumption, PeerFacts
  <1>1. ASSUME NEW n \in Peers, NEW home \in Peers, CreateHere(n, home) PROVE ClusterTypeOK'
    <2>1. writes + 1 \in 1 .. MaxWrites
      BY <1>1 DEF CreateHere, Write, ClusterTypeOK
    <2>2. [home |-> home, write |-> writes + 1] \in Held
      BY <1>1, <2>1 DEF CreateHere, Held, Homes
    <2> QED
      BY <1>1, <2>2, WriteType DEF CreateHere, ClusterTypeOK
  <1>2. ASSUME NEW n \in Peers, UpdateHere(n) PROVE ClusterTypeOK'
    <2>1. writes + 1 \in 1 .. MaxWrites
      BY <1>2 DEF UpdateHere, Write, ClusterTypeOK
    <2>2. [held[n] EXCEPT !.write = writes + 1] \in Held
      BY <1>2, <2>1 DEF UpdateHere, Held, ClusterTypeOK
    <2> QED
      BY <1>2, <2>2, WriteType DEF UpdateHere, ClusterTypeOK
  <1>3. ASSUME NEW n \in Peers, DeleteHere(n) PROVE ClusterTypeOK'
    BY <1>3, WriteType DEF DeleteHere, ClusterTypeOK, Held
  <1>4. ASSUME NEW n \in Peers, ImportHere(n) PROVE ClusterTypeOK'
    <2>1. writes + 1 \in 1 .. MaxWrites
      BY <1>4 DEF ImportHere, Write, ClusterTypeOK
    <2>2. [home |-> NoHome, write |-> writes + 1] \in Held
      BY <1>4, <2>1 DEF ImportHere, Held, Homes
    <2> QED
      BY <1>4, <2>2, WriteType DEF ImportHere, ClusterTypeOK
  <1>5. ASSUME NEW n \in Peers, Stamp(n) PROVE ClusterTypeOK'
    <2>1. writes + 1 \in 1 .. MaxWrites
      BY <1>5 DEF Stamp, Write, ClusterTypeOK
    <2>2. [home |-> n, write |-> writes + 1] \in Held
      BY <1>5, <2>1 DEF Stamp, Held, Homes
    <2> QED
      BY <1>5, <2>2, WriteType DEF Stamp, ClusterTypeOK
  <1>6. ASSUME NEW n \in Peers, RunLocal(n) PROVE ClusterTypeOK'
    BY <1>6 DEF RunLocal, ClusterTypeOK
  <1>7. ASSUME NEW n \in Peers, repairNetworkHealth(n) PROVE ClusterTypeOK'
    <2> DEFINE count == IF n \in hosts THEN 0 ELSE broken[n] + 1
    <2>1. count \in Nat
      BY DEF ClusterTypeOK
    <2>2. count % BrokenThreshold \in 0 .. BrokenThreshold - 1
      BY <2>1
    <2> QED
      BY <1>7, <2>2 DEF repairNetworkHealth, ClusterTypeOK
  <1>8. ASSUME NEW n \in Peers, MonitorPeer(n) PROVE ClusterTypeOK'
    <2>1. settled' \in BOOLEAN
      BY <1>8, Zenon DEF MonitorPeer, ClusterTypeOK
    <2>2. [NoResync EXCEPT !.step = "pull", !.alone = Quiet] \in Resyncs
      <3>1. Quiet \in BOOLEAN
        BY Zenon DEF Quiet
      <3> QED
        BY <3>1, ResyncsFacts DEF Resyncs, NoResync
    <2>3. resync \in [Peers -> Resyncs]
      BY DEF ClusterTypeOK, Resyncs
    <2>4. resync' \in [Peers -> Resyncs]
      <3>1. CASE resync' = resync
        BY <2>3, <3>1
      <3>2. CASE resync' = [m \in Peers |->
                  IF m = n THEN [NoResync EXCEPT !.step = "pull", !.alone = Quiet]
                  ELSE [resync[m] EXCEPT !.alone = FALSE]]
        <4> DEFINE begun == [NoResync EXCEPT !.step = "pull", !.alone = Quiet]
        <4> HIDE DEF begun
        <4> QED
          BY <2>2, <2>3, <3>2, ResyncsFacts DEF begun
      <3> QED
        BY <1>8, <3>1, <3>2 DEF MonitorPeer
    <2> QED
      BY <1>8, <2>1, <2>4 DEF MonitorPeer, ClusterTypeOK, Resyncs
  <1>9. ASSUME NEW n \in Peers, ResyncNext(n) PROVE ClusterTypeOK'
    <2>1. CASE PullPeer(n) \/ MergePeer(n) \/ BuildPayload(n)
      BY <2>1 DEF PullPeer, MergePeer, BuildPayload, Goes, ClusterTypeOK, Held
    <2>2. CASE HandleFullSyncImport(n) \/ ResyncFails(n)
      <3>1. settled' \in BOOLEAN
        BY <2>2, Zenon DEF HandleFullSyncImport, ResyncFails, ClusterTypeOK
      <3> QED
        BY <2>2, <3>1, ResyncsFacts DEF HandleFullSyncImport, ResyncFails, ClusterTypeOK, Resyncs
    <2> QED
      BY <1>9, <2>1, <2>2 DEF ResyncNext
  <1>10. ASSUME NEW e \in pushes, HandleSyncEvent(e) PROVE ClusterTypeOK'
    BY <1>10 DEF HandleSyncEvent, ClusterTypeOK
  <1>11. ASSUME NEW e \in pushes, PushFails(e) PROVE ClusterTypeOK'
    <2>1. settled' \in BOOLEAN
      BY <1>11, Zenon DEF PushFails
    <2> QED
      BY <1>11, <2>1 DEF PushFails, MayCut, ClusterTypeOK
  <1>12. CASE CutLink \/ MendLink
    <2>1. linkUp' \in BOOLEAN
      BY <1>12, Zenon DEF CutLink, MendLink
    <2> QED
      BY <1>12, <2>1 DEF CutLink, MendLink, MayCut, ClusterTypeOK
  <1>13. CASE UNCHANGED clusterVars
    BY <1>13 DEF clusterVars, ClusterTypeOK
  <1> QED
    BY <1>1, <1>2, <1>3, <1>4, <1>5, <1>6, <1>7, <1>8, <1>9, <1>10, <1>11, <1>12, <1>13
    DEF ClusterNext, PushNext

LEMMA ClusterInitInv == ClusterInit => ClusterInv
  <1> SUFFICES ASSUME ClusterInit PROVE SettledAgree /\ AloneSettles
    BY ClusterTypeInit DEF ClusterInv
  <1>1. \A n \in Peers : resync[n].step = "none" /\ ~resync[n].alone
    BY DEF ClusterInit, NoResync
  <1>2. pushes = {} /\ Agree
    BY PeerFacts DEF ClusterInit, Agree
  <1> QED
    BY <1>1, <1>2 DEF SettledAgree, AloneSettles

\* A write leaves the stores settled only if nothing was on its way, and then its push is all
\* they differ by; no resync is alone any more.
LEMMA WriteSettles ==
  ASSUME ClusterInv, NEW n \in Peers, NEW val, Write(n, val)
  PROVE  SettledAgree' /\ AloneSettles'
  <1> DEFINE event == [to |-> Peer(n), val |-> val, id |-> writes + 1]
  <1>1. \A m \in Peers : resync'[m].step = resync[m].step /\ ~resync'[m].alone
    BY DEF Write, ClusterInv, ClusterTypeOK
  <1>2. AloneSettles'
    BY <1>1 DEF AloneSettles
  <1>3. ASSUME settled' PROVE SettledAgree'
    <2>1. settled /\ pushes = {} /\ Resyncing = {}
      BY <1>3 DEF Write, Quiet
    <2>2. Resyncing' = {}
      BY <1>1, <2>1 DEF Resyncing
    <2>3. pushes' = {event} /\ event.to = Peer(n) /\ event.val = val
      BY <2>1 DEF Write
    <2>4. held'[n] = val
      BY DEF Write, ClusterInv, ClusterTypeOK
    <2>5. event \in pushes' /\ event.to \in Peers /\ held'[Peer(event.to)] = event.val
      BY <2>3, <2>4, PeerFacts
    <2> HIDE DEF event
    <2>6. \E e \in pushes' : pushes' = {e} /\ e.to \in Peers /\ held'[Peer(e.to)] = e.val
      BY <2>3, <2>5
    <2> QED
      BY <2>2, <2>6 DEF SettledAgree, Peer
  <1> QED
    BY <1>2, <1>3 DEF SettledAgree

LEMMA MonitorSettles ==
  ASSUME ClusterInv, NEW n \in Peers, MonitorPeer(n)
  PROVE  SettledAgree' /\ AloneSettles'
  <1> USE PeerFacts
  <1>1. CASE UNCHANGED <<resync, settled>>
    BY <1>1 DEF MonitorPeer, ClusterInv, SettledAgree, AloneSettles, Agree, Resyncing, Peer
  <1>2. CASE ~UNCHANGED <<resync, settled>>
    <2> DEFINE begun == [NoResync EXCEPT !.step = "pull", !.alone = Quiet]
    <2>1. /\ resync[n].step = "none"
          /\ resync' = [m \in Peers |-> IF m = n THEN begun ELSE [resync[m] EXCEPT !.alone = FALSE]]
          /\ settled' = (settled /\ pushes = {})
      BY <1>2 DEF MonitorPeer
    <2>2. begun.step = "pull" /\ begun.alone = Quiet
      BY DEF NoResync
    <2> HIDE DEF begun
    <2>3. resync'[n].step = "pull" /\ (resync'[n].alone <=> Quiet)
      BY <2>1, <2>2
    <2>4. \A m \in Peers \ {n} : /\ resync'[m].step = resync[m].step /\ resync'[m].val = resync[m].val
                                 /\ ~resync'[m].alone
      BY <2>1 DEF ClusterInv, ClusterTypeOK
    <2>5. pushes' = pushes /\ held' = held
      BY DEF MonitorPeer
    <2>6. SettledAgree'
      <3> SUFFICES ASSUME settled' PROVE SettledAgree'
        BY DEF SettledAgree
      <3>1. settled /\ pushes = {}
        BY <2>1
      <3>2. Agree /\ \A m \in Peers : resync[m].step \in {"merge", "sent"} => resync[m].val = held[m]
        BY <3>1 DEF ClusterInv, SettledAgree
      <3> QED
        BY <2>3, <2>4, <2>5, <3>1, <3>2 DEF SettledAgree, Agree, Peer
    <2>7. AloneSettles'
      <3>1. Quiet => Resyncing' = {n} /\ pushes' = {}
        BY <2>3, <2>4, <2>5 DEF Quiet, Resyncing
      <3> QED
        BY <2>3, <2>4, <3>1 DEF AloneSettles
    <2> QED
      BY <2>6, <2>7
  <1> QED
    BY <1>1, <1>2

\* A resync that has begun finds the stores settled only in agreement; one that is alone is
\* the only one.
LEMMA UnderWay ==
  ASSUME ClusterInv, NEW n \in Peers, resync[n].step # "none"
  PROVE  /\ settled => /\ pushes = {} /\ Agree
                       /\ \A m \in Peers : resync[m].step \in {"merge", "sent"} => resync[m].val = held[m]
         /\ \A m \in Peers : resync[m].alone => m = n
  BY DEF ClusterInv, SettledAgree, AloneSettles, Resyncing

LEMMA PullSettles ==
  ASSUME ClusterInv, NEW n \in Peers, PullPeer(n) \/ BuildPayload(n)
  PROVE  SettledAgree' /\ AloneSettles'
  <1> USE PeerFacts
  <1>1. /\ resync[n].step # "none" /\ UNCHANGED <<held, pushes, settled>>
        /\ \A m \in Peers \ {n} : resync'[m] = resync[m]
        /\ resync'[n].alone = resync[n].alone
    BY DEF PullPeer, BuildPayload, Goes, ClusterInv, ClusterTypeOK
  <1>2. \/ resync'[n].step = "merge" /\ resync'[n].val = held[Peer(n)]
        \/ /\ resync[n].step = "build" /\ resync'[n].step = "sent" /\ resync'[n].val = held[n]
    BY DEF PullPeer, BuildPayload, Goes, ClusterInv, ClusterTypeOK
  <1>3. SettledAgree'
    <2> SUFFICES ASSUME settled' PROVE SettledAgree'
      BY DEF SettledAgree
    <2>1. /\ pushes = {} /\ Agree
          /\ \A m \in Peers : resync[m].step \in {"merge", "sent"} => resync[m].val = held[m]
      BY <1>1, UnderWay
    <2>2. resync'[n].val = held[n]
      BY <1>2, <2>1 DEF Agree
    <2> QED
      BY <1>1, <2>1, <2>2 DEF SettledAgree, Agree, Peer
  <1>4. Resyncing' = Resyncing
    <2>1. resync'[n].step # "none"
      BY <1>2
    <2> QED
      BY <1>1, <2>1 DEF Resyncing
  <1>5. AloneSettles'
    <2> SUFFICES ASSUME resync[n].alone PROVE AloneSettles'
      BY <1>1, UnderWay DEF AloneSettles
    <2>1. /\ pushes = {} /\ Resyncing = {n}
          /\ resync[n].step = "build" => held[n] # NoPod \/ held[Peer(n)] = NoPod
      BY <1>1 DEF ClusterInv, AloneSettles
    <2>2. \A m \in Peers : resync'[m].alone => m = n
      BY <1>1, UnderWay
    <2>3. Peer(n)' = Peer(n)
      BY DEF Peer
    <2> QED
      BY <1>1, <1>2, <1>4, <2>1, <2>2, <2>3 DEF AloneSettles
  <1> QED
    BY <1>3, <1>5

LEMMA MergeSettles ==
  ASSUME ClusterInv, NEW n \in Peers, MergePeer(n)
  PROVE  SettledAgree' /\ AloneSettles'
  <1> USE PeerFacts
  <1>1. /\ resync[n].step = "merge" /\ UNCHANGED <<pushes, settled>>
        /\ \A m \in Peers \ {n} : resync'[m] = resync[m]
        /\ resync'[n].alone = resync[n].alone /\ resync'[n].step = "build"
    BY DEF MergePeer, Goes, ClusterInv, ClusterTypeOK
  <1>2. held' = IF held[n] = NoPod THEN [held EXCEPT ![n] = resync[n].val] ELSE held
    BY DEF MergePeer
  <1>3. SettledAgree'
    <2> SUFFICES ASSUME settled' PROVE SettledAgree'
      BY DEF SettledAgree
    <2>1. /\ pushes = {} /\ Agree
          /\ \A m \in Peers : resync[m].step \in {"merge", "sent"} => resync[m].val = held[m]
      BY <1>1, UnderWay
    <2>2. held' = held
      BY <1>1, <1>2, <2>1 DEF ClusterInv, ClusterTypeOK
    <2> QED
      BY <1>1, <2>1, <2>2 DEF SettledAgree, Agree, Peer
  <1>4. Resyncing' = Resyncing
    BY <1>1 DEF Resyncing
  <1>5. AloneSettles'
    <2> SUFFICES ASSUME resync[n].alone PROVE AloneSettles'
      BY <1>1, UnderWay DEF AloneSettles
    <2>1. pushes = {} /\ Resyncing = {n} /\ resync[n].val = held[Peer(n)]
      BY <1>1 DEF ClusterInv, AloneSettles
    <2>2. held'[n] # NoPod \/ held'[Peer(n)] = NoPod
      BY <1>2, <2>1 DEF ClusterInv, ClusterTypeOK
    <2>3. \A m \in Peers : resync'[m].alone => m = n
      BY <1>1, UnderWay
    <2> QED
      BY <1>1, <1>4, <2>1, <2>2, <2>3 DEF AloneSettles, Peer
  <1> QED
    BY <1>3, <1>5

LEMMA ImportSettles ==
  ASSUME ClusterInv, NEW n \in Peers, HandleFullSyncImport(n)
  PROVE  SettledAgree' /\ AloneSettles'
  <1> USE PeerFacts
  <1>1. /\ resync[n].step = "sent" /\ pushes' = pushes
        /\ \A m \in Peers \ {n} : resync'[m] = resync[m]
        /\ ~resync'[n].alone /\ resync'[n].step = "none"
        /\ settled' = (settled \/ resync[n].alone)
    BY DEF HandleFullSyncImport, NoResync, ClusterInv, ClusterTypeOK
  <1>2. held' = IF resync[n].val = NoPod THEN held ELSE [held EXCEPT ![Peer(n)] = resync[n].val]
    BY DEF HandleFullSyncImport
  <1>3. AloneSettles'
    BY <1>1, UnderWay DEF AloneSettles
  <1>4. ASSUME settled PROVE SettledAgree'
    <2>1. /\ pushes = {} /\ Agree
          /\ \A m \in Peers : resync[m].step \in {"merge", "sent"} => resync[m].val = held[m]
      BY <1>1, <1>4, UnderWay
    <2>2. held' = held
      BY <1>1, <1>2, <2>1 DEF Agree, ClusterInv, ClusterTypeOK
    <2> QED
      BY <1>1, <2>1, <2>2 DEF SettledAgree, Agree, Peer
  <1>5. ASSUME resync[n].alone PROVE SettledAgree'
    <2>1. /\ pushes = {} /\ Resyncing = {n} /\ resync[n].val = held[n]
          /\ held[n] # NoPod \/ held[Peer(n)] = NoPod
      BY <1>1, <1>5 DEF ClusterInv, AloneSettles
    <2>2. held'[n] = held'[Peer(n)]
      BY <1>2, <2>1 DEF ClusterInv, ClusterTypeOK
    <2>3. Agree'
      BY <2>2 DEF Agree, Peer
    <2>4. \A m \in Peers : resync'[m].step = "none"
      BY <1>1, <2>1 DEF Resyncing
    <2> QED
      BY <1>1, <2>1, <2>3, <2>4 DEF SettledAgree
  <1> QED
    BY <1>1, <1>3, <1>4, <1>5 DEF SettledAgree

LEMMA ResyncFailSettles ==
  ASSUME ClusterInv, NEW n \in Peers, ResyncFails(n)
  PROVE  SettledAgree' /\ AloneSettles'
  <1>1. /\ resync[n].step # "none" /\ UNCHANGED <<held, pushes, settled>>
        /\ \A m \in Peers \ {n} : resync'[m] = resync[m]
        /\ ~resync'[n].alone /\ resync'[n].step = "none"
    BY DEF ResyncFails, NoResync, ClusterInv, ClusterTypeOK
  <1>2. SettledAgree'
    BY <1>1, UnderWay DEF SettledAgree, Agree, Peer
  <1>3. AloneSettles'
    BY <1>1, UnderWay DEF AloneSettles
  <1> QED
    BY <1>2, <1>3

LEMMA EventSettles ==
  ASSUME ClusterInv, NEW e \in pushes, HandleSyncEvent(e)
  PROVE  SettledAgree' /\ AloneSettles'
  <1> USE PeerFacts
  <1>1. AloneSettles'
    BY DEF HandleSyncEvent, ClusterInv, AloneSettles
  <1>2. ASSUME settled PROVE SettledAgree'
    <2>1. Resyncing = {} /\ pushes = {e} /\ e.to \in Peers /\ held[Peer(e.to)] = e.val
      BY <1>2 DEF ClusterInv, SettledAgree
    <2>2. pushes' = {} /\ held'[e.to] = held'[Peer(e.to)]
      BY <2>1 DEF HandleSyncEvent, ClusterInv, ClusterTypeOK
    <2>3. Agree'
      <3>1. \A m \in Peers : m = e.to \/ m = Peer(e.to)
        BY <2>1
      <3>2. Peer(Peer(e.to)) = e.to
        BY <2>1
      <3> QED
        BY <2>2, <3>1, <3>2 DEF Agree, Peer
    <2>4. \A m \in Peers : resync'[m].step = "none"
      BY <2>1 DEF Resyncing, HandleSyncEvent
    <2> QED
      BY <2>2, <2>3, <2>4 DEF SettledAgree
  <1> QED
    BY <1>1, <1>2 DEF SettledAgree, HandleSyncEvent

LEMMA ClusterInvNext == ClusterInv /\ [ClusterNext]_clusterVars => ClusterInv'
  <1> SUFFICES ASSUME ClusterInv, [ClusterNext]_clusterVars PROVE SettledAgree' /\ AloneSettles'
    BY ClusterTypeNext DEF ClusterInv
  <1>1. ASSUME NEW n \in Peers, NEW home \in Peers, CreateHere(n, home)
        PROVE  SettledAgree' /\ AloneSettles'
    BY <1>1, WriteSettles DEF CreateHere
  <1>2. ASSUME NEW n \in Peers, UpdateHere(n) \/ DeleteHere(n) \/ ImportHere(n) \/ Stamp(n)
        PROVE  SettledAgree' /\ AloneSettles'
    BY <1>2, WriteSettles DEF UpdateHere, DeleteHere, ImportHere, Stamp
  <1>3. CASE UNCHANGED <<held, pushes, resync, settled>>
    BY <1>3 DEF ClusterInv, SettledAgree, AloneSettles, Agree, Resyncing, Peer
  <1>4. ASSUME NEW n \in Peers, RunLocal(n) \/ repairNetworkHealth(n)
        PROVE  SettledAgree' /\ AloneSettles'
    BY <1>3, <1>4 DEF RunLocal, repairNetworkHealth
  <1>5. ASSUME NEW n \in Peers, MonitorPeer(n) PROVE SettledAgree' /\ AloneSettles'
    BY <1>5, MonitorSettles
  <1>6. ASSUME NEW n \in Peers, ResyncNext(n) PROVE SettledAgree' /\ AloneSettles'
    BY <1>6, PullSettles, MergeSettles, ImportSettles, ResyncFailSettles DEF ResyncNext
  <1>7. ASSUME NEW e \in pushes, PushFails(e) PROVE SettledAgree' /\ AloneSettles'
    BY <1>7 DEF PushFails, ClusterInv, SettledAgree, AloneSettles
  <1>8. CASE CutLink \/ MendLink \/ UNCHANGED clusterVars
    BY <1>3, <1>8 DEF CutLink, MendLink, clusterVars
  <1> QED
    BY <1>1, <1>2, <1>4, <1>5, <1>6, <1>7, <1>8, EventSettles DEF ClusterNext, PushNext

\* Two peers that have settled, with nothing on its way, hold the same version of the pod:
\* after any writes, cuts of the link, lost pushes and resyncs in between.
THEOREM PeersAgreeTheorem == ClusterSpec => []PeersAgree
  <1>1. ClusterInv => PeersAgree
    BY DEF ClusterInv, SettledAgree, PeersAgree, Quiet, Agree
  <1> QED
    BY <1>1, ClusterInitInv, ClusterInvNext, PTL DEF ClusterSpec

-----------------------------------------------------------------------------
(* ManagedNetworks: nothing is left of a network that has been deleted. *)

\* What holds of a network as long as no call has failed and no cycle has deployed in the
\* middle of a request: the two records are the same and the pool is registered with them;
\* the cycle deploys for a record that is there, as it is; what the device and the DNS pod
\* hold is gone when it should be, at each stage of a deletion.
NetClean ==
  netFaults = 0 /\ ~raced =>
    /\ netStore = netMem /\ (registered <=> There(netMem))
    /\ deploy["cycle"] # "idle" =>
         req = "none" /\ There(netMem) /\ netMem.managed /\ base = netMem
    /\ deploy["request"] # "idle" => req = "reply" /\ netMem.managed
    /\ There(netMem) /\ req \notin {"bridge", "rest"} => netMem.provisioned
    /\ ~There(netMem) \/ req = "check" => infra = {}
    /\ ~There(netMem) \/ req \in {"deprovision", "check"} \/ ~netMem.managed =>
         dnsPod \subseteq {"box"} /\ dnsConfig = {}

\* A request in progress has its record before it.
NetAsked == req # "none" => There(netMem)

NetInv == NetTypeOK /\ NetAsked /\ NetClean

LEMMA NetInitInv == NetInit => NetInv
  <1> SUFFICES ASSUME NetInit PROVE NetInv
    OBVIOUS
  <1>1. NetTypeOK
    <2>1. registered \in BOOLEAN /\ raced \in BOOLEAN
      BY Zenon DEF NetInit
    <2> QED
      BY <2>1, NetAssumption DEF NetInit, NetTypeOK, Nets
  <1>2. NetClean
    BY DEF NetInit, NetClean, There, NoNet, Workers
  <1> QED
    BY <1>1, <1>2 DEF NetInv, NetAsked, NetInit

LEMMA NetFacts ==
  /\ NoNet \in Nets
  /\ \A managed, provisioned \in BOOLEAN :
       [managed |-> managed, provisioned |-> provisioned, gone |-> FALSE] \in Nets
  /\ \A net \in Nets, managed \in BOOLEAN :
       There(net) => [net EXCEPT !.managed = managed] \in Nets
  /\ \A net \in Nets : There(net) => [net EXCEPT !.provisioned = TRUE] \in Nets
  /\ \A net \in Nets : net.managed \in BOOLEAN /\ net.provisioned \in BOOLEAN
  /\ \A net \in Nets : ~There(net) => net = NoNet
  /\ \A net \in Nets : There(net) =>
       net \in [managed : BOOLEAN, provisioned : BOOLEAN, gone : {FALSE}]
  <1>1. NoNet \in Nets /\ ~There(NoNet)
    BY DEF Nets, NoNet, There
  <1>2. \A managed, provisioned \in BOOLEAN :
          [managed |-> managed, provisioned |-> provisioned, gone |-> FALSE] \in Nets
    BY DEF Nets
  <1>3. \A net \in Nets : net # NoNet =>
          net \in [managed : BOOLEAN, provisioned : BOOLEAN, gone : {FALSE}]
    BY DEF Nets
  <1>4. \A net \in Nets : net # NoNet => There(net)
    <2>1. \A net \in [managed : BOOLEAN, provisioned : BOOLEAN, gone : {FALSE}] : net.gone = FALSE
      OBVIOUS
    <2> QED
      BY <1>3, <2>1 DEF There
  <1>5. \A net \in Nets, managed \in BOOLEAN :
          There(net) => [net EXCEPT !.managed = managed] \in Nets
    BY <1>1, <1>3 DEF Nets
  <1>6. \A net \in Nets : There(net) => [net EXCEPT !.provisioned = TRUE] \in Nets
    <2>1. TRUE \in BOOLEAN
      OBVIOUS
    <2> QED
      BY <1>1, <1>3, <2>1 DEF Nets
  <1>7. \A net \in Nets : net.managed \in BOOLEAN /\ net.provisioned \in BOOLEAN
    <2>1. \A net \in [managed : BOOLEAN, provisioned : BOOLEAN, gone : {FALSE}] :
            net.managed \in BOOLEAN /\ net.provisioned \in BOOLEAN
      OBVIOUS
    <2>2. NoNet.managed = FALSE /\ NoNet.provisioned = FALSE
      BY DEF NoNet
    <2>3. NoNet.managed \in BOOLEAN /\ NoNet.provisioned \in BOOLEAN
      BY <2>2, Zenon
    <2> QED
      BY <1>3, <2>1, <2>3
  <1> QED
    BY <1>1, <1>2, <1>3, <1>4, <1>5, <1>6, <1>7, Zenon

\* A step of deployManagedDNS.
LEMMA DeployNetInv ==
  ASSUME NetInv, NEW w \in Workers, DeployStep(w)
  PROVE  NetInv'
  <1> USE DEF DeployStep, Deploying, WriteConfig, StoreDnsPod, MakeDnsPod, WriteEndpoint, Beside,
              Fail, Ok
  <1>1. NetTypeOK'
    <2>1. netStore' \in Nets /\ netFaults' \in 0 .. MaxNetFaults
      BY NetAssumption DEF NetInv, NetTypeOK
    <2>2. /\ dnsPod' \subseteq {"tracked", "store", "box"} /\ dnsConfig' \subseteq {"mem", "store"}
          /\ deploy' \in [Workers -> {"idle", "config", "store", "make", "endpoint"}]
      BY DEF NetInv, NetTypeOK
    <2>3. UNCHANGED <<netMem, registered, infra, userPod, req, base, raced, netRestarts>>
      OBVIOUS
    <2> QED
      BY <2>1, <2>2, <2>3 DEF NetInv, NetTypeOK
  <1>2. NetClean'
    <2> SUFFICES ASSUME netFaults' = 0, ~raced' PROVE NetClean'
      BY DEF NetClean
    <2>1. netFaults = 0 /\ ~raced /\ UNCHANGED netFaults
      BY DEF NetInv, NetTypeOK
    <2>2. NetClean!2
      BY <2>1 DEF NetInv, NetClean
    <2>3. /\ deploy[w] # "idle" /\ UNCHANGED <<netMem, registered, infra, req, base>>
          /\ \A v \in Workers : deploy'[v] # "idle" => deploy[v] # "idle"
      BY DEF NetInv, NetTypeOK
    <2>4. There(netMem) /\ netMem.managed /\ req \notin {"deprovision", "check"}
      BY <2>2, <2>3 DEF Workers, NetInv, NetAsked
    <2>5. netStore' = netMem
      BY <2>2, <2>3
    <2> QED
      BY <2>2, <2>3, <2>4, <2>5 DEF NetClean, There, Workers
  <1>3. NetAsked'
    BY DEF NetInv, NetAsked, There
  <1> QED
    BY <1>1, <1>2, <1>3 DEF NetInv

\* The first steps of a request that creates a network, up to the deployment of its DNS pod.
LEMMA ProvisionNetInv ==
  ASSUME NetInv, (\E managed \in BOOLEAN : CreateNetwork(managed)) \/ MakeBridge \/ ProvisionRest
                   \/ BeginDeploy \/ Reply
  PROVE  NetInv'
  <1> USE DEF Step, Fail, Ok
  <1>1. ASSUME NEW managed \in BOOLEAN, CreateNetwork(managed) PROVE NetInv'
    <2>1. netMem' = [managed |-> managed, provisioned |-> FALSE, gone |-> FALSE]
      BY <1>1 DEF CreateNetwork
    <2>2. netMem' \in Nets
      BY <2>1, NetFacts
    <2>3. registered' \in BOOLEAN /\ registered'
      BY <1>1, Zenon DEF CreateNetwork
    <2>4. NetTypeOK'
      BY <1>1, <2>2, <2>3 DEF CreateNetwork, NetInv, NetTypeOK
    <2>5. There(netMem)'
      BY <2>1 DEF There
    <2>6. NetClean'
      BY <1>1, <2>3, <2>5 DEF CreateNetwork, NetInv, NetClean
    <2> QED
      BY <2>4, <2>5, <2>6 DEF NetInv, NetAsked
  <1>2. CASE MakeBridge
    <2>1. /\ infra' \subseteq Infra /\ netFaults' \in 0 .. MaxNetFaults
          /\ req' \in {"rest", "deploy"} /\ deploy' = deploy
      <3>1. infra \subseteq Infra /\ "bridge" \in Infra /\ netFaults \in 0 .. MaxNetFaults
        BY DEF NetInv, NetTypeOK, Infra
      <3> QED
        BY <1>2, <3>1, NetAssumption DEF MakeBridge
    <2>2. NetTypeOK'
      BY <1>2, <2>1 DEF MakeBridge, NetInv, NetTypeOK
    <2>3. NetAsked' /\ NetClean'
      BY <1>2, NetAssumption DEF MakeBridge, NetInv, NetTypeOK, NetAsked, NetClean, There
    <2> QED
      BY <2>2, <2>3 DEF NetInv
  <1>3. CASE ProvisionRest
    <2>1. /\ req = "rest" /\ req' = "deploy" /\ netMem' = [netMem EXCEPT !.provisioned = TRUE]
          /\ UNCHANGED <<registered, dnsPod, dnsConfig, userPod, deploy, base, raced, netRestarts>>
          /\ netStore' \in {netMem', netStore} /\ infra' \subseteq Infra
          /\ netFaults' \in 0 .. MaxNetFaults
          /\ netFaults' = 0 => netFaults = 0 /\ netStore' = netMem'
      <3>1. infra \subseteq Infra /\ netFaults \in 0 .. MaxNetFaults
        BY <1>3 DEF NetInv, NetTypeOK
      <3> QED
        BY <1>3, <3>1, NetAssumption DEF ProvisionRest, Infra
    <2>2. There(netMem) /\ netMem \in Nets
      BY <2>1 DEF NetInv, NetAsked, NetTypeOK
    <2>3. netMem' \in Nets
      BY <2>1, <2>2, NetFacts
    <2>4. netMem \in [managed : BOOLEAN, provisioned : BOOLEAN, gone : {FALSE}]
      BY <2>2, NetFacts
    <2>5. There(netMem)' /\ netMem'.provisioned /\ netMem'.managed = netMem.managed
      BY <2>1, <2>2, <2>4 DEF There
    <2>6. NetTypeOK'
      BY <2>1, <2>3 DEF NetInv, NetTypeOK
    <2>7. NetAsked' /\ NetClean'
      BY <2>1, <2>2, <2>5 DEF NetInv, NetAsked, NetClean
    <2> QED
      BY <2>6, <2>7 DEF NetInv
  <1>4. CASE BeginDeploy
    <2>1. NetTypeOK'
      BY <1>4 DEF BeginDeploy, NetInv, NetTypeOK
    <2>2. NetAsked' /\ NetClean'
      BY <1>4 DEF BeginDeploy, NetInv, NetTypeOK, NetAsked, NetClean, There, Workers
    <2> QED
      BY <2>1, <2>2 DEF NetInv
  <1>5. CASE Reply
    <2>1. NetTypeOK'
      BY <1>5 DEF Reply, NetInv, NetTypeOK
    <2>2. NetAsked' /\ NetClean'
      BY <1>5 DEF Reply, NetInv, NetTypeOK, NetAsked, NetClean, There
    <2> QED
      BY <2>1, <2>2 DEF NetInv
  <1> QED
    BY <1>1, <1>2, <1>3, <1>4, <1>5

\* What an update writes, and what it does to the DNS pod.
LEMMA UpdateNetInv ==
  ASSUME NetInv, NEW managed \in BOOLEAN, There(netMem),
         netMem' \in Nets, There(netMem)', netMem'.managed = managed,
         netMem'.provisioned = netMem.provisioned \/ netFaults' # 0,
         netStore' = netMem', netFaults' \in 0 .. MaxNetFaults,
         netFaults' = 0 => netFaults = 0, TransitionDNS(managed)
  PROVE  NetInv'
  <1>1. /\ req = "none" /\ req' \in {"none", "deploy"}
        /\ UNCHANGED <<registered, infra, userPod, deploy, base, netRestarts>>
    BY DEF TransitionDNS, Step
  <1>2. raced' = (raced \/ deploy["cycle"] # "idle") /\ raced' \in BOOLEAN
    BY Zenon DEF TransitionDNS
  <1>3. /\ dnsPod' \subseteq {"tracked", "store", "box"} /\ dnsConfig' \subseteq {"mem", "store"}
        /\ netMem.managed /\ ~managed /\ dnsPod \subseteq {"tracked", "store", "box"} =>
             TearDown
        /\ ~(netMem.managed /\ ~managed) => UNCHANGED <<dnsPod, dnsConfig>>
    BY DEF TransitionDNS, TearDown, NetInv, NetTypeOK
  <1>4. NetTypeOK'
    BY <1>1, <1>2, <1>3 DEF NetInv, NetTypeOK
  <1>5. ASSUME netFaults' = 0, ~raced' PROVE NetClean!2'
    <2>1. NetClean!2 /\ deploy["cycle"] = "idle"
      BY <1>2, <1>5 DEF NetInv, NetClean
    <2>2. deploy["request"] = "idle" /\ netMem.provisioned /\ netMem'.provisioned
      BY <1>1, <1>5, <2>1
    <2>3. ASSUME ~managed PROVE dnsPod' \subseteq {"box"} /\ dnsConfig' = {}
      <3>1. CASE netMem.managed
        BY <1>3, <2>3, <3>1 DEF TearDown, NetInv, NetTypeOK
      <3>2. CASE ~netMem.managed
        BY <1>3, <2>1, <3>2
      <3> QED
        BY <3>1, <3>2
    <2> QED
      BY <1>1, <1>5, <2>1, <2>2, <2>3
  <1> QED
    BY <1>4, <1>5 DEF NetInv, NetAsked, NetClean

\* The steps of a deletion.
LEMMA DeleteNetInv ==
  ASSUME NetInv, DeleteNetwork \/ Deprovision \/ RefuseDelete \/ FinishDelete
  PROVE  NetInv'
  <1> USE DEF Step, Fail, Ok
  <1>1. CASE DeleteNetwork
    <2>1. raced' = (raced \/ deploy["cycle"] # "idle") /\ raced' \in BOOLEAN
      BY <1>1, Zenon DEF DeleteNetwork
    <2>2. /\ dnsPod' \subseteq {"tracked", "store", "box"} /\ dnsConfig' \subseteq {"mem", "store"}
          /\ netMem.managed => dnsPod' \subseteq {"box"} /\ dnsConfig' = {}
          /\ ~netMem.managed => UNCHANGED <<dnsPod, dnsConfig>>
      BY <1>1 DEF DeleteNetwork, TearDown, NetInv, NetTypeOK
    <2>3. NetTypeOK'
      BY <1>1, <2>1, <2>2 DEF DeleteNetwork, NetInv, NetTypeOK
    <2>4. NetAsked' /\ NetClean'
      BY <1>1, <2>1, <2>2 DEF DeleteNetwork, NetInv, NetAsked, NetClean, There
    <2> QED
      BY <2>3, <2>4 DEF NetInv
  <1>2. CASE Deprovision
    <2>1. /\ infra' \subseteq infra /\ netFaults' \in 0 .. MaxNetFaults
          /\ netFaults' = 0 /\ netMem.provisioned => infra' = {}
          /\ netFaults' = 0 => netFaults = 0
      BY <1>2, NetAssumption DEF Deprovision, NetInv, NetTypeOK
    <2>2. NetTypeOK'
      BY <1>2, <2>1 DEF Deprovision, NetInv, NetTypeOK
    <2>3. NetAsked' /\ NetClean'
      BY <1>2, <2>1 DEF Deprovision, NetInv, NetAsked, NetClean, There
    <2> QED
      BY <2>2, <2>3 DEF NetInv
  <1>3. CASE RefuseDelete
    <2>1. NetTypeOK'
      BY <1>3 DEF RefuseDelete, NetInv, NetTypeOK
    <2>2. NetAsked' /\ NetClean'
      BY <1>3 DEF RefuseDelete, NetInv, NetTypeOK, NetAsked, NetClean, There
    <2> QED
      BY <2>1, <2>2 DEF NetInv
  <1>4. CASE FinishDelete
    <2>1. /\ netMem' \in Nets /\ netStore' \in Nets /\ netFaults' \in 0 .. MaxNetFaults
          /\ netFaults' = 0 => netFaults = 0 /\ netMem' = NoNet /\ netStore' = NoNet
      BY <1>4, NetFacts, NetAssumption DEF FinishDelete, NetInv, NetTypeOK
    <2>2. registered' \in BOOLEAN /\ (netFaults' = 0 => ~registered')
      <3>1. netFaults + 1 # 0
        BY DEF NetInv, NetTypeOK
      <3> QED
        BY <1>4, <3>1, Zenon DEF FinishDelete, NetInv, NetTypeOK
    <2>3. NetTypeOK'
      BY <1>4, <2>1, <2>2 DEF FinishDelete, NetInv, NetTypeOK
    <2>4. /\ req = "check" /\ req' = "none"
          /\ UNCHANGED <<infra, dnsPod, dnsConfig, deploy, raced>>
      BY <1>4 DEF FinishDelete
    <2>5. ASSUME netFaults' = 0, ~raced' PROVE NetClean!2'
      <3>1. NetClean!2
        BY <2>1, <2>4, <2>5 DEF NetInv, NetClean
      <3>2. ~There(netMem)'
        BY <2>1, <2>5 DEF There, NoNet
      <3>3. infra = {} /\ dnsPod \subseteq {"box"} /\ dnsConfig = {}
            /\ deploy["cycle"] = "idle" /\ deploy["request"] = "idle"
        BY <2>4, <3>1
      <3> QED
        BY <2>1, <2>2, <2>4, <2>5, <3>2, <3>3
    <2> QED
      BY <2>3, <2>4, <2>5 DEF NetInv, NetAsked, NetClean
  <1> QED
    BY <1>1, <1>2, <1>3, <1>4

\* The steps of the reconciler and of the pods.
LEMMA CycleNetInv ==
  ASSUME NetInv, RecreateDns \/ TrackDnsPod \/ CleanDnsBox \/ TrackUserPod \/ DeleteDnsPod \/ UserPod
  PROVE  NetInv'
  <1> USE DEF Fail, Ok
  <1>1. CASE RecreateDns
    <2>1. raced' \in BOOLEAN /\ (~raced' => ~raced /\ req = "none")
      BY <1>1, Zenon DEF RecreateDns
    <2>2. NetTypeOK'
      BY <1>1, <2>1 DEF RecreateDns, Deploying, NetInv, NetTypeOK
    <2>3. NetAsked' /\ NetClean'
      BY <1>1, <2>1
      DEF RecreateDns, Deploying, NetInv, NetTypeOK, NetAsked, NetClean, There, Workers
    <2> QED
      BY <2>2, <2>3 DEF NetInv
  <1>2. CASE TrackDnsPod
    <2>1. NetTypeOK'
      <3>1. netFaults' \in 0 .. MaxNetFaults
        BY <1>2, NetAssumption DEF TrackDnsPod, NetInv, NetTypeOK
      <3>2. dnsPod' \subseteq {"tracked", "store", "box"}
        BY <1>2 DEF TrackDnsPod, NetInv, NetTypeOK
      <3> QED
        BY <1>2, <3>1, <3>2 DEF TrackDnsPod, NetInv, NetTypeOK
    <2>2. NetAsked' /\ NetClean'
      BY <1>2 DEF TrackDnsPod, NetInv, NetTypeOK, NetAsked, NetClean, There
    <2> QED
      BY <2>1, <2>2 DEF NetInv
  <1>3. CASE CleanDnsBox
    <2>1. NetTypeOK'
      BY <1>3 DEF CleanDnsBox, NetInv, NetTypeOK
    <2>2. NetAsked' /\ NetClean'
      BY <1>3 DEF CleanDnsBox, NetInv, NetTypeOK, NetAsked, NetClean, There
    <2> QED
      BY <2>1, <2>2 DEF NetInv
  <1>4. CASE TrackUserPod \/ UserPod
    <2>1. NetTypeOK'
      BY <1>4 DEF TrackUserPod, UserPod, NetInv, NetTypeOK
    <2>2. NetAsked' /\ NetClean'
      <3>1. UNCHANGED <<netMem, netStore, registered, infra, dnsPod, dnsConfig, req, deploy, base,
                        raced, netFaults>>
        BY <1>4 DEF TrackUserPod, UserPod
      <3> QED
        BY <3>1 DEF NetInv, NetAsked, NetClean, There
    <2> QED
      BY <2>1, <2>2 DEF NetInv
  <1>5. CASE DeleteDnsPod
    <2>1. NetTypeOK'
      BY <1>5, NetAssumption DEF DeleteDnsPod, NetInv, NetTypeOK
    <2>2. NetAsked' /\ NetClean'
      BY <1>5 DEF DeleteDnsPod, NetInv, NetTypeOK, NetAsked, NetClean, There
    <2> QED
      BY <2>1, <2>2 DEF NetInv
  <1> QED
    BY <1>1, <1>2, <1>3, <1>4, <1>5

LEMMA RestartNetInv ==
  ASSUME NetInv, RestartNetworks
  PROVE  NetInv'
  <1>1. /\ netMem' = netStore /\ netStore' = netStore /\ req' = "none" /\ base' = netStore
        /\ dnsPod' = dnsPod \ {"tracked"} /\ userPod' = userPod \ {"tracked"}
        /\ UNCHANGED <<infra, raced>> /\ netRestarts' \in 0 .. MaxNetRestarts
    BY NetAssumption DEF RestartNetworks, NetInv, NetTypeOK
  <1>2. registered' = There(netStore) /\ registered' \in BOOLEAN
    BY Zenon DEF RestartNetworks, There
  <1>3. /\ netFaults' \in 0 .. MaxNetFaults
        /\ netFaults' = 0 => netFaults = 0
    BY NetAssumption DEF RestartNetworks, Ok, Fail, NetInv, NetTypeOK
  <1>4. /\ deploy' \in [Workers -> {"idle", "config"}] /\ deploy'["request"] = "idle"
        /\ deploy'["cycle"] # "idle" => There(netStore) /\ netStore.managed
    BY DEF RestartNetworks, Workers
  <1>5. dnsConfig' \subseteq {"mem", "store"} /\ (dnsConfig = {} => dnsConfig' = {})
    BY DEF RestartNetworks
  <1>6. NetTypeOK'
    <2>1. deploy' \in [Workers -> {"idle", "config", "store", "make", "endpoint"}]
      BY <1>4
    <2> QED
      BY <1>1, <1>2, <1>3, <1>5, <2>1 DEF NetInv, NetTypeOK
  <1>7. NetAsked'
    BY <1>1 DEF NetAsked
  <1>8. ASSUME netFaults' = 0, ~raced' PROVE NetClean!2'
    <2>1. NetClean!2 /\ req = "none"
      <3>1. req = "none"
        BY <1>8 DEF RestartNetworks, Ok, Fail, NetInv, NetTypeOK
      <3> QED
        BY <1>1, <1>3, <1>8, <3>1 DEF NetInv, NetClean
    <2>2. There(netMem)' <=> There(netMem)
      BY <1>1, <2>1 DEF There
    <2> QED
      BY <1>1, <1>2, <1>4, <1>5, <2>1, <2>2 DEF There
  <1> QED
    BY <1>6, <1>7, <1>8 DEF NetInv, NetClean

LEMMA NetInvNext == NetInv /\ [NetNext]_netVars => NetInv'
  <1> SUFFICES ASSUME NetInv, [NetNext]_netVars PROVE NetInv'
    OBVIOUS
  <1>1. ASSUME NEW managed \in BOOLEAN, PatchNetwork(managed) PROVE NetInv'
    <2>1. There(netMem) /\ netMem' = [netMem EXCEPT !.managed = managed] /\ netMem \in Nets
      BY <1>1 DEF PatchNetwork, NetInv, NetTypeOK
    <2>2. netMem \in [managed : BOOLEAN, provisioned : BOOLEAN, gone : {FALSE}] /\ netMem' \in Nets
      BY <2>1, NetFacts
    <2>3. There(netMem)' /\ netMem'.managed = managed /\ netMem'.provisioned = netMem.provisioned
      BY <2>1, <2>2 DEF There
    <2>4. /\ netStore' = netMem' /\ netFaults' = netFaults /\ netFaults' \in 0 .. MaxNetFaults
          /\ TransitionDNS(managed)
      BY <1>1 DEF PatchNetwork, Ok, NetInv, NetTypeOK
    <2> QED
      BY <2>1, <2>2, <2>3, <2>4, UpdateNetInv
  <1>2. ASSUME NEW managed \in BOOLEAN, NEW provisioned \in BOOLEAN,
               UpdateNetwork(managed, provisioned)
        PROVE  NetInv'
    <2>1. There(netMem) /\ netMem' = [managed |-> managed, provisioned |-> provisioned, gone |-> FALSE]
      BY <1>2 DEF UpdateNetwork
    <2>2. netMem' \in Nets /\ There(netMem)' /\ netMem'.managed = managed
      BY <2>1, NetFacts DEF There
    <2>3. /\ netFaults' \in 0 .. MaxNetFaults /\ (netFaults' = 0 => netFaults = 0)
          /\ netMem'.provisioned = netMem.provisioned \/ netFaults' # 0
      <3>1. netMem'.provisioned = provisioned
        BY <2>1
      <3> QED
        BY <1>2, <3>1, NetAssumption DEF UpdateNetwork, Ok, Fail, NetInv, NetTypeOK
    <2>4. netStore' = netMem' /\ TransitionDNS(managed)
      BY <1>2 DEF UpdateNetwork
    <2> QED
      BY <2>1, <2>2, <2>3, <2>4, UpdateNetInv
  <1>3. ASSUME NEW w \in Workers, DeployStep(w) PROVE NetInv'
    BY <1>3, DeployNetInv
  <1>4. CASE RequestStep
    BY <1>3, <1>4, ProvisionNetInv, DeleteNetInv DEF RequestStep, Workers
  <1>5. CASE CycleStep
    BY <1>3, <1>5, CycleNetInv DEF CycleStep, Workers
  <1>6. CASE UNCHANGED netVars
    BY <1>6 DEF netVars, NetInv, NetTypeOK, NetAsked, NetClean, There
  <1> QED
    BY <1>1, <1>2, <1>4, <1>5, <1>6, ProvisionNetInv, DeleteNetInv, CycleNetInv, RestartNetInv
    DEF NetNext

\* A network that has been deleted leaves neither bridge, address nor relay, no registration
\* and no record, and of its DNS pod no more than a container that the checker removes, if
\* no call failed and no cycle deployed its DNS pod in the middle of a request.
THEOREM NothingIsLeftTheorem == NetSpec => []NothingIsLeft
  <1>1. NetInv => NothingIsLeft
    BY DEF NetInv, NetClean, NothingIsLeft
  <1> QED
    BY <1>1, NetInitInv, NetInvNext, PTL DEF NetSpec

-----------------------------------------------------------------------------
(* DnsProxy: a record of the users stays. *)

ProxyEntry ==
  [kind : {"pool", "reservation", "record", "forwarder"}, id : Nat, name : Names, says : Says]
ProxyKinds ==
  /\ entries \subseteq ProxyEntry /\ IsFiniteSet(entries)
  /\ listed \subseteq ProxyEntry /\ IsFiniteSet(listed) /\ IsFiniteSet(duplicates)
  /\ patch \in ProxyEntry \cup {Nothing} /\ edits \in Nat /\ proxyFaults \in Nat

\* An id stands for one name, for the records of the server and for those of an old listing
\* together: what the checker deletes by its id still has the name under which it was listed.
IdsAreNames ==
  /\ \A r \in listed : r.kind = "record"
  /\ \A a, b \in entries \cup listed :
       a.kind = "record" /\ b.kind = "record" /\ a.id = b.id => a.name = b.name

ProxyInv == ProxyKinds /\ IdsAreNames

\* What a function takes on a finite set is finite.
LEMMA FiniteValues ==
  ASSUME NEW S, IsFiniteSet(S), NEW f, DOMAIN f = S, f = [x \in S |-> f[x]]
  PROVE  IsFiniteSet({f[x] : x \in S})
  <1> DEFINE T == {f[x] : x \in S}
  <1>1. f \in Surjection(S, T)
    <2>1. f \in [S -> T] /\ \A t \in T : \E x \in S : f[x] = t
      OBVIOUS
    <2> QED
      BY <2>1 DEF Surjection
  <1> HIDE DEF T
  <1>2. IsFiniteSet(T)
    BY <1>1, FS_Surjection
  <1> QED
    BY <1>2 DEF T

LEMMA FiniteIds ==
  ASSUME NEW S, IsFiniteSet(S)
  PROVE  IsFiniteSet({e.id : e \in S})
  <1> DEFINE f == [e \in S |-> e.id]
             ids == {e.id : e \in S}
  <1>1. DOMAIN f = S /\ f = [e \in S |-> f[e]] /\ ids = {f[e] : e \in S}
    OBVIOUS
  <1> HIDE DEF f, ids
  <1>2. IsFiniteSet(ids)
    BY <1>1, FiniteValues
  <1> QED
    BY <1>2 DEF ids

\* What an update by id leaves: each entry, with its kind, its id and its name.
LEMMA FiniteUpdated ==
  ASSUME IsFiniteSet(entries), NEW e, NEW says, Updated(e, says)
  PROVE  IsFiniteSet(entries')
  <1> DEFINE f == [o \in entries |->
                     IF o.kind = e.kind /\ o.id = e.id THEN [o EXCEPT !.says = says] ELSE o]
  <1>1. DOMAIN f = entries /\ f = [o \in entries |-> f[o]] /\ entries' = {f[o] : o \in entries}
    BY DEF Updated
  <1> HIDE DEF f
  <1> QED
    BY <1>1, FiniteValues

\* The ids that are taken are finitely many, so there is one that is not, and FreshId is one.
LEMMA FreshIdFacts ==
  ASSUME ProxyInv
  PROVE  FreshId \in Nat /\ \A e \in entries \cup listed : e.id # FreshId
  <1> DEFINE ids == {e.id : e \in entries \cup listed}
             read == IF patch = Nothing THEN {} ELSE {patch.id}
             taken == ids \cup duplicates \cup read
             n == Cardinality(taken)
  <1>1. IsFiniteSet(ids)
    BY FiniteIds, FS_Union DEF ProxyInv, ProxyKinds
  <1>2. IsFiniteSet(read)
    BY FS_EmptySet, FS_Singleton
  <1>3. IsFiniteSet(taken)
    <2> HIDE DEF ids, read
    <2>1. IsFiniteSet(ids \cup duplicates)
      BY <1>1, FS_Union DEF ProxyInv, ProxyKinds
    <2> QED
      BY <1>2, <2>1, FS_Union
  <1>4. FreshId = CHOOSE i \in 1 .. n + 1 : i \notin taken
    BY DEF FreshId
  <1> HIDE DEF taken
  <1>5. n \in Nat
    BY <1>3, FS_CardinalityType
  <1>6. \E i \in 1 .. n + 1 : i \notin taken
    <2> SUFFICES ASSUME 1 .. n + 1 \subseteq taken PROVE FALSE
      OBVIOUS
    <2>1. Cardinality(1 .. n + 1) <= n
      BY <1>3, FS_Subset
    <2>2. Cardinality(1 .. n + 1) = n + 1
      <3> HIDE DEF n
      <3> QED
        BY <1>5, FS_Interval
    <2> QED
      BY <1>5, <2>1, <2>2
  <1>7. FreshId \in 1 .. n + 1 /\ FreshId \notin taken
    BY <1>4, <1>6
  <1>8. \A e \in entries \cup listed : e.id \in taken
    BY DEF taken
  <1> QED
    BY <1>5, <1>7, <1>8

\* What a step may do to the entries and the listing.
ListsOK ==
  /\ entries \subseteq ProxyEntry /\ IsFiniteSet(entries)
  /\ listed \subseteq ProxyEntry /\ IsFiniteSet(listed) /\ IdsAreNames

LEMMA RemovedOK ==
  ASSUME ProxyInv, entries' \subseteq entries, listed' \subseteq listed
  PROVE  ListsOK'
  <1>1. IsFiniteSet(entries') /\ IsFiniteSet(listed')
    BY FS_Subset DEF ProxyInv, ProxyKinds
  <1>2. IdsAreNames'
    BY DEF ProxyInv, IdsAreNames
  <1> QED
    BY <1>1, <1>2 DEF ProxyInv, ProxyKinds, ListsOK

LEMMA AddedOK ==
  ASSUME ProxyInv, NEW kept \in SUBSET entries, NEW e \in ProxyEntry,
         e.kind = "record" => \A o \in entries \cup listed : o.id # e.id,
         entries' = kept \cup {e}, listed' = listed
  PROVE  ListsOK'
  <1>1. IsFiniteSet(entries')
    <2>1. IsFiniteSet(kept)
      BY FS_Subset DEF ProxyInv, ProxyKinds
    <2> QED
      BY <2>1, FS_AddElement
  <1>2. IdsAreNames'
    BY DEF ProxyInv, IdsAreNames
  <1> QED
    BY <1>1, <1>2 DEF ProxyInv, ProxyKinds, ListsOK

LEMMA CreatedOK ==
  ASSUME ProxyInv, NEW kind \in {"pool", "record"}, NEW name \in Names, NEW says \in Says,
         Created(kind, name, says), listed' = listed
  PROVE  ListsOK'
  <1> DEFINE e == [kind |-> kind, id |-> FreshId, name |-> name, says |-> says]
  <1>1. FreshId \in Nat /\ \A o \in entries \cup listed : o.id # FreshId
    BY FreshIdFacts
  <1>2. e \in ProxyEntry /\ e.id = FreshId
    BY <1>1 DEF ProxyEntry
  <1>3. entries' = entries \cup {e}
    BY DEF Created
  <1> HIDE DEF e
  <1> QED
    BY <1>1, <1>2, <1>3, AddedOK

LEMMA UpsertedOK ==
  ASSUME ProxyInv, NEW name \in Names, NEW says \in Says,
         UpsertDHCPReservation(name, says) \/ EnsureDNSForwarder(name, says), listed' = listed
  PROVE  ListsOK'
  <1>1. CASE UpsertDHCPReservation(name, says)
    <2> DEFINE e == [kind |-> "reservation", id |-> 0, name |-> name, says |-> says]
               kept == entries \ At("reservation", name)
    <2>1. e \in ProxyEntry /\ e.kind # "record"
      BY DEF ProxyEntry
    <2>2. entries' = kept \cup {e} /\ kept \in SUBSET entries
      BY <1>1 DEF UpsertDHCPReservation
    <2> HIDE DEF e, kept
    <2> QED
      BY <2>1, <2>2, AddedOK
  <1>2. CASE EnsureDNSForwarder(name, says)
    <2> DEFINE e == [kind |-> "forwarder", id |-> 0, name |-> name, says |-> says]
    <2>1. e \in ProxyEntry /\ e.kind # "record"
      BY DEF ProxyEntry
    <2>2. entries' = entries \/ entries' = entries \cup {e}
      BY <1>2 DEF EnsureDNSForwarder
    <2> HIDE DEF e
    <2> QED
      BY <2>1, <2>2, AddedOK, RemovedOK
  <1> QED
    BY <1>1, <1>2

LEMMA UpdatedOK ==
  ASSUME ProxyInv, NEW e, NEW says \in Says, Updated(e, says), listed' = listed
  PROVE  ListsOK'
  <1>1. IsFiniteSet(entries')
    BY FiniteUpdated DEF ProxyInv, ProxyKinds
  <1>2. \A o \in ProxyEntry : LET u == [o EXCEPT !.says = says] IN
          u \in ProxyEntry /\ u.kind = o.kind /\ u.id = o.id /\ u.name = o.name
    BY DEF ProxyEntry
  <1>3. \A u \in entries' : u \in ProxyEntry
          /\ \E o \in entries : u.kind = o.kind /\ u.id = o.id /\ u.name = o.name
    <2> SUFFICES ASSUME NEW u \in entries'
                 PROVE  u \in ProxyEntry
                        /\ \E o \in entries : u.kind = o.kind /\ u.id = o.id /\ u.name = o.name
      OBVIOUS
    <2>1. PICK o \in entries : u = IF o.kind = e.kind /\ o.id = e.id
                                     THEN [o EXCEPT !.says = says] ELSE o
      BY DEF Updated
    <2>2. o \in ProxyEntry
      BY DEF ProxyInv, ProxyKinds
    <2> QED
      BY <1>2, <2>1, <2>2
  <1>4. IdsAreNames'
    BY <1>3 DEF ProxyInv, IdsAreNames
  <1> QED
    BY <1>1, <1>3, <1>4 DEF ProxyInv, ProxyKinds, ListsOK

LEMMA ProxyInitInv == ProxyInit => ProxyInv
  BY FS_EmptySet DEF ProxyInit, ProxyInv, ProxyKinds, IdsAreNames

\* What else a step does to the server's client: the parts of ProxyKinds that are no entries.
RestOK ==
  IsFiniteSet(duplicates) /\ patch \in ProxyEntry \cup {Nothing} /\ edits \in Nat /\ proxyFaults \in Nat

LEMMA RequestInv ==
  ASSUME ProxyInv,
         (\E name \in Names, says \in Says : CreateRequest(name, says))
           \/ (\E e \in entries : EntryRequest(e)) \/ WritePatch
  PROVE  ProxyInv' /\ (edits' # edits \/ patch' # patch)
  <1> USE DEF Request, resolveDNSEndpoint, WorkersRest
  <1>1. ASSUME NEW name \in Names, NEW says \in Says, CreateRequest(name, says)
        PROVE  ListsOK' /\ RestOK' /\ edits' # edits
    <2>1. RestOK' /\ edits' # edits /\ listed' = listed
      BY <1>1 DEF CreateRequest, handleCreateDNSRecord, handleCreateDHCPPool,
            handleCreateDHCPReservation, handleCreateDNSForwarder, handleUpdateDHCPReservation,
            RestOK, ProxyInv, ProxyKinds
    <2>2. Created("pool", name, says) \/ Created("record", name, says)
            \/ UpsertDHCPReservation(name, says) \/ EnsureDNSForwarder(name, says)
      BY <1>1 DEF CreateRequest, handleCreateDNSRecord, handleCreateDHCPPool,
            handleCreateDHCPReservation, handleCreateDNSForwarder, handleUpdateDHCPReservation,
            CreateDHCPPool, CreateFullRecord
    <2> QED
      BY <2>1, <2>2, CreatedOK, UpsertedOK
  <1>2. ASSUME NEW e \in entries, EntryRequest(e)
        PROVE  ListsOK' /\ RestOK' /\ edits' # edits
    <2>1. RestOK' /\ edits' # edits /\ listed' = listed
      <3>1. edits' = edits + 1 /\ patch' \in {patch, e}
            /\ UNCHANGED <<listed, duplicates, proxyFaults>>
        BY <1>2 DEF EntryRequest, handleUpdateDNSRecord, handleUpdateDHCPPool,
              handleDeleteDNSRecord, handleDeleteDHCPPool, handleDeleteDHCPReservation,
              handleDeleteDNSForwarder, ReadForPatch
      <3> QED
        BY <3>1 DEF RestOK, ProxyInv, ProxyKinds
    <2>2. (\E says \in Says : Updated(e, says)) \/ entries' = entries \/ Removed(e)
      BY <1>2 DEF EntryRequest, handleUpdateDNSRecord, handleUpdateDHCPPool,
            handleDeleteDNSRecord, handleDeleteDHCPPool, handleDeleteDHCPReservation,
            handleDeleteDNSForwarder, ReadForPatch, UpdateFullRecord, UpdateDHCPPool,
            DeleteRecord, DeleteDHCPPool, DeleteDHCPReservation, DeleteDNSForwarder
    <2>3. Removed(e) => entries' \subseteq entries
      BY DEF Removed
    <2> QED
      BY <2>1, <2>2, <2>3, UpdatedOK, RemovedOK
  <1>3. ASSUME WritePatch PROVE ListsOK' /\ RestOK' /\ patch' # patch
    <2>1. /\ patch' = Nothing /\ patch # Nothing
          /\ UNCHANGED <<edits, reseed, duplicates, listed, proxyFaults>>
      BY <1>3 DEF WritePatch, handlePatchDNSRecord, handlePatchDHCPPool,
            handlePatchDHCPReservation, PatchFails, PatchWrites, Nothing
    <2>2. \/ \E says \in Says : Updated(patch, says) \/ UpsertDHCPReservation(patch.name, says)
          \/ entries' = entries
      BY <1>3 DEF WritePatch, handlePatchDNSRecord, handlePatchDHCPPool,
            handlePatchDHCPReservation, PatchFails, UpdateFullRecord, UpdateDHCPPool
    <2>3. patch.name \in Names
      BY <2>1 DEF ProxyInv, ProxyKinds, ProxyEntry
    <2>4. RestOK'
      BY <2>1 DEF RestOK, ProxyInv, ProxyKinds
    <2> QED
      BY <2>1, <2>2, <2>3, <2>4, UpdatedOK, UpsertedOK, RemovedOK
  <1> QED
    BY <1>1, <1>2, <1>3 DEF ProxyInv, ProxyKinds, ListsOK, RestOK

\* What UsersRecordStays says of a step.
StaysOK ==
  \A r \in At("record", "mine") :
    r \in entries' \/ r.id \in duplicates \/ edits' # edits \/ patch' # patch
      \/ proxyFaults' # proxyFaults

LEMMA SeedInv ==
  ASSUME ProxyInv, ReconcileAsked \/ SeedEntry
  PROVE  ProxyInv' /\ StaysOK
  <1> USE DEF UsersRest, ProxyWorks, ProxyFails
  <1>1. /\ UNCHANGED <<patch, edits, listed, duplicates>>
        /\ proxyFaults' \in Nat
    BY DEF ReconcileAsked, SeedEntry, ListPools, Seeded, Seeding, ProxyInv, ProxyKinds
  <1>2. "asked" \in Names /\ "net" \in Says
    BY DEF Names, Says
  <1>3. \/ entries' = entries
        \/ Created("pool", "asked", "net") \/ Created("record", "asked", "net")
        \/ UpsertDHCPReservation("asked", "net") \/ EnsureDNSForwarder("asked", "net")
    BY DEF ReconcileAsked, SeedEntry, ListPools, Seeded, CreateDHCPPool, RegisterAsked,
           CreateFullRecord
  <1>4. ListsOK'
    BY <1>1, <1>2, <1>3, CreatedOK, UpsertedOK, RemovedOK
  <1>5. StaysOK
    <2>1. \A r \in At("record", "mine") : r \in entries /\ r \notin At("reservation", "asked")
      BY DEF At, Of
    <2> QED
      BY <1>3, <2>1 DEF StaysOK, Created, UpsertDHCPReservation, EnsureDNSForwarder
  <1> QED
    BY <1>1, <1>4, <1>5 DEF ProxyInv, ProxyKinds, ListsOK

LEMMA ZoneInv ==
  ASSUME ProxyInv, ZoneStep
  PROVE  ProxyInv' /\ StaysOK
  <1> USE DEF UsersRest, ProxyWorks, ProxyFails
  <1>1. UNCHANGED <<patch, edits, listed>> /\ proxyFaults' \in Nat /\ entries' \subseteq entries
    BY DEF ZoneStep, InitDNSZones, DeleteDuplicates, ProxyInv, ProxyKinds
  <1>2. IsFiniteSet(duplicates')
    <2>1. CASE InitDNSZones
      <3>1. PICK spare \in SUBSET Of("record") : duplicates' = {r.id : r \in spare}
        BY <2>1 DEF InitDNSZones
      <3>2. IsFiniteSet(spare)
        BY FS_Subset DEF Of, ProxyInv, ProxyKinds
      <3> QED
        BY <3>1, <3>2, FiniteIds
    <2>2. CASE DeleteDuplicates
      BY <2>2, FS_EmptySet DEF DeleteDuplicates
    <2> QED
      BY <2>1, <2>2 DEF ZoneStep
  <1>3. ListsOK'
    BY <1>1, RemovedOK
  <1>4. StaysOK
    BY DEF ZoneStep, InitDNSZones, DeleteDuplicates, StaysOK, At, Of
  <1> QED
    BY <1>1, <1>2, <1>3, <1>4 DEF ProxyInv, ProxyKinds, ListsOK

LEMMA SweepInv ==
  ASSUME ProxyInv, SweepStep
  PROVE  ProxyInv' /\ StaysOK
  <1> USE DEF UsersRest, ProxyWorks, ProxyFails
  <1>1. CASE ListRecords
    <2>1. UNCHANGED <<entries, patch, edits, duplicates, proxyFaults>> /\ listed' = Of("record")
      BY <1>1 DEF ListRecords
    <2>2. IsFiniteSet(listed') /\ listed' \subseteq entries /\ \A r \in listed' : r.kind = "record"
      BY <2>1, FS_Subset DEF Of, ProxyInv, ProxyKinds
    <2>3. IdsAreNames'
      BY <2>1, <2>2 DEF ProxyInv, IdsAreNames
    <2>4. StaysOK
      BY <2>1 DEF StaysOK, At, Of
    <2> QED
      BY <2>1, <2>2, <2>3, <2>4 DEF ProxyInv, ProxyKinds
  <1>2. CASE CleanListed
    <2> DEFINE stale == {r \in listed : r.name = "asked" /\ r.says # "net"}
    <2>1. /\ UNCHANGED <<patch, edits, duplicates>> /\ proxyFaults' \in Nat /\ listed' = {}
          /\ \/ entries' = {e \in entries : e.kind = "record" => e.id \notin {r.id : r \in stale}}
             \/ entries' = entries
      BY <1>2 DEF CleanListed, Swept, ProxyInv, ProxyKinds
    <2>2. ListsOK'
      BY <2>1, RemovedOK
    <2>3. StaysOK
      <3>1. \A r \in At("record", "mine") : r \in entries /\ \A o \in stale : o.id # r.id
        BY DEF At, Of, ProxyInv, IdsAreNames
      <3> QED
        BY <2>1, <3>1 DEF StaysOK
    <2> QED
      BY <2>1, <2>2, <2>3 DEF ProxyInv, ProxyKinds, ListsOK
  <1> QED
    BY <1>1, <1>2 DEF SweepStep

LEMMA ProxyInvNext == ProxyInv /\ [ProxyNext]_proxyVars => ProxyInv' /\ StaysOK
  <1> SUFFICES ASSUME ProxyInv, [ProxyNext]_proxyVars PROVE ProxyInv' /\ StaysOK
    OBVIOUS
  <1>1. CASE (\E name \in Names, says \in Says : CreateRequest(name, says))
               \/ (\E e \in entries : EntryRequest(e)) \/ WritePatch
    BY <1>1, RequestInv DEF StaysOK
  <1>2. CASE ServerLosesAll
    <2>1. /\ entries' = {} /\ UNCHANGED <<patch, edits, listed, duplicates>>
          /\ proxyFaults' \in Nat /\ proxyFaults' # proxyFaults
      BY <1>2 DEF ServerLosesAll, ProxyFails, UsersRest, ProxyInv, ProxyKinds
    <2>2. ListsOK'
      BY <2>1, RemovedOK
    <2> QED
      BY <2>1, <2>2 DEF ProxyInv, ProxyKinds, ListsOK, StaysOK
  <1>3. CASE UNCHANGED proxyVars
    BY <1>3 DEF proxyVars, ProxyInv, ProxyKinds, IdsAreNames, StaysOK, At, Of
  <1> QED
    BY <1>1, <1>2, <1>3, SeedInv, ZoneInv, SweepInv DEF ProxyNext

\* No step of the seeding, of the zone setup or of the checker takes away or changes a record
\* that users made under a name of theirs, from whatever listing it works, unless the cycle
\* had listed it as a duplicate.
THEOREM UsersRecordTheorem == ProxySpec => UsersRecordStays
  <1>1. ProxyInv /\ [ProxyNext]_proxyVars =>
          \A r \in At("record", "mine") :
            r \in entries' \/ r.id \in duplicates \/ edits' # edits \/ patch' # patch
              \/ proxyFaults' # proxyFaults
    BY ProxyInvNext DEF StaysOK
  <1>2. ProxyInv /\ [ProxyNext]_proxyVars => ProxyInv'
    BY ProxyInvNext
  <1> QED
    BY <1>1, <1>2, ProxyInitInv, PTL DEF ProxySpec, UsersRecordStays

-----------------------------------------------------------------------------
(* DnsRecords: a name that leads to its pod goes on doing so. *)

Listings == Recs \cup {NoList}
Registrations == [at : {"idle", "clean", "register", "end"}, ip : Addresses \cup {NoAddress}]
Cleanings == [at : {"idle", "list", "delete"}, ip : Addresses \cup {NoAddress}, seen : Listings]

LEMMA RecConstants ==
  /\ NoAddress \notin Addresses /\ MaxCopies \in Nat /\ MaxCopies >= 1
  /\ MaxMoves \in Nat /\ MaxRecFaults \in Nat
  BY RecordAssumption

\* The kinds of what the components hold, with the shapes that a step replaces.
LEMMA RecKinds ==
  ASSUME RecTypeOK
  PROVE  /\ aRecs \in Recs /\ recordCache \in Listings /\ failedEndpoint \in BOOLEAN
         /\ batchMode \in BOOLEAN /\ podAddress \in Addresses \cup {NoAddress}
         /\ registrar \in [Registrars -> Registrations] /\ cleaner \in Cleanings
         /\ Listed \in Listings /\ Cached \in Listings
         /\ AtRest \in Registrations /\ RecordsRest \in Cleanings
  <1>1. RecTypeOK
    OBVIOUS
  <1>2. Listed \in Listings /\ Cached \in Listings
    BY <1>1 DEF RecTypeOK, Listed, Cached, Listings
  <1>3. AtRest \in Registrations /\ RecordsRest \in Cleanings
    BY DEF AtRest, RecordsRest, Registrations, Cleanings, Listings
  <1>4. batchMode \in BOOLEAN /\ failedEndpoint \in BOOLEAN
    BY <1>1, Zenon DEF RecTypeOK
  <1> QED
    BY <1>1, <1>2, <1>3, <1>4 DEF RecTypeOK, Listings, Registrations, Cleanings

LEMMA CountsFacts ==
  ASSUME NEW r \in Listings, NEW a \in Addresses
  PROVE  r[a] \in Nat
  BY RecConstants DEF Listings, Recs, NoList

\* A deletion takes records from the addresses in S and from no other, and adds none.
LEMMA DeletedFacts ==
  ASSUME RecTypeOK, NEW S, NEW seen \in Listings, NEW r \in Deleted(seen, S)
  PROVE  /\ r \in Recs
         /\ \A a \in Addresses : r[a] <= aRecs[a] /\ (a \notin S => r[a] = aRecs[a])
  <1>1. r \in Recs
    BY DEF Deleted
  <1> SUFFICES ASSUME NEW a \in Addresses
               PROVE  r[a] <= aRecs[a] /\ (a \notin S => r[a] = aRecs[a])
    BY <1>1
  <1>2. aRecs[a] \in Nat /\ seen[a] \in Nat /\ r[a] \in Nat
    BY <1>1, RecKinds, CountsFacts DEF Listings
  <1>3. CASE a \notin S
    BY <1>2, <1>3 DEF Deleted
  <1>4. CASE a \in S
    <2> DEFINE gone == Low(seen[a], aRecs[a])
    <2>1. gone \in Nat
      BY <1>2 DEF Low
    <2>2. r[a] \in (aRecs[a] - gone) .. (IF seen = aRecs THEN aRecs[a] - gone ELSE aRecs[a])
      BY <1>4 DEF Deleted
    <2> HIDE DEF gone
    <2> QED
      BY <1>2, <1>4, <2>1, <2>2
  <1> QED
    BY <1>3, <1>4

\* What a call leaves in the client.
ClientKinds ==
  /\ recordCache' \in Listings /\ failedEndpoint' \in BOOLEAN
  /\ recFaults' = recFaults \/ RecFault

LEMMA DeleteAllFacts ==
  ASSUME RecTypeOK, NEW S, DeleteAll(S)
  PROVE  /\ aRecs' \in Recs /\ ClientKinds
         /\ \A a \in Addresses : aRecs'[a] <= aRecs[a] /\ (a \notin S => aRecs'[a] = aRecs[a])
  <1>1. \A a \in Addresses : aRecs[a] \in Nat
    BY RecKinds, CountsFacts DEF Listings
  <1>2. aRecs' = aRecs \/ aRecs' \in Deleted(Listed, S)
    BY DEF DeleteAll
  <1>3. /\ aRecs' \in Recs
        /\ \A a \in Addresses : aRecs'[a] <= aRecs[a] /\ (a \notin S => aRecs'[a] = aRecs[a])
    <2>1. CASE aRecs' = aRecs
      BY <1>1, <2>1, RecKinds
    <2>2. CASE aRecs' \in Deleted(Listed, S)
      <3>1. PICK r, seen : r = aRecs' /\ seen = Listed /\ r \in Deleted(seen, S)
        BY <2>2
      <3>2. seen \in Listings
        BY <3>1, RecKinds
      <3> QED
        BY <3>1, <3>2, DeletedFacts
    <2> QED
      BY <1>2, <2>1, <2>2
  <1>4. recordCache' \in {recordCache, NoList, Cached}
    BY DEF DeleteAll, ClientRests
  <1>5. failedEndpoint' = failedEndpoint \/ failedEndpoint' = batchMode
    BY Zenon DEF DeleteAll, ClientRests, ListFails
  <1>6. failedEndpoint' \in BOOLEAN
    BY <1>5, RecKinds, Zenon
  <1>7. recFaults' = recFaults \/ RecFault
    BY Zenon DEF DeleteAll, RecOk, ListFails
  <1> QED
    BY <1>3, <1>4, <1>6, <1>7, RecKinds DEF ClientKinds, Listings

LEMMA RegisterHostFacts ==
  ASSUME RecTypeOK, NEW ip \in Addresses \cup {NoAddress}, RegisterHost(ip)
  PROVE  /\ aRecs' \in Recs /\ ClientKinds
         /\ \A a \in Addresses : aRecs'[a] >= aRecs[a] /\ (a # ip => aRecs'[a] = aRecs[a])
  <1>1. \A a \in Addresses : aRecs[a] \in 0 .. MaxCopies
    BY RecKinds DEF Recs
  <1>2. aRecs' = aRecs \/ aRecs' = [aRecs EXCEPT ![ip] = Low(aRecs[ip] + 1, MaxCopies)]
    BY DEF RegisterHost
  <1>3. /\ aRecs' \in Recs
        /\ \A a \in Addresses : aRecs'[a] >= aRecs[a] /\ (a # ip => aRecs'[a] = aRecs[a])
    BY <1>1, <1>2, RecKinds, RecConstants DEF Recs, Low
  <1>4. recordCache' \in {recordCache, NoList, Cached}
    BY DEF RegisterHost, ClientRests
  <1>5. failedEndpoint' = failedEndpoint \/ failedEndpoint' = batchMode
    BY Zenon DEF RegisterHost, ClientRests, ListFails
  <1>6. failedEndpoint' \in BOOLEAN
    BY <1>5, RecKinds, Zenon
  <1>7. recFaults' = recFaults \/ RecFault
    BY Zenon DEF RegisterHost, RecOk, ListFails
  <1> QED
    BY <1>3, <1>4, <1>6, <1>7, RecKinds DEF ClientKinds, Listings
LEMMA RecTypeStep ==
  ASSUME RecTypeOK, podAddress' \in Addresses \cup {NoAddress}, aRecs' \in Recs,
         batchMode' \in BOOLEAN, ClientKinds, registrar' \in [Registrars -> Registrations],
         cleaner' \in Cleanings, moves' \in 0 .. MaxMoves
  PROVE  RecTypeOK'
  <1>1. recFaults' \in 0 .. MaxRecFaults
    BY RecConstants DEF ClientKinds, RecFault, RecTypeOK
  <1>2. batchMode' \in BOOLEAN /\ failedEndpoint' \in BOOLEAN
    BY Zenon DEF ClientKinds
  <1>3. recordCache' \in Recs \cup {NoList}
    BY DEF ClientKinds, Listings
  <1> QED
    BY <1>1, <1>2, <1>3 DEF RecTypeOK, Registrations, Cleanings, Listings

LEMMA BatchKinds ==
  ASSUME RecTypeOK, BeginBatch \/ EndBatch, RecOk \/ RecFault
  PROVE  batchMode' \in BOOLEAN /\ ClientKinds
  <1>1. recordCache' \in Listings /\ (recFaults' = recFaults \/ RecFault)
    BY DEF BeginBatch, EndBatch, Listings, RecOk
  <1>2. batchMode' \in BOOLEAN /\ failedEndpoint' \in BOOLEAN
    BY Zenon DEF BeginBatch, EndBatch
  <1> QED
    BY <1>1, <1>2 DEF ClientKinds

\* What a registration that goes on leaves of the registrars.
LEMMA RegisteringKinds ==
  ASSUME RecTypeOK, NEW w \in Registrars, NEW from, NEW to \in {"idle", "register", "end"},
         Registering(w, from, to)
  PROVE  /\ registrar' \in [Registrars -> Registrations]
         /\ registrar[w].at = from /\ registrar'[w].at = to
         /\ \A v \in Registrars : registrar'[v].ip = registrar[v].ip
         /\ \A v \in Registrars \ {w} : registrar'[v] = registrar[v]
         /\ registrar[w].ip \in Addresses \cup {NoAddress}
  <1>1. registrar \in [Registrars -> Registrations]
    BY RecKinds
  <1>2. [registrar[w] EXCEPT !.at = to] = [at |-> to, ip |-> registrar[w].ip]
    BY <1>1 DEF Registrations
  <1>3. registrar' = [registrar EXCEPT ![w] = [at |-> to, ip |-> registrar[w].ip]]
    BY <1>2 DEF Registering
  <1>4. [at |-> to, ip |-> registrar[w].ip] \in Registrations
        /\ registrar[w].ip \in Addresses \cup {NoAddress}
    BY <1>1 DEF Registrations
  <1>5. registrar[w].at = from
    BY DEF Registering
  <1> QED
    BY <1>1, <1>3, <1>4, <1>5

\* The name of the pod leads to its address and to no other, and who registers or deletes
\* does so for that address.
NameLeads ==
  /\ podAddress # NoAddress /\ aRecs[podAddress] > 0
  /\ \A a \in Addresses \ {podAddress} : aRecs[a] = 0
  /\ \A w \in Registrars :
       registrar[w].at \in {"clean", "register"} => registrar[w].ip = podAddress
  /\ cleaner.at # "idle" => cleaner.ip \in {podAddress, NoAddress}

StaysLed == NameLeads => NameLeads' \/ podAddress' = NoAddress

\* Counts that are lowered at other addresses only, or raised at the address, lead there.
LEMMA StillLeads ==
  ASSUME RecTypeOK, NameLeads, aRecs' \in Recs, podAddress' = podAddress,
         aRecs'[podAddress] >= aRecs[podAddress] \/ aRecs'[podAddress] >= 1,
         \A a \in Addresses \ {podAddress} : aRecs'[a] <= aRecs[a],
         \A w \in Registrars :
           registrar'[w].at \in {"clean", "register"} => registrar'[w].ip = podAddress,
         cleaner'.at # "idle" => cleaner'.ip \in {podAddress, NoAddress}
  PROVE  NameLeads'
  <1>1. podAddress \in Addresses
    BY RecKinds DEF NameLeads
  <1>2. \A a \in Addresses : aRecs[a] \in Nat /\ aRecs'[a] \in Nat
    BY RecKinds, RecConstants DEF Recs
  <1>3. aRecs'[podAddress] > 0
    BY <1>1, <1>2 DEF NameLeads
  <1>4. \A a \in Addresses \ {podAddress} : aRecs'[a] = 0
    BY <1>2 DEF NameLeads
  <1> QED
    BY <1>1, <1>3, <1>4 DEF NameLeads

LEMMA CleanAliasStep ==
  ASSUME RecTypeOK, NEW w \in Registrars, CleanAlias(w)
  PROVE  RecTypeOK' /\ StaysLed
  <1>1. UNCHANGED <<podAddress, batchMode, cleaner, moves>>
    BY DEF CleanAlias
  <1>2. Registering(w, "clean", "register")
    BY DEF CleanAlias
  <1>3. PICK S : S = Addresses \ {registrar[w].ip} /\ DeleteAll(S)
    BY DEF CleanAlias, CleanStaleRecords
  <1>4. /\ aRecs' \in Recs /\ ClientKinds
        /\ \A a \in Addresses : aRecs'[a] <= aRecs[a] /\ (a \notin S => aRecs'[a] = aRecs[a])
    BY <1>3, DeleteAllFacts
  <1>5. /\ registrar' \in [Registrars -> Registrations]
        /\ registrar[w].at = "clean"
        /\ \A v \in Registrars : registrar'[v].ip = registrar[v].ip
        /\ \A v \in Registrars \ {w} : registrar'[v] = registrar[v]
    BY <1>2, RegisteringKinds
  <1>6. RecTypeOK'
    <2>1. batchMode' \in BOOLEAN
      BY <1>1, RecKinds, Zenon
    <2> QED
      BY <1>1, <1>4, <1>5, <2>1, RecKinds, RecTypeStep DEF RecTypeOK
  <1>7. ASSUME NameLeads PROVE NameLeads'
    <2>1. podAddress \in Addresses /\ registrar[w].ip = podAddress
      BY <1>5, <1>7, RecKinds DEF NameLeads
    <2>2. aRecs'[podAddress] >= aRecs[podAddress]
      BY <1>3, <1>4, <2>1, RecKinds, CountsFacts DEF Listings
    <2>3. \A v \in Registrars :
            registrar'[v].at \in {"clean", "register"} => registrar'[v].ip = podAddress
      BY <1>5, <1>7, <2>1 DEF NameLeads
    <2>4. cleaner'.at # "idle" => cleaner'.ip \in {podAddress, NoAddress}
      BY <1>1, <1>7 DEF NameLeads
    <2> QED
      BY <1>1, <1>4, <1>7, <2>2, <2>3, <2>4, StillLeads
  <1> QED
    BY <1>6, <1>7 DEF StaysLed

LEMMA RegisterAliasStep ==
  ASSUME RecTypeOK, NEW w \in Registrars, RegisterAlias(w)
  PROVE  RecTypeOK' /\ StaysLed
  <1>1. UNCHANGED <<podAddress, batchMode, cleaner, moves>>
    BY DEF RegisterAlias
  <1>2. PICK to \in {"idle", "end"} : Registering(w, "register", to)
    BY DEF RegisterAlias
  <1>3. /\ registrar' \in [Registrars -> Registrations]
        /\ registrar[w].at = "register" /\ registrar'[w].at = to
        /\ \A v \in Registrars \ {w} : registrar'[v] = registrar[v]
        /\ registrar[w].ip \in Addresses \cup {NoAddress}
    BY <1>2, RegisteringKinds
  <1>4. PICK ip : ip = registrar[w].ip /\ RegisterHost(ip)
    BY DEF RegisterAlias
  <1>5. /\ aRecs' \in Recs /\ ClientKinds
        /\ \A a \in Addresses : aRecs'[a] >= aRecs[a] /\ (a # ip => aRecs'[a] = aRecs[a])
    BY <1>3, <1>4, RegisterHostFacts
  <1>6. RecTypeOK'
    <2>1. batchMode' \in BOOLEAN
      BY <1>1, RecKinds, Zenon
    <2> QED
      BY <1>1, <1>3, <1>5, <2>1, RecKinds, RecTypeStep DEF RecTypeOK
  <1>7. ASSUME NameLeads PROVE NameLeads'
    <2>1. podAddress \in Addresses /\ ip = podAddress
      BY <1>3, <1>4, <1>7, RecKinds DEF NameLeads
    <2>2. \A a \in Addresses \ {podAddress} : aRecs'[a] <= aRecs[a]
      BY <1>5, <2>1, RecKinds, CountsFacts DEF Listings
    <2>3. \A v \in Registrars :
            registrar'[v].at \in {"clean", "register"} => registrar'[v].ip = podAddress
      BY <1>3, <1>7 DEF NameLeads
    <2>4. cleaner'.at # "idle" => cleaner'.ip \in {podAddress, NoAddress}
      BY <1>1, <1>7 DEF NameLeads
    <2> QED
      BY <1>1, <1>5, <1>7, <2>1, <2>2, <2>3, <2>4, StillLeads
  <1> QED
    BY <1>6, <1>7 DEF StaysLed
\* A step that leaves the address, the records, and who registers or deletes by it alone.
LEMMA RecRestStep ==
  ASSUME RecTypeOK, batchMode' \in BOOLEAN, ClientKinds,
         UNCHANGED <<podAddress, aRecs, registrar, cleaner, moves>>
  PROVE  RecTypeOK' /\ StaysLed
  <1>1. RecTypeOK'
    BY RecKinds, RecTypeStep DEF RecTypeOK
  <1>2. NameLeads => NameLeads'
    BY DEF NameLeads
  <1> QED
    BY <1>1, <1>2 DEF StaysLed

\* reregisterPodDNS, the pod handlers and InitDNSZones.
LEMMA RegistrationStep ==
  ASSUME RecTypeOK,
         \/ BeginReregister \/ EndReregister \/ PodDeleted \/ DropDuplicates
         \/ \E ip \in Addresses : PodCreated(ip)
  PROVE  RecTypeOK' /\ StaysLed
  <1>0. /\ aRecs \in Recs /\ podAddress \in Addresses \cup {NoAddress} /\ cleaner \in Cleanings
        /\ registrar \in [Registrars -> Registrations] /\ moves \in 0 .. MaxMoves
        /\ "cycle" \in Registrars /\ "handler" \in Registrars
    BY RecKinds DEF RecTypeOK, Registrars
  <1>1. CASE BeginReregister
    <2>1. podAddress \in Addresses /\ podAddress' = podAddress /\ UNCHANGED <<aRecs, cleaner, moves>>
      BY <1>0, <1>1 DEF BeginReregister
    <2> DEFINE reg == [at |-> "clean", ip |-> podAddress]
    <2>2. reg \in Registrations /\ reg.ip = podAddress
      BY <2>1 DEF Registrations
    <2>3. registrar' = [registrar EXCEPT !["cycle"] = reg]
      BY <1>1 DEF BeginReregister
    <2> HIDE DEF reg
    <2>4. registrar' \in [Registrars -> Registrations]
      BY <1>0, <2>2, <2>3
    <2>5. batchMode' \in BOOLEAN /\ ClientKinds
      BY <1>1, BatchKinds DEF BeginReregister, RecOk
    <2>6. RecTypeOK'
      BY <1>0, <2>1, <2>4, <2>5, RecTypeStep
    <2>7. NameLeads => NameLeads'
      BY <1>0, <2>1, <2>2, <2>3 DEF NameLeads
    <2> QED
      BY <2>6, <2>7 DEF StaysLed
  <1>2. CASE EndReregister
    <2>1. Registering("cycle", "end", "idle")
          /\ UNCHANGED <<podAddress, aRecs, cleaner, moves>>
      BY <1>2 DEF EndReregister
    <2>2. /\ registrar' \in [Registrars -> Registrations] /\ registrar'["cycle"].at = "idle"
          /\ \A v \in Registrars \ {"cycle"} : registrar'[v] = registrar[v]
      BY <1>0, <2>1, RegisteringKinds
    <2>3. batchMode' \in BOOLEAN /\ ClientKinds
      BY <1>2, BatchKinds DEF EndReregister, RecOk
    <2>4. RecTypeOK'
      BY <1>0, <2>1, <2>2, <2>3, RecTypeStep
    <2>5. NameLeads => NameLeads'
      BY <2>1, <2>2 DEF NameLeads
    <2> QED
      BY <2>4, <2>5 DEF StaysLed
  <1>3. CASE PodDeleted
    <2>1. podAddress' = NoAddress /\ UNCHANGED <<batchMode, registrar, cleaner, moves>>
      BY <1>3 DEF PodDeleted
    <2>2. PICK S : S = {podAddress} /\ DeleteAll(S)
      BY <1>3 DEF PodDeleted
    <2>3. aRecs' \in Recs /\ ClientKinds
      BY <2>2, DeleteAllFacts
    <2>4. batchMode' \in BOOLEAN
      BY <2>1, RecKinds, Zenon
    <2> QED
      BY <1>0, <2>1, <2>3, <2>4, RecTypeStep DEF StaysLed
  <1>4. CASE DropDuplicates
    <2>1. EndBatch /\ (RecOk \/ RecFault) /\ UNCHANGED <<podAddress, registrar, cleaner, moves>>
      BY <1>4 DEF DropDuplicates
    <2>2. \A a \in Addresses : aRecs[a] \in 0 .. MaxCopies
      BY <1>0 DEF Recs
    <2>3. aRecs' = aRecs \/ aRecs' = [a \in Addresses |-> Low(aRecs[a], 1)]
      BY <1>4 DEF DropDuplicates
    <2>4. /\ aRecs' \in Recs
          /\ \A a \in Addresses : aRecs'[a] <= aRecs[a] /\ (aRecs[a] > 0 => aRecs'[a] >= 1)
      BY <1>0, <2>2, <2>3, RecConstants DEF Recs, Low
    <2>5. batchMode' \in BOOLEAN /\ ClientKinds
      BY <2>1, BatchKinds
    <2>6. RecTypeOK'
      BY <1>0, <2>1, <2>4, <2>5, RecTypeStep
    <2>7. ASSUME NameLeads PROVE NameLeads'
      <3>1. podAddress \in Addresses /\ aRecs[podAddress] > 0
        BY <1>0, <2>7 DEF NameLeads
      <3>2. aRecs'[podAddress] >= 1
        BY <2>4, <3>1
      <3>3. \A w \in Registrars :
              registrar'[w].at \in {"clean", "register"} => registrar'[w].ip = podAddress
        BY <2>1, <2>7 DEF NameLeads
      <3>4. cleaner'.at # "idle" => cleaner'.ip \in {podAddress, NoAddress}
        BY <2>1, <2>7 DEF NameLeads
      <3> QED
        BY <2>1, <2>4, <2>7, <3>2, <3>3, <3>4, StillLeads
    <2> QED
      BY <2>6, <2>7 DEF StaysLed
  <1>5. CASE \E ip \in Addresses : PodCreated(ip)
    <2>1. PICK ip \in Addresses : PodCreated(ip)
      BY <1>5
    <2> DEFINE reg == [at |-> "clean", ip |-> ip]
    <2>2. reg \in Registrations
      BY DEF Registrations
    <2>3. registrar' = [registrar EXCEPT !["handler"] = reg]
      BY <2>1 DEF PodCreated
    <2> HIDE DEF reg
    <2>4. /\ registrar' \in [Registrars -> Registrations] /\ moves' \in 0 .. MaxMoves
          /\ podAddress' = ip /\ podAddress = NoAddress /\ UNCHANGED <<aRecs, cleaner>>
      BY <1>0, <2>1, <2>2, <2>3, RecConstants DEF PodCreated
    <2>5. batchMode' \in BOOLEAN /\ failedEndpoint' \in BOOLEAN
      BY <2>1, RecKinds, Zenon DEF PodCreated
    <2>6. ClientKinds
      BY <2>1, <2>5, RecKinds DEF PodCreated, ClientKinds
    <2> QED
      BY <1>0, <2>4, <2>5, <2>6, RecTypeStep DEF StaysLed, NameLeads
  <1> QED
    BY <1>1, <1>2, <1>3, <1>4, <1>5

\* The consistency checker, and a restart.
LEMMA CleanerStepStays ==
  ASSUME RecTypeOK, CleanerStep \/ RestartRecords
  PROVE  RecTypeOK' /\ StaysLed
  <1>0. /\ aRecs \in Recs /\ podAddress \in Addresses \cup {NoAddress} /\ cleaner \in Cleanings
        /\ registrar \in [Registrars -> Registrations] /\ moves \in 0 .. MaxMoves
    BY RecKinds DEF RecTypeOK
  <1>1. CASE BeginClean
    <2>1. /\ UNCHANGED <<podAddress, aRecs, registrar, moves>>
          /\ cleaner' = [at |-> "list", ip |-> podAddress, seen |-> NoList]
      BY <1>1 DEF BeginClean, RecordsRest
    <2>2. cleaner' \in Cleanings /\ cleaner'.ip = podAddress
      BY <1>0, <2>1 DEF Cleanings, Listings
    <2>3. batchMode' \in BOOLEAN /\ ClientKinds
      BY <1>1, BatchKinds DEF BeginClean, RecOk
    <2>4. RecTypeOK'
      BY <1>0, <2>1, <2>2, <2>3, RecTypeStep
    <2>5. NameLeads => NameLeads'
      BY <2>1, <2>2 DEF NameLeads
    <2> QED
      BY <2>4, <2>5 DEF StaysLed
  <1>2. CASE ListZone
    <2> DEFINE none == [a \in Addresses |-> 0]
    <2>1. aRecs \in Listings /\ none \in Listings
      BY <1>0, RecConstants DEF Listings, Recs
    <2>2. PICK seen \in Listings :
            cleaner' = [at |-> "delete", ip |-> cleaner.ip, seen |-> seen]
      <3>1. cleaner' = [at |-> "delete", ip |-> cleaner.ip, seen |-> aRecs]
            \/ cleaner' = [at |-> "delete", ip |-> cleaner.ip, seen |-> none]
        BY <1>0, <1>2 DEF ListZone, Cleanings
      <3> QED
        BY <2>1, <3>1
    <2>3. cleaner' \in Cleanings /\ cleaner'.ip = cleaner.ip /\ cleaner.at # "idle"
      BY <1>0, <1>2, <2>2 DEF Cleanings, ListZone
    <2>4. /\ UNCHANGED <<podAddress, aRecs, registrar, moves, recordCache>>
          /\ recFaults' = recFaults \/ RecFault
      BY <1>2 DEF ListZone, RecOk
    <2>5. batchMode' \in BOOLEAN /\ failedEndpoint' \in BOOLEAN
      BY <1>2, RecKinds, Zenon DEF ListZone
    <2>6. ClientKinds
      BY <2>4, <2>5, RecKinds DEF ClientKinds
    <2>7. RecTypeOK'
      BY <1>0, <2>3, <2>4, <2>5, <2>6, RecTypeStep
    <2>8. NameLeads => NameLeads'
      BY <2>3, <2>4 DEF NameLeads
    <2> QED
      BY <2>7, <2>8 DEF StaysLed
  <1>3. CASE DeleteListed
    <2>1. /\ cleaner.at = "delete" /\ cleaner' = RecordsRest /\ EndBatch
          /\ RecOk \/ RecFault
          /\ UNCHANGED <<podAddress, registrar, moves>>
      BY <1>3 DEF DeleteListed
    <2>2. cleaner' \in Cleanings /\ cleaner'.at = "idle" /\ cleaner.seen \in Listings
      BY <1>0, <2>1, RecKinds DEF RecordsRest, Cleanings
    <2>3. PICK S, seen : S = Addresses \ {cleaner.ip} /\ seen = cleaner.seen
      OBVIOUS
    <2>4. aRecs' = aRecs \/ (cleaner.ip # NoAddress /\ aRecs' \in Deleted(seen, S))
      BY <1>3, <2>3 DEF DeleteListed
    <2>5. CASE aRecs' = aRecs
      <3>1. batchMode' \in BOOLEAN /\ ClientKinds
        BY <2>1, BatchKinds
      <3>2. RecTypeOK'
        BY <1>0, <2>1, <2>2, <2>5, <3>1, RecTypeStep
      <3>3. NameLeads => NameLeads'
        BY <2>1, <2>2, <2>5 DEF NameLeads
      <3> QED
        BY <3>2, <3>3 DEF StaysLed
    <2>6. CASE cleaner.ip # NoAddress /\ aRecs' \in Deleted(seen, S)
      <3>1. PICK r : r = aRecs' /\ r \in Deleted(seen, S)
        BY <2>6
      <3>2. /\ aRecs' \in Recs
            /\ \A a \in Addresses : aRecs'[a] <= aRecs[a] /\ (a \notin S => aRecs'[a] = aRecs[a])
        BY <2>2, <2>3, <3>1, DeletedFacts
      <3>3. batchMode' \in BOOLEAN /\ ClientKinds
        BY <2>1, BatchKinds
      <3>4. RecTypeOK'
        BY <1>0, <2>1, <2>2, <3>2, <3>3, RecTypeStep
      <3>5. ASSUME NameLeads PROVE NameLeads'
        <4>1. podAddress \in Addresses /\ podAddress \notin S
          BY <1>0, <2>1, <2>3, <2>6, <3>5 DEF NameLeads
        <4>2. aRecs'[podAddress] >= aRecs[podAddress]
          BY <1>0, <3>2, <4>1, CountsFacts DEF Listings
        <4>3. \A w \in Registrars :
                registrar'[w].at \in {"clean", "register"} => registrar'[w].ip = podAddress
          BY <2>1, <3>5 DEF NameLeads
        <4> QED
          BY <2>1, <2>2, <3>2, <3>5, <4>2, <4>3, StillLeads
      <3> QED
        BY <3>4, <3>5 DEF StaysLed
    <2> QED
      BY <2>4, <2>5, <2>6
  <1>4. CASE RestartRecords
    <2>1. /\ UNCHANGED <<podAddress, aRecs, moves>> /\ cleaner' = RecordsRest
          /\ registrar' = [w \in Registrars |-> AtRest] /\ RecFault /\ EndBatch
      BY <1>4 DEF RestartRecords
    <2>2. /\ cleaner' \in Cleanings /\ registrar' \in [Registrars -> Registrations]
          /\ cleaner'.at = "idle" /\ \A w \in Registrars : registrar'[w].at = "idle"
      BY <2>1, RecKinds DEF RecordsRest, AtRest
    <2>3. batchMode' \in BOOLEAN /\ ClientKinds
      BY <2>1, BatchKinds
    <2>4. RecTypeOK'
      BY <1>0, <2>1, <2>2, <2>3, RecTypeStep
    <2>5. NameLeads => NameLeads'
      BY <2>1, <2>2 DEF NameLeads
    <2> QED
      BY <2>4, <2>5 DEF StaysLed
  <1> QED
    BY <1>1, <1>2, <1>3, <1>4 DEF CleanerStep

LEMMA RecInvNext == RecTypeOK /\ [RecNext]_recVars => RecTypeOK' /\ StaysLed
  <1> SUFFICES ASSUME RecTypeOK, [RecNext]_recVars PROVE RecTypeOK' /\ StaysLed
    OBVIOUS
  <1>1. CASE \E w \in Registrars : RegisterStep(w)
    BY <1>1, CleanAliasStep, RegisterAliasStep DEF RegisterStep
  <1>2. CASE BeginReregister \/ EndReregister \/ PodDeleted \/ DropDuplicates
             \/ \E ip \in Addresses : PodCreated(ip)
    BY <1>2, RegistrationStep
  <1>3. CASE CleanerStep \/ RestartRecords
    BY <1>3, CleanerStepStays
  <1>4. CASE UNCHANGED recVars
    <2>1. UNCHANGED <<podAddress, aRecs, registrar, cleaner, moves>>
      BY <1>4 DEF recVars
    <2>2. batchMode' \in BOOLEAN /\ failedEndpoint' \in BOOLEAN
      BY <1>4, RecKinds, Zenon DEF recVars
    <2>3. ClientKinds
      BY <1>4, <2>2, RecKinds DEF ClientKinds, recVars
    <2> QED
      BY <2>1, <2>2, <2>3, RecRestStep
  <1>5. "cycle" \in Registrars /\ "handler" \in Registrars
    BY DEF Registrars
  <1> QED
    BY <1>1, <1>2, <1>3, <1>4, <1>5 DEF RecNext, CycleRegisters

\* Once the name of a pod leads to its address and to no other, and no registration or check
\* that began before the pod moved is under way, this stays so until the pod is deleted:
\* whatever calls fail, whatever listing the batch's cache still holds, and through restarts.
\* That the name comes to lead there is the other half of NameResolves, which TLC checks.
NameStays == [][NameLeads => NameLeads' \/ podAddress' = NoAddress]_recVars
THEOREM NameStaysTheorem == RecSpec => NameStays
  <1>1. RecInit => RecTypeOK
    <2> SUFFICES ASSUME RecInit PROVE RecTypeOK
      OBVIOUS
    <2>1. batchMode \in BOOLEAN /\ failedEndpoint \in BOOLEAN
      BY Zenon DEF RecInit
    <2>2. registrar \in [Registrars -> Registrations] /\ cleaner \in Cleanings
      BY DEF RecInit, AtRest, RecordsRest, Registrations, Cleanings, Listings
    <2>3. /\ aRecs \in Recs /\ podAddress \in Addresses \cup {NoAddress}
          /\ moves \in 0 .. MaxMoves /\ recFaults \in 0 .. MaxRecFaults
          /\ recordCache \in Recs \cup {NoList}
      BY RecConstants DEF RecInit, Recs
    <2> QED
      BY <2>1, <2>2, <2>3 DEF RecTypeOK, Registrations, Cleanings, Listings
  <1>2. RecTypeOK /\ [RecNext]_recVars => RecTypeOK'
    BY RecInvNext
  <1>3. RecTypeOK /\ [RecNext]_recVars => (NameLeads => NameLeads' \/ podAddress' = NoAddress)
    BY RecInvNext DEF StaysLed
  <1> QED
    BY <1>1, <1>2, <1>3, PTL DEF RecSpec, NameStays
-----------------------------------------------------------------------------
(* DnsService: a server that serves goes on doing so. *)

LEMMA DnsTypeInit == DnsInit => DnsTypeOK
  <1> SUFFICES ASSUME DnsInit PROVE DnsTypeOK
    OBVIOUS
  <1>1. dnsBox \in BOOLEAN /\ dnsTracked \in BOOLEAN
    BY Zenon DEF DnsInit
  <1> QED
    BY <1>1, DnsAssumption DEF DnsInit, DnsTypeOK

LEMMA DnsTypeNext == DnsTypeOK /\ [DnsNext]_dnsVars => DnsTypeOK'
  <1> SUFFICES ASSUME DnsTypeOK, [DnsNext]_dnsVars PROVE DnsTypeOK'
    OBVIOUS
  <1>1. dnsBox' \in BOOLEAN /\ dnsTracked' \in BOOLEAN
    <2>1. dnsBox \in BOOLEAN /\ dnsTracked \in BOOLEAN
      BY Zenon DEF DnsTypeOK
    <2> QED
      BY <2>1, Zenon
      DEF DnsNext, ServerDies, DatabaseLost, ProbeRestarts, SeedStep, SeedWaits, Made,
          seedDHCPPool, seedDHCPReservations, seedReservationDNSRecords, seedDNSForwarders,
          ReconcileDNSConfig, HealthCheck, RepairDNSLiveness, RepairStep, DeleteDead,
          RecreateDead, RecreateMissing, dnsVars
  <1>2. dnsFaults' \in 0 .. MaxDnsFaults
    <2>1. dnsFaults' = dnsFaults \/ DnsFails
      BY DEF DnsNext, ServerDies, DatabaseLost, ProbeRestarts, SeedStep, SeedWaits, Made,
             seedDHCPPool, seedDHCPReservations, seedReservationDNSRecords, seedDNSForwarders,
             ReconcileDNSConfig, HealthCheck, RepairDNSLiveness, RepairStep, DeleteDead,
             RecreateDead, RecreateMissing, dnsVars, DnsWorks
    <2> QED
      BY <2>1, DnsAssumption DEF DnsTypeOK, DnsFails
  <1>3. answers' \subseteq {"rest", "port"} /\ db' \subseteq Contained
    <2>1. answers' \subseteq answers \/ answers' = {"rest", "port"}
      BY DEF DnsNext, ServerDies, DatabaseLost, ProbeRestarts, SeedStep, SeedWaits, Made,
             seedDHCPPool, seedDHCPReservations, seedReservationDNSRecords, seedDNSForwarders,
             ReconcileDNSConfig, HealthCheck, RepairDNSLiveness, RepairStep, DeleteDead,
             RecreateDead, RecreateMissing, dnsVars
    <2>2. db' \subseteq db \/ \E entry \in Contained : db' = db \cup {entry}
      BY DEF DnsNext, ServerDies, DatabaseLost, ProbeRestarts, SeedStep, SeedWaits, Made,
             seedDHCPPool, seedDHCPReservations, seedReservationDNSRecords, seedDNSForwarders,
             ReconcileDNSConfig, HealthCheck, RepairDNSLiveness, RepairStep, DeleteDead,
             RecreateDead, RecreateMissing, dnsVars, Contained
    <2> QED
      BY <2>1, <2>2 DEF DnsTypeOK
  <1>4. seeder' \in {"none", "wait", "pool", "reservation", "record", "forwarder"}
    BY DEF DnsTypeOK, DnsNext, ServerDies, DatabaseLost, ProbeRestarts, SeedStep, SeedWaits, Made,
           seedDHCPPool, seedDHCPReservations, seedReservationDNSRecords, seedDNSForwarders,
           ReconcileDNSConfig, HealthCheck, RepairDNSLiveness, RepairStep, DeleteDead,
           RecreateDead, RecreateMissing, dnsVars, Spawned
  <1>5. repair' \in [Repairers -> {"idle", "delete", "create"}]
    <2>1. repair' = repair \/ \E w \in Repairers, to \in {"idle", "delete", "create"} :
                                repair' = [repair EXCEPT ![w] = to]
      BY DEF DnsNext, ServerDies, DatabaseLost, ProbeRestarts, SeedStep, SeedWaits, Made,
             seedDHCPPool, seedDHCPReservations, seedReservationDNSRecords, seedDNSForwarders,
             ReconcileDNSConfig, HealthCheck, RepairDNSLiveness, RepairStep, DeleteDead,
             RecreateDead, RecreateMissing, dnsVars, Repairing, Repairers
    <2> QED
      BY <2>1 DEF DnsTypeOK
  <1>6. deadChecks' \in 0 .. DeadThreshold - 1
    <2>1. deadChecks' \in {deadChecks, 0, (deadChecks + 1) % DeadThreshold}
      BY DEF DnsNext, ServerDies, DatabaseLost, ProbeRestarts, SeedStep, SeedWaits, Made,
             seedDHCPPool, seedDHCPReservations, seedReservationDNSRecords, seedDNSForwarders,
             ReconcileDNSConfig, HealthCheck, RepairDNSLiveness, RepairStep, DeleteDead,
             RecreateDead, RecreateMissing, dnsVars
    <2>2. deadChecks \in 0 .. DeadThreshold - 1 /\ DeadThreshold \in Nat \ {0}
      BY DnsAssumption DEF DnsTypeOK
    <2>3. (deadChecks + 1) % DeadThreshold \in 0 .. DeadThreshold - 1
      BY <2>2
    <2> QED
      BY <2>1, <2>2, <2>3
  <1> QED
    BY <1>1, <1>2, <1>3, <1>4, <1>5, <1>6 DEF DnsTypeOK

\* The server answers on both interfaces, its pod is tracked, it has what it is to serve, and
\* no worker is about to replace it.
Served ==
  /\ answers = {"rest", "port"} /\ dnsTracked /\ {"pool", "record", "forwarder"} \subseteq db
  /\ \A w \in Repairers : repair[w] = "idle"

LEMMA ServedStep ==
  ASSUME DnsTypeOK, Served, [DnsNext]_dnsVars, UNCHANGED dnsFaults
  PROVE  Served'
  <1> USE DEF Served
  <1>1. ~DnsFails
    BY DEF DnsFails, DnsTypeOK
  <1>2. CASE ServerDies \/ DatabaseLost \/ ProbeRestarts \/ RepairDNSLiveness
    BY <1>1, <1>2 DEF ServerDies, DatabaseLost, ProbeRestarts, RepairDNSLiveness
  <1>3. CASE SeedStep \/ ReconcileDNSConfig
    <2>1. UNCHANGED <<answers, dnsTracked, repair>> /\ db \subseteq db'
      BY <1>1, <1>3 DEF SeedStep, SeedWaits, Made, seedDHCPPool, seedDHCPReservations,
                        seedReservationDNSRecords, seedDNSForwarders, ReconcileDNSConfig
    <2> QED
      BY <2>1
  <1>4. CASE HealthCheck
    BY <1>4 DEF HealthCheck
  <1>5. ASSUME NEW w \in Repairers, RepairStep(w) PROVE Served'
    BY <1>5 DEF RepairStep, DeleteDead, RecreateDead, Repairing
  <1>6. CASE RecreateMissing
    BY <1>6 DEF RecreateMissing
  <1>7. CASE UNCHANGED dnsVars
    BY <1>7 DEF dnsVars
  <1> QED
    BY <1>2, <1>3, <1>4, <1>5, <1>6, <1>7 DEF DnsNext

\* A DNS server that answers and has its pools, records and forwarders goes on serving until
\* something fails: neither the seeder nor the two repairs, whatever they found before, take
\* it down.  That it comes to serve is the other half of ServiceReturns, which TLC checks.
ServiceStays == [][UNCHANGED dnsFaults /\ Served => Served']_dnsVars
THEOREM ServiceStaysTheorem == DnsSpec => ServiceStays
  <1>1. DnsTypeOK /\ [DnsNext]_dnsVars => (UNCHANGED dnsFaults /\ Served => Served')
    BY ServedStep
  <1> QED
    BY <1>1, DnsTypeInit, DnsTypeNext, PTL DEF DnsSpec, ServiceStays
=============================================================================
