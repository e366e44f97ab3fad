----------------------------- MODULE ClusterSync -----------------------------
(***************************************************************************)
(* Two mkube nodes that replicate their stores to each other (pkg/cluster) *)
(* and one pod, which names the node it belongs to.  Every write is pushed *)
(* to the peer by a goroutine of its own; a peer that comes up is given a  *)
(* full resync.  Each node reconciles the pods of its own store.           *)
(*                                                                         *)
(* NODE_STATUS is not replicated, so no node learns the architecture of    *)
(* its peer and handleMigratePod always refuses: it is not an action here. *)
(***************************************************************************)
EXTENDS Naturals

CONSTANTS
  Peers,            \* the two nodes
  NoHome, NoPod,
  BrokenThreshold,  \* networkHealthThreshold
  MaxWrites,        \* writes to the two stores
  MaxCuts           \* pushes that fail and cuts of the link

ASSUME ClusterAssumption ==
  /\ \E m, n \in Peers : m # n /\ Peers = {m, n}
  /\ NoHome \notin Peers /\ BrokenThreshold \in Nat \ {0} /\ MaxWrites \in Nat /\ MaxCuts \in Nat

VARIABLES
  held,         \* held[n]: the pod in n's store, with the number of its write
  hosts,        \* the nodes on which the pod's container runs
  broken,       \* networkFailures[n]: checks in a row in which n had no port of the pod
  pushes,       \* sync events on their way
  resync,       \* resync[n]: the full resync that n performs
  linkUp,
  peerUp,       \* n \in peerUp: n believes that its peer is up
  settled,      \* history: has nothing happened since the stores agreed that could part them?
  writes, cuts

clusterVars == <<held, hosts, broken, pushes, resync, linkUp, peerUp, settled, writes, cuts>>

Homes == Peers \cup {NoHome}
Held == [home : Homes, write : 1 .. MaxWrites] \cup {NoPod}
NoResync == [step |-> "none", val |-> NoPod, alone |-> FALSE]
ClusterTypeOK ==
  /\ held \in [Peers -> Held] /\ hosts \subseteq Peers /\ peerUp \subseteq Peers
  /\ broken \in [Peers -> 0 .. BrokenThreshold - 1]
  /\ pushes \subseteq [to : Peers, val : Held, id : 1 .. MaxWrites]
  /\ resync \in [Peers -> [step : {"none", "pull", "merge", "build", "sent"}, val : Held,
                           alone : BOOLEAN]]
  /\ linkUp \in BOOLEAN /\ settled \in BOOLEAN
  /\ writes \in 0 .. MaxWrites /\ cuts \in 0 .. MaxCuts

Peer(n) == CHOOSE m \in Peers : m # n
Resyncing == {n \in Peers : resync[n].step # "none"}
Quiet == pushes = {} /\ Resyncing = {}
MayCut == cuts < MaxCuts /\ cuts' = cuts + 1

-----------------------------------------------------------------------------
\* Put and Delete fire the sync hook, which pushes to the peer at once.
Write(n, val) ==
  /\ writes < MaxWrites /\ writes' = writes + 1
  /\ held' = [held EXCEPT ![n] = val]
  /\ pushes' = pushes \cup {[to |-> Peer(n), val |-> val, id |-> writes + 1]}
  /\ settled' = (settled /\ Quiet)
  /\ resync' = [m \in Peers |-> [resync[m] EXCEPT !.alone = FALSE]]

\* The node that is asked creates the container, whatever node the pod names.
CreateHere(n, home) ==
  /\ held[n] = NoPod /\ Write(n, [home |-> home, write |-> writes + 1])
  /\ hosts' = hosts \cup {n}
  /\ UNCHANGED <<broken, linkUp, peerUp, cuts>>
UpdateHere(n) ==
  /\ held[n] # NoPod /\ Write(n, [held[n] EXCEPT !.write = writes + 1])
  /\ hosts' = hosts \cup {n}
  /\ UNCHANGED <<broken, linkUp, peerUp, cuts>>
DeleteHere(n) ==
  /\ held[n] # NoPod /\ Write(n, NoPod)
  /\ hosts' = hosts \ {n}
  /\ UNCHANGED <<broken, linkUp, peerUp, cuts>>
\* An import names no node.
ImportHere(n) ==
  /\ held[n] = NoPod /\ Write(n, [home |-> NoHome, write |-> writes + 1])
  /\ UNCHANGED <<broken, hosts, linkUp, peerUp, cuts>>

\* The cycle stamps a pod that names no node, runs the pods of this node, and removes the
\* containers of the others.
Stamp(n) ==
  /\ held[n] # NoPod /\ held[n].home = NoHome
  /\ Write(n, [home |-> n, write |-> writes + 1])
  /\ hosts' = hosts \cup {n}
  /\ UNCHANGED <<broken, linkUp, peerUp, cuts>>
RunLocal(n) ==
  /\ (held[n] # NoPod => held[n].home # NoHome)
  /\ hosts' = IF held[n] # NoPod /\ held[n].home = n THEN hosts \cup {n} ELSE hosts \ {n}
  /\ UNCHANGED <<broken, held, pushes, resync, linkUp, peerUp, settled, writes, cuts>>

\* repairNetworkHealth looks at every stored pod, whatever node it names: one that has no
\* port here three times in a row is deleted and created here.
repairNetworkHealth(n) ==
  /\ held[n] # NoPod
  /\ LET count == IF n \in hosts THEN 0 ELSE broken[n] + 1 IN
     /\ broken' = [broken EXCEPT ![n] = count % BrokenThreshold]
     /\ hosts' = IF count = BrokenThreshold THEN hosts \cup {n} ELSE hosts
  /\ UNCHANGED <<held, pushes, resync, linkUp, peerUp, settled, writes, cuts>>

-----------------------------------------------------------------------------
\* An event is accepted whatever is there, and is not pushed on.
HandleSyncEvent(e) ==
  /\ e \in pushes /\ linkUp
  /\ held' = [held EXCEPT ![e.to] = e.val] /\ pushes' = pushes \ {e}
  /\ UNCHANGED <<broken, hosts, resync, linkUp, peerUp, settled, writes, cuts>>
\* A push that fails is not repeated.
PushFails(e) ==
  /\ e \in pushes /\ pushes' = pushes \ {e} /\ settled' = FALSE
  /\ IF linkUp THEN MayCut ELSE UNCHANGED cuts
  /\ UNCHANGED <<broken, held, hosts, resync, linkUp, peerUp, writes>>

\* The monitor finds the peer up or down; a resync begins when it comes up.
MonitorPeer(n) ==
  /\ linkUp # (n \in peerUp)
  /\ peerUp' = IF linkUp THEN peerUp \cup {n} ELSE peerUp \ {n}
  /\ IF linkUp /\ resync[n].step = "none"
       THEN /\ resync' = [m \in Peers |->
                  IF m = n THEN [NoResync EXCEPT !.step = "pull", !.alone = Quiet]
                  ELSE [resync[m] EXCEPT !.alone = FALSE]]
            /\ settled' = (settled /\ pushes = {})
       ELSE UNCHANGED <<resync, settled>>
  /\ UNCHANGED <<broken, held, hosts, pushes, linkUp, writes, cuts>>

\* FullResyncWithPeer: the peer's state is fetched, what is missing here is taken over,
\* and the state of here is built and sent.
Goes(n, from, to, val) ==
  resync[n].step = from /\ resync' = [resync EXCEPT ![n].step = to, ![n].val = val]
PullPeer(n) ==
  /\ linkUp /\ Goes(n, "pull", "merge", held[Peer(n)])
  /\ UNCHANGED <<broken, held, hosts, pushes, linkUp, peerUp, settled, writes, cuts>>
\* Mutant of MergePeer: the peer's version is not taken over.
MergeNothing(n) ==
  /\ Goes(n, "merge", "build", NoPod) /\ UNCHANGED held
  /\ UNCHANGED <<broken, hosts, pushes, linkUp, peerUp, settled, writes, cuts>>
MergePeer(n) ==
  /\ Goes(n, "merge", "build", NoPod)
  /\ held' = IF held[n] = NoPod THEN [held EXCEPT ![n] = resync[n].val] ELSE held
  /\ UNCHANGED <<broken, hosts, pushes, linkUp, peerUp, settled, writes, cuts>>
BuildPayload(n) ==
  /\ Goes(n, "build", "sent", held[n])
  /\ UNCHANGED <<broken, held, hosts, pushes, linkUp, peerUp, settled, writes, cuts>>
HandleFullSyncImport(n) ==
  /\ resync[n].step = "sent" /\ linkUp
  /\ held' = IF resync[n].val = NoPod THEN held
             ELSE [held EXCEPT ![Peer(n)] = resync[n].val]
  /\ settled' = (settled \/ resync[n].alone)
  /\ resync' = [resync EXCEPT ![n] = NoResync]
  /\ UNCHANGED <<broken, hosts, pushes, linkUp, peerUp, writes, cuts>>
ResyncFails(n) ==
  /\ resync[n].step \in {"pull", "sent"} /\ ~linkUp
  /\ resync' = [resync EXCEPT ![n] = NoResync]
  /\ UNCHANGED <<broken, held, hosts, pushes, linkUp, peerUp, settled, writes, cuts>>

CutLink ==
  /\ linkUp /\ MayCut /\ linkUp' = FALSE
  /\ UNCHANGED <<broken, held, hosts, pushes, resync, peerUp, settled, writes>>
MendLink ==
  /\ ~linkUp /\ linkUp' = TRUE
  /\ UNCHANGED <<broken, held, hosts, pushes, resync, peerUp, settled, writes, cuts>>

ClusterInit ==
  /\ held = [n \in Peers |-> NoPod] /\ hosts = {} /\ broken = [n \in Peers |-> 0] /\ pushes = {}
  /\ resync = [n \in Peers |-> NoResync] /\ linkUp = TRUE /\ peerUp = Peers
  /\ settled = TRUE /\ writes = 0 /\ cuts = 0
ResyncNext(n) ==
  PullPeer(n) \/ MergePeer(n) \/ BuildPayload(n) \/ HandleFullSyncImport(n) \/ ResyncFails(n)
PushNext == \E e \in pushes : HandleSyncEvent(e) \/ PushFails(e)
ClusterNext ==
  \/ \E n \in Peers : \/ \E home \in Peers : CreateHere(n, home)
                      \/ UpdateHere(n) \/ DeleteHere(n) \/ ImportHere(n)
                      \/ Stamp(n) \/ RunLocal(n) \/ repairNetworkHealth(n)
                      \/ MonitorPeer(n) \/ ResyncNext(n)
  \/ PushNext \/ CutLink \/ MendLink
ClusterFairness ==
  /\ WF_clusterVars(PushNext) /\ WF_clusterVars(MendLink)
  /\ \A n \in Peers : /\ WF_clusterVars(ResyncNext(n)) /\ WF_clusterVars(MonitorPeer(n))
                      /\ WF_clusterVars(Stamp(n)) /\ WF_clusterVars(RunLocal(n))
                      /\ WF_clusterVars(repairNetworkHealth(n))
ClusterSpec == ClusterInit /\ [][ClusterNext]_clusterVars /\ ClusterFairness

-----------------------------------------------------------------------------
(* Properties. *)

\* Writes that come one at a time, each after the push of the last one has arrived, keep
\* the stores the same, through cuts of the link and resyncs; and a resync that nothing
\* disturbs makes them the same again, whatever happened before.
PeersAgree == settled /\ Quiet => \A n \in Peers : held[n] = held[Peer(n)]

\* CHANGELOG.md:112: each node only manages its own containers.  Once the stores have
\* settled the pod should come to run on its own node and on no other, although any node
\* may have been asked to create or update it.  It does not: see repairNetworkHealth.
RunsAtHome ==
  <>[]settled => <>[](\A n \in Peers :
     (held[n] # NoPod => held[n].home # NoHome)
       => (n \in hosts <=> (held[n] # NoPod /\ held[n].home = n)))
=============================================================================
