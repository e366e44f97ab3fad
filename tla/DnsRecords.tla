------------------------------ MODULE DnsRecords ------------------------------
(***************************************************************************)
(* The A records of one pod's name in its zone (dns/client.go).  The cycle *)
(* registers the names of the pods it tracks, the pod handlers register    *)
(* and withdraw them, and the consistency checker removes what has another *)
(* address.  All of them share one client and its batch mode, in which     *)
(* listings are cached.  A call of the network manager holds its lock to   *)
(* the end; the checker speaks to the client directly.                     *)
(***************************************************************************)
EXTENDS Naturals

CONSTANTS
  Addresses,        \* addresses that the pod may get
  NoAddress,
  MaxCopies,        \* bound: records with the same name and address
  MaxMoves,         \* bound: times the pod is created
  MaxRecFaults      \* bound: calls that fail, restarts

ASSUME RecordAssumption ==
  /\ NoAddress \notin Addresses
  /\ MaxCopies \in Nat \ {0} /\ {MaxMoves, MaxRecFaults} \subseteq Nat

VARIABLES
  podAddress,     \* the address of the pod's port, or NoAddress
  aRecs,          \* aRecs[a]: how many records lead from the name to a
  batchMode, recordCache, failedEndpoint,    \* the client; an empty cache is NoList
  registrar,      \* registrar[w]: the registration that w is at
  cleaner,        \* cleanStaleDNSRecords: its step, the address it expects, its listing
  moves, recFaults

recVars == <<podAddress, aRecs, batchMode, recordCache, failedEndpoint, registrar, cleaner,
             moves, recFaults>>

Recs == [Addresses -> 0 .. MaxCopies]
NoList == [a \in Addresses |-> MaxCopies + 1]
Registrars == {"cycle", "handler"}
AtRest == [at |-> "idle", ip |-> NoAddress]
RecordsRest == [at |-> "idle", ip |-> NoAddress, seen |-> NoList]

RecTypeOK ==
  /\ podAddress \in Addresses \cup {NoAddress} /\ aRecs \in Recs
  /\ batchMode \in BOOLEAN /\ recordCache \in Recs \cup {NoList} /\ failedEndpoint \in BOOLEAN
  /\ registrar \in [Registrars -> [at : {"idle", "clean", "register", "end"},
                                   ip : Addresses \cup {NoAddress}]]
  /\ cleaner \in [at : {"idle", "list", "delete"}, ip : Addresses \cup {NoAddress},
                  seen : Recs \cup {NoList}]
  /\ moves \in 0 .. MaxMoves /\ recFaults \in 0 .. MaxRecFaults

RecFault == recFaults < MaxRecFaults /\ recFaults' = recFaults + 1
RecOk == UNCHANGED recFaults
Low(i, j) == IF i < j THEN i ELSE j

-----------------------------------------------------------------------------
(* The client. *)

BeginBatch == batchMode' = TRUE /\ recordCache' = NoList /\ failedEndpoint' = FALSE
EndBatch == batchMode' = FALSE /\ recordCache' = NoList /\ failedEndpoint' = FALSE

\* listRecordsCached: what it returns, and what it leaves in the cache.
Listed == IF batchMode /\ recordCache # NoList THEN recordCache ELSE aRecs
Cached == IF batchMode THEN Listed ELSE recordCache

\* The records of a listing with an address in S are deleted by their ids.  When the
\* listing is not of now, some of the ids may be gone already.
Deleted(seen, S) ==
  {r \in Recs : \A a \in Addresses :
     IF a \notin S THEN r[a] = aRecs[a]
     ELSE LET gone == Low(seen[a], aRecs[a])
          IN  r[a] \in (aRecs[a] - gone) .. (IF seen = aRecs THEN aRecs[a] - gone ELSE aRecs[a])}

\* A listing that fails rules the server out for the rest of the batch.
ListFails == RecFault /\ failedEndpoint' = batchMode
ClientRests == UNCHANGED <<recordCache, failedEndpoint>>

\* CleanStaleRecords and DeregisterHostByIP: delete the records of S that the listing has;
\* the first deletion that succeeds empties the cache.
DeleteAll(S) ==
  \/ failedEndpoint /\ RecOk /\ UNCHANGED aRecs /\ ClientRests
  \/ ~failedEndpoint /\ ListFails /\ UNCHANGED <<aRecs, recordCache>>
  \/ /\ ~failedEndpoint /\ RecOk /\ UNCHANGED failedEndpoint
     /\ aRecs' \in Deleted(Listed, S)
     /\ recordCache' = IF aRecs' # aRecs THEN NoList ELSE Cached
  \/ /\ ~failedEndpoint /\ RecFault /\ UNCHANGED <<aRecs, failedEndpoint>>  \* deletions fail
     /\ recordCache' = Cached
\* Mutant of CleanStaleRecords: every record of the name is withdrawn.
CleanAllRecords(ip) == DeleteAll(Addresses)
CleanStaleRecords(ip) == DeleteAll(Addresses \ {ip})

\* RegisterHost: a record that is listed is not made again; one is made when the listing
\* fails.
RegisterHost(ip) ==
  \/ failedEndpoint /\ RecOk /\ UNCHANGED aRecs /\ ClientRests
  \/ /\ ~failedEndpoint /\ RecOk /\ UNCHANGED failedEndpoint
     /\ IF Listed[ip] > 0
          THEN recordCache' = Cached /\ UNCHANGED aRecs
          ELSE /\ aRecs' = [aRecs EXCEPT ![ip] = Low(@ + 1, MaxCopies)]
               /\ recordCache' = NoList
  \/ /\ ~failedEndpoint /\ ListFails /\ recordCache' = NoList
     /\ aRecs' = [aRecs EXCEPT ![ip] = Low(@ + 1, MaxCopies)]
  \/ ~failedEndpoint /\ ListFails /\ UNCHANGED <<aRecs, recordCache>>

-----------------------------------------------------------------------------
(* registerPodAliases: the stale records go, then the name is registered. *)

Registering(w, from, to) ==
  registrar[w].at = from /\ registrar' = [registrar EXCEPT ![w].at = to]
CleanAlias(w) ==
  /\ Registering(w, "clean", "register") /\ CleanStaleRecords(registrar[w].ip)
  /\ UNCHANGED <<podAddress, batchMode, cleaner, moves>>
RegisterAlias(w) ==
  /\ Registering(w, "register", IF w = "cycle" THEN "end" ELSE "idle")
  /\ RegisterHost(registrar[w].ip)
  /\ UNCHANGED <<podAddress, batchMode, cleaner, moves>>

\* reregisterPodDNS: one batch per cycle, for the pods that the cycle tracks.
BeginReregister ==
  /\ registrar["cycle"].at = "idle" /\ podAddress # NoAddress /\ BeginBatch
  /\ registrar' = [registrar EXCEPT !["cycle"] = [at |-> "clean", ip |-> podAddress]]
  /\ UNCHANGED <<podAddress, aRecs, cleaner, moves, recFaults>>
EndReregister ==
  /\ Registering("cycle", "end", "idle") /\ EndBatch
  /\ UNCHANGED <<podAddress, aRecs, cleaner, moves, recFaults>>

\* CreatePod gives the pod an address and registers its name.
PodCreated(ip) ==
  /\ podAddress = NoAddress /\ registrar["handler"].at = "idle"
  /\ moves < MaxMoves /\ moves' = moves + 1 /\ podAddress' = ip
  /\ registrar' = [registrar EXCEPT !["handler"] = [at |-> "clean", ip |-> ip]]
  /\ UNCHANGED <<aRecs, batchMode, recordCache, failedEndpoint, cleaner, recFaults>>
\* DeletePod: deregisterPodAliases withdraws the record of the pod's address, best effort.
PodDeleted ==
  /\ podAddress # NoAddress /\ registrar["handler"].at = "idle"
  /\ podAddress' = NoAddress /\ DeleteAll({podAddress})
  /\ UNCHANGED <<batchMode, registrar, cleaner, moves>>

-----------------------------------------------------------------------------
(* The checker, and a restart. *)

BeginClean ==
  /\ cleaner.at = "idle" /\ cleaner' = [RecordsRest EXCEPT !.at = "list", !.ip = podAddress]
  /\ BeginBatch
  /\ UNCHANGED <<podAddress, aRecs, registrar, moves, recFaults>>
ListZone ==
  /\ cleaner.at = "list"
  /\ \/ cleaner' = [cleaner EXCEPT !.at = "delete", !.seen = aRecs] /\ RecOk
     \/ cleaner' = [cleaner EXCEPT !.at = "delete", !.seen = [a \in Addresses |-> 0]] /\ RecFault
  /\ UNCHANGED <<podAddress, aRecs, batchMode, recordCache, failedEndpoint, registrar, moves>>
\* A name that is not expected is left alone.  The cache does not learn of the deletions.
DeleteListed ==
  /\ cleaner.at = "delete" /\ cleaner' = RecordsRest /\ EndBatch
  /\ \/ RecOk /\ IF cleaner.ip = NoAddress THEN UNCHANGED aRecs
                 ELSE aRecs' \in Deleted(cleaner.seen, Addresses \ {cleaner.ip})
     \/ RecFault /\ UNCHANGED aRecs
  /\ UNCHANGED <<podAddress, registrar, moves>>

\* InitDNSZones: in a batch of its own before the cycle registers: of records with the same
\* name and address one is left.
DropDuplicates ==
  /\ registrar["cycle"].at = "idle" /\ EndBatch
  /\ \/ RecOk /\ aRecs' = [a \in Addresses |-> Low(aRecs[a], 1)]
     \/ RecFault /\ UNCHANGED aRecs
  /\ UNCHANGED <<podAddress, registrar, cleaner, moves>>
\* The server keeps the records, the client starts anew.
RestartRecords ==
  /\ RecFault /\ EndBatch
  /\ registrar' = [w \in Registrars |-> AtRest] /\ cleaner' = RecordsRest
  /\ UNCHANGED <<podAddress, aRecs, moves>>

RecInit ==
  /\ podAddress = NoAddress /\ aRecs = [a \in Addresses |-> 0]
  /\ batchMode = FALSE /\ recordCache = NoList /\ failedEndpoint = FALSE
  /\ registrar = [w \in Registrars |-> AtRest] /\ cleaner = RecordsRest
  /\ moves = 0 /\ recFaults = 0
RegisterStep(w) == CleanAlias(w) \/ RegisterAlias(w)
CycleRegisters == BeginReregister \/ RegisterStep("cycle") \/ EndReregister
CleanerStep == BeginClean \/ ListZone \/ DeleteListed
RecNext ==
  \/ CycleRegisters \/ RegisterStep("handler") \/ CleanerStep
  \/ (\E ip \in Addresses : PodCreated(ip)) \/ PodDeleted \/ DropDuplicates
  \/ RestartRecords
RecFairness ==
  WF_recVars(CycleRegisters) /\ WF_recVars(RegisterStep("handler")) /\ WF_recVars(CleanerStep)
RecSpec == RecInit /\ [][RecNext]_recVars /\ RecFairness

-----------------------------------------------------------------------------
(* Properties. *)

\* The name of a pod that stays comes to lead to its address and to no other, although a
\* cycle or a checker that began before the pod moved registers and deletes by the old
\* address, and listings come from a cache that does not see every deletion.
NameResolves ==
  <>[](podAddress # NoAddress => \A a \in Addresses : aRecs[a] > 0 <=> a = podAddress)
=============================================================================
