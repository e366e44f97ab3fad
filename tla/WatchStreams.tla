---------------------------- MODULE WatchStreams ----------------------------
(***************************************************************************)
(* A client that follows objects with ?watch=true (watch.go and the watch  *)
(* handlers of every kind, store/watcher.go).  The handler sends what is   *)
(* in memory, then opens a watch on the bucket, which begins with the last *)
(* entry of every key, and passes its events on.  It takes no lock, so     *)
(* requests change memory and bucket at any moment in between.             *)
(***************************************************************************)
EXTENDS Naturals, Sequences

CONSTANTS
  ObjKeys, ObjValues,
  NoObject,
  MaxObjWrites,     \* bound: requests
  MaxWatchFaults    \* bound: lost connections, restarts, failed writes

ASSUME StreamAssumption == NoObject \notin ObjValues

VARIABLES
  objRow,           \* the bucket: the last entry of a key is a value or a marker, NoObject
  objKnown,         \* keys that the bucket has an entry of
  objMem,           \* the map in memory
  objUnsaved,       \* keys that memory has had and the bucket has no entry of
  objWrite,         \* the request in progress, of which one half is done
  watchPhase,       \* the handler: off, listed, on
  watchView,        \* what the client made of the events it was sent
  watchQueue,       \* watchQueue[k]: entries of k to be sent
  watchBound        \* requests and faults so far

streamVars == <<objRow, objKnown, objMem, objUnsaved, objWrite, watchPhase, watchView, watchQueue, watchBound>>

Entries == ObjValues \cup {NoObject}
NoWrite == [key |-> NoObject, value |-> NoObject, left |-> "none"]
StreamTypeOK ==
  /\ objRow \in [ObjKeys -> Entries] /\ objMem \in [ObjKeys -> Entries]
  /\ objKnown \subseteq ObjKeys /\ objUnsaved \subseteq ObjKeys
  /\ objWrite \in [key : ObjKeys, value : Entries, left : {"memory", "bucket"}] \cup {NoWrite}
  /\ watchPhase \in {"off", "listed", "on"} /\ watchView \in [ObjKeys -> Entries]
  /\ watchQueue \in [ObjKeys -> Seq(Entries)]
  /\ watchBound \in [writes : 0 .. MaxObjWrites, faults : 0 .. MaxWatchFaults]

WatchFault == watchBound.faults < MaxWatchFaults /\ watchBound' = [watchBound EXCEPT !.faults = @ + 1]

\* An entry is written to the bucket; an open watch queues it.
Entered(k, value) ==
  /\ objRow' = [objRow EXCEPT ![k] = value]
  /\ objKnown' = objKnown \cup {k} /\ objUnsaved' = objUnsaved \ {k}
  /\ watchQueue' = IF watchPhase = "on" THEN [watchQueue EXCEPT ![k] = Append(@, value)] ELSE watchQueue

-----------------------------------------------------------------------------
\* A request's first half. Handlers of creation and change write the bucket, and stop when
\* that fails; claims that a pod names (resolvePVCVolume) and objects that loops change in
\* place are in memory first. Deletion starts with the bucket too, but of pods, ConfigMaps,
\* claims and hosts, which leave memory first.
BucketFirst(k, value) ==
  /\ objWrite' = [key |-> k, value |-> value, left |-> "memory"]
  /\ Entered(k, value) /\ UNCHANGED objMem
MemoryFirst(k, value) ==
  /\ objWrite' = [key |-> k, value |-> value, left |-> "bucket"]
  /\ objMem' = [objMem EXCEPT ![k] = value]
  /\ objUnsaved' = objUnsaved \cup ({k} \ objKnown)
  /\ UNCHANGED <<objRow, objKnown, watchQueue>>
BeginWrite(k, value) ==
  /\ objWrite = NoWrite /\ watchBound.writes < MaxObjWrites
  /\ watchBound' = [watchBound EXCEPT !.writes = @ + 1]
  /\ BucketFirst(k, value) \/ MemoryFirst(k, value)
  /\ UNCHANGED <<watchPhase, watchView>>
BeginPut(k, value) == value # NoObject /\ BeginWrite(k, value)
BeginDelete(k) == objMem[k] # NoObject /\ BeginWrite(k, NoObject)
\* The second half. The bucket may fail, which is only logged.
EndWrite ==
  /\ objWrite # NoWrite /\ objWrite' = NoWrite
  /\ \/ /\ objWrite.left = "memory" /\ objMem' = [objMem EXCEPT ![objWrite.key] = objWrite.value]
        /\ UNCHANGED <<objRow, objKnown, objUnsaved, watchQueue, watchBound>>
     \/ /\ objWrite.left = "bucket" /\ Entered(objWrite.key, objWrite.value)
        /\ UNCHANGED <<objMem, watchBound>>
     \/ objWrite.left = "bucket" /\ WatchFault
        /\ UNCHANGED <<objRow, objKnown, objMem, objUnsaved, watchQueue>>
  /\ UNCHANGED <<watchPhase, watchView>>

\* The handler's two steps: what is in memory is sent, and the watch is opened.
ListFirst ==
  /\ watchPhase = "off" /\ watchPhase' = "listed" /\ watchView' = objMem
  /\ UNCHANGED <<objRow, objKnown, objMem, objUnsaved, objWrite, watchQueue, watchBound>>
\* Mutant of WatchAll: the watch skips the markers of deleted keys (IgnoreDeletes).
WatchValues ==
  /\ watchPhase = "listed" /\ watchPhase' = "on"
  /\ watchQueue' = [k \in ObjKeys |-> IF k \in objKnown /\ objRow[k] # NoObject THEN <<objRow[k]>> ELSE <<>>]
  /\ UNCHANGED <<objRow, objKnown, objMem, objUnsaved, objWrite, watchView, watchBound>>
WatchAll ==
  /\ watchPhase = "listed" /\ watchPhase' = "on"
  /\ watchQueue' = [k \in ObjKeys |-> IF k \in objKnown THEN <<objRow[k]>> ELSE <<>>]
  /\ UNCHANGED <<objRow, objKnown, objMem, objUnsaved, objWrite, watchView, watchBound>>
\* The handler of ConfigMaps lists nothing: what the watch begins with is the listing.
WatchConfigMaps ==
  /\ watchPhase = "off" /\ watchPhase' = "on" /\ watchView' = [k \in ObjKeys |-> NoObject]
  /\ watchQueue' = [k \in ObjKeys |-> IF k \in objKnown THEN <<objRow[k]>> ELSE <<>>]
  /\ UNCHANGED <<objRow, objKnown, objMem, objUnsaved, objWrite, watchBound>>
SendEvent ==
  /\ watchPhase = "on"
  /\ \E k \in ObjKeys : /\ watchQueue[k] # <<>>
                        /\ watchView' = [watchView EXCEPT ![k] = Head(watchQueue[k])]
                        /\ watchQueue' = [watchQueue EXCEPT ![k] = Tail(@)]
  /\ UNCHANGED <<objRow, objKnown, objMem, objUnsaved, objWrite, watchPhase, watchBound>>

NoQueue == [k \in ObjKeys |-> <<>>]
\* The connection is lost; the client starts over.
LoseConnection ==
  /\ watchPhase # "off" /\ WatchFault
  /\ watchPhase' = "off" /\ watchQueue' = NoQueue
  /\ UNCHANGED <<objRow, objKnown, objMem, objUnsaved, objWrite, watchView>>
\* After a start memory has what the bucket has, and the objects that were made before the
\* store was attached, which have no row.
Started(row, memory) ==
  /\ memory \in [ObjKeys -> Entries]
  /\ \A k \in ObjKeys : row[k] # NoObject => memory[k] = row[k]
HadBy(memory) == {k \in ObjKeys : memory[k] # NoObject}
RestartWatched ==
  /\ WatchFault /\ Started(objRow, objMem') /\ objUnsaved' = HadBy(objMem') \ objKnown
  /\ objWrite' = NoWrite
  /\ watchPhase' = "off" /\ watchQueue' = NoQueue
  /\ UNCHANGED <<objRow, objKnown, watchView>>

StreamInit ==
  /\ objRow = [k \in ObjKeys |-> NoObject] /\ objKnown = {}
  /\ objMem \in [ObjKeys -> Entries] /\ objUnsaved = HadBy(objMem)
  /\ objWrite = NoWrite /\ watchPhase = "off" /\ watchView = [k \in ObjKeys |-> NoObject]
  /\ watchQueue = NoQueue /\ watchBound = [writes |-> 0, faults |-> 0]
StreamNext ==
  \/ \E k \in ObjKeys : BeginDelete(k) \/ \E value \in ObjValues : BeginPut(k, value)
  \/ EndWrite \/ ListFirst \/ WatchAll \/ WatchConfigMaps \/ SendEvent \/ LoseConnection \/ RestartWatched
\* A client that is connected is served.
StreamServes == ListFirst \/ WatchAll \/ WatchConfigMaps \/ SendEvent
StreamSpec == StreamInit /\ [][StreamNext]_streamVars /\ WF_streamVars(StreamServes)

-----------------------------------------------------------------------------
(* Properties. *)

\* What a client sees of an object is in the end what the bucket holds, although the
\* object may change or go between the listing and the watch, the two halves of a request
\* may fall on either side of both, and memory may keep a change that the bucket refused.
\* Of a key that only memory ever had no event comes: the client keeps what it was listed.
ViewCatchesUp ==
  \A k \in ObjKeys : []<>(watchView[k] = objRow[k] \/ k \in objUnsaved)
=============================================================================
