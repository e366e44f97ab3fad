---------------------------- MODULE ImageRegistry ----------------------------
(***************************************************************************)
(* The image registry (pkg/registry, cmd/registry) for one repository and  *)
(* tag: docker clients push to it, image pulls reach through it, a watcher *)
(* mirrors the upstream registry into it, and a syncer mirrors pushes to   *)
(* the upstream.                                                           *)
(*                                                                         *)
(* A content stands for a manifest together with its blobs, and blob[c]    *)
(* for the file of the blobs.  Clients of the registry keep to the docker  *)
(* protocol: blobs first, then the manifest.                               *)
(***************************************************************************)
EXTENDS Naturals

CONSTANTS
  Contents, NoContent,
  MaxChanges        \* pushes here and upstream, failed calls and restarts

ASSUME RegistryAssumption == NoContent \notin Contents /\ MaxChanges \in Nat

MayContent == Contents \cup {NoContent}
Readers == {"watcher", "puller"}      \* the threads that copy blobs from the upstream

VARIABLES
  upstream,     \* content of the tag upstream
  tag,          \* content of the tag here
  blob,         \* blob[c] \in {"none", "partial", "whole"}: the file of a blob
  upload,       \* the upload session: content, chunks received, or none
  client,       \* what a pushing client does
  copier,       \* what the watcher and a pull do
  lastDigest,   \* the last digest the watcher has mirrored
  SyncEvents,   \* is there an event in the syncer's channel?
  syncing,      \* the content the syncer has taken
  past,         \* contents that are no longer new
  cut,          \* history: blobs whose last copy broke off
  dropped,      \* history: has the syncer given up a push and nothing moved since?
  changes

Marks == <<cut, dropped>>
registryVars == <<upstream, tag, blob, upload, client, copier, lastDigest, SyncEvents,
                  syncing, past, Marks, changes>>

Chunks == 2
NoUpload == [content |-> NoContent, size |-> 0]
NoCopy == [step |-> "idle", content |-> NoContent, digest |-> NoContent]
RegistryTypeOK ==
  /\ {upstream, tag, lastDigest, syncing} \subseteq MayContent /\ upstream # NoContent
  /\ blob \in [Contents -> {"none", "partial", "whole"}]
  /\ upload \in [content : MayContent, size : 0 .. Chunks]
  /\ client \in [step : {"idle", "upload", "manifest"}, content : MayContent]
  /\ copier \in [Readers -> [step : {"idle", "fetch", "blobs", "get", "write", "put", "record"},
                             content : MayContent, digest : MayContent]]
  /\ SyncEvents \in BOOLEAN /\ dropped \in BOOLEAN
  /\ past \subseteq Contents /\ cut \subseteq Contents
  /\ changes \in 0 .. MaxChanges

MayChange == changes < MaxChanges /\ changes' = changes + 1
\* Pushes, here and upstream, are of new contents: the watcher records the digest it saw
\* first, and misses a tag that comes back to that digest while it copies another.
New(c) == MayChange /\ c \notin past /\ past' = past \cup {c}
Events == <<SyncEvents, syncing, past>>

-----------------------------------------------------------------------------
(* A docker client: upload in chunks, finalize, put the manifest. *)

InitiateUpload(c) ==
  /\ client.step = "idle" /\ New(c)
  /\ client' = [step |-> "upload", content |-> c]
  /\ upload' = [content |-> c, size |-> 0]
  /\ UNCHANGED <<upstream, tag, blob, copier, lastDigest, SyncEvents, syncing, Marks>>

AppendUpload ==
  /\ client.step = "upload" /\ upload # NoUpload /\ upload.size < Chunks
  /\ upload' = [upload EXCEPT !.size = @ + 1]
  /\ UNCHANGED <<upstream, tag, blob, client, copier, lastDigest, Events, changes, Marks>>

\* Mutant of FinalizeUpload: the digest is not verified.
FinalizeUnverified ==
  /\ client.step = "upload" /\ upload # NoUpload
  /\ upload' = NoUpload
  /\ blob' = [blob EXCEPT ![upload.content] = IF upload.size = Chunks THEN "whole" ELSE "partial"]
  /\ client' = [client EXCEPT !.step = "manifest"]
  /\ UNCHANGED <<upstream, tag, copier, lastDigest, Events, changes, Marks>>
\* The session ends whatever the outcome; a rename makes the blob appear at once.
FinalizeUpload ==
  /\ client.step = "upload" /\ upload # NoUpload
  /\ upload' = NoUpload
  /\ IF upload.size = Chunks
       THEN /\ blob' = [blob EXCEPT ![upload.content] = "whole"]
            /\ cut' = cut \ {upload.content}
            /\ client' = [client EXCEPT !.step = "manifest"]
       ELSE UNCHANGED <<blob, cut>> /\ client' = [step |-> "idle", content |-> NoContent]
  /\ UNCHANGED <<upstream, tag, copier, lastDigest, Events, changes, dropped>>

\* A session is dropped after an hour; its client's next call is refused.
CleanupStaleUploads ==
  /\ upload # NoUpload /\ upload' = NoUpload
  /\ client' = [step |-> "idle", content |-> NoContent]
  /\ UNCHANGED <<upstream, tag, blob, copier, lastDigest, Events, changes, Marks>>

\* The event is dropped if the channel is full of events, of this tag or of others.
handleManifest ==
  /\ client.step = "manifest"
  /\ tag' = client.content
  /\ client' = [step |-> "idle", content |-> NoContent]
  /\ \/ SyncEvents' = TRUE /\ dropped' = FALSE /\ UNCHANGED changes
     \/ UNCHANGED SyncEvents /\ dropped' = ~SyncEvents /\ MayChange
  /\ UNCHANGED <<upstream, blob, upload, copier, lastDigest, syncing, past, cut>>

-----------------------------------------------------------------------------
(* Copying from the upstream. *)

Copying(t, s) == copier[t].step = s
CopyStep(t, s) == copier' = [copier EXCEPT ![t].step = s]
Quits(t) == copier' = [copier EXCEPT ![t] = NoCopy]
\* Blobs are written in place under a lock per digest.
Locked(c) == \E t \in Readers : Copying(t, "write") /\ copier[t].content = c

\* checkImage begins with the digest; nothing is done when it was seen before.
headManifest ==
  /\ Copying("watcher", "idle") /\ upstream # lastDigest
  /\ copier' = [copier EXCEPT !["watcher"] =
                  [step |-> "fetch", content |-> NoContent, digest |-> upstream]]
  /\ UNCHANGED <<upstream, tag, blob, upload, client, lastDigest, Events, changes, Marks>>

\* The manifest is fetched by tag, so it may be newer than the digest.
fetchManifest ==
  /\ Copying("watcher", "fetch")
  /\ copier' = [copier EXCEPT !["watcher"].content = upstream, !["watcher"].step = "blobs"]
  /\ UNCHANGED <<upstream, tag, blob, upload, client, lastDigest, Events, changes, Marks>>

\* A pull through the registry caches the manifest first, and its blobs when asked for.
pullThroughManifest ==
  /\ tag = NoContent /\ tag' = upstream
  /\ UNCHANGED <<upstream, copier, blob, upload, client, lastDigest, Events, changes, Marks>>
\* POST _pull does so even if there is a manifest; it is used to seed a registry before
\* any client pushes.
handlePull ==
  /\ Copying("puller", "idle") /\ MayChange /\ past = {upstream}
  /\ tag' = upstream
  /\ copier' = [copier EXCEPT !["puller"] =
                  [step |-> "blobs", content |-> upstream, digest |-> NoContent]]
  /\ UNCHANGED <<upstream, blob, upload, client, lastDigest, Events, Marks>>
pullThroughBlob(c) ==
  /\ Copying("puller", "idle") /\ tag = c /\ blob[c] = "none"
  /\ copier' = [copier EXCEPT !["puller"] =
                  [step |-> "get", content |-> c, digest |-> NoContent]]
  /\ UNCHANGED <<upstream, tag, blob, upload, client, lastDigest, Events, changes, Marks>>

\* Blobs that are in the store are not fetched, nor those being written.
mirrorBlobs(t) ==
  /\ Copying(t, "blobs")
  /\ IF blob[copier[t].content] = "none" THEN CopyStep(t, "get")
     ELSE IF t = "watcher" THEN CopyStep(t, "put") ELSE Quits(t)
  /\ UNCHANGED <<upstream, tag, blob, upload, client, lastDigest, Events, changes, Marks>>
\* PutBlob creates the file, which empties one that is there, and then copies.
PutBlobBegins(t) ==
  /\ Copying(t, "get") /\ ~Locked(copier[t].content)
  /\ blob' = [blob EXCEPT ![copier[t].content] = "partial"]
  /\ CopyStep(t, "write")
  /\ UNCHANGED <<upstream, tag, upload, client, lastDigest, Events, changes, Marks>>
PutBlob(t) ==
  /\ Copying(t, "write")
  /\ blob' = [blob EXCEPT ![copier[t].content] = "whole"] /\ cut' = cut \ {copier[t].content}
  /\ IF t = "watcher" THEN CopyStep(t, "put") ELSE Quits(t)
  /\ UNCHANGED <<upstream, tag, upload, client, lastDigest, Events, changes, dropped>>
\* A copy that breaks off leaves what it has written.  A pull copies the body of the response:
\* the connection is cut, the client's 30 seconds end or the request is cancelled; it may go
\* on with another upstream.  The watcher has the body in memory: its disk is full.
LeftBy(writers) ==
  {c \in Contents : blob[c] = "partial" /\ \E t \in writers : Copying(t, "write")
                                                             /\ copier[t].content = c}
PutBlobFails(t) ==
  /\ Copying(t, "write") /\ MayChange
  /\ cut' = cut \cup LeftBy({t})
  /\ Quits(t) \/ (t = "puller" /\ CopyStep(t, "get"))
  /\ UNCHANGED <<upstream, tag, blob, upload, client, lastDigest, Events, dropped>>

mirrorImage ==
  /\ Copying("watcher", "put")
  /\ tag' = copier["watcher"].content
  /\ CopyStep("watcher", "record") /\ dropped' = FALSE
  /\ UNCHANGED <<upstream, blob, upload, client, lastDigest, Events, changes, cut>>

\* The end of checkImage.
\* Mutant of checkImage: the digest recorded is looked up again.
checkImageLate ==
  /\ Copying("watcher", "record") /\ Quits("watcher")
  /\ lastDigest' = upstream
  /\ UNCHANGED <<upstream, tag, blob, upload, client, SyncEvents, syncing, past, changes, Marks>>
checkImage ==
  /\ Copying("watcher", "record") /\ Quits("watcher")
  /\ lastDigest' = copier["watcher"].digest
  /\ UNCHANGED <<upstream, tag, blob, upload, client, SyncEvents, syncing, past, changes, Marks>>

\* A call to the upstream fails before the blob is written; the next poll begins again.
CallFails(t) ==
  /\ copier[t].step \in {"fetch", "get"} /\ MayChange /\ Quits(t)
  /\ UNCHANGED <<upstream, tag, blob, upload, client, lastDigest, Events, Marks>>

-----------------------------------------------------------------------------
(* The syncer, the upstream, and a restart of the registry. *)

\* The event names the tag: the image is pulled when the syncer comes to it.
syncImage ==
  /\ SyncEvents /\ syncing = NoContent
  /\ SyncEvents' = FALSE /\ syncing' = tag
  /\ UNCHANGED <<upstream, tag, blob, upload, client, copier, lastDigest, past, changes, Marks>>
syncPush ==
  /\ syncing # NoContent
  /\ blob[syncing] # "partial"
  /\ upstream' = syncing /\ syncing' = NoContent
  /\ dropped' = (dropped /\ syncing = upstream)
  /\ UNCHANGED <<tag, blob, upload, client, copier, lastDigest, SyncEvents, past, changes, cut>>
\* The pull from here, which verifies digests, or the push there fails: nothing tries again.
syncFails ==
  /\ syncing # NoContent
  /\ (blob[syncing] = "partial" /\ UNCHANGED changes) \/ MayChange
  /\ syncing' = NoContent /\ dropped' = ~SyncEvents
  /\ UNCHANGED <<upstream, tag, blob, upload, client, copier, lastDigest, SyncEvents, past, cut>>

UpstreamMoves(c) ==
  /\ New(c) /\ upstream' = c /\ dropped' = FALSE
  /\ UNCHANGED <<tag, blob, upload, client, copier, lastDigest, SyncEvents, syncing, cut>>

RegistryRestart ==
  /\ MayChange
  /\ cut' = cut \cup LeftBy(Readers)
  /\ dropped' = FALSE
  /\ upload' = NoUpload /\ client' = [step |-> "idle", content |-> NoContent]
  /\ copier' = [t \in Readers |-> NoCopy]
  /\ lastDigest' = NoContent
  /\ SyncEvents' = FALSE /\ syncing' = NoContent
  /\ UNCHANGED <<upstream, tag, blob, past>>

RegistryInit ==
  /\ upstream \in Contents /\ tag = NoContent
  /\ blob = [c \in Contents |-> "none"]
  /\ upload = NoUpload /\ client = [step |-> "idle", content |-> NoContent]
  /\ copier = [t \in Readers |-> NoCopy] /\ lastDigest = NoContent
  /\ SyncEvents = FALSE /\ syncing = NoContent
  /\ past = {upstream} /\ cut = {} /\ dropped = FALSE /\ changes = 0

ClientNext == AppendUpload \/ FinalizeUpload \/ CleanupStaleUploads \/ handleManifest
              \/ \E c \in Contents : InitiateUpload(c)
WatcherNext == headManifest \/ fetchManifest \/ mirrorBlobs("watcher")
               \/ PutBlobBegins("watcher") \/ PutBlob("watcher") \/ mirrorImage \/ checkImage
PullerNext == pullThroughManifest \/ handlePull \/ mirrorBlobs("puller")
              \/ PutBlobBegins("puller") \/ PutBlob("puller")
              \/ \E c \in Contents : pullThroughBlob(c)
SyncerNext == syncImage \/ syncPush \/ syncFails
RegistryNext ==
  \/ ClientNext \/ WatcherNext \/ PullerNext \/ SyncerNext
  \/ RegistryRestart
  \/ \E t \in Readers : CallFails(t) \/ PutBlobFails(t)
  \/ \E c \in Contents : UpstreamMoves(c)

\* The watcher polls, the syncer takes its events, and a copy that was begun ends.
RegistrySpec ==
  /\ RegistryInit /\ [][RegistryNext]_registryVars
  /\ WF_registryVars(WatcherNext) /\ WF_registryVars(SyncerNext)
  /\ WF_registryVars(PutBlob("puller"))

-----------------------------------------------------------------------------
(* Properties. *)

\* A blob that a client can see is whole, or is being written under its lock, or is what a
\* copy from the upstream left when it broke off: a chunked upload that lost a chunk or was
\* cleaned up leaves nothing behind, and one that is pushed or copied whole after a break is
\* whole.
BlobsAreWhole ==
  \A c \in Contents : /\ blob[c] = "partial" => Locked(c) \/ c \in cut
                      /\ c \in cut => blob[c] = "partial"

\* A push here, a push upstream and the two mirrors may cross in any order, calls may fail,
\* events and digests may be lost in a restart; in the end both registries serve the same
\* image, unless the last that happened to it is a push that the syncer gave up.
RegistriesMeet == <>[](tag = upstream \/ dropped)
=============================================================================
