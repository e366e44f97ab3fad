------------------------------ MODULE IsoExport ------------------------------
(***************************************************************************)
(* One iSCSI CD-ROM object (iscsi_cdrom_crd.go), the ISO file it exports,  *)
(* and the RouterOS disks that export it.  Handlers run under the mutex of *)
(* the API; the directory scanner runs beside them without it, holding on  *)
(* to the object it found across its calls to RouterOS.  The phase is left *)
(* out: no step here reads it.                                             *)
(***************************************************************************)
EXTENDS Naturals, FiniteSets, FiniteSetsExt

CONSTANTS
  NoIso,        \* no object
  MaxDisks,     \* bound: disks the device holds for this file
  MaxIsoFaults  \* bound: failed store writes, and restarts

IsoContents == 0..2       \* no file, or a whole file told by its size
IsoObjects ==
  [size : 0..3, disk : 0..MaxDisks, subscribed : BOOLEAN]

VARIABLES
  cdrom,        \* p.iscsiCdroms[name], or NoIso
  isoStored,    \* the stored object
  isoFile,      \* what is under the final file name
  isoTmp,       \* the upload under way: 0 for none, its size, + 2 once renamed
  exports,      \* the disks over the file: id -> content when added
  scan,         \* the scanner: step, listing, the object it holds, is that one still in the map
  isoFaults

isoVars == <<cdrom, isoStored, isoFile, isoTmp, exports, scan, isoFaults>>

Idle == [at |-> "idle", seen |-> 0, held |-> NoIso, linked |-> FALSE]

IsoTypeOK ==
  /\ cdrom \in IsoObjects \cup {NoIso} /\ isoStored \in IsoObjects \cup {NoIso}
  /\ isoFile \in IsoContents /\ isoTmp \in 0..4
  /\ exports \in [1..MaxDisks -> IsoContents]
  /\ scan \in [at : {"idle", "listed", "removed", "checked", "adopting"},
               seen : IsoContents,
               held : IsoObjects \cup {NoIso}, linked : BOOLEAN]
  /\ isoFaults \in 0..MaxIsoFaults

IsoInit ==
  /\ cdrom = NoIso /\ isoStored = NoIso /\ isoFile = 0 /\ isoTmp = 0
  /\ exports = [d \in 1..MaxDisks |-> 0] /\ scan = Idle /\ isoFaults = 0

Exported == {d \in 1..MaxDisks : exports[d] # 0}

\* configureISCSITarget adds a disk, then takes the first one with the path
\* of the file; a call that fails leaves the device as it was.
Configured(o, content) ==
  \/ /\ content # 0
     /\ \E d \in (1..MaxDisks) \ Exported :
          /\ exports' = [exports EXCEPT ![d] = content]
          /\ cdrom' = [o EXCEPT !.disk = Min(Exported \cup {d})]
  \/ cdrom' = o /\ UNCHANGED exports

\* removeISCSITarget: the recorded disk, if there is one.
WithoutDisk(o) ==
  [d \in 1..MaxDisks |-> IF o # NoIso /\ d = o.disk THEN 0 ELSE exports[d]]

\* A write of the object to the store succeeds, or fails and is only logged.
Stores(o) ==
  \/ isoStored' = o /\ UNCHANGED isoFaults
  \/ isoFaults < MaxIsoFaults /\ isoFaults' = isoFaults + 1 /\ UNCHANGED isoStored

\* A handler that puts another object in the map leaves the scanner with the old one.
Unlinked == scan' = [scan EXCEPT !.linked = FALSE, !.held = IF scan.linked THEN cdrom ELSE @]

NewIso(size) == [size |-> size, disk |-> 0, subscribed |-> FALSE]

\* handleCreateISCSICdrom: an existing file is exported at once; derive writes
\* its file first and does the same.
CreateCdrom ==
  /\ cdrom = NoIso /\ isoTmp = 0
  /\ IF isoFile = 0 THEN cdrom' = NewIso(0) /\ UNCHANGED exports
                    ELSE Configured(NewIso(isoFile), isoFile)
  /\ isoStored' = cdrom'
  /\ UNCHANGED <<isoFile, isoTmp, scan, isoFaults>>

DeriveCdrom ==
  /\ cdrom = NoIso /\ isoTmp = 0
  /\ \E size \in IsoContents \ {0} : isoFile' = size /\ Configured(NewIso(size), size)
  /\ isoStored' = cdrom'
  /\ UNCHANGED <<isoTmp, scan, isoFaults>>

\* PUT and PATCH that leave isoFile alone put another object in the map.  PUT keeps the
\* status; a patch may bring the list of subscribers that its sender read earlier.
UpdateCdrom ==
  /\ cdrom # NoIso /\ isoTmp = 0
  /\ isoStored' = cdrom /\ Unlinked
  /\ UNCHANGED <<cdrom, isoFile, isoTmp, exports, isoFaults>>
PatchCdrom ==
  /\ cdrom # NoIso /\ isoTmp = 0
  /\ \E s \in BOOLEAN : cdrom' = [cdrom EXCEPT !.subscribed = s]
  /\ isoStored' = cdrom' /\ Unlinked
  /\ UNCHANGED <<isoFile, isoTmp, exports, isoFaults>>

\* handleDeleteISCSICdrom: refused to a CD-ROM with subscribers; a failed
\* delete in the store leaves the object without its disk.
DeleteCdrom ==
  /\ cdrom # NoIso /\ isoTmp = 0 /\ ~cdrom.subscribed
  /\ exports' = WithoutDisk(cdrom)
  /\ isoFile' \in {isoFile, 0}
  /\ \/ cdrom' = NoIso /\ isoStored' = NoIso /\ Unlinked /\ UNCHANGED isoFaults
     \/ isoFaults < MaxIsoFaults /\ isoFaults' = isoFaults + 1
        /\ UNCHANGED <<cdrom, isoStored, scan>>
  /\ UNCHANGED isoTmp

\* handleUploadISCSICdrom: the stream goes to a file the scanner skips, which
\* is renamed when it is whole.  The handler holds the mutex all along.  (An
\* upload to an object the scanner is about to overwrite is left out.)
UploadBegins ==
  /\ cdrom # NoIso /\ isoTmp = 0 /\ scan.at # "adopting"
  /\ \E size \in IsoContents \ {0} : isoTmp' = size
  /\ UNCHANGED <<cdrom, isoStored, isoFile, exports, scan, isoFaults>>

UploadFails ==
  /\ isoTmp \in 1..2 /\ isoTmp' = 0
  /\ UNCHANGED <<cdrom, isoStored, isoFile, exports, scan, isoFaults>>

UploadRenames ==
  /\ isoTmp \in 1..2 /\ isoTmp' = isoTmp + 2 /\ isoFile' = isoTmp
  /\ UNCHANGED <<cdrom, isoStored, exports, scan, isoFaults>>

UploadEnds ==
  /\ isoTmp > 2 /\ isoTmp' = 0
  /\ Configured([cdrom EXCEPT !.size = isoTmp - 2], isoFile)
  /\ Stores(cdrom')
  /\ UNCHANGED <<isoFile, scan>>

\* A name subscribes once, and leaves if it is there.
Subscribes(yes) ==
  /\ cdrom # NoIso /\ isoTmp = 0 /\ cdrom.subscribed # yes
  /\ cdrom' = [cdrom EXCEPT !.subscribed = yes]
  /\ Stores(cdrom')
  /\ UNCHANGED <<isoFile, isoTmp, exports, scan>>
SubscribeCdrom == Subscribes(TRUE)
UnsubscribeCdrom == Subscribes(FALSE)

\* scanISODirectory: list the directory ...
ScanLists ==
  /\ scan.at = "idle"
  /\ scan' = [Idle EXCEPT !.at = "listed", !.seen = isoFile]
  /\ UNCHANGED <<cdrom, isoStored, isoFile, isoTmp, exports, isoFaults>>

SizeChanged ==
  /\ cdrom # NoIso /\ scan.seen # 0
  /\ cdrom.size \notin {0, scan.seen}

\* Mutant of ScanFindsChange: a change is noticed only when the file appears.
ScanFindsFirstSize ==
  /\ scan.at = "listed" /\ cdrom # NoIso /\ scan.seen # 0 /\ cdrom.size = 0
  /\ cdrom' = [cdrom EXCEPT !.size = scan.seen]
  /\ exports' = WithoutDisk(cdrom)
  /\ scan' = [scan EXCEPT !.at = "removed", !.linked = TRUE]
  /\ UNCHANGED <<isoStored, isoFile, isoTmp, isoFaults>>

\* ... a known file of another size: take the size over and drop the disk,
ScanFindsChange ==
  /\ scan.at = "listed" /\ SizeChanged
  /\ cdrom' = [cdrom EXCEPT !.size = scan.seen]
  /\ exports' = WithoutDisk(cdrom)
  /\ scan' = [scan EXCEPT !.at = "removed", !.linked = TRUE]
  /\ UNCHANGED <<isoStored, isoFile, isoTmp, isoFaults>>

\* ... export it again and persist the object the scanner holds, which may
\* have left the map since,
ScanExports ==
  /\ scan.at = "removed"
  /\ IF scan.linked
       THEN Configured(cdrom, isoFile) /\ Stores(cdrom')
       ELSE /\ UNCHANGED cdrom
            /\ \/ isoFile # 0 /\ \E d \in (1..MaxDisks) \ Exported :
                    exports' = [exports EXCEPT ![d] = isoFile]
               \/ UNCHANGED exports
            /\ Stores(scan.held)
  /\ scan' = [Idle EXCEPT !.at = "checked", !.seen = scan.seen]
  /\ UNCHANGED <<isoFile, isoTmp>>

\* ... or nothing to change,
ScanSkips ==
  /\ \/ /\ scan.at = "listed" /\ scan' = [scan EXCEPT !.at = "checked"]
        /\ ~SizeChanged
     \/ scan.at = "checked" /\ (cdrom # NoIso \/ scan.seen = 0) /\ scan' = Idle
  /\ UNCHANGED <<cdrom, isoStored, isoFile, isoTmp, exports, isoFaults>>

\* ... and a file without an object gets one: found missing first,
ScanAdopts ==
  /\ scan.at = "checked" /\ cdrom = NoIso /\ scan.seen # 0
  /\ scan' = [scan EXCEPT !.at = "adopting"]
  /\ UNCHANGED <<cdrom, isoStored, isoFile, isoTmp, exports, isoFaults>>

\* put in the map after the call to RouterOS, over one created meanwhile.
ScanAdopted ==
  /\ scan.at = "adopting"
  /\ Configured(NewIso(scan.seen), isoFile)
  /\ Stores(cdrom')
  /\ scan' = Idle
  /\ UNCHANGED <<isoFile, isoTmp>>

\* The operator copies a file into the directory, which grows, or replaces it.
FileChanges ==
  /\ isoTmp = 0 /\ isoFaults < MaxIsoFaults /\ isoFaults' = isoFaults + 1
  /\ isoFile' \in IsoContents \ {isoFile}
  /\ UNCHANGED <<cdrom, isoStored, isoTmp, exports, scan>>

\* A restart loads the stored object; the disks and files stay.
RestartIso ==
  /\ isoFaults < MaxIsoFaults /\ isoFaults' = isoFaults + 1
  /\ cdrom' = isoStored /\ scan' = Idle /\ isoTmp' = 0
  /\ UNCHANGED <<isoStored, isoFile, exports>>

UploadStep == UploadRenames \/ UploadEnds
ScanStep ==
  ScanLists \/ ScanFindsChange \/ ScanExports \/ ScanSkips \/ ScanAdopts \/ ScanAdopted

IsoNext ==
  \/ CreateCdrom \/ DeriveCdrom \/ UpdateCdrom \/ PatchCdrom \/ DeleteCdrom
  \/ SubscribeCdrom \/ UnsubscribeCdrom
  \/ UploadBegins \/ UploadFails \/ UploadStep
  \/ ScanStep \/ FileChanges \/ RestartIso

IsoSpec == IsoInit /\ [][IsoNext]_isoVars /\ WF_isoVars(UploadStep) /\ WF_isoVars(ScanStep)

\* When the file of a known CD-ROM is replaced, the scanner takes its size
\* over, whatever handlers do meanwhile, or the file or the object goes.  A
\* restart may forget the recorded size (0), which the scanner does not repair
\* (scanISODirectory).
SizeFollows ==
  \A n \in IsoContents \ {0} :
    (cdrom # NoIso /\ cdrom.size > 0 /\ isoFile = n)
      ~> (cdrom = NoIso \/ cdrom.size \in {0, n} \/ isoFile # n)
=============================================================================
