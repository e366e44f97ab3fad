----------------------------- MODULE IsoPatches -----------------------------
(***************************************************************************)
(* Patching a copy of an ISO image (iso9660.go): one directory whose       *)
(* records are packed into sectors and found by walking from length to     *)
(* length, and file contents that are appended at the end of the volume.   *)
(* Positions in the directory are counted in units of a record's smallest  *)
(* part, contents in sectors.  An operation that fails drops the copy.     *)
(*                                                                         *)
(* Left out: operations that add a name which is there, and names so long  *)
(* that the length of their record does not fit its byte.                  *)
(***************************************************************************)
EXTENDS Integers, FiniteSets

CONSTANTS
  FileNames,
  LongNames,       \* those whose records are longer
  Inside,          \* Inside[name][k]: what a reader takes the bytes k units into the record
                   \* of a file for, a record of any length, name and extent
  SectorLen,       \* units in a sector of the directory
  DirSectors,      \* sectors of the directory
  MaxPatches       \* bound: operations

Cells == [len : Nat, name : FileNames, lba : Nat, size : Nat]
ASSUME PatchAssumption ==
  /\ LongNames \subseteq FileNames /\ SectorLen \in Nat /\ SectorLen >= 3
  /\ DirSectors \in Nat \ {0} /\ Inside \in [FileNames -> [{1, 2} -> Cells]]

VARIABLES
  dirCells,        \* dirCells[pos]: the record that a reader finds if it starts there
  volumeEnd,       \* the volume space size
  patchFiles,      \* what the image should hold: name -> [lba, size]
  patchCount,
  layout,          \* history: layout[pos], the length of the record that begins there, deleted
                   \*          or not, 0 where none was, -1 behind the begin of one
  ragged           \* history: was the place of a deleted record given to one of another length?

patchVars == <<dirCells, volumeEnd, patchFiles, patchCount, layout, ragged>>

DirSize == SectorLen * DirSectors
Positions == 0 .. DirSize - 1
Zero == [len |-> 0]      \* zero bytes
MinLen == 2              \* a shorter record has no room for its fields
RecordLen(name) == IF name \in LongNames THEN 3 ELSE 2
Sizes == {1, 2}
SectorEnd(pos) == ((pos \div SectorLen) + 1) * SectorLen

PatchTypeOK ==
  /\ dirCells \in [Positions -> Cells \cup {Zero}]
  /\ volumeEnd \in 0 .. 2 * (MaxPatches + 1)
  /\ DOMAIN patchFiles \subseteq FileNames
  /\ patchCount \in 0 .. MaxPatches
  /\ layout \in [Positions -> {-1, 0, 2, 3}] /\ ragged \in BOOLEAN

-----------------------------------------------------------------------------
\* ReadDirectory: a zero, or a length that cannot be, ends the sector; anything else is
\* taken for a record, whatever it is.
ReadDirectory ==
  LET from[pos \in 0 .. DirSize + SectorLen] ==
        IF pos >= DirSize THEN {}
        ELSE IF dirCells[pos].len < MinLen \/ pos + dirCells[pos].len > DirSize
          THEN from[SectorEnd(pos)]
        ELSE {pos} \cup from[pos + dirCells[pos].len]
  IN  from[0]
Named(name) == {pos \in ReadDirectory : dirCells[pos].name = name}
\* ResolvePath: the first record of a name.
Resolved(name) == {pos \in Named(name) : \A q \in Named(name) : pos <= q}

\* AddFile's scan: the first zero with room for the record behind it in its sector.  The
\* scan steps over anything else by the length that it reads there.
FreeSlot(len) ==
  LET from[pos \in 0 .. DirSize + SectorLen] ==
        IF pos >= DirSize THEN DirSize
        ELSE IF dirCells[pos].len > 0
          THEN IF pos + dirCells[pos].len > DirSize THEN DirSize ELSE from[pos + dirCells[pos].len]
        ELSE IF SectorEnd(pos) - pos >= len THEN pos
        ELSE from[SectorEnd(pos)]
  IN  from[0]
\* The cells, or the layout, with a record at pos: its begin, and what is behind it.
Laid(f, pos, len, begin, behind) ==
  [p \in Positions |-> IF p = pos THEN begin
                       ELSE IF p \in pos + 1 .. pos + len - 1 THEN behind[p - pos] ELSE f[p]]

Patch == patchCount < MaxPatches /\ patchCount' = patchCount + 1
\* A file's content goes to the end of the volume.
Put(name, size) ==
  /\ volumeEnd' = volumeEnd + size
  /\ patchFiles' = [f \in DOMAIN patchFiles \cup {name} |->
                      IF f = name THEN [lba |-> volumeEnd, size |-> size] ELSE patchFiles[f]]

\* The record is written over what is at pos.
AddAt(pos, name, size) ==
  LET len == RecordLen(name) IN
  /\ Patch /\ Put(name, size) /\ name \notin DOMAIN patchFiles /\ pos < DirSize
  /\ dirCells' = Laid(dirCells, pos, len,
                      [len |-> len, name |-> name, lba |-> volumeEnd, size |-> size], Inside[name])
  /\ layout' = Laid(layout, pos, len, len, [k \in {1, 2} |-> -1])
  /\ ragged' = (ragged \/ layout[pos] \notin {0, len})

\* Mutant of AddFile: the record is written where any zero is, room or not.
AddFileAnywhere(name, size) == AddAt(FreeSlot(1), name, size)
\* AddFile does not ask how much room a deleted record left.
AddFile(name, size) == AddAt(FreeSlot(RecordLen(name)), name, size)

\* The record comes to point to the new content.
ReplaceFile(name, size) ==
  /\ Patch /\ Put(name, size)
  /\ \E pos \in Resolved(name) :
       dirCells' = [dirCells EXCEPT ![pos].lba = volumeEnd, ![pos].size = size]
  /\ UNCHANGED <<layout, ragged>>

\* DeleteFile: the record's length becomes zero, its other bytes stay.
DeleteFile(name) ==
  /\ Patch
  /\ \E pos \in Resolved(name) : dirCells' = [dirCells EXCEPT ![pos].len = 0]
  /\ patchFiles' = [f \in DOMAIN patchFiles \ {name} |-> patchFiles[f]]
  /\ UNCHANGED <<volumeEnd, layout, ragged>>

\* The base image is as made by a tool that packs its records the same way.
PatchInit ==
  /\ dirCells = [pos \in Positions |-> Zero] /\ volumeEnd = 0
  /\ patchFiles = [f \in {} |-> 0] /\ patchCount = 0
  /\ layout = [pos \in Positions |-> 0] /\ ragged = FALSE
PatchNext ==
  \E name \in FileNames :
    \/ DeleteFile(name)
    \/ \E size \in Sizes : AddFile(name, size) \/ ReplaceFile(name, size)
PatchSpec == PatchInit /\ [][PatchNext]_patchVars

-----------------------------------------------------------------------------
(* Properties. *)

\* A deleted record hides the rest of its sector.
Hidden(pos) == \E q \in Positions : /\ q < pos /\ SectorEnd(q) = SectorEnd(pos)
                                    /\ layout[q] > 0 /\ dirCells[q].len = 0
\* A reader of the image finds only files that it should hold, each with the content that it
\* was given last, and every file that no deleted record hides, once.
ImageHolds ==
  /\ \A pos \in ReadDirectory :
       LET rec == dirCells[pos]
       IN  rec.name \in DOMAIN patchFiles /\ patchFiles[rec.name] = [lba |-> rec.lba, size |-> rec.size]
  /\ \A name \in DOMAIN patchFiles :
       \E pos \in Positions : /\ layout[pos] > 0 /\ dirCells[pos].name = name
                              /\ Named(name) = IF Hidden(pos) THEN {} ELSE {pos}

\* No two files that a reader finds share a sector of content, and none lies behind the
\* end of the volume.
ExtentsApart ==
  \A p, q \in ReadDirectory :
    /\ dirCells[p].lba + dirCells[p].size <= volumeEnd
    /\ p = q \/ dirCells[p].lba + dirCells[p].size <= dirCells[q].lba
             \/ dirCells[q].lba + dirCells[q].size <= dirCells[p].lba

\* However records of different lengths fill the sectors, come and go, a patched image holds
\* its files and they do not overlap, as long as no record was laid in the place of a deleted
\* one of another length (iso9660AddFile, iso9660ReplaceFile, iso9660DeleteFile).
PatchedImageHolds == ~ragged => ExtentsApart /\ ImageHolds
=============================================================================
