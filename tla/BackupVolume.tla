------------------------------ MODULE BackupVolume ------------------------------
(***************************************************************************)
(* From the segments of a tape image to the files of a backup: extract.py    *)
(* lays the segments of one volume out, with holes where a segment was lost;    *)
(* entries.py, qic113.py and qic113ext.py find the directory and the files in     *)
(* the bytes; tar.py writes them out and reports what is damaged.  Whatever       *)
(* segments are lost, what is reported whole must be whole.                       *)
(*                                                                         *)
(* A volume is a sequence of cells, each a field or a byte that no segment       *)
(* boundary divides.  Of the Basic format:                                      *)
(*   <<"F", fixed>> <<"N", name>>            a directory entry                    *)
(*   <<"sig">> F N <<"P", path>> data ...    a data entry                         *)
(* and of the extended one, whose entries are placed by the directory alone:       *)
(*   <<"X", fixed, name>> <<"A", areas>>     a directory entry                    *)
(*   <<"sig">> X A <<"P", path>> <<"area">> ... <<"area">> data ...                *)
(* <<"null">> is a lost or a filling byte, other cells are bytes of files.        *)
(***************************************************************************)
EXTENDS SparseVolume

CONSTANTS Seg,       \* cells of a segment no sector of which is excluded
          MaxRatio,  \* vp.MAX_COMPRESSION_RATIO
          LinkMax,   \* _LINK_SECTION_MAX
          Cases,     \* [backup, tape, request]: what the backup software wrote, what became
                     \* of the segments (a sequence of [room, fate]), and what is asked for:
                     \* [volumes, named], the volumes (-1: all), into a named file?
          TableSize  \* volumes of the table; this is the first, the others are not followed

VARIABLES backup, tape, request,
          recorded, \* history: the volume's cells, the lengths of its sections
          vtbl,    \* its entry in the volume table
          stage,   \* "asked", "laying", "saved", "listed", "done" or "refused"
          at,      \* the segment that is next
          pos,     \* where its data goes, if the volume is not compressed
          lost,    \* the segments that were lost
          twvl,    \* the saved volume
          listing, \* its entries
          tar      \* the members, and the damage report

jobVars == <<backup, tape, request, recorded, vtbl>>
volumeVars == <<stream, stage, at, pos, lost, twvl, listing, tar>>
allVars == <<jobVars, volumeVars>>

Unknown == -1   \* a size that was not known when it was written: _SIZE_UNKNOWN
None == -2

Parent(path) == SubSeq(path, 1, Len(path) - 1)
NameOf(path) == path[Len(path)]
CellAt(s, i) == s[i + 1]
Is(s, i, what) == i \in 0 .. Len(s) - 1 /\ CellAt(s, i)[1] = what
From(s, i) == SubSeq(s, i + 1, Len(s))
RoundUp(n, unit) == ((n + unit - 1) \div unit) * unit
-----------------------------------------------------------------------------
(***************************************************************************)
(* The backup, as QIC-113 has it written.  A tree is its entries in directory  *)
(* order, level by level and depth first: [path, dir, data, bad].               *)
(***************************************************************************)
Tree == backup.tree
HeaderCells == 4   \* the signature, the copy of the entry, the path
HasLevel(i) == Tree[i].dir /\ \E j \in DOMAIN Tree : Parent(Tree[j].path) = Tree[i].path /\ j # i
EndsLevel(i) == i = Len(Tree) \/ Parent(Tree[i + 1].path) # Parent(Tree[i].path)

\* The cells of an entry in the data section; a directory with a level has none in Basic.
EntryCells(i) ==
  IF ~backup.extended THEN IF HasLevel(i) THEN 0 ELSE HeaderCells + Len(Tree[i].data)
  ELSE IF Tree[i].dir THEN HeaderCells + 1 ELSE HeaderCells + 2 + Len(Tree[i].data)

Fixed(i, size) ==
  [size |-> size, dir |-> Tree[i].dir, bad |-> Tree[i].bad, last |-> EndsLevel(i),
   end |-> backup.marked /\ i = Len(Tree), empty |-> Tree[i].dir /\ ~HasLevel(i)]
Areas(i) ==
  IF Tree[i].dir THEN <<[id |-> "win95", size |-> 0]>>
  ELSE <<[id |-> "dos", size |-> 0], [id |-> "win95", size |-> 0],
         [id |-> "data", size |-> Len(Tree[i].data)]>>
DirectoryEntry(i, size) ==
  IF backup.extended THEN <<<<"X", Fixed(i, size), NameOf(Tree[i].path)>>, <<"A", Areas(i)>>>>
  ELSE <<<<"F", Fixed(i, size)>>, <<"N", NameOf(Tree[i].path)>>>>
DataEntry(i) ==
  IF EntryCells(i) = 0 THEN <<>>
  ELSE <<<<"sig">>>>
         \o DirectoryEntry(i, IF Tree[i].path \in backup.unknown THEN Unknown ELSE EntryCells(i))
         \o <<<<"P", Parent(Tree[i].path)>>>>
         \o (IF ~backup.extended THEN <<>> ELSE IF Tree[i].dir THEN <<<<"area">>>>
             ELSE <<<<"area">>, <<"area">>>>)
         \o Tree[i].data

Directory ==
  FlattenSeq([i \in DOMAIN Tree |-> DirectoryEntry(i, EntryCells(i))])
    \o (IF backup.marked THEN <<>> ELSE <<Null>>)
DataSection == FlattenSeq([i \in DOMAIN Tree |-> DataEntry(i)])

\* The segments' rooms up to n, and the first of them that reaches a place.
RoomTo(n) == LET Add2(m, s) == m + s.room IN FoldLeft(Add2, 0, SubSeq(tape, 1, n))
ToBoundary(n) ==
  LET bounds == {RoomTo(k) : k \in {k \in 0 .. Len(tape) : RoomTo(k) >= n}}
  IN IF bounds = {} THEN n ELSE CHOOSE b \in bounds : \A c \in bounds : b <= c

\* The sections, with the gap to a segment's start that only an uncompressed volume holds.
Volume ==
  LET first == IF backup.dirLast THEN DataSection ELSE Directory
      second == IF backup.dirLast THEN Directory ELSE DataSection
      gap == IF backup.compressed THEN 0 ELSE ToBoundary(Len(first)) - Len(first)
  IN first \o Nulls(gap) \o second

\* What a segment holds of it: its room's worth, or MaxRatio times as much compressed.
Held(n) ==
  LET ratio == IF backup.compressed THEN MaxRatio ELSE 1
      from == RoomTo(n - 1) * ratio
      to == RoomTo(n) * ratio
  IN IF backup.compressed
     THEN SubSeq(recorded.cells, from + 1, Smaller(to, Len(recorded.cells)))
     ELSE [k \in 1 .. to - from |->
             IF from + k <= Len(recorded.cells) THEN recorded.cells[from + k] ELSE Null]

\* The volume table's entry, as the volume profile decoded it.
TableEntry ==
  [extended |-> backup.extended, directoryLast |-> backup.dirLast,
   compressed |-> backup.compressed,
   data |-> IF ~backup.sized THEN None
            ELSE Len(DataSection) + (IF backup.misread = "size" THEN 1000 ELSE 0),
   dir |-> IF backup.sized THEN Len(Directory) ELSE None,
   start |-> 1, end |-> IF backup.misread = "end" THEN Len(tape) + 1 ELSE Len(tape)]
-----------------------------------------------------------------------------
(***************************************************************************)
(* extract.py                                                              *)
(***************************************************************************)
IsLost(fate) == fate \in {"missing", "uncorrectable"}
\* _segment_bounds: a mapped-out segment takes no room, a lost one what its map leaves it.
Bounds == {RoomTo(n - 1) : n \in {n \in DOMAIN tape : tape[n].fate # "bad"}}
SizeOr0(size) == IF size = None THEN 0 ELSE size

\* How much the volume holds, and what is refused as no volume could.
Span == Larger(0, vtbl.end - vtbl.start + 1)
Claimed == SizeOr0(vtbl.data) + SizeOr0(vtbl.dir)
ClaimIsPossible == Claimed <= Span * Seg * (IF vtbl.compressed THEN MaxRatio ELSE 1)
VolumeBytes == IF vtbl.compressed THEN Claimed ELSE RoomTo(Len(tape))

\* The directory's place, when the segments' boundaries tell it.
DirectoryOffset ==
  LET behind == {b \in Bounds : b >= vtbl.data}
  IN IF vtbl.compressed \/ ~vtbl.directoryLast \/ vtbl.data = None \/ behind = {} THEN None
     ELSE CHOOSE b \in behind : \A c \in behind : b <= c

\* _select_volumes
Chosen == IF -1 \in request.volumes THEN 0 .. TableSize - 1 ELSE request.volumes
Selected == Chosen \subseteq 0 .. TableSize - 1 /\ (request.named => Cardinality(Chosen) = 1)

Init ==
  /\ \E case \in Cases : backup = case.backup /\ tape = case.tape /\ request = case.request
  /\ recorded = [cells |-> Volume, data |-> Len(DataSection), dir |-> Len(Directory)]
  /\ Len(recorded.cells) <= RoomTo(Len(tape)) * (IF backup.compressed THEN MaxRatio ELSE 1)
  /\ vtbl = TableEntry
  /\ stream = Empty(0) /\ stage = "asked" /\ at = 1 /\ pos = 0 /\ lost = {}
  /\ twvl = <<>> /\ listing = <<>> /\ tar = <<>>

\* Nothing is written before the selection and the table are found possible.
Select ==
  /\ stage = "asked"
  /\ IF Selected /\ 0 \in Chosen /\ vtbl.end <= Len(tape) /\ ClaimIsPossible
     THEN stage' = "laying" /\ stream' = Empty(VolumeBytes)
     ELSE stage' = "refused" /\ UNCHANGED stream
  /\ UNCHANGED <<jobVars, at, pos, lost, twvl, listing, tar>>

\* mutant
PosClosesUp(segment) == IF segment.fate = "read" THEN pos + segment.room ELSE pos
\* Where the next segment's data goes.
PosAfter(segment) ==
  IF segment.fate = "bad" \/ (vtbl.compressed /\ ~IsLost(segment.fate)) THEN pos
  ELSE pos + segment.room

\* One segment of the loop.  A compressed one carries its own place, and is lost too when
\* it does not decode; an uncompressed one goes behind the last.
LaySegment ==
  /\ stage = "laying" /\ at <= vtbl.end
  /\ LET fate == tape[at].fate
         undone == IsLost(fate) \/ (vtbl.compressed /\ fate = "garbled")
     IN /\ lost' = IF undone THEN lost \cup {at} ELSE lost
        /\ pos' = PosAfter(tape[at])
        /\ stream' = IF fate = "bad" \/ undone THEN stream
                     ELSE IF vtbl.compressed
                          THEN Added(stream, RoomTo(at - 1) * MaxRatio, Held(at))
                     ELSE Added(stream, pos, Held(at))
  /\ at' = at + 1
  /\ UNCHANGED <<jobVars, stage, twvl, listing, tar>>

Save ==
  /\ stage = "laying" /\ at > vtbl.end
  /\ twvl' = [data |-> ReadSparse(stream, 0, stream.size).data,
              holes |-> FindHoles(stream, stream.size), directoryOffset |-> DirectoryOffset]
  /\ stage' = "saved"
  /\ UNCHANGED <<jobVars, stream, at, pos, lost, listing, tar>>
-----------------------------------------------------------------------------
(***************************************************************************)
(* qic113.py.  A directory entry is read at a place wherever it is: what is    *)
(* no entry reads as one with no name.  next is where it ends, None where the    *)
(* bytes end before its name.                                                  *)
(***************************************************************************)
NoEntry == [size |-> 0, dir |-> FALSE, bad |-> FALSE, last |-> FALSE, end |-> FALSE,
            empty |-> FALSE]

\* _parse_dir_entry
EntryAt(s, off) ==
  IF off + 1 >= Len(s) THEN [fixed |-> NoEntry, name |-> "", len |-> 0, next |-> None]
  ELSE LET named == Is(s, off, "F") /\ Is(s, off + 1, "N")
           len == IF named THEN 2 ELSE 1
       IN [fixed |-> IF Is(s, off, "F") THEN CellAt(s, off)[2] ELSE NoEntry,
           name |-> IF named THEN CellAt(s, off + 1)[2] ELSE "",
           len |-> len, next |-> off + len]

\* _parse_directory_section: up to the last in the table, a zero, or the end.
DirectoryEntries(s) ==
  LET Step(acc, k) ==
        LET e == EntryAt(s, acc.off)
        IN IF acc.ended \/ acc.off >= Len(s) \/ Is(s, acc.off, "null") \/ e.next = None
           THEN [acc EXCEPT !.ended = TRUE]
           ELSE [off |-> e.next, ended |-> e.fixed.end, entries |-> Append(acc.entries, e)]
  IN FoldLeft(Step, [off |-> 0, ended |-> FALSE, entries |-> <<>>], [k \in 1 .. Len(s) |-> k])

(***************************************************************************)
(* _build_tree, qic113ext.directory_paths: the paths of entries that come     *)
(* level by level, each level behind the one its directory is in, the first of  *)
(* its directories first; hasLevel tells the directories that have one.          *)
(***************************************************************************)
Paths(entries, hasLevel) ==
  LET Step(acc, k) ==
        LET path == Append(acc.parent, entries[k].name)
            below == IF hasLevel[k] THEN Append(acc.below, path) ELSE acc.below
            pending == below \o acc.pending
        IN IF acc.done THEN acc
           ELSE IF ~entries[k].fixed.last /\ ~entries[k].fixed.end
                THEN [acc EXCEPT !.paths = Append(@, path), !.below = below]
           ELSE IF pending = <<>> THEN [acc EXCEPT !.paths = Append(@, path), !.done = TRUE]
           ELSE [paths |-> Append(acc.paths, path), below |-> <<>>, done |-> FALSE,
                 parent |-> Head(pending), pending |-> Tail(pending)]
  IN FoldLeft(Step, [paths |-> <<>>, below |-> <<>>, pending |-> <<>>, parent |-> <<>>,
                     done |-> FALSE], [k \in DOMAIN entries |-> k]).paths

\* mutant
EveryDirHasALevel(entries) == Paths(entries, [k \in DOMAIN entries |-> entries[k].fixed.dir])
BasicPaths(entries) ==
  Paths(entries, [k \in DOMAIN entries |-> entries[k].fixed.dir /\ entries[k].fixed.size = 0])

(***************************************************************************)
(* _parse_basic_data_section: from signature to signature, over each entry's   *)
(* bytes by its size.  What is implausible is taken for bytes of a file.          *)
(***************************************************************************)
NextSignature(s, off) ==
  LET at0 == {i \in off .. Len(s) - 1 : Is(s, i, "sig")}
  IN IF at0 = {} THEN Len(s) ELSE CHOOSE i \in at0 : \A j \in at0 : i <= j

Plausible(entry, dataLen) == entry.name # "" /\ (dataLen = Unknown \/ dataLen >= 0)

WalkEntry(s, acc, sig) ==
  LET e == EntryAt(s, sig + 1)
      hasPath == Is(s, e.next, "P")
      cursor == IF hasPath THEN e.next + 1 ELSE e.next
      size == e.fixed.size
      dataLen == IF size = Unknown THEN Unknown
                 ELSE IF e.fixed.dir THEN 0 ELSE size - (cursor - sig)
      wanted == IF dataLen = Unknown THEN NextSignature(s, cursor) - cursor ELSE dataLen
      len == Smaller(wanted, Len(s) - cursor)
      path == (IF hasPath THEN CellAt(s, e.next)[2] ELSE <<>>) \o <<e.name>>
  IN IF e.next = None \/ e.next >= Len(s) THEN [acc EXCEPT !.stopped = TRUE]
     ELSE IF ~Plausible(e, dataLen) THEN [acc EXCEPT !.off = sig + 1]
     ELSE [acc EXCEPT !.off = cursor + len,
                      !.found = IF e.fixed.dir THEN @
                                ELSE Append(@, [path |-> path, offset |-> cursor, len |-> len,
                                                fixed |-> e.fixed])]

DataEntries(s, start) ==
  LET Step(acc, k) ==
        IF acc.stopped \/ NextSignature(s, acc.off) >= Len(s) THEN acc
        ELSE WalkEntry(s, acc, NextSignature(s, acc.off))
  IN FoldLeft(Step, [off |-> start, stopped |-> FALSE, found |-> <<>>],
              [k \in 1 .. Len(s) |-> k]).found

\* _plausible_dir_entry, _directory_last_offset
IsDirectory(s, off) == Is(s, off, "F") /\ EntryAt(s, off).name # ""

\* The places to try, the likelier first; without a size, behind the entries that were walked.
Candidates(walked) ==
  LET ToTry(end, gapless) ==
        IF gapless THEN <<end, RoundUp(end, Seg)>> ELSE <<RoundUp(end, Seg), end>>
  IN IF vtbl.data \notin {None, 0} THEN ToTry(vtbl.data, vtbl.compressed)
     ELSE IF walked = <<>> THEN <<>>
     ELSE ToTry(Last(walked).offset + Last(walked).len, TRUE)

DirectoryLastOffset(s, candidates) ==
  LET right == {k \in DOMAIN candidates : IsDirectory(s, candidates[k])}
  IN IF candidates = <<>> THEN Len(s)
     ELSE IF right = {} THEN candidates[1]
     ELSE candidates[CHOOSE k \in right : \A j \in right : k <= j]

\* _strip_link_subsection: only what is near the end of the bytes counts.
Stripped(s) ==
  LET ends == {i \in 0 .. Len(s) - 1 : CellAt(s, i) # Null}
      end == IF ends = {} THEN 0 ELSE 1 + CHOOSE i \in ends : \A j \in ends : j <= i
      links == {i \in Larger(0, end - LinkMax) .. end - 1 : Is(s, i, "link")}
  IN IF links = {} THEN s ELSE SubSeq(s, 1, CHOOSE i \in links : \A j \in links : j <= i)

(***************************************************************************)
(* qic113.extract, entries._basic_entries: the files that were found, with     *)
(* what their ranges miss, and those the directory lists besides.                *)
(***************************************************************************)
Entry(path, dir, offset, size, missing, bad, isLost) ==
  [path |-> path, dir |-> dir, offset |-> offset, size |-> size, missing |-> missing,
   error |-> bad, lost |-> isLost]

\* Where the directory starts, and the files: before it, or behind where it ended.
DirectoryStart(s, candidates) ==
  LET given == twvl.directoryOffset
  IN IF ~vtbl.directoryLast THEN 0
     ELSE IF given # None /\ IsDirectory(s, given) THEN given
     ELSE DirectoryLastOffset(s, candidates)
FilesFound(s, start, directoryEnd) ==
  IF vtbl.directoryLast THEN DataEntries(SubSeq(s, 1, Smaller(start, Len(s))), 0)
  ELSE DataEntries(s, directoryEnd)

BasicListing(entries, paths, found) ==
  LET InDirectory(f) == {k \in DOMAIN paths : paths[k] = f.path}
      Bad(f) == IF InDirectory(f) = {} THEN f.fixed.bad
                ELSE entries[CHOOSE k \in InDirectory(f) : TRUE].fixed.bad
      FileBytes(e) ==   \* signature, entry and path are in its size
        IF e.fixed.size = Unknown THEN 0 ELSE Larger(0, e.fixed.size - (1 + e.len + 1))
      dirs == {k \in DOMAIN paths : entries[k].fixed.dir}
      unfound == {k \in DOMAIN paths \ dirs : \A j \in DOMAIN found : found[j].path # paths[k]}
  IN {Entry(paths[k], TRUE, None, 0, 0, entries[k].fixed.bad, FALSE) : k \in dirs}
       \cup {Entry(found[j].path, FALSE, found[j].offset, found[j].len,
                   Missing(twvl, found[j].offset, found[j].len), Bad(found[j]), FALSE) :
               j \in DOMAIN found}
       \cup {Entry(paths[k], FALSE, None, FileBytes(entries[k]), FileBytes(entries[k]),
                   entries[k].fixed.bad, TRUE) : k \in unfound}

ListBasic ==
  \E s \in {Stripped(twvl.data)} :
    \E candidates \in {Candidates(DataEntries(s, 0))} :
      \E start \in {DirectoryStart(s, candidates)} :
        \E directory \in {DirectoryEntries(From(s, start))} :
          \E found \in {FilesFound(s, start, directory.off)} :
            listing' = BasicListing(directory.entries, BasicPaths(directory.entries), found)

(***************************************************************************)
(* qic113ext.py, entries._extended_entries: each entry's place is the sum of   *)
(* the sizes the directory gives for those before it, its bytes' place behind     *)
(* the copy of the entry, the path, and the areas that take room.                 *)
(***************************************************************************)
\* parse_directory, parse_entry
ExtendedEntries(s) ==
  LET Step(acc, k) ==
        IF acc.ended \/ ~Is(s, acc.off, "X") THEN [acc EXCEPT !.ended = TRUE]
        ELSE LET fixed == CellAt(s, acc.off)[2]
             IN [off |-> acc.off + 2, ended |-> fixed.end,
                 entries |-> Append(acc.entries,
                   [fixed |-> fixed, name |-> CellAt(s, acc.off)[3],
                    areas |-> IF Is(s, acc.off + 1, "A") THEN CellAt(s, acc.off + 1)[2] ELSE <<>>])]
  IN FoldLeft(Step, [off |-> 0, ended |-> FALSE, entries |-> <<>>],
              [k \in 1 .. Len(s) |-> k]).entries

\* directory_paths: the first entry is the root, whose level comes whatever it says.
ExtendedPaths(entries) ==
  Paths(entries, [k \in DOMAIN entries |->
                    k = 1 \/ (entries[k].fixed.dir /\ ~entries[k].fixed.empty)])

\* layout: [offset, size] of an entry's bytes; None if it has no area for them.
DataPlace(entry, off) ==
  LET Step(acc, area) ==
        IF area.id = "dos" THEN acc
        ELSE [next |-> acc.next + 1 + area.size,
              offset |-> IF area.id = "data" THEN acc.next + 1 ELSE acc.offset,
              size |-> IF area.id = "data" THEN area.size ELSE acc.size]
      last == FoldLeft(Step, [next |-> off + 4, offset |-> None, size |-> 0], entry.areas)
  IN [offset |-> last.offset, size |-> last.size]

EntryOffset(entries, k) ==
  LET AddSize(n, e) == n + e.fixed.size IN FoldLeft(AddSize, 0, SubSeq(entries, 1, k - 1))

ExtendedListing(entries, paths) ==
  LET Listed(k, place) ==
        IF entries[k].fixed.dir THEN Entry(paths[k], TRUE, None, 0, 0, FALSE, FALSE)
        ELSE Entry(paths[k], FALSE, place.offset, place.size,
                   IF place.offset = None \/ place.size = 0 THEN 0
                   ELSE Missing(twvl, place.offset, place.size),
                   entries[k].fixed.bad, FALSE)
  IN {Listed(k, DataPlace(entries[k], EntryOffset(entries, k))) : k \in DOMAIN paths}

\* The directory is where the volume says, or right behind the data.
ListExtended ==
  LET dirAt == IF twvl.directoryOffset = None THEN vtbl.data ELSE twvl.directoryOffset
  IN \E entries \in {ExtendedEntries(ReadVolume(twvl, dirAt, vtbl.dir))} :
       \E paths \in {ExtendedPaths(entries)} : listing' = ExtendedListing(entries, paths)

\* read_volume: an extended volume must have its sections' sizes.
List ==
  /\ stage = "saved"
  /\ IF vtbl.extended /\ None \in {vtbl.data, vtbl.dir}
     THEN stage' = "refused" /\ UNCHANGED listing
     ELSE stage' = "listed" /\ IF vtbl.extended THEN ListExtended ELSE ListBasic
  /\ UNCHANGED <<jobVars, stream, at, pos, lost, twvl, tar>>

\* VolumeEntry.damage, entry_data
Damaged(entry) == ~entry.dir /\ (entry.missing > 0 \/ entry.error)
EntryData(entry) ==
  IF entry.lost THEN Nulls(entry.size)
  ELSE IF entry.offset = None \/ entry.size = 0 THEN <<>>
  ELSE ReadVolume(twvl, entry.offset, entry.size)

\* write_tar: each file that is damaged is reported, and left out if that was asked for.
WriteTar(skip) ==
  /\ stage = "listed"
  /\ stage' = "done"
  /\ tar' = [files |-> {[path |-> e.path, data |-> EntryData(e), reported |-> Damaged(e)] :
                          e \in {e \in listing : ~e.dir /\ (skip => ~Damaged(e))}},
             damaged |-> {[path |-> e.path, missing |-> e.missing, size |-> e.size] :
                            e \in {e \in listing : Damaged(e)}}]
  /\ UNCHANGED <<jobVars, stream, at, pos, lost, twvl, listing>>

Next == Select \/ LaySegment \/ Save \/ List \/ \E skip \in BOOLEAN : WriteTar(skip)
-----------------------------------------------------------------------------
(***************************************************************************)
(* What is true of the backup, told from what was written and what was lost. *)
(***************************************************************************)
Ratio == IF backup.compressed THEN MaxRatio ELSE 1
LostCells ==
  UNION {RoomTo(n - 1) * Ratio .. RoomTo(n) * Ratio - 1 :
           n \in {n \in DOMAIN tape : IsLost(tape[n].fate)
                                      \/ (backup.compressed /\ tape[n].fate = "garbled")}}
DataAt == IF backup.dirLast THEN 0 ELSE Len(recorded.cells) - recorded.data
DirectoryAt == IF backup.dirLast THEN Len(recorded.cells) - recorded.dir ELSE 0
EntryAtCell(i) ==
  LET AddCells(n, j) == n + EntryCells(j) IN FoldLeft(AddCells, DataAt, [j \in 1 .. i - 1 |-> j])
EntryRange(i) == EntryAtCell(i) .. EntryAtCell(i) + EntryCells(i) - 1
DataRange(i) == EntryAtCell(i) + EntryCells(i) - Len(Tree[i].data)
                  .. EntryAtCell(i) + EntryCells(i) - 1
DirectoryRange == DirectoryAt .. DirectoryAt + recorded.dir - 1
Cut(cells) == cells \cap LostCells # {}
Files == {i \in DOMAIN Tree : ~Tree[i].dir}
SizeKnown(i) == Tree[i].path \notin backup.unknown

\* An extended entry whose areas fell into a hole: it is listed as an empty file.
LostItsAreas(i) == backup.extended /\ DirectoryAt + 2 * i - 1 \in LostCells

\* A file that holds the letters of a link right before the end of what was read is cut at
\* them, and reported whole (qic113._strip_link_subsection).
LinkIsFar ==
  LET read == {i \in 0 .. Len(recorded.cells) - 1 : CellAt(recorded.cells, i) # Null} \ LostCells
  IN \A i \in read : Is(recorded.cells, i, "link") => \E j \in read : j >= i + LinkMax

\* Whatever segments are lost, a file that the damage report does not name is one of the
\* backup's and has exactly its bytes.  Left out are the one entry at which a hole cuts the
\* directory of an extended volume, the end of a file whose size was not known, what is cut
\* at a link that is none, and empty entries read where a lost directory was looked for when
\* the table does not give the sections' sizes.
WholeIsWhole ==
  stage = "done" /\ LinkIsFar =>
    \A m \in tar.files : ~m.reported =>
      \/ ~backup.sized /\ m.data = <<>>
      \/ \E i \in Files : /\ Tree[i].path = m.path
                          /\ \/ m.data = Tree[i].data
                             \/ LostItsAreas(i)
                             \/ ~SizeKnown(i) /\ IsPrefix(Tree[i].data, m.data)

\* With its directory whole, and its sections' sizes in the table, every file of the backup
\* is listed under its path; a file with no lost cell is never reported, and what a reported
\* file is said to miss is what it lost.
DamageIsExact ==
  stage \in {"listed", "done"} /\ ~Cut(DirectoryRange) /\ LinkIsFar /\ backup.sized =>
    \A i \in Files :
      \E e \in listing :
        /\ e.path = Tree[i].path
        /\ ~Cut(EntryRange(i)) => Damaged(e) = Tree[i].bad
        /\ ~e.lost /\ SizeKnown(i) /\ ~Cut(EntryRange(i) \ DataRange(i)) =>
             /\ e.size = Len(Tree[i].data)
             /\ e.missing = Cardinality(DataRange(i) \cap LostCells)
        /\ e.lost => e.missing = Len(Tree[i].data)

\* A volume that is refused has left no file behind.
RefusedIsUnwritten == stage = "refused" /\ ~vtbl.extended => twvl = <<>>
=============================================================================
