---------------------------- MODULE TapeAssembly ----------------------------
(***************************************************************************)
(* From the marks that the passes over a tape hold to the segments of its  *)
(* image: recover_sectors_from_bytes() pairs IDs with data fields, union() *)
(* keeps the best copy of every coordinate over all passes,                *)
(* locate_header() walks the placed segments for the header and its        *)
(* bad-sector map, and build_image() corrects what the map leaves.         *)
(*                                                                         *)
(* A pass meets the tape's marks in order, from the start of any segment   *)
(* to anywhere: found, lost, misread or with a failed CRC.  A segment is   *)
(* an index mark and Width pairs of an ID and a data field; sectors hold   *)
(* values, not bytes, and Reed-Solomon is its contract: at most Redundancy *)
(* erasures are solved, and solved right if what was read is right and the *)
(* codeword is the one that was written.                                   *)
(***************************************************************************)
EXTENDS Integers, FiniteSets

CONSTANTS Total,       \* segments of the tape
          Width,       \* sectors of a segment (32)
          Redundancy,  \* parity sectors of a codeword (3)
          HeaderSegs,  \* the header segment and its duplicate
          BadSegs,     \* segments the bad-sector map gives up (F8 marks)
          Excluded,    \* the slots of each segment that the map excludes
          JunkMaps,    \* maps that damaged bytes can be read as
          Misreads,    \* coordinates that a damaged ID can be read as
          Passes,      \* bound: passes over the tape
          MaxDamage    \* bound: marks lost, misread or failing their CRC, and
                       \* passes cut off inside a segment

Segs     == 0 .. Total - 1
Slots    == 0 .. Width - 1
Coords   == Segs \X Slots
NoCoord  == <<-1, -1>>           \* no ID, or one that place() drops
Maps     == [excluded : [Segs -> SUBSET Slots], bad : SUBSET Segs]

ASSUME TapeAssumption ==
  /\ Total \in Nat \ {0} /\ Width \in Nat \ {0}
  /\ Redundancy \in Nat /\ Redundancy + 1 < Width
  /\ HeaderSegs \subseteq Segs /\ BadSegs \subseteq Segs
  /\ Excluded \in [Segs -> SUBSET Slots]
  /\ JunkMaps \subseteq Maps /\ Misreads \subseteq Coords \cup {NoCoord}
  /\ Passes \in Nat \ {0} /\ MaxDamage \in Nat

\* The header and its duplicate are on the first segments without a defect
\* (identify.py:6).
ASSUME HeadersAssumption == \A h \in HeaderSegs : h \notin BadSegs /\ Excluded[h] = {}

VARIABLES
  pass,      \* the pass being scanned
  at,        \* the segment and the mark in it that come next
  pending,   \* the ID that waits for its data field
  best,      \* union()'s dict: the best copy of each coordinate
  phase,     \* scan, search, build, done or refused
  seg,       \* _find_header: the segment looked at
  map,       \* the bad-sector map of the header that was found
  image,     \* the segment table, once built
  copies,    \* history: the CRC-good sectors, under the ID they came with
  tried,     \* history: segments corrected while looking for the header
  misread,   \* history: an ID was read as another one
  dark,      \* history: nothing was found since a data mark was lost
  swallowed, \* history: a data mark and the ID after it were lost together
  damage     \* marks damaged so far

scan == <<pass, at, pending, misread, dark, swallowed, damage>>
vars == <<scan, best, phase, seg, map, image, copies, tried>>

-----------------------------------------------------------------------------
(* Values of a sector's bytes. *)

Value(name, s, k) == [name |-> name, seg |-> s, slot |-> k]
Junk  == Value("junk", 0, 0)     \* failed its CRC
Torn  == Value("torn", 0, 0)     \* failed its CRC, the signature is intact
Zero  == Value("zero", 0, 0)     \* zero-filled
Wrong == Value("wrong", 0, 0)    \* solved from a codeword that was not written
\* What the tape holds: the two headers are copies of each other.
Truth(c) == IF c[1] \in HeaderSegs THEN Value("header", 0, c[2])
                                   ELSE Value("data", c[1], c[2])
Signed   == {Value("header", 0, 0), Torn}
Values   == {Junk, Torn, Zero, Wrong} \cup {Truth(c) : c \in Coords}
Sectors  == [val : Values, ok : BOOLEAN, deleted : BOOLEAN]

NoMap   == [excluded |-> [s \in Segs |-> {}], bad |-> {}]

States  == {"clean", "corrected", "uncorrectable", "missing", "bad"}

TypeOK ==
  /\ pass \in 1 .. Passes /\ at \in (0 .. Total) \X (0 .. 2 * Width)
  /\ pending \in Coords \cup {NoCoord}
  /\ DOMAIN best \subseteq Coords /\ \A c \in DOMAIN best : best[c] \in Sectors
  /\ phase \in {"scan", "search", "build", "done", "refused"}
  /\ seg \in 0 .. Total /\ map \in Maps
  /\ copies \subseteq [at : Coords, val : Values]
  /\ DOMAIN image \subseteq Segs
  /\ \A s \in DOMAIN image : image[s].state \in States /\ image[s].erasures \in 0 .. Width
  /\ tried \subseteq Segs
  /\ misread \in BOOLEAN /\ dark \in BOOLEAN /\ swallowed \in BOOLEAN
  /\ damage \in 0 .. MaxDamage

Init ==
  /\ pass = 1 /\ pending = NoCoord /\ best = [c \in {} |-> Zero]
  /\ at \in Segs \X {0}
  /\ phase = "scan" /\ seg = 0 /\ map = NoMap
  /\ image = [s \in {} |-> Zero]
  /\ copies = {} /\ tried = {}
  /\ misread = FALSE /\ dark = FALSE /\ swallowed = FALSE /\ damage = 0

-----------------------------------------------------------------------------
(* The scan of a pass, and union() behind it. *)

SegAt   == at[1]
MarkAt  == at[2]                      \* 0 index, odd IDs, even data marks
CoordAt == <<SegAt, (MarkAt - 1) \div 2>>
NextMark == IF MarkAt < 2 * Width THEN <<SegAt, MarkAt + 1>> ELSE <<SegAt + 1, 0>>

\* A good copy is never replaced, a bad one only by a good one.
UnionLatest(c, sector) == [x \in DOMAIN best \cup {c} |->
                             IF x = c THEN sector ELSE best[x]]
Union(c, sector) ==
  IF c \in DOMAIN best /\ (best[c].ok \/ ~sector.ok) THEN best
  ELSE [x \in DOMAIN best \cup {c} |-> IF x = c THEN sector ELSE best[x]]

\* A data field without a usable ID comes as FSC 0, which place() drops.
KeepOrphan(c, sector) == best' = Union(c, sector)
Keep(c, sector) ==
  IF c \in Coords THEN best' = Union(c, sector) ELSE UNCHANGED best

InScan == phase = "scan" /\ SegAt < Total /\ at' = NextMark
Still  == UNCHANGED <<pass, phase, seg, map, image, tried>>
Spend  == damage < MaxDamage /\ damage' = damage + 1

ReadIndexKeepsId ==
  /\ InScan /\ MarkAt = 0 /\ dark' = FALSE
  /\ UNCHANGED <<pending, best, copies, misread, swallowed, damage>> /\ Still
ReadIndex ==
  /\ InScan /\ MarkAt = 0
  /\ pending' = NoCoord /\ dark' = FALSE
  /\ UNCHANGED <<best, copies, misread, swallowed, damage>> /\ Still

\* The ID's own CRC is recorded in the sector and asked by nobody after it.
ReadId ==
  /\ InScan /\ MarkAt % 2 = 1 /\ dark' = FALSE
  /\ \/ pending' = CoordAt /\ UNCHANGED <<misread, damage>>
     \/ /\ pending' \in Misreads \ {CoordAt}
        /\ misread' = TRUE /\ Spend
  /\ UNCHANGED <<best, copies, swallowed>> /\ Still

ReadData ==
  /\ InScan /\ MarkAt > 0 /\ MarkAt % 2 = 0
  /\ pending' = NoCoord /\ dark' = FALSE
  /\ \/ /\ Keep(pending, [val |-> Truth(CoordAt), ok |-> TRUE,
                          deleted |-> SegAt \in BadSegs])
        /\ copies' = IF pending \in Coords
                     THEN copies \cup {[at |-> pending, val |-> Truth(CoordAt)]}
                     ELSE copies
        /\ UNCHANGED damage
     \/ /\ \E v \in {Junk} \cup (IF Truth(CoordAt) \in Signed THEN {Torn} ELSE {}) :
             Keep(pending, [val |-> v, ok |-> FALSE,
                            deleted |-> SegAt \in BadSegs])
        /\ Spend /\ UNCHANGED copies
  /\ UNCHANGED <<misread, swallowed>> /\ Still

\* A dropout: the sync is not recognised, the scan goes on behind it.
LoseMark ==
  /\ InScan /\ Spend
  /\ dark' = (dark \/ (MarkAt > 0 /\ MarkAt % 2 = 0))
  /\ swallowed' = (swallowed \/ (dark /\ MarkAt % 2 = 1))
  /\ UNCHANGED <<pending, best, copies, misread>> /\ Still

\* A pass ends anywhere; the next starts at any segment.
EndPass ==
  /\ phase = "scan" /\ pending' = NoCoord /\ dark' = FALSE
  /\ IF MarkAt = 0 THEN UNCHANGED damage ELSE Spend
  /\ IF pass < Passes
     THEN /\ pass' = pass + 1 /\ UNCHANGED phase
          /\ at' \in Segs \X {0}
     ELSE phase' = "search" /\ UNCHANGED <<pass, at>>
  /\ UNCHANGED <<best, seg, map, image, copies, tried, misread, swallowed>>

-----------------------------------------------------------------------------
(* Reed-Solomon over one segment, from the best copies. *)

Read(s) == {k \in Slots : <<s, k>> \in DOMAIN best}
Rows(excl) == Slots \ excl
ErasedOrExcluded(s, excl) ==
  {k \in Slots : k \notin Read(s) \/ ~best[<<s, k>>].ok \/ best[<<s, k>>].deleted}
Erased(s, excl) ==
  {k \in Rows(excl) : k \notin Read(s) \/ ~best[<<s, k>>].ok \/ best[<<s, k>>].deleted}
Solvable(s, excl) == Cardinality(Erased(s, excl)) <= Redundancy

\* Erased rows enter the solver as zeros: what they held does not matter.
SolvedWithCorrupt(s, excl, k) ==
  IF k \notin Erased(s, excl) THEN best[<<s, k>>].val
  ELSE IF excl = Excluded[s] /\ \A j \in Rows(excl) :
            j \in Read(s) => best[<<s, j>>].val = Truth(<<s, j>>)
       THEN Truth(<<s, k>>) ELSE Wrong
Solved(s, excl, k) ==
  IF k \notin Erased(s, excl) THEN best[<<s, k>>].val
  ELSE IF excl = Excluded[s] /\ \A j \in Rows(excl) \ Erased(s, excl) :
            best[<<s, j>>].val = Truth(<<s, j>>)
       THEN Truth(<<s, k>>) ELSE Wrong

\* Parity is in the last rows.
DataRows(excl) == {k \in Rows(excl) :
                     Cardinality({j \in Rows(excl) : j > k}) >= Redundancy}
RawRow(s, k) == IF k \in Read(s) THEN best[<<s, k>>].val ELSE Zero

\* correct(): the solved rows are written into the sectors there are.
Scatter(s) == [c \in DOMAIN best |->
  IF c[1] # s THEN best[c]
  ELSE [val |-> Solved(s, {}, c[2]), ok |-> TRUE, deleted |-> best[c].deleted]]

-----------------------------------------------------------------------------
(* The search for the header: no map yet, so nothing is excluded. *)

\* parse_header_data on the data area given to it, whatever its state; the
\* map is in slot 1.
MapsIn(value) == IF value = Value("header", 0, 1)
                 THEN {[excluded |-> Excluded, bad |-> BadSegs]}
                 ELSE IF value = Zero THEN {NoMap} ELSE JunkMaps
TakeHeader(value) ==
  /\ map' \in MapsIn(value) /\ phase' = "build"
  /\ UNCHANGED seg
NextSegment == seg' = seg + 1 /\ UNCHANGED <<map, phase>>

FoundRaw == RawRow(seg, 0) \in Signed
ReadableAtAll(s) == 0 \in Read(s)
Readable(s) == /\ 0 \in Read(s)
               /\ best[<<s, 0>>].ok /\ ~best[<<s, 0>>].deleted

InSearch == /\ phase = "search" /\ seg < Total
            /\ UNCHANGED <<scan, image, copies>>

SearchRaw ==
  /\ InSearch /\ Read(seg) # {} /\ FoundRaw
  /\ TakeHeader(RawRow(seg, 1)) /\ UNCHANGED <<best, tried>>

SearchSkips ==
  /\ InSearch /\ (Read(seg) = {} \/ (~FoundRaw /\ Readable(seg)))
  /\ NextSegment /\ UNCHANGED <<best, tried>>

SearchCorrects ==
  /\ InSearch /\ Read(seg) # {} /\ ~FoundRaw /\ ~Readable(seg)
  /\ IF Solvable(seg, {})
     THEN /\ tried' = tried \cup {seg} /\ best' = Scatter(seg)
          /\ IF Solved(seg, {}, 0) \in Signed
             THEN TakeHeader(Solved(seg, {}, 1)) ELSE NextSegment
     ELSE UNCHANGED <<best, tried>> /\ NextSegment

NoHeader ==
  /\ phase = "search" /\ seg = Total /\ phase' = "refused"
  /\ UNCHANGED <<scan, best, seg, map, image, copies, tried>>

-----------------------------------------------------------------------------
(* build_image: one entry of the segment table per segment. *)

Entry(s) ==
  LET excl == map.excluded[s]
      lost == Cardinality(Erased(s, excl)) IN
  IF s \in map.bad THEN [state |-> "bad", erasures |-> 0, data |-> <<>>]
  ELSE IF Read(s) = {} THEN [state |-> "missing", erasures |-> 0, data |-> <<>>]
  ELSE IF ~Solvable(s, excl)
       THEN [state |-> "uncorrectable", erasures |-> lost,
             data |-> [k \in DataRows(excl) |-> RawRow(s, k)]]
  ELSE [state |-> IF lost = 0 THEN "clean" ELSE "corrected", erasures |-> lost,
        data |-> [k \in DataRows(excl) |-> Solved(s, excl, k)]]

BuildImage ==
  /\ phase = "build" /\ phase' = "done"
  /\ image' = [s \in Segs |-> Entry(s)]
  /\ UNCHANGED <<scan, best, seg, map, copies, tried>>

Next == \/ ReadIndex \/ ReadId \/ ReadData \/ LoseMark \/ EndPass
        \/ SearchRaw \/ SearchSkips \/ SearchCorrects \/ NoHeader \/ BuildImage

Spec == Init /\ [][Next]_vars
-----------------------------------------------------------------------------
Misplaced == \E p \in copies : p.val # Truth(p.at)
TrueMap   == map = [excluded |-> Excluded, bad |-> BadSegs]
Good(s)   == {k \in Slots : \E p \in copies : p.at = <<s, k>>}

(***************************************************************************)
(* A coordinate that any pass read with a good CRC stays good, whatever    *)
(* the other passes hold of it, in whichever order they come, and whatever *)
(* the search for the header writes into the sectors.                      *)
(***************************************************************************)
GoodIsKept == \A p \in copies : p.at \in DOMAIN best /\ best[p.at].ok

(***************************************************************************)
(* A data field gets under another sector's coordinate only through an ID  *)
(* that was itself misread, or a dropout that takes a data mark together   *)
(* with the ID after it: any other lost marks, index marks among them,     *)
(* cost sectors and misplace none.                                         *)
(***************************************************************************)
OnlyBurstsMisplace == Misplaced => misread \/ swallowed

(***************************************************************************)
(* The erasures in the segment table are the sectors of the codeword that  *)
(* no pass read: a merge over any number of passes neither hides nor       *)
(* invents one.  Left out: a segment that the search has corrected, and a  *)
(* tape with misplaced sectors.                                            *)
(***************************************************************************)
ErasuresAreExact == phase = "done" /\ ~Misplaced =>
  \A s \in {s \in Segs \ (tried \cup map.bad) : image[s].state # "missing"} :
    image[s].erasures = Cardinality(
      {k \in Rows(map.excluded[s]) : s \in BadSegs \/ k \notin Good(s)})

(***************************************************************************)
(* With the tape's map and nothing misplaced, a CLEAN or CORRECTED segment *)
(* holds what was recorded, and a BAD one is one the recorder gave up.     *)
(* Left out: a segment with excluded sectors that the search corrected     *)
(* before the map was known.                                               *)
(***************************************************************************)
TrustworthyUnderMap == phase = "done" /\ TrueMap /\ ~Misplaced =>
  \A s \in Segs :
    (s \notin tried \/ Excluded[s] = {}) /\ image[s].state \in {"clean", "corrected"} =>
      \A k \in DOMAIN image[s].data : image[s].data[k] = Truth(<<s, k>>)

(***************************************************************************)
(* A tape is refused for want of a header only if of neither copy the      *)
(* first sector, or enough sectors to correct it, were read.               *)
(***************************************************************************)
HeaderIsFound == phase = "refused" /\ ~Misplaced =>
  \A h \in HeaderSegs :
    0 \notin Good(h) /\ Cardinality(Good(h)) < Width - Redundancy

=============================================================================
