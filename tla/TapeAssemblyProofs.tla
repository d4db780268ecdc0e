------------------------ MODULE TapeAssemblyProofs ------------------------
(***************************************************************************)
(* For every tape (any number of segments, sectors, parity rows, headers,  *)
(* excluded sectors), any number of passes and any amount of damage:       *)
(*   - the merge keeps every sector that a pass read with a good CRC;      *)
(*   - with the tape's own bad-sector map and nothing misplaced, what the  *)
(*     segment table calls clean or corrected is what the tape holds.      *)
(*   - the erasures that it counts are the sectors that no pass read well; *)
(*   - a tape is refused only if neither header could be read or mended.   *)
(*                                                                         *)
(* GoodIsKept is inductive with the types.  TrustworthyUnderMap needs to   *)
(* know where a good sector's bytes come from: TrueUnlessTried says that a *)
(* good sector of a segment that the header search has not corrected under *)
(* the wrong codeword holds the tape's bytes, which every pass and every   *)
(* correction maintain; ImageIsBuilt carries it over the last step.        *)
(* OkFromCopy says the same of the passes themselves: a good sector is one *)
(* of the copies, deleted if the recorder gave its segment up.  For the    *)
(* search, HeaderPassed and SearchPlace say what it has seen of a header   *)
(* that it has left behind.                                                *)
(*                                                                         *)
(* The identification (TapeIdentity) takes one step: what has to be        *)
(* proved is about the step's definitions.  For every catalogue, profile   *)
(* and tape, its notes are true of the list of volumes (NotesAreTrue), and *)
(* a tape is called the cartridge it is (CartridgeIsNamed).                *)
(*                                                                         *)
(* A volume with holes (SparseVolume) has an easy invariant, chunks sorted *)
(* by where they start, and algorithms that are not: each is a recursion   *)
(* over a sequence, and what is proved is what it computes for every one.  *)
(* UpToInduction and RecursionExists stand in for the induction theorems   *)
(* that take a predicate.  A read and a count sweep over sorted ranges     *)
(* (IsSweep): what lies below the mark is counted, and no later range has  *)
(* a number below it that an earlier one left out.                         *)
(***************************************************************************)
EXTENDS TapeAssembly, TapeIdentity, SparseVolume, FiniteSetTheorems, SequenceTheorems,
        WellFoundedInduction, TLAPS

-----------------------------------------------------------------------------
(* The operators. *)

\* The union of the best copies with one more: it stays a table of sectors,
\* forgets no coordinate, and no good copy turns bad.
LEMMA UnionTyped ==
  ASSUME TypeOK, NEW c \in Coords, NEW sector \in Sectors,
         NEW u, u = Union(c, sector)
  PROVE  /\ DOMAIN u = DOMAIN best \cup {c}
         /\ \A x \in DOMAIN u : u[x] \in Sectors
         /\ \A x \in DOMAIN best : best[x].ok => u[x] = best[x]
         /\ sector.ok => u[c].ok
<1>1. CASE c \in DOMAIN best /\ (best[c].ok \/ ~sector.ok)
  BY <1>1 DEF Union, TypeOK
<1>2. CASE ~(c \in DOMAIN best /\ (best[c].ok \/ ~sector.ok))
  <2>1. u = [x \in DOMAIN best \cup {c} |-> IF x = c THEN sector ELSE best[x]]
    BY <1>2 DEF Union
  <2> QED BY <1>2, <2>1 DEF TypeOK
<1> QED BY <1>1, <1>2

\* Where the union takes a good sector from.
LEMMA UnionOrigin ==
  ASSUME TypeOK, NEW c \in Coords, NEW sector \in Sectors,
         NEW u, u = Union(c, sector), NEW x \in DOMAIN u, u[x].ok
  PROVE  (x \in DOMAIN best /\ u[x] = best[x]) \/ (x = c /\ u[x] = sector)
BY DEF Union, TypeOK

\* The next mark of the tape belongs to one of its sectors.
LEMMA CoordTyped ==
  ASSUME TypeOK, SegAt < Total, MarkAt > 0
  PROVE  SegAt \in Segs /\ CoordAt \in Coords /\ Truth(CoordAt) \in Values
<1>1. SegAt \in Segs /\ MarkAt \in 1 .. 2 * Width
  BY TapeAssumption DEF TypeOK, SegAt, MarkAt, Segs
<1>2. (MarkAt - 1) \div 2 \in Slots
  BY <1>1, TapeAssumption DEF Slots
<1> QED BY <1>1, <1>2 DEF CoordAt, Coords, Values

\* A solved or read row is a value, and so is every sector after a correction.
LEMMA ScatterTyped ==
  ASSUME TypeOK, NEW s \in Segs, NEW u, u = Scatter(s)
  PROVE  /\ DOMAIN u = DOMAIN best
         /\ \A x \in DOMAIN u : u[x] \in Sectors
         /\ \A x \in DOMAIN best : best[x].ok => u[x].ok
<1>1. u = [c \in DOMAIN best |-> IF c[1] # s THEN best[c]
             ELSE [val |-> Solved(s, {}, c[2]), ok |-> TRUE,
                   deleted |-> best[c].deleted]]
  BY DEF Scatter
<1>2. \A x \in DOMAIN best : x[1] = s => Solved(s, {}, x[2]) \in Values
  <2> SUFFICES ASSUME NEW x \in DOMAIN best, x[1] = s
               PROVE  Solved(s, {}, x[2]) \in Values
    OBVIOUS
  <2>1. x \in Coords /\ x = <<s, x[2]>> /\ x[2] \in Slots /\ best[x] \in Sectors
    BY DEF TypeOK, Coords
  <2>2. Truth(x) \in Values /\ Wrong \in Values /\ best[x].val \in Values
    BY <2>1 DEF Values, Sectors
  <2> QED BY <2>1, <2>2 DEF Solved
<1>3. \A x \in DOMAIN best : best[x] \in Sectors
  BY DEF TypeOK
<1> QED BY <1>1, <1>2, <1>3 DEF Sectors

\* The erasures of a segment are a subset of its slots.
LEMMA ErasedTyped ==
  ASSUME NEW s \in Segs, NEW excl
  PROVE  Cardinality(Erased(s, excl)) \in 0 .. Width
<1>1. Erased(s, excl) \subseteq 0 .. Width - 1
  BY DEF Erased, Rows, Slots
<1>2. IsFiniteSet(0 .. Width - 1) /\ Cardinality(0 .. Width - 1) = Width
  BY FS_Interval, TapeAssumption
<1>3. /\ Cardinality(Erased(s, excl)) \in Nat
      /\ Cardinality(Erased(s, excl)) <= Width
  BY <1>1, <1>2, FS_Subset, FS_CardinalityType
<1> QED BY <1>3, TapeAssumption

\* An entry of the segment table has one of the states, and no more erasures
\* than a segment has sectors.
LEMMA EntryTyped ==
  ASSUME NEW s \in Segs
  PROVE  Entry(s).state \in States /\ Entry(s).erasures \in 0 .. Width
<1>1. Cardinality(Erased(s, map.excluded[s])) \in 0 .. Width
  BY ErasedTyped
<1>2. 0 \in 0 .. Width
  BY TapeAssumption
<1> QED BY <1>1, <1>2 DEF Entry, States

\* Whatever bytes the header's map sector holds, what is read is a map.
LEMMA MapsTyped == ASSUME NEW value PROVE MapsIn(value) \subseteq Maps
<1>1. [excluded |-> Excluded, bad |-> BadSegs] \in Maps
  BY TapeAssumption DEF Maps
<1>2. NoMap \in Maps
  BY DEF NoMap, Maps
<1> QED BY <1>1, <1>2, TapeAssumption DEF MapsIn

-----------------------------------------------------------------------------
(* Types. *)

\* A data mark that gives a sector: best and copies stay typed.
LEMMA KeepTyped ==
  ASSUME TypeOK, NEW sector \in Sectors, Keep(pending, sector)
  PROVE  /\ DOMAIN best' \subseteq Coords
         /\ \A x \in DOMAIN best' : best'[x] \in Sectors
<1>1. CASE pending \in Coords
  <2>1. best' = Union(pending, sector)
    BY <1>1 DEF Keep
  <2>2. DOMAIN best' = DOMAIN best \cup {pending}
    BY <1>1, <2>1, UnionTyped
  <2>3. \A x \in DOMAIN best' : best'[x] \in Sectors
    BY <1>1, <2>1, UnionTyped
  <2> QED BY <1>1, <2>2, <2>3 DEF TypeOK
<1>2. CASE pending \notin Coords
  BY <1>2 DEF Keep, TypeOK
<1> QED BY <1>1, <1>2

\* The next mark is a mark of the tape, or its end.
LEMMA NextMarkTyped ==
  ASSUME TypeOK, SegAt < Total
  PROVE  NextMark \in (0 .. Total) \X (0 .. 2 * Width)
BY TapeAssumption DEF TypeOK, SegAt, MarkAt, NextMark

\* What the tape and a failed CRC give are sectors.
LEMMA SectorsTyped ==
  ASSUME TypeOK, SegAt < Total, MarkAt > 0, NEW ok \in BOOLEAN,
         NEW v \in {Junk, Torn, Truth(CoordAt)}
  PROVE  [val |-> v, ok |-> ok, deleted |-> SegAt \in BadSegs] \in Sectors
<1>1. v \in Values
  BY CoordTyped DEF Values
<1> QED BY <1>1 DEF Sectors

\* Types hold to begin with.
LEMMA TypeOKInit == Init => TypeOK
<1> SUFFICES ASSUME Init PROVE TypeOK
  OBVIOUS
<1>1. NoMap \in Maps
  BY DEF NoMap, Maps
<1>2. at \in (0 .. Total) \X (0 .. 2 * Width) /\ pass \in 1 .. Passes
  BY TapeAssumption DEF Init, Segs
<1>3. DOMAIN best = {} /\ DOMAIN image = {}
  BY DEF Init
<1>4. seg \in 0 .. Total /\ damage \in 0 .. MaxDamage
  BY TapeAssumption DEF Init
<1>5. /\ phase = "scan" /\ map = NoMap /\ copies = {} /\ tried = {}
      /\ pending = NoCoord /\ misread = FALSE /\ dark = FALSE /\ swallowed = FALSE
  BY DEF Init
<1> QED BY <1>1, <1>2, <1>3, <1>4, <1>5 DEF TypeOK

\* Reading a data field keeps the types.
LEMMA ReadDataTyped == ASSUME TypeOK, ReadData PROVE TypeOK'
<1>1. SegAt < Total /\ MarkAt > 0 /\ at' = NextMark
  BY DEF ReadData, InScan
<1>2. at' \in (0 .. Total) \X (0 .. 2 * Width)
  BY <1>1, NextMarkTyped
<1>3. Truth(CoordAt) \in Values
  BY <1>1, CoordTyped
<1>4. /\ DOMAIN best' \subseteq Coords
      /\ \A x \in DOMAIN best' : best'[x] \in Sectors
  <2>1. \A v \in {Junk, Torn, Truth(CoordAt)}, ok \in BOOLEAN :
          [val |-> v, ok |-> ok, deleted |-> SegAt \in BadSegs] \in Sectors
    BY <1>1, SectorsTyped
  <2>2. PICK v \in {Junk, Torn, Truth(CoordAt)}, ok \in BOOLEAN :
          Keep(pending, [val |-> v, ok |-> ok, deleted |-> SegAt \in BadSegs])
    BY DEF ReadData
  <2> QED BY <2>1, <2>2, KeepTyped
<1>5. copies' \subseteq [at : Coords, val : Values]
  BY <1>3 DEF ReadData, TypeOK
<1>6. pending' \in Coords \cup {NoCoord} /\ dark' \in BOOLEAN
  BY DEF ReadData
<1>7. damage' \in 0 .. MaxDamage
  BY TapeAssumption DEF ReadData, Spend, TypeOK
<1> QED BY <1>2, <1>4, <1>5, <1>6, <1>7 DEF ReadData, Still, TypeOK

\* Every step keeps the types.
LEMMA TypeOKStep == ASSUME TypeOK, [Next]_vars PROVE TypeOK'
<1>1. CASE ReadIndex \/ LoseMark
  <2>1. at' \in (0 .. Total) \X (0 .. 2 * Width)
    BY <1>1, NextMarkTyped DEF ReadIndex, LoseMark, InScan
  <2>2. damage' \in 0 .. MaxDamage
    BY <1>1, TapeAssumption DEF ReadIndex, LoseMark, Spend, TypeOK
  <2>3. dark' \in BOOLEAN /\ swallowed' \in BOOLEAN
    BY <1>1 DEF ReadIndex, LoseMark, TypeOK
  <2> QED BY <1>1, <2>1, <2>2, <2>3 DEF ReadIndex, LoseMark, Still, TypeOK
<1>2. CASE ReadId
  <2>1. at' \in (0 .. Total) \X (0 .. 2 * Width)
    BY <1>2, NextMarkTyped DEF ReadId, InScan
  <2>2. MarkAt > 0 /\ SegAt < Total
    BY <1>2, TapeAssumption DEF ReadId, InScan, TypeOK, MarkAt
  <2>3. pending' \in Coords \cup {NoCoord}
    BY <1>2, <2>2, CoordTyped, TapeAssumption DEF ReadId
  <2>4. damage' \in 0 .. MaxDamage
    BY <1>2, TapeAssumption DEF ReadId, Spend, TypeOK
  <2>5. misread' \in BOOLEAN /\ dark' \in BOOLEAN
    BY <1>2 DEF ReadId, TypeOK
  <2> QED BY <1>2, <2>1, <2>3, <2>4, <2>5 DEF ReadId, Still, TypeOK
<1>3. CASE ReadData
  BY <1>3, ReadDataTyped
<1>4. CASE EndPass
  <2>1. pass' \in 1 .. Passes /\ at' \in (0 .. Total) \X (0 .. 2 * Width)
    <3>1. pass \in 1 .. Passes /\ Passes \in Nat /\ at \in (0 .. Total) \X (0 .. 2 * Width)
      BY TapeAssumption DEF TypeOK
    <3>2. CASE pass < Passes
      <4>1. pass' = pass + 1 /\ at' \in Segs \X {0}
        BY <1>4, <3>2 DEF EndPass
      <4>2. Segs \subseteq 0 .. Total /\ 0 \in 0 .. 2 * Width
        <5>1. Total \in Nat /\ Width \in Nat
          BY TapeAssumption
        <5> QED BY <5>1 DEF Segs
      <4>3. at' \in (0 .. Total) \X (0 .. 2 * Width)
        BY <4>1, <4>2
      <4>4. pass' \in 1 .. Passes
        BY <3>1, <3>2, <4>1
      <4> QED BY <4>3, <4>4
    <3>3. CASE ~(pass < Passes)
      BY <1>4, <3>1, <3>3 DEF EndPass
    <3> QED BY <3>2, <3>3
  <2>2. damage' \in 0 .. MaxDamage
    BY <1>4, TapeAssumption DEF EndPass, Spend, TypeOK
  <2> QED BY <1>4, <2>1, <2>2 DEF EndPass, TypeOK
<1>5. CASE SearchRaw \/ SearchSkips \/ SearchCorrects
  <2>1. seg \in Segs /\ seg' \in 0 .. Total
    BY <1>5, TapeAssumption
    DEF SearchRaw, SearchSkips, SearchCorrects, InSearch, TakeHeader,
        NextSegment, TypeOK, Segs
  <2>2. map' \in Maps
    BY <1>5, MapsTyped
    DEF SearchRaw, SearchSkips, SearchCorrects, TakeHeader, NextSegment, TypeOK
  <2>3. phase' \in {"search", "build"}
    BY <1>5
    DEF SearchRaw, SearchSkips, SearchCorrects, InSearch, TakeHeader, NextSegment
  <2>4. /\ DOMAIN best' \subseteq Coords
        /\ \A x \in DOMAIN best' : best'[x] \in Sectors
    <3>1. best' = best \/ best' = Scatter(seg)
      BY <1>5 DEF SearchRaw, SearchSkips, SearchCorrects
    <3> QED BY <2>1, <3>1, ScatterTyped DEF TypeOK
  <2>5. tried' \subseteq Segs
    BY <1>5, <2>1 DEF SearchRaw, SearchSkips, SearchCorrects, TypeOK
  <2>6. UNCHANGED <<scan, image, copies>>
    BY <1>5 DEF SearchRaw, SearchSkips, SearchCorrects, InSearch
  <2> QED BY <2>1, <2>2, <2>3, <2>4, <2>5, <2>6 DEF TypeOK, scan
<1>6. CASE NoHeader
  BY <1>6 DEF NoHeader, TypeOK, scan
<1>7. CASE BuildImage
  <2>1. \A s \in Segs : Entry(s).state \in States /\ Entry(s).erasures \in 0 .. Width
    BY EntryTyped
  <2> QED BY <1>7, <2>1 DEF BuildImage, TypeOK, scan
<1>8. CASE UNCHANGED vars
  BY <1>8 DEF TypeOK, vars, scan
<1> QED BY <1>1, <1>2, <1>3, <1>4, <1>5, <1>6, <1>7, <1>8 DEF Next

\* Every variable has its type: among them, no data field without an ID ever
\* gets a place, and no segment counts more erasures than it has slots.
THEOREM TapeTypes == Spec => []TypeOK
BY TypeOKInit, TypeOKStep, PTL DEF Spec

-----------------------------------------------------------------------------
(* What the passes read well. *)

\* No step turns a good sector bad: a union keeps it, a correction only
\* improves it.
LEMMA GoodIsKeptStep == ASSUME TypeOK, GoodIsKept, [Next]_vars PROVE GoodIsKept'
<1> USE DEF GoodIsKept
<1>1. CASE ReadData
  <2>1. SegAt < Total /\ MarkAt > 0
    BY <1>1 DEF ReadData, InScan
  <2>2. CASE pending \notin Coords
    <3>1. best' = best
      BY <1>1, <2>2 DEF ReadData, Keep
    <3>2. copies' = copies
      BY <1>1, <2>2 DEF ReadData
    <3> QED BY <3>1, <3>2
  <2>3. ASSUME pending \in Coords, NEW sector \in Sectors, Keep(pending, sector)
        PROVE  /\ \A p \in copies : p.at \in DOMAIN best' /\ best'[p.at].ok
               /\ sector.ok => pending \in DOMAIN best' /\ best'[pending].ok
    <3>1. best' = Union(pending, sector)
      BY <2>3 DEF Keep
    <3>2. /\ DOMAIN best' = DOMAIN best \cup {pending}
          /\ \A x \in DOMAIN best : best[x].ok => best'[x] = best[x]
          /\ sector.ok => best'[pending].ok
      BY <2>3, <3>1, UnionTyped
    <3>3. ASSUME NEW p \in copies PROVE p.at \in DOMAIN best' /\ best'[p.at].ok
      <4>1. p.at \in DOMAIN best /\ best[p.at].ok
        OBVIOUS
      <4> QED BY <3>2, <4>1
    <3> QED BY <3>2, <3>3
  <2>4. CASE pending \in Coords /\ Keep(pending, [val |-> Truth(CoordAt), ok |-> TRUE,
                                                  deleted |-> SegAt \in BadSegs])
    <3>1. [val |-> Truth(CoordAt), ok |-> TRUE, deleted |-> SegAt \in BadSegs] \in Sectors
      BY <2>1, SectorsTyped
    <3>2. \A p \in copies' : p \in copies \/ p.at = pending
      BY <1>1 DEF ReadData
    <3> QED BY <2>3, <2>4, <3>1, <3>2
  <2>5. ASSUME pending \in Coords, copies' = copies, NEW v \in {Junk, Torn},
               Keep(pending, [val |-> v, ok |-> FALSE, deleted |-> SegAt \in BadSegs])
        PROVE  GoodIsKept'
    <3>1. [val |-> v, ok |-> FALSE, deleted |-> SegAt \in BadSegs] \in Sectors
      BY <2>1, <2>5, SectorsTyped
    <3> QED BY <2>3, <2>5, <3>1
  <2> QED BY <1>1, <2>2, <2>4, <2>5 DEF ReadData
<1>2. CASE SearchCorrects
  <2>1. seg \in Segs /\ copies' = copies
    BY <1>2, TapeAssumption DEF SearchCorrects, InSearch, TypeOK, Segs
  <2>2. best' = best \/ best' = Scatter(seg)
    BY <1>2 DEF SearchCorrects
  <2> QED BY <2>1, <2>2, ScatterTyped
<1>3. CASE \/ ReadIndex \/ ReadId \/ LoseMark \/ EndPass
           \/ SearchRaw \/ SearchSkips \/ NoHeader \/ BuildImage
  BY <1>3 DEF ReadIndex, ReadId, LoseMark, EndPass, SearchRaw, SearchSkips,
              NoHeader, BuildImage, InSearch
<1>4. CASE UNCHANGED vars
  BY <1>4 DEF vars
<1> QED BY <1>1, <1>2, <1>3, <1>4 DEF Next

\* A coordinate that any pass read with a good CRC stays good through every
\* later pass and through the corrections of the header search.
THEOREM GoodIsKeptAlways == Spec => []GoodIsKept
<1>1. Init => GoodIsKept
  BY DEF Init, GoodIsKept
<1>2. TypeOK /\ GoodIsKept /\ [Next]_vars => GoodIsKept'
  BY GoodIsKeptStep
<1> QED BY <1>1, <1>2, TapeTypes, PTL DEF Spec

-----------------------------------------------------------------------------
(* What the tape holds. *)

\* As long as nothing was misplaced: a good sector holds the tape's bytes,
\* unless the search has corrected its segment under the wrong codeword.
TrueUnlessTried == ~Misplaced =>
  \A c \in DOMAIN best :
    best[c].ok /\ (c[1] \notin tried \/ Excluded[c[1]] = {}) =>
      best[c].val = Truth(c)

\* The image is the segment table of the sectors it was built from.
ImageIsBuilt == phase = "done" => image = [s \in Segs |-> Entry(s)]

\* A codeword that is the written one, of true rows, gives true rows.
LEMMA SolvedTrue ==
  ASSUME TypeOK, TrueUnlessTried, ~Misplaced, NEW s \in Segs,
         s \notin tried \/ Excluded[s] = {},
         NEW k \in Rows(Excluded[s])
  PROVE  Solved(s, Excluded[s], k) = Truth(<<s, k>>)
<1>1. \A j \in Rows(Excluded[s]) \ Erased(s, Excluded[s]) :
        best[<<s, j>>].val = Truth(<<s, j>>)
  <2> SUFFICES ASSUME NEW j \in Rows(Excluded[s]) \ Erased(s, Excluded[s])
               PROVE  best[<<s, j>>].val = Truth(<<s, j>>)
    OBVIOUS
  <2>1. j \in Read(s) /\ best[<<s, j>>].ok
    BY DEF Erased
  <2>2. <<s, j>> \in DOMAIN best
    BY <2>1 DEF Read
  <2>3. <<s, j>>[1] = s
    OBVIOUS
  <2> QED BY <2>1, <2>2, <2>3 DEF TrueUnlessTried
<1> QED BY <1>1 DEF Solved

\* No step makes a good sector untrue: passes add the tape's bytes, and the
\* search solves a codeword without exclusions truly or marks its segment.
LEMMA TrueUnlessTriedStep ==
  ASSUME TypeOK, TrueUnlessTried, [Next]_vars
  PROVE  TrueUnlessTried'
<1> SUFFICES ASSUME ~Misplaced', NEW c \in DOMAIN best', best'[c].ok,
                    c[1] \notin tried' \/ Excluded[c[1]] = {}
             PROVE  best'[c].val = Truth(c)
  BY DEF TrueUnlessTried
<1>0. copies \subseteq copies' => ~Misplaced
  BY DEF Misplaced
<1>1. CASE ReadData
  <2>1. SegAt < Total /\ MarkAt > 0 /\ tried' = tried
    BY <1>1 DEF ReadData, InScan, Still
  <2>2. ~Misplaced
    BY <1>0, <1>1 DEF ReadData
  <2>3. CASE best' = best
    BY <2>1, <2>2, <2>3 DEF TrueUnlessTried
  <2>4. ASSUME pending \in Coords, NEW sector \in Sectors,
               best' = Union(pending, sector),
               sector.ok => sector.val = Truth(pending)
        PROVE  best'[c].val = Truth(c)
    <3>1. (c \in DOMAIN best /\ best'[c] = best[c]) \/ (c = pending /\ best'[c] = sector)
      BY <2>4, UnionOrigin
    <3> QED BY <2>1, <2>2, <2>4, <3>1 DEF TrueUnlessTried
  <2>5. CASE pending \in Coords /\ Keep(pending, [val |-> Truth(CoordAt), ok |-> TRUE,
                                                  deleted |-> SegAt \in BadSegs])
             /\ [at |-> pending, val |-> Truth(CoordAt)] \in copies'
    <3>1. [val |-> Truth(CoordAt), ok |-> TRUE, deleted |-> SegAt \in BadSegs] \in Sectors
      BY <2>1, SectorsTyped
    <3>2. Truth(CoordAt) = Truth(pending)
      BY <2>5 DEF Misplaced
    <3> QED BY <2>4, <2>5, <3>1, <3>2 DEF Keep
  <2>6. ASSUME pending \in Coords, NEW v \in {Junk, Torn},
               Keep(pending, [val |-> v, ok |-> FALSE, deleted |-> SegAt \in BadSegs])
        PROVE  best'[c].val = Truth(c)
    <3>1. [val |-> v, ok |-> FALSE, deleted |-> SegAt \in BadSegs] \in Sectors
      BY <2>1, <2>6, SectorsTyped
    <3> QED BY <2>4, <2>6, <3>1 DEF Keep
  <2>7. CASE pending \notin Coords
    BY <1>1, <2>3, <2>7 DEF ReadData, Keep
  <2> QED BY <1>1, <2>5, <2>6, <2>7 DEF ReadData
<1>2. CASE SearchCorrects
  <2>1. seg \in Segs /\ ~Misplaced
    BY <1>0, <1>2, TapeAssumption DEF SearchCorrects, InSearch, TypeOK, Segs
  <2>2. CASE best' = best /\ tried' = tried
    BY <2>1, <2>2 DEF TrueUnlessTried
  <2>3. CASE best' = Scatter(seg) /\ tried' = tried \cup {seg}
    <3>1. c \in DOMAIN best /\ c \in Coords
      BY <2>1, <2>3, ScatterTyped DEF TypeOK
    <3>2. CASE c[1] # seg
      <4>1. best'[c] = best[c]
        BY <2>3, <3>1, <3>2 DEF Scatter
      <4> QED BY <2>1, <2>3, <3>1, <4>1 DEF TrueUnlessTried
    <3>3. CASE c[1] = seg
      <4>1. c = <<seg, c[2]>> /\ c[2] \in Slots
        BY <3>1, <3>3 DEF Coords
      <4>2. Excluded[seg] = {}
        BY <2>3, <3>3
      <4>3. c[2] \in Rows(Excluded[seg])
        BY <4>1, <4>2 DEF Rows
      <4>4. Solved(seg, {}, c[2]) = Truth(<<seg, c[2]>>)
        BY <2>1, <4>2, <4>3, SolvedTrue
      <4>5. best'[c].val = Solved(seg, {}, c[2])
        BY <2>3, <3>1, <3>3 DEF Scatter
      <4> QED BY <4>1, <4>4, <4>5
    <3> QED BY <3>2, <3>3
  <2> QED BY <1>2, <2>2, <2>3 DEF SearchCorrects
<1>3. CASE \/ ReadIndex \/ ReadId \/ LoseMark \/ EndPass
           \/ SearchRaw \/ SearchSkips \/ NoHeader \/ BuildImage
  <2>1. UNCHANGED <<best, copies, tried>>
    BY <1>3 DEF ReadIndex, ReadId, LoseMark, EndPass, SearchRaw, SearchSkips,
                NoHeader, BuildImage, InSearch, Still
  <2> QED BY <1>0, <2>1 DEF TrueUnlessTried
<1>4. CASE UNCHANGED vars
  BY <1>0, <1>4 DEF vars, TrueUnlessTried
<1> QED BY <1>1, <1>2, <1>3, <1>4 DEF Next

\* Nothing the image was built from changes after it.
LEMMA ImageIsBuiltStep ==
  ASSUME ImageIsBuilt, [Next]_vars
  PROVE  ImageIsBuilt'
<1>1. CASE BuildImage
  <2>1. UNCHANGED <<best, map>> /\ image' = [s \in Segs |-> Entry(s)]
    BY <1>1 DEF BuildImage
  <2>2. \A s \in Segs : Entry(s)' = Entry(s)
    BY <2>1 DEF Entry, Read, Solvable, Erased, Solved, RawRow, DataRows, Rows
  <2> QED BY <2>1, <2>2 DEF ImageIsBuilt
<1>2. CASE phase = "done" /\ UNCHANGED vars
  <2>1. UNCHANGED <<best, map, image, phase>>
    BY <1>2 DEF vars
  <2>2. \A s \in Segs : Entry(s)' = Entry(s)
    BY <2>1 DEF Entry, Read, Solvable, Erased, Solved, RawRow, DataRows, Rows
  <2> QED BY <1>2, <2>1, <2>2 DEF ImageIsBuilt
<1>3. CASE phase' # "done"
  BY <1>3 DEF ImageIsBuilt
<1>4. phase' = "done" => BuildImage \/ (phase = "done" /\ UNCHANGED vars)
  BY DEF Next, ReadIndex, ReadId, ReadData, LoseMark, InScan, Still, EndPass,
         SearchRaw, SearchSkips, SearchCorrects, InSearch, TakeHeader, NextSegment,
         NoHeader, vars
<1> QED BY <1>1, <1>2, <1>3, <1>4

\* With the tape's own map and nothing misplaced, a segment that the table
\* calls clean or corrected holds what was recorded (a segment with excluded
\* sectors that the header search corrected without the map set aside).
THEOREM TrustworthyAlways == Spec => []TrustworthyUnderMap
<1>1. Init => TrueUnlessTried /\ ImageIsBuilt
  BY DEF Init, TrueUnlessTried, ImageIsBuilt
<1>2. TypeOK /\ TrueUnlessTried /\ ImageIsBuilt /\ [Next]_vars
        => TrueUnlessTried' /\ ImageIsBuilt'
  BY TrueUnlessTriedStep, ImageIsBuiltStep
<1>3. TypeOK /\ TrueUnlessTried /\ ImageIsBuilt => TrustworthyUnderMap
  <2> SUFFICES ASSUME TypeOK, TrueUnlessTried, ImageIsBuilt,
                      phase = "done", TrueMap, ~Misplaced,
                      NEW s \in Segs, s \notin tried \/ Excluded[s] = {},
                      image[s].state \in {"clean", "corrected"},
                      NEW k \in DOMAIN image[s].data
               PROVE  image[s].data[k] = Truth(<<s, k>>)
    BY DEF TrustworthyUnderMap
  <2>1. map.excluded[s] = Excluded[s]
    BY DEF TrueMap
  <2>2. image[s] = Entry(s)
    BY DEF ImageIsBuilt
  <2>3. Entry(s).data = [j \in DataRows(Excluded[s]) |-> Solved(s, Excluded[s], j)]
    BY <2>1, <2>2 DEF Entry
  <2>4. k \in Rows(Excluded[s])
    BY <2>2, <2>3 DEF DataRows
  <2>5. Solved(s, Excluded[s], k) = Truth(<<s, k>>)
    BY <2>4, SolvedTrue
  <2> QED BY <2>2, <2>3, <2>5
<1> QED BY <1>1, <1>2, <1>3, TapeTypes, PTL DEF Spec

-----------------------------------------------------------------------------
(* How IDs and data fields are paired. *)

AtData == MarkAt > 0 /\ MarkAt % 2 = 0

\* Until an ID is misread or a burst swallows one: an ID that still waits at a
\* data mark is the ID of that mark, and elsewhere one waits only behind a
\* data mark that was lost.
WaitsForItsOwn == ~misread /\ ~swallowed =>
  /\ AtData => ~dark
  /\ pending # NoCoord => dark \/ (AtData /\ pending = CoordAt)

\* The marks alternate: an index or a data mark is followed by an ID or an
\* index, and an ID by the data mark of the same sector.
LEMMA MarksAlternate ==
  ASSUME TypeOK, InScan
  PROVE  /\ (AtData \/ MarkAt = 0) => ~AtData'
         /\ MarkAt % 2 = 1 => AtData' /\ CoordAt' = CoordAt
<1>1. MarkAt \in 0 .. 2 * Width /\ Width \in Nat \ {0}
  BY TapeAssumption DEF TypeOK, MarkAt
<1>2. MarkAt' = IF MarkAt < 2 * Width THEN MarkAt + 1 ELSE 0
  BY DEF InScan, NextMark, MarkAt
<1>3. MarkAt < 2 * Width => SegAt' = SegAt
  BY DEF InScan, NextMark, SegAt, MarkAt
<1>4. (AtData \/ MarkAt = 0) => ~AtData'
  BY <1>1, <1>2 DEF AtData
<1>5. ASSUME MarkAt % 2 = 1 PROVE AtData' /\ CoordAt' = CoordAt
  <2>1. MarkAt < 2 * Width /\ MarkAt' = MarkAt + 1 /\ SegAt' = SegAt
    BY <1>1, <1>2, <1>3, <1>5
  <2>2. MarkAt \div 2 = (MarkAt - 1) \div 2
    BY <1>1, <1>5
  <2>3. (MarkAt' - 1) \div 2 = (MarkAt - 1) \div 2
    BY <1>1, <2>1, <2>2
  <2> QED BY <1>1, <1>5, <2>1, <2>3 DEF AtData, CoordAt
<1> QED BY <1>4, <1>5

\* Every turn of the scan keeps IDs with their own data fields.
LEMMA PairingStep ==
  ASSUME TypeOK, WaitsForItsOwn, OnlyBurstsMisplace, [Next]_vars
  PROVE  WaitsForItsOwn' /\ OnlyBurstsMisplace'
<1>1. SUFFICES ASSUME ~misread', ~swallowed'
               PROVE  /\ AtData' => ~dark'
                      /\ pending' # NoCoord => dark' \/ (AtData' /\ pending' = CoordAt')
                      /\ ~Misplaced'
  BY DEF WaitsForItsOwn, OnlyBurstsMisplace
<1>2. ASSUME copies' = copies, ~misread, ~swallowed PROVE ~Misplaced'
  BY <1>2 DEF OnlyBurstsMisplace, Misplaced
<1>3. MarkAt \in Nat
  BY TapeAssumption DEF TypeOK, MarkAt
<1>4. CASE ReadIndex
  BY <1>1, <1>2, <1>4 DEF ReadIndex
<1>5. CASE ReadId
  <2>1. /\ pending' = CoordAt /\ ~misread /\ ~swallowed /\ dark' = FALSE
        /\ copies' = copies /\ MarkAt % 2 = 1 /\ InScan
    BY <1>1, <1>5 DEF ReadId
  <2> QED BY <1>2, <2>1, MarksAlternate
<1>6. CASE ReadData
  <2>1. ~misread /\ ~swallowed /\ AtData /\ pending' = NoCoord /\ dark' = FALSE
    BY <1>1, <1>6 DEF ReadData, AtData
  <2>2. pending \in Coords => pending = CoordAt
    <3>1. NoCoord \notin Coords
      BY TapeAssumption DEF NoCoord, Coords, Segs
    <3> QED BY <2>1, <3>1 DEF WaitsForItsOwn
  <2>3. \A p \in copies' : p \in copies \/ p.val = Truth(p.at)
    BY <1>6, <2>2 DEF ReadData
  <2>4. ~Misplaced'
    BY <2>1, <2>3 DEF OnlyBurstsMisplace, Misplaced
  <2> QED BY <2>1, <2>4
<1>7. CASE LoseMark
  <2>1. /\ ~misread /\ ~swallowed /\ pending' = pending /\ copies' = copies
        /\ dark' = (dark \/ AtData) /\ InScan
        /\ ~(dark /\ MarkAt % 2 = 1)
    BY <1>1, <1>7 DEF LoseMark, AtData
  <2>2. CASE AtData
    BY <1>2, <2>1, <2>2, MarksAlternate
  <2>3. CASE MarkAt = 0
    <3>1. ~AtData
      BY <2>3 DEF AtData
    <3> QED BY <1>2, <2>1, <2>3, <3>1, MarksAlternate DEF WaitsForItsOwn
  <2>4. CASE MarkAt % 2 = 1
    <3>1. ~AtData /\ ~dark
      BY <2>1, <2>4 DEF AtData
    <3>2. pending = NoCoord
      BY <2>1, <3>1 DEF WaitsForItsOwn
    <3> QED BY <1>2, <2>1, <3>1, <3>2
  <2> QED BY <1>3, <2>2, <2>3, <2>4 DEF AtData
<1>8. CASE EndPass
  BY <1>1, <1>2, <1>8 DEF EndPass
<1>9. CASE SearchRaw \/ SearchSkips \/ SearchCorrects \/ NoHeader \/ BuildImage \/ UNCHANGED vars
  <2>1. UNCHANGED <<at, pending, misread, dark, swallowed, copies>>
    BY <1>9 DEF SearchRaw, SearchSkips, SearchCorrects, InSearch, NoHeader,
                BuildImage, vars, scan
  <2>2. AtData' = AtData /\ CoordAt' = CoordAt
    BY <2>1 DEF AtData, CoordAt, MarkAt, SegAt
  <2> QED BY <1>1, <1>2, <2>1, <2>2 DEF WaitsForItsOwn
<1> QED BY <1>4, <1>5, <1>6, <1>7, <1>8, <1>9 DEF Next

\* Only an ID that was itself misread, or a dropout over a data mark and the
\* ID after it, gets a data field under another sector's coordinate.
THEOREM OnlyBurstsMisplaceAlways == Spec => []OnlyBurstsMisplace
<1>1. Init => WaitsForItsOwn /\ OnlyBurstsMisplace
  <2> SUFFICES ASSUME Init PROVE WaitsForItsOwn /\ OnlyBurstsMisplace
    OBVIOUS
  <2>1. ~AtData /\ pending = NoCoord /\ copies = {}
    BY DEF Init, AtData, MarkAt
  <2> QED BY <2>1 DEF WaitsForItsOwn, OnlyBurstsMisplace, Misplaced
<1>2. TypeOK /\ WaitsForItsOwn /\ OnlyBurstsMisplace /\ [Next]_vars
        => WaitsForItsOwn' /\ OnlyBurstsMisplace'
  BY PairingStep
<1> QED BY <1>1, <1>2, TapeTypes, PTL DEF Spec

-----------------------------------------------------------------------------
(* What is erased, and whether the header is found. *)

\* A good sector came from some data field of the tape, with its deleted mark, and is
\* among the copies; unless the search has corrected its segment.
OkFromCopy == \A c \in DOMAIN best :
  best[c].ok /\ c[1] \notin tried =>
    \E d \in Coords :
      /\ best[c].val = Truth(d) /\ best[c].deleted = (d[1] \in BadSegs)
      /\ [at |-> c, val |-> Truth(d)] \in copies

\* Every step keeps that: a pass brings a sector with its copy, and the merge keeps both.
LEMMA OkFromCopyStep ==
  ASSUME TypeOK, OkFromCopy, [Next]_vars
  PROVE  OkFromCopy'
<1> SUFFICES ASSUME NEW c \in DOMAIN best', best'[c].ok, c[1] \notin tried'
             PROVE  \E d \in Coords :
                      /\ best'[c].val = Truth(d) /\ best'[c].deleted = (d[1] \in BadSegs)
                      /\ [at |-> c, val |-> Truth(d)] \in copies'
  BY DEF OkFromCopy
<1>0. ASSUME c \in DOMAIN best, best'[c] = best[c], copies \subseteq copies', tried \subseteq tried'
      PROVE  \E d \in Coords :
               /\ best'[c].val = Truth(d) /\ best'[c].deleted = (d[1] \in BadSegs)
               /\ [at |-> c, val |-> Truth(d)] \in copies'
  <2>1. c[1] \notin tried /\ best[c].ok
    BY <1>0
  <2>2. PICK d \in Coords :
          /\ best[c].val = Truth(d) /\ best[c].deleted = (d[1] \in BadSegs)
          /\ [at |-> c, val |-> Truth(d)] \in copies
    BY <1>0, <2>1 DEF OkFromCopy
  <2> QED BY <1>0, <2>2
<1>1. CASE ReadData
  <2>1. SegAt < Total /\ MarkAt > 0 /\ tried' = tried /\ copies \subseteq copies'
    BY <1>1 DEF ReadData, InScan, Still
  <2>2. CASE best' = best
    BY <1>0, <2>1, <2>2
  <2>3. ASSUME pending \in Coords, NEW sector \in Sectors,
               best' = Union(pending, sector), ~sector.ok
        PROVE  c \in DOMAIN best /\ best'[c] = best[c]
    BY <2>3, UnionOrigin
  <2>4. CASE pending \in Coords /\ Keep(pending, [val |-> Truth(CoordAt), ok |-> TRUE,
                                                  deleted |-> SegAt \in BadSegs])
             /\ [at |-> pending, val |-> Truth(CoordAt)] \in copies'
    <3> DEFINE sector == [val |-> Truth(CoordAt), ok |-> TRUE, deleted |-> SegAt \in BadSegs]
    <3>1. sector \in Sectors /\ best' = Union(pending, sector) /\ CoordAt \in Coords
      BY <2>1, <2>4, SectorsTyped, CoordTyped DEF Keep
    <3>2. (c \in DOMAIN best /\ best'[c] = best[c]) \/ (c = pending /\ best'[c] = sector)
      BY <2>4, <3>1, UnionOrigin
    <3>3. CASE c = pending /\ best'[c] = sector
      <4>1. CoordAt[1] = SegAt
        BY DEF CoordAt
      <4>2. best'[c].val = Truth(CoordAt) /\ best'[c].deleted = (CoordAt[1] \in BadSegs)
        BY <3>3, <4>1
      <4> QED BY <2>4, <3>1, <3>3, <4>2
    <3> QED BY <1>0, <2>1, <3>2, <3>3
  <2>5. ASSUME pending \in Coords, NEW v \in {Junk, Torn},
               Keep(pending, [val |-> v, ok |-> FALSE, deleted |-> SegAt \in BadSegs])
        PROVE  c \in DOMAIN best /\ best'[c] = best[c]
    <3>1. [val |-> v, ok |-> FALSE, deleted |-> SegAt \in BadSegs] \in Sectors
      BY <2>1, <2>5, SectorsTyped
    <3> QED BY <2>3, <2>5, <3>1 DEF Keep
  <2>6. CASE pending \notin Coords
    BY <1>1, <2>2, <2>6 DEF ReadData, Keep
  <2> QED BY <1>0, <1>1, <2>1, <2>4, <2>5, <2>6 DEF ReadData
<1>2. CASE SearchCorrects
  <2>1. seg \in Segs /\ copies' = copies
    BY <1>2, TapeAssumption DEF SearchCorrects, InSearch, TypeOK, Segs
  <2>2. CASE best' = best /\ tried' = tried
    BY <1>0, <2>1, <2>2
  <2>3. CASE best' = Scatter(seg) /\ tried' = tried \cup {seg}
    <3>1. c \in DOMAIN best /\ c[1] # seg
      BY <2>1, <2>3, ScatterTyped
    <3>2. best'[c] = best[c]
      BY <2>3, <3>1 DEF Scatter
    <3> QED BY <1>0, <2>1, <2>3, <3>1, <3>2
  <2> QED BY <1>2, <2>2, <2>3 DEF SearchCorrects
<1>3. CASE \/ ReadIndex \/ ReadId \/ LoseMark \/ EndPass
           \/ SearchRaw \/ SearchSkips \/ NoHeader \/ BuildImage
  <2>1. UNCHANGED <<best, copies, tried>>
    BY <1>3 DEF ReadIndex, ReadId, LoseMark, EndPass, SearchRaw, SearchSkips,
                NoHeader, BuildImage, InSearch, Still
  <2> QED BY <1>0, <2>1
<1>4. CASE UNCHANGED vars
  BY <1>0, <1>4 DEF vars
<1> QED BY <1>1, <1>2, <1>3, <1>4 DEF Next

\* Sectors of different segments hold different values, but for the two headers.
LEMMA TruthTells ==
  ASSUME NEW c \in Coords, NEW d \in Coords, Truth(c) = Truth(d)
  PROVE  d[1] = c[1] \/ {c[1], d[1]} \subseteq HeaderSegs
<1>1. CASE c[1] \in HeaderSegs /\ d[1] \notin HeaderSegs
  <2>1. Truth(c).name = "header" /\ Truth(d).name = "data"
    BY <1>1 DEF Truth, Value
  <2> QED BY <2>1
<1>2. CASE c[1] \notin HeaderSegs /\ d[1] \in HeaderSegs
  <2>1. Truth(c).name = "data" /\ Truth(d).name = "header"
    BY <1>2 DEF Truth, Value
  <2> QED BY <2>1
<1>3. CASE c[1] \notin HeaderSegs /\ d[1] \notin HeaderSegs
  <2>1. Truth(c).seg = c[1] /\ Truth(d).seg = d[1]
    BY <1>3 DEF Truth, Value
  <2> QED BY <2>1
<1> QED BY <1>1, <1>2, <1>3

\* With nothing misplaced, a good sector of a segment that was not corrected is one that
\* a pass read, with the tape's bytes, and deleted if the recorder gave its segment up.
LEMMA OkIsGood ==
  ASSUME TypeOK, OkFromCopy, ~Misplaced, NEW s \in Segs \ tried, NEW k \in Slots,
         <<s, k>> \in DOMAIN best, best[<<s, k>>].ok
  PROVE  /\ k \in Good(s) /\ best[<<s, k>>].val = Truth(<<s, k>>)
         /\ best[<<s, k>>].deleted = (s \in BadSegs)
<1> DEFINE c == <<s, k>>
<1>1. c \in Coords /\ c[1] = s /\ c[1] \notin tried
  BY DEF Coords
<1>2. PICK d \in Coords :
        /\ best[c].val = Truth(d) /\ best[c].deleted = (d[1] \in BadSegs)
        /\ [at |-> c, val |-> Truth(d)] \in copies
  BY <1>1 DEF OkFromCopy
<1>3. Truth(c) = Truth(d)
  BY <1>2 DEF Misplaced
<1>4. (d[1] \in BadSegs) = (s \in BadSegs)
  BY <1>1, <1>3, TruthTells, HeadersAssumption
<1>5. k \in Good(s)
  BY <1>2 DEF Good
<1> QED BY <1>2, <1>3, <1>4, <1>5

\* What is erased of a segment that was not corrected.
LEMMA ErasedExact ==
  ASSUME TypeOK, OkFromCopy, GoodIsKept, ~Misplaced, NEW s \in Segs \ tried, NEW excl
  PROVE  Erased(s, excl) = {k \in Rows(excl) : s \in BadSegs \/ k \notin Good(s)}
<1> SUFFICES ASSUME NEW k \in Rows(excl)
             PROVE  (k \notin Read(s) \/ ~best[<<s, k>>].ok \/ best[<<s, k>>].deleted)
                      <=> (s \in BadSegs \/ k \notin Good(s))
  BY DEF Erased
<1>1. k \in Slots
  BY DEF Rows
<1>2. k \in Read(s) <=> <<s, k>> \in DOMAIN best
  BY <1>1 DEF Read
<1>3. k \in Good(s) => <<s, k>> \in DOMAIN best /\ best[<<s, k>>].ok
  BY DEF Good, GoodIsKept
<1>4. CASE <<s, k>> \in DOMAIN best /\ best[<<s, k>>].ok
  BY <1>1, <1>2, <1>4, OkIsGood
<1>5. CASE ~(<<s, k>> \in DOMAIN best /\ best[<<s, k>>].ok)
  BY <1>2, <1>3, <1>5
<1> QED BY <1>4, <1>5

\* The erasures that the table counts for a segment are the sectors of its codeword that
\* no pass read well, and all of a segment that the recorder gave up.
THEOREM ErasuresAreExactAlways == Spec => []ErasuresAreExact
<1>1. Init => OkFromCopy /\ ImageIsBuilt
  BY DEF Init, OkFromCopy, ImageIsBuilt
<1>2. TypeOK /\ OkFromCopy /\ ImageIsBuilt /\ [Next]_vars => OkFromCopy' /\ ImageIsBuilt'
  BY OkFromCopyStep, ImageIsBuiltStep
<1>3. TypeOK /\ GoodIsKept /\ OkFromCopy /\ ImageIsBuilt => ErasuresAreExact
  <2> SUFFICES ASSUME TypeOK, GoodIsKept, OkFromCopy, ImageIsBuilt, phase = "done", ~Misplaced,
                      NEW s \in Segs \ (tried \cup map.bad), image[s].state # "missing"
               PROVE  image[s].erasures = Cardinality(
                        {k \in Rows(map.excluded[s]) : s \in BadSegs \/ k \notin Good(s)})
    BY DEF ErasuresAreExact
  <2>1. image[s] = Entry(s)
    BY DEF ImageIsBuilt
  <2>2. Entry(s).erasures = Cardinality(Erased(s, map.excluded[s]))
    BY <2>1 DEF Entry
  <2>3. Erased(s, map.excluded[s]) =
          {k \in Rows(map.excluded[s]) : s \in BadSegs \/ k \notin Good(s)}
    BY ErasedExact
  <2> QED BY <2>1, <2>2, <2>3
<1> QED BY <1>1, <1>2, <1>3, TapeTypes, GoodIsKeptAlways, PTL DEF Spec

\* The search goes past a header only if nothing of it could be used.
HeaderPassed == ~Misplaced =>
  \A h \in HeaderSegs : h < seg =>
    0 \notin Good(h) /\ Cardinality(Good(h)) < Width - Redundancy

\* Where the search is.
SearchPlace ==
  /\ phase = "scan" => seg = 0 /\ tried = {}
  /\ phase = "search" => \A s \in tried : s < seg
  /\ phase = "refused" => seg = Total

\* Of a header in a segment that was not corrected, whatever is missing is erased.
LEMMA ErasedHeader ==
  ASSUME TypeOK, OkFromCopy, GoodIsKept, ~Misplaced, NEW h \in HeaderSegs \ tried
  PROVE  /\ Cardinality(Good(h)) \in Nat
         /\ Cardinality(Good(h)) >= Width - Redundancy => Solvable(h, {}) /\ Read(h) # {}
<1>1. Excluded[h] = {} /\ h \notin BadSegs /\ h \in Segs
  BY HeadersAssumption, TapeAssumption
<1>2. Erased(h, {}) = Slots \ Good(h)
  BY <1>1, ErasedExact DEF Rows
<1>3. Good(h) \subseteq Slots
  BY DEF Good
<1>4. IsFiniteSet(Slots) /\ Cardinality(Slots) = Width /\ Width \in Nat \ {0} /\ Redundancy \in Nat
      /\ Redundancy + 1 < Width
  BY FS_Interval, TapeAssumption DEF Slots
<1>5. IsFiniteSet(Good(h)) /\ Cardinality(Good(h)) \in Nat
  BY <1>3, <1>4, FS_Subset, FS_CardinalityType
<1>6. Cardinality(Slots \ Good(h)) = Cardinality(Slots) - Cardinality(Slots \cap Good(h))
  BY <1>4, FS_Difference
<1>7. Slots \cap Good(h) = Good(h)
  BY <1>3
<1>8. ASSUME Cardinality(Good(h)) >= Width - Redundancy PROVE Read(h) # {}
  <2>1. Good(h) # {}
    <3>1. Cardinality({}) = 0
      BY FS_EmptySet
    <3> QED BY <1>4, <1>8, <3>1
  <2> QED BY <1>3, <2>1 DEF Good, GoodIsKept, Read
<1>9. Cardinality(Erased(h, {})) = Width - Cardinality(Good(h))
  BY <1>2, <1>4, <1>6, <1>7
<1>10. ASSUME Cardinality(Good(h)) >= Width - Redundancy PROVE Solvable(h, {})
  BY <1>4, <1>5, <1>9, <1>10 DEF Solvable
<1> QED BY <1>5, <1>8, <1>10

\* The first sector of a header that was read is enough to find it.
LEMMA RawHeader ==
  ASSUME TypeOK, OkFromCopy, GoodIsKept, ~Misplaced, NEW h \in HeaderSegs \ tried,
         0 \in Read(h), best[<<h, 0>>].ok
  PROVE  RawRow(h, 0) \in Signed /\ Readable(h)
<1>1. h \in Segs \ tried /\ h \notin BadSegs /\ 0 \in Slots
  BY HeadersAssumption, TapeAssumption DEF Slots
<1>2. <<h, 0>> \in DOMAIN best
  BY DEF Read
<1>3. best[<<h, 0>>].val = Truth(<<h, 0>>) /\ best[<<h, 0>>].deleted = (h \in BadSegs)
  BY <1>1, <1>2, OkIsGood
<1>4. Truth(<<h, 0>>) \in Signed
  BY DEF Truth, Signed
<1> QED BY <1>1, <1>3, <1>4 DEF RawRow, Readable

\* Every step of the search keeps that: it passes a segment only after it has looked at it.
LEMMA HeaderPassedStep ==
  ASSUME TypeOK, GoodIsKept, OkFromCopy, TrueUnlessTried, SearchPlace, HeaderPassed, [Next]_vars
  PROVE  SearchPlace' /\ HeaderPassed'
<1>0. HeaderSegs \subseteq Nat /\ seg \in Nat /\ tried \subseteq Nat
  BY TapeAssumption DEF TypeOK, Segs
<1>1. CASE ReadIndex \/ ReadId \/ ReadData \/ LoseMark
  <2>1. phase = "scan" /\ UNCHANGED <<phase, seg, tried>>
    BY <1>1 DEF ReadIndex, ReadId, ReadData, LoseMark, InScan, Still
  <2>2. seg' = 0
    BY <2>1 DEF SearchPlace
  <2> QED BY <1>0, <2>1, <2>2 DEF SearchPlace, HeaderPassed
<1>2. CASE EndPass
  <2>1. phase = "scan" /\ UNCHANGED <<seg, tried>> /\ phase' \in {"scan", "search"}
    BY <1>2 DEF EndPass
  <2>2. seg' = 0 /\ tried' = {}
    BY <2>1 DEF SearchPlace
  <2> QED BY <1>0, <2>1, <2>2 DEF SearchPlace, HeaderPassed
<1>3. ASSUME UNCHANGED <<copies, seg>> PROVE HeaderPassed'
  BY <1>3 DEF HeaderPassed, Misplaced, Good
<1>4. CASE SearchRaw
  <2>1. UNCHANGED <<copies, seg>> /\ phase' = "build"
    BY <1>4 DEF SearchRaw, InSearch, TakeHeader
  <2> QED BY <1>3, <2>1 DEF SearchPlace
<1>5. CASE NoHeader
  <2>1. UNCHANGED <<copies, seg>> /\ phase' = "refused" /\ seg = Total
    BY <1>5 DEF NoHeader
  <2> QED BY <1>3, <2>1 DEF SearchPlace
<1>6. CASE BuildImage
  <2>1. UNCHANGED <<copies, seg>> /\ phase' = "done"
    BY <1>6 DEF BuildImage
  <2> QED BY <1>3, <2>1 DEF SearchPlace
<1>7. CASE UNCHANGED vars
  <2>1. UNCHANGED <<copies, seg, phase, tried>>
    BY <1>7 DEF vars
  <2> QED BY <1>3, <2>1 DEF SearchPlace
<1>8. CASE SearchSkips \/ SearchCorrects
  <2>1. phase = "search" /\ seg \in Segs /\ copies' = copies /\ Misplaced' = Misplaced
        /\ \A h \in HeaderSegs : Good(h)' = Good(h)
    BY <1>0, <1>8, TapeAssumption DEF SearchSkips, SearchCorrects, InSearch, TypeOK, Segs, Misplaced, Good
  <2>2. seg \notin tried /\ tried' \subseteq tried \cup {seg}
    <3>1. \A s \in tried : s < seg
      BY <2>1 DEF SearchPlace
    <3>2. tried' \subseteq tried \cup {seg}
      BY <1>8 DEF SearchSkips, SearchCorrects
    <3> QED BY <1>0, <3>1, <3>2
  <2>3. CASE seg' = seg /\ phase' = "build"
    BY <1>3, <2>1, <2>3 DEF SearchPlace
  <2>4. CASE NextSegment
    <3>1. SearchPlace'
      BY <1>0, <2>1, <2>2, <2>4 DEF SearchPlace, NextSegment
    <3>2. ASSUME ~Misplaced, seg \in HeaderSegs
          PROVE  0 \notin Good(seg) /\ Cardinality(Good(seg)) < Width - Redundancy
      <4>1. seg \in HeaderSegs \ tried /\ 0 \in Slots /\ Redundancy + 1 < Width
            /\ Redundancy \in Nat /\ Width \in Nat
        BY <2>2, <3>2, TapeAssumption DEF Slots
      <4>2. \A k \in Good(seg) : k \in Read(seg) /\ best[<<seg, k>>].ok
        BY DEF Good, GoodIsKept, Read
      <4>3. ~FoundRaw \/ Read(seg) = {}
        BY <1>8 DEF SearchSkips, SearchCorrects
      <4>4. 0 \notin Good(seg)
        <5> SUFFICES ASSUME 0 \in Good(seg) PROVE FALSE
          OBVIOUS
        <5>1. 0 \in Read(seg) /\ best[<<seg, 0>>].ok
          BY <4>2
        <5>2. RawRow(seg, 0) \in Signed
          BY <3>2, <4>1, <5>1, RawHeader
        <5> QED BY <4>3, <5>1, <5>2 DEF FoundRaw
      <4>5. CASE Read(seg) = {}
        <5>1. Good(seg) = {}
          BY <4>2, <4>5
        <5>2. Cardinality({}) = 0
          BY FS_EmptySet
        <5> QED BY <4>1, <4>4, <5>1, <5>2
      <4>6. CASE Read(seg) # {} /\ Readable(seg)
        <5>1. 0 \in Read(seg) /\ best[<<seg, 0>>].ok
          BY <4>6 DEF Readable
        <5>2. RawRow(seg, 0) \in Signed
          BY <3>2, <4>1, <5>1, RawHeader
        <5> QED BY <4>3, <4>6, <5>2 DEF FoundRaw
      <4>7. CASE Read(seg) # {} /\ ~Readable(seg)
        <5>1. SearchCorrects /\ ~FoundRaw
          BY <1>8, <4>3, <4>7 DEF SearchSkips
        <5>2. ~Solvable(seg, {})
          <6> SUFFICES ASSUME Solvable(seg, {}) PROVE FALSE
            OBVIOUS
          <6>1. Excluded[seg] = {}
            BY <4>1, HeadersAssumption
          <6>2. 0 \in Rows(Excluded[seg])
            BY <4>1, <6>1 DEF Rows
          <6>3. Solved(seg, {}, 0) = Truth(<<seg, 0>>)
            BY <2>1, <3>2, <6>1, <6>2, SolvedTrue
          <6>4. Truth(<<seg, 0>>) \in Signed
            BY <3>2 DEF Truth, Signed
          <6>5. TakeHeader(Solved(seg, {}, 1))
            BY <5>1, <6>3, <6>4 DEF SearchCorrects
          <6> QED BY <1>0, <2>4, <6>5 DEF TakeHeader, NextSegment
        <5>3. Cardinality(Good(seg)) \in Nat /\ ~(Cardinality(Good(seg)) >= Width - Redundancy)
          BY <3>2, <4>1, <5>2, ErasedHeader
        <5> QED BY <4>1, <4>4, <5>3
      <4> QED BY <4>5, <4>6, <4>7
    <3>3. HeaderPassed'
      <4> SUFFICES ASSUME ~Misplaced, NEW h \in HeaderSegs, h < seg + 1
                   PROVE  0 \notin Good(h) /\ Cardinality(Good(h)) < Width - Redundancy
        BY <2>1, <2>4, TapeAssumption DEF HeaderPassed, NextSegment
      <4>1. CASE h < seg
        BY <4>1 DEF HeaderPassed
      <4>2. CASE h = seg
        BY <3>2, <4>2
      <4> QED BY <1>0, <4>1, <4>2
    <3> QED BY <3>1, <3>3
  <2> QED BY <1>8, <2>3, <2>4 DEF SearchSkips, SearchCorrects, TakeHeader
<1> QED BY <1>1, <1>2, <1>4, <1>5, <1>6, <1>7, <1>8 DEF Next

\* A tape is refused only if of neither header the first sector was read, nor enough of the
\* others to correct it.
THEOREM HeaderIsFoundAlways == Spec => []HeaderIsFound
<1>1. Init => OkFromCopy /\ TrueUnlessTried /\ SearchPlace /\ HeaderPassed
  <2> SUFFICES ASSUME Init PROVE OkFromCopy /\ TrueUnlessTried /\ SearchPlace /\ HeaderPassed
    OBVIOUS
  <2>1. DOMAIN best = {} /\ seg = 0 /\ tried = {} /\ phase = "scan" /\ HeaderSegs \subseteq Nat
    BY TapeAssumption DEF Init, Segs
  <2> QED BY <2>1 DEF OkFromCopy, TrueUnlessTried, SearchPlace, HeaderPassed
<1>2. TypeOK /\ GoodIsKept /\ OkFromCopy /\ TrueUnlessTried /\ SearchPlace /\ HeaderPassed /\ [Next]_vars
        => OkFromCopy' /\ TrueUnlessTried' /\ SearchPlace' /\ HeaderPassed'
  BY OkFromCopyStep, TrueUnlessTriedStep, HeaderPassedStep
<1>3. SearchPlace /\ HeaderPassed => HeaderIsFound
  <2>1. \A h \in HeaderSegs : h < Total
    BY TapeAssumption DEF Segs
  <2> QED BY <2>1 DEF SearchPlace, HeaderPassed, HeaderIsFound
<1> QED BY <1>1, <1>2, <1>3, TapeTypes, GoodIsKeptAlways, PTL DEF Spec

-----------------------------------------------------------------------------
(* Identification: the cartridge. *)

\* Within a tenth of a cartridge's length, no other of its standard and tracks is as near.
LEMMA TenthIsNearest ==
  ASSUME NEW j \in DOMAIN Catalogue, NEW k \in DOMAIN Catalogue, j # k, NEW n \in Nat,
         Catalogue[j].tracks = Catalogue[k].tracks,
         Catalogue[j].standard = Catalogue[k].standard,
         Catalogue[k].count = 0, IsNear(k, n)
  PROVE  Off(k, n) < Off(j, n) /\ Off(k, n) \in Int /\ Off(j, n) \in Int
<1> DEFINE l == Catalogue[k].length
           m == Catalogue[j].length
           t == Taken(Catalogue[k].standard, n)
<1>1. l \in Nat \ {0} /\ m \in Nat \ {0} /\ (5 * m > 6 * l \/ 5 * m < 4 * l)
  BY CatalogueAssumption
<1>2. t \in Int
  <2>1. Formats[Catalogue[k].standard].gap \in Nat /\ Formats[Catalogue[k].standard].segment \in Nat
    BY CatalogueAssumption
  <2> QED BY <2>1 DEF Taken
<1>3. /\ Off(k, n) = IF 1164 * l - t < 0 THEN -(1164 * l - t) ELSE 1164 * l - t
      /\ Off(j, n) = IF 1164 * m - t < 0 THEN -(1164 * m - t) ELSE 1164 * m - t
  BY DEF Off, Usable
<1>4. 10 * Off(k, n) <= 1164 * l
  BY DEF IsNear, Usable
<1> HIDE DEF l, m, t
<1>5. Off(k, n) \in Int /\ Off(j, n) \in Int
  BY <1>1, <1>2, <1>3
<1>6. CASE 5 * m > 6 * l
  BY <1>1, <1>2, <1>3, <1>4, <1>6
<1>7. CASE 5 * m < 4 * l
  BY <1>1, <1>2, <1>3, <1>4, <1>7
<1> QED BY <1>1, <1>5, <1>6, <1>7

\* A cartridge whose count of segments, or length, it is, fits among any of its tracks; alone
\* among those of its own standard.
LEMMA GuessHolds ==
  ASSUME NEW k \in DOMAIN Catalogue, NEW n \in Nat, NEW hint,
         IF Catalogue[k].count = 0 THEN IsNear(k, n) ELSE n = Catalogue[k].count
  PROVE  LET guess == GuessedCartridges(Catalogue[k].tracks, n, hint)
         IN /\ Catalogue[k].standard = hint => guess = {k}
            /\ (\A j \in OfTracks(Catalogue[k].tracks) : Catalogue[j].standard # hint) => k \in guess
<1> DEFINE tracks == Catalogue[k].tracks
           among == Considered(tracks, hint)
           fixed == {j \in among : Catalogue[j].count = n /\ Catalogue[j].count # 0}
           near == {j \in among : /\ Catalogue[j].standard \in DOMAIN Formats
                                  /\ NearestOfStandard(j, n, among) /\ IsNear(j, n)}
           guess == GuessedCartridges(tracks, n, hint)
<1>1. /\ k \in OfTracks(tracks)
      /\ among \subseteq OfTracks(tracks)
      /\ Catalogue[k].standard = hint => among = {j \in OfTracks(tracks) : Catalogue[j].standard = hint}
      /\ (\A j \in OfTracks(tracks) : Catalogue[j].standard # hint) => among = OfTracks(tracks)
  BY DEF Considered, OfTracks
<1>2. SUFFICES ASSUME k \in among
               PROVE  /\ Catalogue[k].standard = hint => guess = {k}
                      /\ (\A j \in OfTracks(tracks) : Catalogue[j].standard # hint) => k \in guess
  BY <1>1
<1>3. guess = IF fixed # {} THEN {CHOOSE j \in fixed : \A i \in fixed : j <= i}
              ELSE IF \A j \in among : Catalogue[j].count # 0 THEN {} ELSE near
  BY DEF GuessedCartridges
<1>4. \A j \in among : j \in DOMAIN Catalogue /\ Catalogue[j].tracks = Catalogue[k].tracks
  BY <1>1 DEF OfTracks
<1>5. CASE Catalogue[k].count # 0
  <2>1. k \in fixed
    BY <1>2, <1>5
  <2>2. \A j \in fixed : j = k
    BY <1>4, <1>5, CatalogueAssumption
  <2>3. fixed = {k}
    BY <2>1, <2>2
  <2>4. k <= k
    BY CatalogueAssumption
  <2>5. (CHOOSE j \in fixed : \A i \in fixed : j <= i) = k
    BY <2>3, <2>4
  <2> QED BY <1>3, <2>3, <2>5
<1>6. CASE Catalogue[k].count = 0
  <2>1. \A j \in among : Catalogue[j].count = 0
    BY <1>4, <1>6, CatalogueAssumption
  <2>2. guess = near
    BY <1>2, <1>3, <1>6, <2>1
  <2>3. \A j \in among : Catalogue[j].standard = Catalogue[k].standard /\ j # k =>
          Off(k, n) < Off(j, n) /\ Off(k, n) \in Int /\ Off(j, n) \in Int
    BY <1>4, <1>6, TenthIsNearest
  <2>4. k <= k
    BY CatalogueAssumption
  <2>5. NearestOfStandard(k, n, among)
    BY <2>3, <2>4 DEF NearestOfStandard
  <2>6. Catalogue[k].standard \in DOMAIN Formats
    BY <1>6, CatalogueAssumption
  <2>7. k \in near
    BY <1>2, <1>6, <2>5, <2>6
  <2>8. ASSUME Catalogue[k].standard = hint, NEW j \in near, j # k
        PROVE  FALSE
    <3>1. Catalogue[j].standard = Catalogue[k].standard
      BY <1>1, <2>8
    <3>2. Off(j, n) < Off(k, n) \/ (Off(j, n) = Off(k, n) /\ j <= k)
      BY <1>2, <2>8, <3>1 DEF NearestOfStandard
    <3> QED BY <2>3, <2>8, <3>1, <3>2
  <2> QED BY <2>2, <2>7, <2>8
<1> QED BY <1>5, <1>6

-----------------------------------------------------------------------------
(* One identification: from sectors, or from an image. *)

\* What is assembled holds the guess of the cartridge, the volumes of the table, and the
\* notes that it was given.
LEMMA AssembledHolds ==
  ASSUME NEW source \in {"sectors", "image"}, NEW header, NEW table, NEW notes
  PROVE  LET fit == GuessedCartridges(subject.vol.tracks, subject.vol.segments_per_track, StandardHint)
             i == Assembled(source, header, table, notes)
         IN /\ i # NoInfo /\ i # RefusedInfo
            /\ i.header = header /\ i.cartridges = fit
            /\ i.volumes = VolumesOf(table)
            /\ i.standard = StandardOf(fit)
            /\ notes \subseteq i.notes
            /\ ContinuesElsewhere(table) => "continues" \in i.notes
            /\ \A x \in {"missing", "damaged", "signature"} : x \in i.notes => x \in notes
            /\ "copy" \in i.notes <=> header # subject.vol.header_seg \/ "copy" \in notes
<1> DEFINE i == Assembled(source, header, table, notes)
<1>1. i.at = source /\ NoInfo.at = "none" /\ RefusedInfo.at = "refused"
  BY DEF Assembled, NoInfo, RefusedInfo
<1>2. i # NoInfo /\ i # RefusedInfo
  BY <1>1
<1>3. i.notes = CopyNotes(header) \cup notes
                  \cup (IF ContinuesElsewhere(table) THEN {"continues"} ELSE {})
                  \cup (IF subject.forced = 0 /\ VolumeRecords(table) # {} /\ IsTied(table)
                        THEN {"tie"} ELSE {})
  BY DEF Assembled
<1>4. CopyNotes(header) = IF subject.vol.header_seg # header THEN {"copy"} ELSE {}
  BY DEF CopyNotes
<1>5. /\ i.header = header
      /\ i.volumes = VolumesOf(table)
      /\ i.cartridges = GuessedCartridges(subject.vol.tracks, subject.vol.segments_per_track, StandardHint)
  BY DEF Assembled
<1>6. i.standard =
        LET fit == GuessedCartridges(subject.vol.tracks, subject.vol.segments_per_track, StandardHint)
        IN StandardOf(fit)
  BY DEF Assembled
<1> QED BY <1>2, <1>3, <1>4, <1>5, <1>6

\* A table that was not recovered gives no volumes and is noted.
LEMMA TableHolds ==
  ASSUME NEW n
  PROVE  /\ StateOf(n) \in Recovered => TableRead(n) = subject.records[n] /\ DamageNotes(n) = {}
         /\ StateOf(n) \notin Recovered => TableRead(n) = <<>> /\ DamageNotes(n) = {"damaged"}
         /\ VolumesOf(<<>>) = {}
BY DEF TableRead, DamageNotes, VolumeRecords, VolumesOf

\* The header that is read: a copy, and the first one if that was recovered.
LEMMA HeaderHolds ==
  ASSUME subject \in Subjects
  PROVE  LET vol == subject.vol
         IN /\ Located # {} => Lowest(Located) \in subject.headers
            /\ vol.header_seg \in subject.headers
            /\ StateOf(vol.header_seg) \in Recovered =>
                 vol.header_seg \in Copies /\ Lowest(Located) = vol.header_seg
<1> DEFINE h == subject.vol.header_seg
           d == subject.vol.dup_header_seg
<1>1. /\ subject.headers = {h, d} /\ h < d /\ h \in Nat /\ d \in Nat
      /\ h \in DOMAIN subject.state /\ d \in DOMAIN subject.state
  BY SubjectsAssumption
<1> HIDE DEF h, d
<1>2. Located \subseteq {h, d}
  BY <1>1 DEF Located
<1>3. ASSUME StateOf(h) \in Recovered
      PROVE  h \in Copies /\ h \in Located
  <2>1. StateOf(h) # "missing"
    BY <1>3 DEF Recovered
  <2>2. h \in Captured
    BY <1>1, <2>1 DEF Captured, Segments, StateOf
  <2> QED BY <1>1, <1>3, <2>2 DEF Copies, Located, Segments
<1>4. ASSUME h \in Located PROVE Lowest(Located) = h
  <2>1. h \in Located /\ \A n \in Located : h <= n
    BY <1>1, <1>2, <1>4
  <2>2. \A x \in Located : (\A n \in Located : x <= n) => x = h
    BY <1>1, <1>2, <2>1
  <2> QED BY <2>1, <2>2 DEF Lowest
<1>5. ASSUME Located # {} PROVE Lowest(Located) \in {h, d}
  <2>1. CASE h \in Located
    BY <1>4, <2>1
  <2>2. CASE h \notin Located
    <3>1. Located = {d}
      BY <1>2, <1>5, <2>2
    <3> QED BY <1>1, <3>1 DEF Lowest
  <2> QED BY <2>1, <2>2
<1> QED BY <1>1, <1>3, <1>4, <1>5 DEF h

\* Notes given of a table that was read, or not recovered, are true of its volumes.
LEMMA NotesOfTable ==
  ASSUME subject \in Subjects, subject' = subject,
         NEW source \in {"sectors", "image"}, NEW header, NEW n, NEW notes \in SUBSET {"signature"},
         header # subject.vol.header_seg => StateOf(subject.vol.header_seg) \notin Recovered,
         Named # 0 => (n = Named /\ Named \in Segments) \/ "signature" \in notes,
         info' = Assembled(source, header, TableRead(n), notes \cup DamageNotes(n))
  PROVE  NotesAreTrue'
<1> DEFINE table == TableRead(n)
           volumes == VolumesOf(table)
           given == notes \cup DamageNotes(n)
<1> HIDE DEF table, given
<1>1. info' = Assembled(source, header, table, given)
  BY DEF table, given
<1>2. /\ info' # RefusedInfo /\ info'.header = header
      /\ info'.volumes = VolumesOf(table)
  BY <1>1, AssembledHolds
<1>3. given \subseteq info'.notes
  BY <1>1, AssembledHolds
<1>4. ContinuesElsewhere(table) => "continues" \in info'.notes
  BY <1>1, AssembledHolds
<1>5. /\ \A x \in {"missing", "damaged", "signature"} : x \in info'.notes => x \in given
      /\ "copy" \in info'.notes <=> header # subject.vol.header_seg \/ "copy" \in given
  BY <1>1, AssembledHolds
<1>6. /\ StateOf(n) \in Recovered => table = subject.records[n] /\ DamageNotes(n) = {}
      /\ StateOf(n) \notin Recovered => volumes = {} /\ DamageNotes(n) = {"damaged"}
  BY TableHolds DEF table
<1>7. ASSUME Named # 0, "signature" \notin notes, StateOf(n) \in Recovered
      PROVE  volumes \subseteq subject.volumes /\ (volumes = subject.volumes \/ ContinuesElsewhere(table))
  <2>1. n = Named /\ Named \in Segments
    BY <1>7
  <2>2. table = subject.records[subject.vol.first_data_seg]
    BY <1>6, <1>7, <2>1 DEF Named
  <2>3. subject.vol.first_data_seg \in DOMAIN subject.state \ {0}
    BY <1>7, <2>1 DEF Named, Segments
  <2> QED BY <2>2, <2>3, SubjectsAssumption
<1>8. given = notes \cup DamageNotes(n)
  BY DEF given
<1>9. info'.volumes = volumes
  BY <1>2
<1> HIDE DEF volumes
<1>10. info'.notes \cap {"missing", "damaged"} # {} => info'.volumes = {}
  BY <1>3, <1>4, <1>5, <1>6, <1>8, <1>9
<1>11. "copy" \in info'.notes <=> header # subject.vol.header_seg
  BY <1>3, <1>4, <1>5, <1>6, <1>8, <1>9
<1>12. Named # 0 /\ info'.volumes # subject.volumes =>
        info'.notes \cap {"missing", "damaged", "continues", "signature"} # {}
  BY <1>3, <1>4, <1>5, <1>6, <1>7, <1>8, <1>9
<1>13. Named # 0 /\ "signature" \notin info'.notes => info'.volumes \subseteq subject.volumes
  BY <1>3, <1>4, <1>5, <1>6, <1>7, <1>8, <1>9
<1> QED BY <1>2, <1>10, <1>11, <1>12, <1>13 DEF NotesAreTrue, Identified, StateOf, Named

\* So is that of a table that is missing.
LEMMA NotesOfNone ==
  ASSUME subject \in Subjects, subject' = subject,
         NEW source \in {"sectors", "image"}, NEW header,
         header # subject.vol.header_seg => StateOf(subject.vol.header_seg) \notin Recovered,
         info' = Assembled(source, header, <<>>, {"missing"})
  PROVE  NotesAreTrue'
<1>1. /\ info' # RefusedInfo /\ info'.header = header
      /\ info'.volumes = VolumesOf(<<>>)
      /\ {"missing"} \subseteq info'.notes
      /\ "copy" \in info'.notes <=> header # subject.vol.header_seg \/ "copy" \in {"missing"}
  BY AssembledHolds
<1>2. info'.volumes = {}
  BY <1>1, TableHolds
<1>3. "copy" \in info'.notes <=> header # subject.vol.header_seg
  BY <1>1
<1> QED BY <1>1, <1>2, <1>3 DEF NotesAreTrue, Identified, StateOf

\* And a refusal, of a tape none of whose headers was recovered.
LEMMA NotesOfRefusal ==
  ASSUME subject' = subject, info' = RefusedInfo,
         \A n \in subject.headers : StateOf(n) \notin Recovered
  PROVE  NotesAreTrue'
BY DEF NotesAreTrue, Identified, StateOf

\* A tape is identified with the notes that it needs.
LEMMA NotesStep ==
  ASSUME subject \in Subjects, IdentityNext
  PROVE  NotesAreTrue'
<1> DEFINE h == subject.vol.header_seg
<1>1. /\ subject.headers \subseteq DOMAIN subject.state
      /\ subject.headers = {h, subject.vol.dup_header_seg}
  BY SubjectsAssumption
<1>2. StateOf(h) \in Recovered => h \in Copies /\ Lowest(Located) = h
  BY HeaderHolds
<1>3. CASE IdentifySectors
  <2> DEFINE header == Lowest(Located)
             isCaptured == Named # 0 /\ Named \in Captured
             found == IF isCaptured THEN Named ELSE Lowest(LookLikeTables)
             strange == IF isCaptured \/ Named = 0 THEN {} ELSE {"signature"}
  <2>1. subject' = subject
    BY <1>3 DEF IdentifySectors
  <2>2. info' = IF Located = {} THEN RefusedInfo
                ELSE IF ~isCaptured /\ LookLikeTables = {}
                THEN Assembled("sectors", header, <<>>, {"missing"})
                ELSE Assembled("sectors", header, TableRead(found), strange \cup DamageNotes(found))
    BY <1>3 DEF IdentifySectors
  <2>3. header # h => StateOf(h) \notin Recovered
    BY <1>2
  <2>4. Named # 0 => (found = Named /\ Named \in Segments) \/ "signature" \in strange
    BY DEF Captured
  <2>5. strange \in SUBSET {"signature"}
    OBVIOUS
  <2>6. CASE Located = {}
    <3>1. \A n \in subject.headers : StateOf(n) \notin Recovered
      BY <1>1, <2>6 DEF Located, Captured, Recovered, StateOf, Segments
    <3> QED BY <2>1, <2>2, <2>6, <3>1, NotesOfRefusal
  <2> HIDE DEF header, isCaptured, found, strange
  <2>7. CASE Located # {} /\ ~isCaptured /\ LookLikeTables = {}
    <3>1. info' = Assembled("sectors", header, <<>>, {"missing"})
      BY <2>2, <2>7
    <3> QED BY <2>1, <2>3, <3>1, NotesOfNone
  <2>8. CASE Located # {} /\ ~(~isCaptured /\ LookLikeTables = {})
    <3>1. info' = Assembled("sectors", header, TableRead(found), strange \cup DamageNotes(found))
      BY <2>2, <2>8
    <3> QED BY <2>1, <2>3, <2>4, <2>5, <3>1, NotesOfTable
  <2> QED BY <2>6, <2>7, <2>8
<1>4. CASE IdentifyImage
  <2> DEFINE header == IF h \in Copies THEN h ELSE subject.vol.dup_header_seg
  <2>1. subject' = subject
    BY <1>4 DEF IdentifyImage
  <2>2. info' = IF Copies = {} THEN RefusedInfo
                ELSE IF Named = 0 \/ Named \notin Segments
                THEN Assembled("image", header, <<>>, {"missing"})
                ELSE Assembled("image", header, TableRead(Named), DamageNotes(Named))
    BY <1>4 DEF IdentifyImage
  <2>3. header # h => StateOf(h) \notin Recovered
    BY <1>2
  <2>4. CASE Copies = {}
    <3>1. \A n \in subject.headers : StateOf(n) \notin Recovered
      BY <1>1, <2>4 DEF Copies, Segments
    <3> QED BY <2>1, <2>2, <2>4, <3>1, NotesOfRefusal
  <2> HIDE DEF header
  <2>5. CASE Copies # {} /\ (Named = 0 \/ Named \notin Segments)
    <3>1. info' = Assembled("image", header, <<>>, {"missing"})
      BY <2>2, <2>5
    <3> QED BY <2>1, <2>3, <3>1, NotesOfNone
  <2>6. CASE Copies # {} /\ ~(Named = 0 \/ Named \notin Segments)
    <3>1. info' = Assembled("image", header, TableRead(Named), {} \cup DamageNotes(Named))
      BY <2>2, <2>6
    <3>2. Named # 0 => (Named = Named /\ Named \in Segments) \/ "signature" \in {}
      BY <2>6
    <3>3. {} \in SUBSET {"signature"}
      OBVIOUS
    <3> QED BY <2>1, <2>3, <3>1, <3>2, <3>3, NotesOfTable
  <2> QED BY <2>4, <2>5, <2>6
<1> QED BY <1>3, <1>4 DEF IdentityNext

\* Every tape is identified with a list of its volumes or a note of what may be missing from
\* it, by its first header unless that could not be read, and refused only if no header
\* could (identify.py).
THEOREM NotesAreTrueAlways == IdentitySpec => []NotesAreTrue
<1> DEFINE Inv == subject \in Subjects /\ NotesAreTrue
<1>1. IdentityInit => Inv
  <2>1. NoInfo # RefusedInfo
    <3>1. NoInfo.at = "none" /\ RefusedInfo.at = "refused"
      BY DEF NoInfo, RefusedInfo
    <3> QED BY <3>1
  <2> QED BY <2>1 DEF IdentityInit, NotesAreTrue, Identified
<1>2. Inv /\ [IdentityNext]_identityVars => Inv'
  <2> SUFFICES ASSUME Inv, [IdentityNext]_identityVars PROVE Inv'
    OBVIOUS
  <2>1. CASE IdentityNext
    <3>1. subject' = subject
      BY <2>1 DEF IdentityNext, IdentifySectors, IdentifyImage
    <3> QED BY <2>1, <3>1, NotesStep
  <2>2. CASE UNCHANGED identityVars
    BY <2>2 DEF identityVars, NotesAreTrue, Identified, StateOf
  <2> QED BY <2>1, <2>2
<1> QED BY <1>1, <1>2, PTL DEF IdentitySpec

\* What is reported of a cartridge is the guess from the header and the standard's hint.
GuessIsReported ==
  /\ subject \in Subjects
  /\ Identified =>
       LET fit == GuessedCartridges(subject.vol.tracks, subject.vol.segments_per_track, StandardHint)
       IN /\ info.cartridges = fit
          /\ info.standard = StandardOf(fit)

\* An identification reports it.
LEMMA GuessStep ==
  ASSUME GuessIsReported, IdentityNext
  PROVE  GuessIsReported'
<1>1. subject' = subject /\ subject' \in Subjects
  BY DEF IdentityNext, IdentifySectors, IdentifyImage, GuessIsReported
<1>2. \/ info' = RefusedInfo
      \/ \E source \in {"sectors", "image"} : \E header, table, notes :
           info' = Assembled(source, header, table, notes)
  <2>1. CASE IdentifySectors
    BY <2>1 DEF IdentifySectors
  <2>2. CASE IdentifyImage
    BY <2>2 DEF IdentifyImage
  <2> QED BY <2>1, <2>2 DEF IdentityNext
<1>3. CASE info' = RefusedInfo
  BY <1>1, <1>3 DEF GuessIsReported, Identified
<1>4. CASE \E source \in {"sectors", "image"} : \E header, table, notes :
             info' = Assembled(source, header, table, notes)
  <2> PICK source \in {"sectors", "image"} :
        \E header, table, notes : info' = Assembled(source, header, table, notes)
    BY <1>4
  <2> PICK header, table, notes : info' = Assembled(source, header, table, notes)
    OBVIOUS
  <2>1. LET fit == GuessedCartridges(subject.vol.tracks, subject.vol.segments_per_track, StandardHint)
        IN /\ info'.cartridges = fit
           /\ info'.standard = StandardOf(fit)
    BY AssembledHolds
  <2>2. StandardHint' = StandardHint
    BY <1>1 DEF StandardHint, DriveOf
  <2> QED BY <1>1, <2>1, <2>2 DEF GuessIsReported, StandardOf
<1> QED BY <1>2, <1>3, <1>4

\* For every catalogue whose cartridges of one standard and width are far enough apart: a tape
\* is called the cartridge that its segments per track are of, by itself if its standard is
\* known and at least as an alternative if nothing is (cartridge.py).
THEOREM CartridgeIsNamedAlways == IdentitySpec => []CartridgeIsNamed
<1>1. IdentityInit => GuessIsReported
  BY DEF IdentityInit, GuessIsReported, Identified
<1>2. GuessIsReported /\ [IdentityNext]_identityVars => GuessIsReported'
  <2> SUFFICES ASSUME GuessIsReported, [IdentityNext]_identityVars PROVE GuessIsReported'
    OBVIOUS
  <2>1. CASE IdentityNext
    BY <2>1, GuessStep
  <2>2. CASE UNCHANGED identityVars
    <3>1. subject' = subject /\ info' = info
      BY <2>2 DEF identityVars
    <3>2. StandardHint' = StandardHint
      BY <3>1 DEF StandardHint
    <3> QED BY <3>1, <3>2 DEF GuessIsReported, Identified, StandardOf
  <2> QED BY <2>1, <2>2
<1>3. GuessIsReported => CartridgeIsNamed
  <2> DEFINE k == subject.cartridge
             c == Catalogue[k]
             n == subject.vol.segments_per_track
             fit == GuessedCartridges(subject.vol.tracks, n, StandardHint)
  <2> SUFFICES ASSUME GuessIsReported, Identified, k # 0, c.tracks = subject.vol.tracks,
                      IF c.count = 0 THEN IsNear(k, n) ELSE n = c.count
               PROVE  /\ StandardHint = c.standard =>
                           info.cartridges = {k} /\ info.standard = c.standard
                      /\ (\A j \in OfTracks(c.tracks) : Catalogue[j].standard # StandardHint) =>
                           k \in info.cartridges
    BY DEF CartridgeIsNamed
  <2>1. k \in DOMAIN Catalogue /\ n \in Nat
    BY SubjectsAssumption DEF GuessIsReported
  <2>2. /\ c.standard = StandardHint => fit = {k}
        /\ (\A j \in OfTracks(c.tracks) : Catalogue[j].standard # StandardHint) => k \in fit
    BY <2>1, GuessHolds
  <2>3. /\ info.cartridges = fit
        /\ info.standard = StandardOf(fit)
    BY DEF GuessIsReported
  <2>4. fit = {k} => info.standard = c.standard
    <3>1. (CHOOSE j \in {k} : TRUE) = k
      OBVIOUS
    <3>2. Cardinality({k}) = 1
      BY FS_Singleton
    <3> QED BY <2>3, <3>1, <3>2 DEF StandardOf
  <2> QED BY <2>2, <2>3, <2>4
<1> QED BY <1>1, <1>2, <1>3, PTL DEF IdentitySpec

-----------------------------------------------------------------------------
(* The volume with holes.  Induction over the numbers up to m, and functions *)
(* that recur over them: the provers cannot instantiate a theorem that takes *)
(* a predicate or an operator, so these take a set and a function.         *)

LEMMA NatSetInduction ==
  ASSUME NEW N, N \subseteq Nat, 0 \in N, \A n \in N : n + 1 \in N
  PROVE  N = Nat
<1> SUFFICES ASSUME Nat \ N # {} PROVE FALSE
  OBVIOUS
<1> DEFINE R == OpToRel(<, Nat)
<1>1. IsWellFoundedOn(R, Nat)
  BY NatLessThanWellFounded
<1>2. Nat \ N \subseteq Nat
  OBVIOUS
<1>3. PICK least \in Nat \ N : \A y \in Nat \ N : ~(<<y, least>> \in R)
  <2> HIDE DEF R
  <2> QED BY <1>1, <1>2, WFMin
<1>4. least \in Nat /\ least \notin N /\ \A y \in Nat \ N : ~(y < least)
  BY <1>3 DEF OpToRel
<1> HIDE DEF R
<1>5. least # 0
  BY <1>4
<1>6. least - 1 \in Nat /\ least - 1 < least /\ (least - 1) + 1 = least
  BY <1>4, <1>5
<1>7. least - 1 \in N
  BY <1>4, <1>6
<1> QED BY <1>4, <1>6, <1>7

LEMMA UpToInduction ==
  ASSUME NEW m \in Nat, NEW N, 0 \in N, \A n \in 0 .. m - 1 : n \in N => n + 1 \in N
  PROVE  \A n \in 0 .. m : n \in N
<1> DEFINE M == {n \in Nat : n <= m => n \in N}
<1>1. 0 \in M
  OBVIOUS
<1>2. \A n \in M : n + 1 \in M
  <2> TAKE n \in M
  <2>1. n \in Nat /\ (n <= m => n \in N)
    OBVIOUS
  <2>2. ASSUME n + 1 <= m PROVE n + 1 \in N
    <3>1. n \in 0 .. m - 1 /\ n <= m
      BY <2>1, <2>2
    <3> QED BY <2>1, <3>1
  <2> QED BY <2>1, <2>2
<1>3. M = Nat
  <2> HIDE DEF M
  <2>1. M \subseteq Nat
    BY DEF M
  <2> QED BY <1>1, <1>2, <2>1, NatSetInduction
<1> QED BY <1>3

\* What is true of each number of an initial piece stops being so at one place.
LEMMA PlaceExists ==
  ASSUME NEW m \in Nat, NEW B, \A k \in 1 .. m : \A l \in 1 .. m : k <= l /\ l \in B => k \in B
  PROVE  \E n \in 0 .. m : (\A k \in 1 .. n : k \in B) /\ (\A k \in n + 1 .. m : k \notin B)
<1> DEFINE N == {n \in 0 .. m : \A k \in 1 .. n : k \in B}
<1>1. 0 \in N
  OBVIOUS
<1>2. CASE \A n \in 0 .. m - 1 : n \in N => n + 1 \in N
  <2>1. \A n \in 0 .. m : n \in N
    <3> HIDE DEF N
    <3> QED BY <1>1, <1>2, UpToInduction
  <2>2. m \in 0 .. m /\ \A k \in 1 .. m : k \in B
    BY <2>1
  <2> QED BY <2>2
<1>3. CASE \E n \in 0 .. m - 1 : n \in N /\ n + 1 \notin N
  <2>1. PICK n \in 0 .. m - 1 : n \in N /\ n + 1 \notin N
    BY <1>3
  <2>2. n \in 0 .. m /\ n + 1 \in 1 .. m /\ \A k \in 1 .. n : k \in B
    BY <2>1
  <2>3. n + 1 \notin B
    <3>1. \A k \in 1 .. n + 1 : k \in 1 .. n \/ k = n + 1
      BY <2>2
    <3> QED BY <2>1, <2>2, <3>1
  <2>4. \A k \in n + 1 .. m : k \notin B
    <3>1. \A k \in n + 1 .. m : k \in 1 .. m /\ n + 1 <= k
      BY <2>2
    <3> QED BY <2>2, <2>3, <3>1
  <2> QED BY <2>2, <2>4
<1> QED BY <1>2, <1>3

Follows(f, step, base, m) ==
  f = [n \in 0 .. m |-> IF n = 0 THEN base ELSE step[<<f[n - 1], n>>]]

LEMMA RecursionExists ==
  ASSUME NEW m \in Nat, NEW S, NEW base \in S, NEW step \in [S \X (1 .. m) -> S]
  PROVE  \E f \in [0 .. m -> S] : Follows(f, step, base, m)
<1> DEFINE N == {k \in 0 .. m : \E f \in [0 .. k -> S] : Follows(f, step, base, k)}
<1>1. 0 \in N
  <2> DEFINE f == [n \in 0 .. 0 |-> base]
  <2>1. \A n \in 0 .. 0 : n = 0
    OBVIOUS
  <2>2. f \in [0 .. 0 -> S] /\ f = [n \in 0 .. 0 |-> IF n = 0 THEN base ELSE step[<<f[n - 1], n>>]]
    BY <2>1
  <2> HIDE DEF f
  <2>3. Follows(f, step, base, 0)
    BY <2>2 DEF Follows
  <2> QED BY <2>2, <2>3
<1>2. \A k \in 0 .. m - 1 : k \in N => k + 1 \in N
  <2> TAKE k \in 0 .. m - 1
  <2> SUFFICES ASSUME k \in N PROVE k + 1 \in N
    OBVIOUS
  <2>1. k \in Nat /\ k + 1 \in 1 .. m /\ k + 1 \in 0 .. m /\ k \in 0 .. k
    OBVIOUS
  <2>2. PICK f \in [0 .. k -> S] : Follows(f, step, base, k)
    OBVIOUS
  <2>3. \A n \in 0 .. k : f[n] = IF n = 0 THEN base ELSE step[<<f[n - 1], n>>]
    <3>1. f = [n \in 0 .. k |-> IF n = 0 THEN base ELSE step[<<f[n - 1], n>>]]
      BY <2>2 DEF Follows
    <3> QED BY <3>1
  <2> DEFINE next == step[<<f[k], k + 1>>]
             g == [n \in 0 .. (k + 1) |-> IF n = k + 1 THEN next ELSE f[n]]
  <2>4. next \in S
    <3>1. f[k] \in S
      BY <2>1, <2>2
    <3> QED BY <2>1, <3>1
  <2>5. (\A n \in 0 .. k : g[n] = f[n]) /\ g[k + 1] = next
    BY <2>1
  <2>6. g = [n \in 0 .. (k + 1) |-> g[n]]
    OBVIOUS
  <2>7. \A n \in 0 .. (k + 1) : n \in 0 .. k \/ n = k + 1
    BY <2>1
  <2>8. g \in [0 .. (k + 1) -> S]
    <3> HIDE DEF next
    <3> QED BY <2>2, <2>4, <2>7
  <2> HIDE DEF g
  <2>9. \A n \in 0 .. (k + 1) : g[n] = IF n = 0 THEN base ELSE step[<<g[n - 1], n>>]
    <3> TAKE n \in 0 .. (k + 1)
    <3>1. CASE n = 0
      <4>1. 0 \in 0 .. k
        BY <2>1
      <4>2. f[0] = base
        BY <2>3, <4>1
      <4> QED BY <2>5, <3>1, <4>1, <4>2
    <3>2. CASE n = k + 1
      <4>1. n - 1 \in 0 .. k /\ n - 1 = k /\ n # 0
        BY <2>1, <3>2
      <4> QED BY <2>5, <3>2, <4>1
    <3>3. CASE n \in 1 .. k
      <4>1. n \in 0 .. k /\ n - 1 \in 0 .. k /\ n # 0
        BY <2>1, <3>3
      <4> QED BY <2>3, <2>5, <4>1
    <3> QED BY <2>1, <3>1, <3>2, <3>3
  <2>10. Follows(g, step, base, k + 1)
    <3>1. g = [n \in 0 .. (k + 1) |-> IF n = 0 THEN base ELSE step[<<g[n - 1], n>>]]
      BY <2>6, <2>9
    <3> QED BY <3>1 DEF Follows
  <2> QED BY <2>1, <2>8, <2>10
<1>3. \A k \in 0 .. m : k \in N
  <2> HIDE DEF N
  <2> QED BY <1>1, <1>2, UpToInduction
<1> QED BY <1>3

-----------------------------------------------------------------------------
(* Insertion, and the order of chunks and of ranges. *)

IsWith(r, q, n, t, S) ==
  /\ r \in Seq(S) /\ Len(r) = Len(q) + 1
  /\ \A i \in 1 .. Len(r) : r[i] = IF i <= n THEN q[i] ELSE IF i = n + 1 THEN t ELSE q[i - 1]

LEMMA With ==
  ASSUME NEW S, NEW q \in Seq(S), NEW n \in 0 .. Len(q), NEW t \in S,
         NEW k, k = n + 1, NEW r, r = InsertAt(q, k, t)
  PROVE  IsWith(r, q, n, t, S)
<1> DEFINE a == SubSeq(q, 1, (n + 1) - 1)
           b == SubSeq(q, n + 1, Len(q))
           c == <<t>>
           d == a \o c
<1>1. Len(q) \in Nat /\ \A i \in 1 .. Len(q) : q[i] \in S
  BY ElementOfSeq, LenProperties
<1>2. a \in Seq(S) /\ Len(a) = n /\ \A i \in 1 .. n : a[i] = q[i]
  <2>1. (n + 1) - 1 = n /\ \A i \in 1 .. (n + 1) - 1 : q[i] \in S
    BY <1>1
  <2>2. /\ a \in Seq(S) /\ Len(a) = (IF 1 <= (n + 1) - 1 THEN (n + 1) - 1 - 1 + 1 ELSE 0)
        /\ \A i \in 1 .. (n + 1) - 1 - 1 + 1 : a[i] = q[1 + i - 1]
    BY <1>1, <2>1, SubSeqProperties
  <2> HIDE DEF a
  <2> QED BY <1>1, <2>2
<1>3. b \in Seq(S) /\ Len(b) = Len(q) - n /\ \A i \in 1 .. Len(q) - n : b[i] = q[n + i]
  <2>1. \A i \in n + 1 .. Len(q) : q[i] \in S
    BY <1>1
  <2>2. /\ b \in Seq(S) /\ Len(b) = (IF n + 1 <= Len(q) THEN Len(q) - (n + 1) + 1 ELSE 0)
        /\ \A i \in 1 .. Len(q) - (n + 1) + 1 : b[i] = q[n + 1 + i - 1]
    BY <1>1, <2>1, SubSeqProperties
  <2> HIDE DEF b
  <2> QED BY <1>1, <2>2
<1>4. c \in Seq(S) /\ Len(c) = 1 /\ c[1] = t
  OBVIOUS
<1>5. InsertAt(q, n + 1, t) = d \o b
  BY DEF InsertAt
<1> HIDE DEF a, b, c
<1>6. /\ d \in Seq(S) /\ Len(d) = n + 1
      /\ \A i \in 1 .. Len(a) + Len(c) : d[i] = IF i <= Len(a) THEN a[i] ELSE c[i - Len(a)]
  <2>1. /\ a \o c \in Seq(S) /\ Len(a \o c) = Len(a) + Len(c)
        /\ \A i \in 1 .. Len(a) + Len(c) : (a \o c)[i] = IF i <= Len(a) THEN a[i] ELSE c[i - Len(a)]
    BY <1>2, <1>4, ConcatProperties
  <2>2. Len(a) + Len(c) = n + 1
    BY <1>2, <1>4
  <2> QED BY <2>1, <2>2
<1> HIDE DEF d
<1>7. \A i \in 1 .. n + 1 : d[i] = IF i <= n THEN q[i] ELSE t
  <2> SUFFICES ASSUME NEW i \in 1 .. n + 1 PROVE d[i] = IF i <= n THEN q[i] ELSE t
    OBVIOUS
  <2>1. i \in 1 .. Len(a) + Len(c)
    BY <1>2, <1>4
  <2>2. CASE i <= n
    BY <1>2, <1>6, <2>1, <2>2
  <2>3. CASE i = n + 1
    <3>1. i - Len(a) = 1 /\ ~(i <= Len(a))
      BY <1>2, <2>3
    <3> QED BY <1>4, <1>6, <2>1, <2>3, <3>1
  <2> QED BY <2>2, <2>3
<1>8. /\ d \o b \in Seq(S) /\ Len(d \o b) = Len(d) + Len(b)
      /\ \A i \in 1 .. Len(d) + Len(b) : (d \o b)[i] = IF i <= Len(d) THEN d[i] ELSE b[i - Len(d)]
  BY <1>3, <1>6, ConcatProperties
<1>9. \A i \in 1 .. Len(q) + 1 :
        (d \o b)[i] = IF i <= n THEN q[i] ELSE IF i = n + 1 THEN t ELSE q[i - 1]
  <2> SUFFICES ASSUME NEW i \in 1 .. Len(q) + 1
               PROVE  (d \o b)[i] = IF i <= n THEN q[i] ELSE IF i = n + 1 THEN t ELSE q[i - 1]
    OBVIOUS
  <2>1. i \in 1 .. Len(d) + Len(b)
    BY <1>1, <1>3, <1>6
  <2>2. CASE i <= n + 1
    BY <1>6, <1>7, <1>8, <2>1, <2>2
  <2>3. CASE i > n + 1
    <3>1. i - Len(d) \in 1 .. Len(q) - n /\ n + (i - Len(d)) = i - 1 /\ ~(i <= Len(d))
      BY <1>1, <1>6, <2>3
    <3>2. (d \o b)[i] = b[i - Len(d)]
      BY <1>8, <2>1, <3>1
    <3>3. b[i - Len(d)] = q[n + (i - Len(d))]
      BY <1>3, <3>1
    <3>4. ~(i <= n) /\ i # n + 1
      BY <1>1, <2>3
    <3> QED BY <3>1, <3>2, <3>3, <3>4
  <2>4. i <= n + 1 \/ i > n + 1
    BY <1>1
  <2> QED BY <2>2, <2>3, <2>4
<1>10. Len(d) + Len(b) = Len(q) + 1
  BY <1>1, <1>3, <1>6
<1>11. /\ d \o b \in Seq(S) /\ Len(d \o b) = Len(q) + 1
       /\ \A i \in 1 .. Len(d \o b) :
            (d \o b)[i] = IF i <= n THEN q[i] ELSE IF i = n + 1 THEN t ELSE q[i - 1]
  BY <1>8, <1>9, <1>10
<1> DEFINE e == d \o b
<1>12. /\ e \in Seq(S) /\ Len(e) = Len(q) + 1
       /\ \A i \in 1 .. Len(e) :
            e[i] = IF i <= n THEN q[i] ELSE IF i = n + 1 THEN t ELSE q[i - 1]
  BY <1>11
<1>13. r = e
  BY <1>5
<1> HIDE DEF e
<1>14. IsWith(e, q, n, t, S)
  BY <1>12 DEF IsWith
<1> QED BY <1>13, <1>14

IntRange == Int \X Int

LEMMA RangeOrder ==
  ASSUME NEW x \in IntRange, NEW y \in IntRange, NEW z \in IntRange
  PROVE  /\ ~RangeBefore(x, x)
         /\ RangeBefore(x, y) => ~RangeBefore(y, x)
         /\ ~RangeBefore(y, x) => x[1] <= y[1]
         /\ RangeBefore(y, z) /\ ~RangeBefore(y, x) => RangeBefore(x, z)
         /\ ~RangeBefore(y, x) /\ ~RangeBefore(z, y) => ~RangeBefore(z, x)
<1>1. /\ x[1] \in Int /\ x[2] \in Int /\ y[1] \in Int /\ y[2] \in Int
      /\ z[1] \in Int /\ z[2] \in Int
  BY DEF IntRange
<1> QED BY <1>1 DEF RangeBefore

RangesAreSorted(q) == \A i \in 1 .. Len(q) : \A j \in 1 .. Len(q) : i <= j => ~RangeBefore(q[j], q[i])
Holds(q, m, x) == \E i \in 1 .. m : q[i] = x

\* Where a range is put into sorted ones.
LEMMA PlaceIs ==
  ASSUME NEW q \in Seq(IntRange), RangesAreSorted(q), NEW r \in IntRange
  PROVE  /\ Place(q, r) \in 0 .. Len(q)
         /\ \A k \in 1 .. Place(q, r) : RangeBefore(q[k], r)
         /\ \A k \in Place(q, r) + 1 .. Len(q) : ~RangeBefore(q[k], r)
<1> DEFINE B == {k \in 1 .. Len(q) : RangeBefore(q[k], r)}
<1>1. Len(q) \in Nat /\ \A k \in 1 .. Len(q) : q[k] \in IntRange
  BY LenProperties, ElementOfSeq
<1>2. \A k \in 1 .. Len(q) : \A l \in 1 .. Len(q) : k <= l /\ l \in B => k \in B
  BY <1>1, RangeOrder DEF RangesAreSorted
<1>3. PICK n \in 0 .. Len(q) : (\A k \in 1 .. n : k \in B) /\ (\A k \in n + 1 .. Len(q) : k \notin B)
  <2> HIDE DEF B
  <2> QED BY <1>1, <1>2, PlaceExists
<1>4. \A k \in n + 1 .. Len(q) : k \in 1 .. Len(q)
  BY <1>1
<1>5. (\A k \in 1 .. n : RangeBefore(q[k], r)) /\ (\A k \in n + 1 .. Len(q) : ~RangeBefore(q[k], r))
  BY <1>3, <1>4
<1> QED BY <1>5 DEF Place

LEMMA PlacedIs ==
  ASSUME NEW q \in Seq(IntRange), RangesAreSorted(q), NEW r \in IntRange,
         NEW p, p = Placed(q, r)
  PROVE  /\ p \in Seq(IntRange) /\ RangesAreSorted(p) /\ Len(p) = Len(q) + 1
         /\ \A x : Holds(p, Len(p), x) <=> x = r \/ Holds(q, Len(q), x)
<1> DEFINE n == Place(q, r)
<1>1. /\ n \in 0 .. Len(q) /\ \A k \in 1 .. n : RangeBefore(q[k], r)
      /\ \A k \in n + 1 .. Len(q) : ~RangeBefore(q[k], r)
  BY PlaceIs
<1>2. Len(q) \in Nat /\ \A k \in 1 .. Len(q) : q[k] \in IntRange
  BY LenProperties, ElementOfSeq
<1> HIDE DEF n
<1>3. PICK k : k = n + 1
  OBVIOUS
<1>4. p = InsertAt(q, k, r)
  BY <1>3 DEF n, Placed
<1>5. IsWith(p, q, n, r, IntRange)
  BY ONLY <1>1, <1>3, <1>4, q \in Seq(IntRange), r \in IntRange, With
<1>6. /\ p \in Seq(IntRange) /\ Len(p) = Len(q) + 1
      /\ \A i \in 1 .. Len(p) : p[i] = IF i <= n THEN q[i] ELSE IF i = n + 1 THEN r ELSE q[i - 1]
  BY <1>5 DEF IsWith
<1>7. RangesAreSorted(p)
  <2> SUFFICES ASSUME NEW i \in 1 .. Len(p), NEW j \in 1 .. Len(p), i <= j
               PROVE  ~RangeBefore(p[j], p[i])
    BY DEF RangesAreSorted
  <2>1. CASE j <= n
    <3>1. p[i] = q[i] /\ p[j] = q[j] /\ i \in 1 .. Len(q) /\ j \in 1 .. Len(q)
      BY <1>1, <1>2, <1>6, <2>1
    <3> QED BY <3>1 DEF RangesAreSorted
  <2>2. CASE j = n + 1 /\ i <= n
    <3>1. p[i] = q[i] /\ p[j] = r /\ i \in 1 .. Len(q) /\ i \in 1 .. n
      BY <1>1, <1>2, <1>6, <2>2
    <3> QED BY <1>1, <1>2, <3>1, RangeOrder
  <2>3. CASE j = n + 1 /\ i = n + 1
    <3>1. p[i] = r /\ p[j] = r
      BY <1>1, <1>2, <1>6, <2>3
    <3> QED BY <3>1, RangeOrder
  <2>4. CASE j > n + 1 /\ i <= n
    <3>1. p[i] = q[i] /\ p[j] = q[j - 1] /\ i \in 1 .. Len(q) /\ j - 1 \in 1 .. Len(q) /\ i <= j - 1
      BY <1>1, <1>2, <1>6, <2>4
    <3> QED BY <3>1 DEF RangesAreSorted
  <2>5. CASE j > n + 1 /\ i = n + 1
    <3>1. p[i] = r /\ p[j] = q[j - 1] /\ j - 1 \in n + 1 .. Len(q)
      BY <1>1, <1>2, <1>6, <2>5
    <3> QED BY <1>1, <3>1
  <2>6. CASE j > n + 1 /\ i > n + 1
    <3>1. /\ p[i] = q[i - 1] /\ p[j] = q[j - 1] /\ i - 1 <= j - 1
          /\ i - 1 \in 1 .. Len(q) /\ j - 1 \in 1 .. Len(q)
      BY <1>1, <1>2, <1>6, <2>6
    <3> QED BY <3>1 DEF RangesAreSorted
  <2> QED BY <1>1, <1>2, <1>6, <2>1, <2>2, <2>3, <2>4, <2>5, <2>6
<1>8. ASSUME NEW x PROVE Holds(p, Len(p), x) <=> x = r \/ Holds(q, Len(q), x)
  <2>1. ASSUME Holds(p, Len(p), x) PROVE x = r \/ Holds(q, Len(q), x)
    <3>1. PICK i \in 1 .. Len(p) : p[i] = x
      BY <2>1 DEF Holds
    <3>2. (i \in 1 .. Len(q) /\ q[i] = x) \/ x = r \/ (i - 1 \in 1 .. Len(q) /\ q[i - 1] = x)
      BY <1>1, <1>2, <1>6, <3>1
    <3> QED BY <3>2 DEF Holds
  <2>2. ASSUME x = r PROVE Holds(p, Len(p), x)
    <3>1. n + 1 \in 1 .. Len(p) /\ p[n + 1] = r
      BY <1>1, <1>2, <1>6
    <3> QED BY <2>2, <3>1 DEF Holds
  <2>3. ASSUME Holds(q, Len(q), x) PROVE Holds(p, Len(p), x)
    <3>1. PICK i \in 1 .. Len(q) : q[i] = x
      BY <2>3 DEF Holds
    <3>2. CASE i <= n
      <4>1. i \in 1 .. Len(p) /\ p[i] = x
        BY <1>1, <1>2, <1>6, <3>1, <3>2
      <4> QED BY <4>1 DEF Holds
    <3>3. CASE i > n
      <4>1. i + 1 \in 1 .. Len(p) /\ ~(i + 1 <= n) /\ i + 1 # n + 1 /\ (i + 1) - 1 = i
        BY <1>1, <1>2, <1>6, <3>1, <3>3
      <4>2. p[i + 1] = x
        BY <1>6, <3>1, <4>1
      <4> QED BY <4>1, <4>2 DEF Holds
    <3> QED BY <1>1, <3>2, <3>3
  <2> QED BY <2>1, <2>2, <2>3
<1> QED BY <1>6, <1>7, <1>8

-----------------------------------------------------------------------------
(* sorted() of the ranges. *)

SortedIn(f, ranges) ==
  f = [n \in 0 .. Len(ranges) |->
         IF n = 0 THEN <<>>
         ELSE Placed(f[n - 1], ranges[n])]
Sorted(ranges) == CHOOSE f : SortedIn(f, ranges)

\* The recursion has a value: sorted sequences stay such.
LEMMA SortedExists ==
  ASSUME NEW ranges \in Seq(IntRange)
  PROVE  SortedIn(Sorted(ranges), ranges)
<1> DEFINE m == Len(ranges)
           S == {q \in Seq(IntRange) : RangesAreSorted(q)}
           step == [x \in S \X (1 .. m) |-> Placed(x[1], ranges[x[2]])]
<1>1. m \in Nat /\ \A n \in 1 .. m : ranges[n] \in IntRange
  BY LenProperties, ElementOfSeq
<1>2. ASSUME NEW q \in S, NEW n \in 1 .. m
      PROVE  Placed(q, ranges[n]) \in S
  BY <1>1, PlacedIs
<1>3. step \in [S \X (1 .. m) -> S]
  <2> HIDE DEF m, S
  <2>1. \A x \in S \X (1 .. m) : x[1] \in S /\ x[2] \in 1 .. m
    OBVIOUS
  <2> QED BY <1>2, <2>1
<1>4. <<>> \in S
  BY EmptySeq DEF RangesAreSorted
<1>5. PICK f \in [0 .. m -> S] : Follows(f, step, <<>>, m)
  <2> HIDE DEF m, S, step
  <2> QED BY <1>1, <1>3, <1>4, RecursionExists
<1>6. SortedIn(f, ranges)
  <2> DEFINE ValueAt(n) == Placed(f[n - 1], ranges[n])
  <2>1. \A n \in 0 .. m : n # 0 => <<f[n - 1], n>> \in S \X (1 .. m)
    <3> HIDE DEF S
    <3>1. \A n \in 0 .. m : n # 0 => n - 1 \in 0 .. m /\ n \in 1 .. m
      BY <1>1
    <3> QED BY <1>5, <3>1
  <2>2. \A n \in 0 .. m : n # 0 => step[<<f[n - 1], n>>] = ValueAt(n)
    <3> HIDE DEF S, m
    <3> QED BY <2>1
  <2>3. f = [n \in 0 .. m |-> IF n = 0 THEN <<>> ELSE step[<<f[n - 1], n>>]]
    BY <1>5 DEF Follows
  <2>4. f = [n \in 0 .. m |-> IF n = 0 THEN <<>> ELSE ValueAt(n)]
    <3> HIDE DEF step, ValueAt, S, m
    <3> QED BY <2>2, <2>3
  <2> QED BY <2>4 DEF SortedIn
<1> QED BY <1>6 DEF Sorted

\* The ranges in order are the ranges.
LEMMA InOrderIs ==
  ASSUME NEW ranges \in Seq(IntRange), NEW q, q = InOrder(ranges)
  PROVE  /\ q \in Seq(IntRange) /\ RangesAreSorted(q)
         /\ \A x : Holds(q, Len(q), x) <=> Holds(ranges, Len(ranges), x)
<1> DEFINE m == Len(ranges)
           f == Sorted(ranges)
           SoFar(n) == /\ f[n] \in Seq(IntRange) /\ RangesAreSorted(f[n])
                      /\ \A x : Holds(f[n], Len(f[n]), x) <=> Holds(ranges, n, x)
           N == {n \in 0 .. m : SoFar(n)}
<1>1. m \in Nat /\ \A n \in 1 .. m : ranges[n] \in IntRange
  BY LenProperties, ElementOfSeq
<1>2. InOrder(ranges) = f[m]
  BY DEF InOrder, Sorted, SortedIn
<1>3. SortedIn(f, ranges)
  BY SortedExists
<1> HIDE DEF f
<1>4. f[0] = <<>> /\ \A n \in 1 .. m : f[n] = Placed(f[n - 1], ranges[n])
  <2>1. f = [n \in 0 .. m |-> IF n = 0 THEN <<>>
                             ELSE Placed(f[n - 1], ranges[n])]
    BY <1>3 DEF SortedIn
  <2>2. \A n \in 0 .. m : f[n] = IF n = 0 THEN <<>>
                             ELSE Placed(f[n - 1], ranges[n])
    BY <2>1
  <2>3. 0 \in 0 .. m /\ \A n \in 1 .. m : n \in 0 .. m /\ n # 0
    BY <1>1
  <2> QED BY <2>2, <2>3
<1>5. 0 \in N
  <2>1. 0 \in 0 .. m
    BY <1>1
  <2>2. RangesAreSorted(<<>>) /\ <<>> \in Seq(IntRange)
    BY EmptySeq DEF RangesAreSorted
  <2>3. \A x : ~Holds(<<>>, Len(<<>>), x) /\ ~Holds(ranges, 0, x)
    BY DEF Holds
  <2> QED BY <1>4, <2>1, <2>2, <2>3
<1>6. \A n \in 0 .. m - 1 : n \in N => n + 1 \in N
  <2> TAKE n \in 0 .. m - 1
  <2> SUFFICES ASSUME n \in N PROVE n + 1 \in N
    OBVIOUS
  <2>1. n + 1 \in 1 .. m /\ n + 1 \in 0 .. m /\ (n + 1) - 1 = n
    BY <1>1
  <2>2. SoFar(n)
    OBVIOUS
  <2>3. f[n + 1] = Placed(f[n], ranges[n + 1])
    <3>1. f[n + 1] = Placed(f[(n + 1) - 1], ranges[n + 1])
      BY <1>4, <2>1
    <3> QED BY <2>1, <3>1
  <2>4. /\ f[n + 1] \in Seq(IntRange) /\ RangesAreSorted(f[n + 1])
        /\ \A x : Holds(f[n + 1], Len(f[n + 1]), x) <=> x = ranges[n + 1] \/ Holds(f[n], Len(f[n]), x)
    <3>1. PICK r \in IntRange : r = ranges[n + 1]
      BY <1>1, <2>1
    <3>2. PICK h : h = f[n]
      OBVIOUS
    <3>3. PICK p : p = f[n + 1]
      OBVIOUS
    <3>4. h \in Seq(IntRange) /\ RangesAreSorted(h) /\ p = Placed(h, r)
      BY <2>2, <2>3, <3>1, <3>2, <3>3
    <3>5. /\ p \in Seq(IntRange) /\ RangesAreSorted(p)
          /\ \A x : Holds(p, Len(p), x) <=> x = r \/ Holds(h, Len(h), x)
      BY <3>4, PlacedIs
    <3> QED BY <3>1, <3>2, <3>3, <3>5
  <2>5. \A x : Holds(ranges, n + 1, x) <=> x = ranges[n + 1] \/ Holds(ranges, n, x)
    <3>1. \A i \in 1 .. n + 1 : i \in 1 .. n \/ i = n + 1
      BY <2>1
    <3>2. \A i \in 1 .. n : i \in 1 .. n + 1
      BY <2>1
    <3>3. n + 1 \in 1 .. n + 1
      BY <2>1
    <3> QED BY <3>1, <3>2, <3>3 DEF Holds
  <2>6. SoFar(n + 1)
    BY <2>2, <2>4, <2>5
  <2> QED BY <2>1, <2>6
<1>7. \A n \in 0 .. m : n \in N
  <2> HIDE DEF N, m
  <2> QED BY <1>1, <1>5, <1>6, UpToInduction
<1>8. SoFar(m)
  <2>1. m \in 0 .. m
    BY <1>1
  <2> QED BY <1>7, <2>1
<1> QED BY <1>2, <1>8

-----------------------------------------------------------------------------
(* Counting what ranges in order span, each number once. *)

\* The numbers from lo up to hi that one of the first n ranges holds.
Spanned(ranges, n, lo, hi) ==
  {i \in lo .. hi - 1 : \E k \in 1 .. n : ranges[k][1] <= i /\ i < ranges[k][2]}

LEMMA SpanStep ==
  ASSUME NEW ranges, NEW n \in Nat, NEW lo, NEW hi, NEW r, r = ranges[n + 1]
  PROVE  Spanned(ranges, n + 1, lo, hi) =
           Spanned(ranges, n, lo, hi) \cup {i \in lo .. hi - 1 : r[1] <= i /\ i < r[2]}
<1>1. \A k \in 1 .. n + 1 : k \in 1 .. n \/ k = n + 1
  OBVIOUS
<1>2. n + 1 \in 1 .. n + 1 /\ \A k \in 1 .. n : k \in 1 .. n + 1
  OBVIOUS
<1> QED BY <1>1, <1>2 DEF Spanned

\* U is what was counted, all of it below to.
Swept(U, acc, lo) ==
  /\ acc \in [missing : Int, countedTo : Int] /\ lo <= acc.countedTo
  /\ U \subseteq lo .. acc.countedTo - 1 /\ IsFiniteSet(U) /\ acc.missing = Cardinality(U)

\* One more range, none of whose numbers below countedTo is new.
LEMMA CountStep ==
  ASSUME NEW U, NEW lo \in Int, NEW hi \in Int, NEW acc, Swept(U, acc, lo), NEW r \in IntRange,
         \A i \in lo .. acc.countedTo - 1 : r[1] <= i => i \in U,
         NEW next, next = CountIn(acc, r, hi),
         NEW V, V = U \cup {i \in lo .. hi - 1 : r[1] <= i /\ i < r[2]}
  PROVE  /\ Swept(V, next, lo)
         /\ next.countedTo = acc.countedTo \/ (next.countedTo <= hi /\ next.countedTo <= r[2])
<1> DEFINE a == Larger(r[1], acc.countedTo)
           b == Smaller(r[2], hi)
<1>1. /\ r[1] \in Int /\ r[2] \in Int /\ a \in Int /\ b \in Int /\ acc.countedTo \in Int
      /\ a >= r[1] /\ a >= acc.countedTo /\ (a = r[1] \/ a = acc.countedTo)
      /\ b <= r[2] /\ b <= hi /\ (b = r[2] \/ b = hi)
      /\ acc.missing \in Int /\ lo <= acc.countedTo
  BY DEF Swept, IntRange, Larger, Smaller
<1>2. next = IF a < b THEN [missing |-> acc.missing + (b - a), countedTo |-> b] ELSE acc
  BY DEF CountIn
<1>3. CASE a < b
  <2>1. next = [missing |-> acc.missing + (b - a), countedTo |-> b]
    BY <1>2, <1>3
  <2> HIDE DEF a, b
  <2>2. V = U \cup (a .. b - 1)
    <3>1. ASSUME NEW i, i \in lo .. hi - 1, r[1] <= i, i < r[2] PROVE i \in U \cup (a .. b - 1)
      <4>1. CASE i < acc.countedTo
        <5>1. i \in lo .. acc.countedTo - 1
          BY <1>1, <3>1, <4>1
        <5> QED BY <3>1, <5>1
      <4>2. CASE i >= acc.countedTo
        <5>1. i \in a .. b - 1
          BY <1>1, <3>1, <4>2
        <5> QED BY <5>1
      <4> QED BY <1>1, <3>1, <4>1, <4>2
    <3>2. ASSUME NEW i, i \in a .. b - 1 PROVE i \in lo .. hi - 1 /\ r[1] <= i /\ i < r[2]
      BY <1>1, <3>2
    <3> QED BY <3>1, <3>2
  <2>3. U \cap (a .. b - 1) = {}
    <3>1. ASSUME NEW i \in U, i \in a .. b - 1 PROVE FALSE
      <4>1. i \in lo .. acc.countedTo - 1
        BY DEF Swept
      <4> QED BY <1>1, <3>1, <4>1
    <3> QED BY <3>1
  <2>4. IsFiniteSet(a .. b - 1) /\ Cardinality(a .. b - 1) = b - a
    <3>1. b - 1 \in Int /\ ~(a > b - 1) /\ (b - 1) - a + 1 = b - a
      BY <1>1, <1>3
    <3> QED BY <1>1, <3>1, FS_Interval
  <2>5. IsFiniteSet(U) /\ Cardinality(U) = acc.missing
    BY DEF Swept
  <2>6. IsFiniteSet(V) /\ Cardinality(V) = acc.missing + (b - a)
    <3>1. /\ IsFiniteSet(U \cup (a .. b - 1))
          /\ Cardinality(U \cup (a .. b - 1))
               = Cardinality(U) + Cardinality(a .. b - 1) - Cardinality(U \cap (a .. b - 1))
      BY <2>4, <2>5, FS_Union
    <3>2. Cardinality(U \cap (a .. b - 1)) = 0
      BY <2>3, FS_EmptySet
    <3>3. Cardinality(V) = acc.missing + (b - a) - 0
      BY <2>2, <2>4, <2>5, <3>1, <3>2
    <3>4. acc.missing + (b - a) - 0 = acc.missing + (b - a)
      BY <1>1
    <3> QED BY <2>2, <3>1, <3>3, <3>4
  <2>7. V \subseteq lo .. b - 1
    <3>1. ASSUME NEW i \in U PROVE i \in lo .. b - 1
      <4>1. i \in lo .. acc.countedTo - 1
        BY DEF Swept
      <4> QED BY <1>1, <1>3, <4>1
    <3>2. ASSUME NEW i \in a .. b - 1 PROVE i \in lo .. b - 1
      BY <1>1
    <3> QED BY <2>2, <3>1, <3>2
  <2>8. next.countedTo = b /\ next.missing = acc.missing + (b - a) /\ next \in [missing : Int, countedTo : Int]
    BY <1>1, <2>1
  <2>9. lo <= b
    BY <1>1, <1>3
  <2> QED BY <1>1, <2>6, <2>7, <2>8, <2>9 DEF Swept
<1>4. CASE ~(a < b)
  <2>1. next = acc
    BY <1>2, <1>4
  <2> HIDE DEF a, b
  <2>2. V = U
    <3>1. ASSUME NEW i, i \in lo .. hi - 1, r[1] <= i, i < r[2] PROVE i \in U
      <4>1. i \in lo .. acc.countedTo - 1
        BY <1>1, <1>4, <3>1
      <4> QED BY <3>1, <4>1
    <3> QED BY <3>1
  <2> QED BY <2>1, <2>2
<1> QED BY <1>3, <1>4

LEMMA CountIsExact ==
  ASSUME NEW m \in Nat, NEW ranges, \A k \in 1 .. m : ranges[k] \in IntRange,
         \A k \in 1 .. m : \A l \in 1 .. m : k <= l => ranges[k][1] <= ranges[l][1],
         NEW lo \in Int, NEW hi \in Int,
         NEW h, h[0] = [missing |-> 0, countedTo |-> lo],
         \A n \in 1 .. m : h[n] = CountIn(h[n - 1], ranges[n], hi)
  PROVE  /\ \A n \in 0 .. m : h[n] \in [missing : Int, countedTo : Int] /\ lo <= h[n].countedTo
         /\ IsFiniteSet(Spanned(ranges, m, lo, hi))
         /\ h[m].missing = Cardinality(Spanned(ranges, m, lo, hi))
<1> DEFINE To(n) == h[n].countedTo
           MarkIs(n) == To(n) = lo \/ \E k \in 1 .. n : To(n) <= hi /\ To(n) <= ranges[k][2]
           SoFar(n) == Swept(Spanned(ranges, n, lo, hi), h[n], lo) /\ MarkIs(n)
           N == {n \in 0 .. m : SoFar(n)}
<1>1. 0 \in N
  <2>1. Spanned(ranges, 0, lo, hi) = {}
    BY DEF Spanned
  <2>2. h[0].countedTo = lo /\ h[0].missing = 0 /\ h[0] \in [missing : Int, countedTo : Int]
    OBVIOUS
  <2>3. Swept({}, h[0], lo)
    <3>1. IsFiniteSet({}) /\ Cardinality({}) = 0
      BY FS_EmptySet
    <3>2. lo <= h[0].countedTo
      BY <2>2
    <3>3. {} \subseteq lo .. h[0].countedTo - 1 /\ h[0].missing = Cardinality({})
      BY <2>2, <3>1
    <3> QED BY <2>2, <3>1, <3>2, <3>3 DEF Swept
  <2>4. SoFar(0)
    <3>1. MarkIs(0)
      BY <2>2
    <3> HIDE DEF MarkIs
    <3> QED BY <2>1, <2>3, <3>1
  <2>5. 0 \in 0 .. m
    OBVIOUS
  <2> HIDE DEF SoFar
  <2> QED BY <2>4, <2>5
<1>2. \A n \in 0 .. m - 1 : n \in N => n + 1 \in N
  <2> TAKE n \in 0 .. m - 1
  <2> SUFFICES ASSUME n \in N PROVE n + 1 \in N
    OBVIOUS
  <2>1. /\ n \in Nat /\ n + 1 \in 1 .. m /\ n + 1 \in 0 .. m /\ (n + 1) - 1 = n
        /\ \A k \in 1 .. n : k \in 1 .. m /\ k <= n + 1
    OBVIOUS
  <2>2. SoFar(n)
    OBVIOUS
  <2>3. h[n + 1] = CountIn(h[n], ranges[n + 1], hi)
    <3>1. h[n + 1] = CountIn(h[(n + 1) - 1], ranges[n + 1], hi)
      BY <2>1
    <3> QED BY <2>1, <3>1
  <2>4. PICK r \in IntRange : r = ranges[n + 1]
    BY <2>1
  <2>5. PICK U : U = Spanned(ranges, n, lo, hi)
    OBVIOUS
  <2>6. PICK acc : acc = h[n]
    OBVIOUS
  <2>7. PICK next : next = h[n + 1]
    OBVIOUS
  <2>8. PICK V : V = Spanned(ranges, n + 1, lo, hi)
    OBVIOUS
  <2>9. V = U \cup {i \in lo .. hi - 1 : r[1] <= i /\ i < r[2]}
    BY <2>1, <2>4, <2>5, <2>8, SpanStep
  <2>10. \A i \in lo .. acc.countedTo - 1 : r[1] <= i => i \in U
    <3> SUFFICES ASSUME NEW i \in lo .. acc.countedTo - 1, r[1] <= i PROVE i \in U
      OBVIOUS
    <3>1. acc.countedTo \in Int /\ i \in Int /\ lo <= i /\ i < acc.countedTo
      BY <2>2, <2>5, <2>6 DEF Swept
    <3>2. PICK k \in 1 .. n : acc.countedTo <= hi /\ acc.countedTo <= ranges[k][2]
      BY <2>2, <2>6, <3>1
    <3>3. ranges[k] \in IntRange /\ ranges[k][1] <= r[1]
      BY <2>1, <2>4, <3>2
    <3>4. ranges[k][1] \in Int /\ ranges[k][2] \in Int /\ r[1] \in Int
      BY <3>3 DEF IntRange
    <3>5. i \in lo .. hi - 1 /\ ranges[k][1] <= i /\ i < ranges[k][2]
      BY <3>1, <3>2, <3>3, <3>4
    <3> QED BY <2>5, <3>2, <3>5 DEF Spanned
  <2>11. Swept(U, acc, lo) /\ next = CountIn(acc, r, hi)
    BY <2>2, <2>3, <2>4, <2>5, <2>6, <2>7
  <2>12. /\ Swept(V, next, lo)
         /\ next.countedTo = acc.countedTo \/ (next.countedTo <= hi /\ next.countedTo <= r[2])
    <3> HIDE DEF N, SoFar
    <3> QED BY <2>9, <2>10, <2>11, CountStep
  <2>13. MarkIs(n + 1)
    <3>1. CASE next.countedTo = acc.countedTo
      <4>1. CASE acc.countedTo = lo
        BY <2>6, <2>7, <3>1, <4>1
      <4>2. CASE acc.countedTo # lo
        <5>1. PICK k \in 1 .. n : acc.countedTo <= hi /\ acc.countedTo <= ranges[k][2]
          BY <2>2, <2>6, <4>2
        <5>2. k \in 1 .. n + 1
          BY <2>1
        <5> QED BY <2>7, <3>1, <5>1, <5>2
      <4> QED BY <4>1, <4>2
    <3>2. CASE next.countedTo <= hi /\ next.countedTo <= r[2]
      <4>1. n + 1 \in 1 .. n + 1
        BY <2>1
      <4> QED BY <2>4, <2>7, <3>2, <4>1
    <3> QED BY <2>12, <3>1, <3>2
  <2>14. SoFar(n + 1)
    BY <2>7, <2>8, <2>12, <2>13
  <2> QED BY <2>1, <2>14
<1>3. \A n \in 0 .. m : n \in N
  <2> HIDE DEF N
  <2> QED BY <1>1, <1>2, UpToInduction
<1>4. \A n \in 0 .. m : SoFar(n)
  BY <1>3
<1>5. m \in 0 .. m
  OBVIOUS
<1> QED BY <1>4, <1>5 DEF Swept

-----------------------------------------------------------------------------
(* Volume.missing *)

CountedIn(f, ranges, lo, hi) ==
  f = [n \in 0 .. Len(ranges) |->
         IF n = 0 THEN [missing |-> 0, countedTo |-> lo] ELSE CountIn(f[n - 1], ranges[n], hi)]
Counted(ranges, lo, hi) == CHOOSE f : CountedIn(f, ranges, lo, hi)

LEMMA CountedExists ==
  ASSUME NEW ranges \in Seq(IntRange), NEW lo \in Int, NEW hi \in Int
  PROVE  CountedIn(Counted(ranges, lo, hi), ranges, lo, hi)
<1> DEFINE m == Len(ranges)
           S == [missing : Int, countedTo : Int]
           base == [missing |-> 0, countedTo |-> lo]
           step == [x \in S \X (1 .. m) |-> CountIn(x[1], ranges[x[2]], hi)]
<1>1. m \in Nat /\ \A n \in 1 .. m : ranges[n] \in IntRange
  BY LenProperties, ElementOfSeq
<1>2. ASSUME NEW acc \in S, NEW n \in 1 .. m PROVE CountIn(acc, ranges[n], hi) \in S
  <2>1. ranges[n][1] \in Int /\ ranges[n][2] \in Int
    BY <1>1 DEF IntRange
  <2> QED BY <2>1 DEF CountIn, Larger, Smaller
<1>3. step \in [S \X (1 .. m) -> S]
  <2> HIDE DEF m, S
  <2>1. \A x \in S \X (1 .. m) : x[1] \in S /\ x[2] \in 1 .. m
    OBVIOUS
  <2> QED BY <1>2, <2>1
<1>4. base \in S
  OBVIOUS
<1>5. PICK f \in [0 .. m -> S] : Follows(f, step, base, m)
  <2> HIDE DEF m, S, step, base
  <2> QED BY <1>1, <1>3, <1>4, RecursionExists
<1>6. CountedIn(f, ranges, lo, hi)
  <2> DEFINE ValueAt(n) == CountIn(f[n - 1], ranges[n], hi)
  <2>1. \A n \in 0 .. m : n # 0 => <<f[n - 1], n>> \in S \X (1 .. m)
    <3> HIDE DEF S
    <3>1. \A n \in 0 .. m : n # 0 => n - 1 \in 0 .. m /\ n \in 1 .. m
      BY <1>1
    <3> QED BY <1>5, <3>1
  <2>2. \A n \in 0 .. m : n # 0 => step[<<f[n - 1], n>>] = ValueAt(n)
    <3> HIDE DEF S, m
    <3> QED BY <2>1
  <2>3. f = [n \in 0 .. m |-> IF n = 0 THEN base ELSE step[<<f[n - 1], n>>]]
    BY <1>5 DEF Follows
  <2>4. f = [n \in 0 .. m |-> IF n = 0 THEN base ELSE ValueAt(n)]
    <3> HIDE DEF step, ValueAt, S, m, base
    <3> QED BY <2>2, <2>3
  <2> QED BY <2>4 DEF CountedIn
<1> QED BY <1>6 DEF Counted

\* A file's missing bytes are counted once each, whatever holes the header claims.
LEMMA MissingIs ==
  ASSUME NEW vol, vol.holes \in Seq(IntRange), Len(vol.data) \in Nat,
         NEW offset \in Int, NEW length \in Nat
  PROVE  Missing(vol, offset, length) =
           Cardinality({i \in offset .. offset + length - 1 :
                          i >= Len(vol.data) \/ InSome(vol.holes, i)})
<1> DEFINE end == offset + length
           size == Len(vol.data)
           tail == <<size, Larger(end, size)>>
           all == Append(vol.holes, tail)
           q == InOrder(all)
           h == Counted(q, offset, end)
           m == Len(q)
<1>1. tail \in IntRange /\ tail[1] = size /\ tail[2] \in Int /\ tail[2] >= end /\ end \in Int /\ size \in Int
  BY DEF IntRange, Larger
<1>2. all \in Seq(IntRange) /\ \A x : Holds(all, Len(all), x) <=> x = tail \/ Holds(vol.holes, Len(vol.holes), x)
  <2> DEFINE g == vol.holes
  <2>1. g \in Seq(IntRange) /\ Len(g) \in Nat
    BY LenProperties
  <2> HIDE DEF g, tail
  <2>2. /\ Append(g, tail) \in Seq(IntRange) /\ Len(Append(g, tail)) = Len(g) + 1
        /\ \A i \in 1 .. Len(g) : Append(g, tail)[i] = g[i]
        /\ Append(g, tail)[Len(g) + 1] = tail
    BY <1>1, <2>1, AppendProperties
  <2>3. ASSUME NEW x PROVE Holds(Append(g, tail), Len(g) + 1, x) <=> x = tail \/ Holds(g, Len(g), x)
    <3>1. \A i \in 1 .. Len(g) + 1 : i \in 1 .. Len(g) \/ i = Len(g) + 1
      BY <2>1
    <3>2. Len(g) + 1 \in 1 .. Len(g) + 1 /\ \A i \in 1 .. Len(g) : i \in 1 .. Len(g) + 1
      BY <2>1
    <3> QED BY <2>2, <3>1, <3>2 DEF Holds
  <2> QED BY <2>2, <2>3 DEF g
<1>3. Missing(vol, offset, length) = h[m].missing
  BY DEF Missing, Counted, CountedIn
<1> HIDE DEF all, tail
<1>4. /\ q \in Seq(IntRange) /\ RangesAreSorted(q)
      /\ \A x : Holds(q, Len(q), x) <=> Holds(all, Len(all), x)
  BY <1>2, InOrderIs
<1> HIDE DEF q
<1>5. m \in Nat /\ \A k \in 1 .. m : q[k] \in IntRange
  BY <1>4, LenProperties, ElementOfSeq
<1>6. \A k \in 1 .. m : \A l \in 1 .. m : k <= l => q[k][1] <= q[l][1]
  BY <1>4, <1>5, RangeOrder DEF RangesAreSorted
<1>7. CountedIn(h, q, offset, end)
  BY <1>1, <1>4, CountedExists
<1> HIDE DEF h, end
<1>8. h[0] = [missing |-> 0, countedTo |-> offset] /\ \A n \in 1 .. m : h[n] = CountIn(h[n - 1], q[n], end)
  <2>1. h = [n \in 0 .. m |-> IF n = 0 THEN [missing |-> 0, countedTo |-> offset]
                             ELSE CountIn(h[n - 1], q[n], end)]
    BY <1>7 DEF CountedIn
  <2>2. \A n \in 0 .. m : h[n] = IF n = 0 THEN [missing |-> 0, countedTo |-> offset]
                                 ELSE CountIn(h[n - 1], q[n], end)
    BY <2>1
  <2>3. 0 \in 0 .. m /\ \A n \in 1 .. m : n \in 0 .. m /\ n # 0
    BY <1>5
  <2> QED BY <2>2, <2>3
<1>9. h[m].missing = Cardinality(Spanned(q, m, offset, end))
  <2>1. end \in Int
    BY <1>1 DEF end
  <2> HIDE DEF m
  <2> QED BY ONLY <1>5, <1>6, <1>8, <2>1, offset \in Int, CountIsExact
<1>10. Spanned(q, m, offset, end) = {i \in offset .. end - 1 : i >= size \/ InSome(vol.holes, i)}
  <2> SUFFICES ASSUME NEW i \in offset .. end - 1
               PROVE  (\E k \in 1 .. m : q[k][1] <= i /\ i < q[k][2]) <=> i >= size \/ InSome(vol.holes, i)
    BY DEF Spanned
  <2>1. i \in Int /\ i < end
    BY <1>1
  <2>2. \A k \in 1 .. Len(vol.holes) : vol.holes[k][1] \in Int /\ vol.holes[k][2] \in Int
    <3>1. \A k \in 1 .. Len(vol.holes) : vol.holes[k] \in IntRange
      BY ElementOfSeq
    <3> QED BY <3>1 DEF IntRange
  <2>3. DOMAIN vol.holes = 1 .. Len(vol.holes)
    BY LenProperties
  <2>4. ASSUME NEW k \in 1 .. m, q[k][1] <= i, i < q[k][2] PROVE i >= size \/ InSome(vol.holes, i)
    <3>1. Holds(q, Len(q), q[k])
      BY DEF Holds
    <3>2. q[k] = tail \/ Holds(vol.holes, Len(vol.holes), q[k])
      BY <1>2, <1>4, <3>1
    <3>3. CASE q[k] = tail
      BY <1>1, <2>1, <2>4, <3>3
    <3>4. CASE Holds(vol.holes, Len(vol.holes), q[k])
      <4>1. PICK j \in 1 .. Len(vol.holes) : vol.holes[j] = q[k]
        BY <3>4 DEF Holds
      <4>2. i \in vol.holes[j][1] .. vol.holes[j][2] - 1
        BY <2>1, <2>2, <2>4, <4>1
      <4> QED BY <2>3, <4>1, <4>2 DEF InSome
    <3> QED BY <3>2, <3>3, <3>4
  <2>5. ASSUME i >= size PROVE \E k \in 1 .. m : q[k][1] <= i /\ i < q[k][2]
    <3>1. Holds(q, Len(q), tail)
      BY <1>2, <1>4
    <3>2. PICK k \in 1 .. m : q[k] = tail
      BY <3>1 DEF Holds
    <3> QED BY <1>1, <2>1, <2>5, <3>2
  <2>6. ASSUME InSome(vol.holes, i) PROVE \E k \in 1 .. m : q[k][1] <= i /\ i < q[k][2]
    <3>1. PICK j \in 1 .. Len(vol.holes) : i \in vol.holes[j][1] .. vol.holes[j][2] - 1
      BY <2>3, <2>6 DEF InSome
    <3>2. Holds(vol.holes, Len(vol.holes), vol.holes[j])
      BY DEF Holds
    <3>3. Holds(q, Len(q), vol.holes[j])
      BY <1>2, <1>4, <3>2
    <3>4. PICK k \in 1 .. m : q[k] = vol.holes[j]
      BY <3>3 DEF Holds
    <3> QED BY <2>1, <2>2, <3>1, <3>4
  <2> QED BY <2>4, <2>5, <2>6
<1>11. Missing(vol, offset, length) = Cardinality({i \in offset .. end - 1 : i >= size \/ InSome(vol.holes, i)})
  <2> HIDE DEF m, size
  <2> QED BY <1>3, <1>9, <1>10
<1> QED BY <1>11 DEF end

-----------------------------------------------------------------------------
(* SparseVolume.read *)

SomeByte == {<<"byte", k, i>> : k \in Nat, i \in Nat}
Chunk == [at : Nat, data : Seq(SomeByte)]
ByStart(chunks) ==
  \A k \in 1 .. Len(chunks) : \A l \in 1 .. Len(chunks) : k <= l => chunks[k].at <= chunks[l].at
Reaches(c) == <<c.at, c.at + Len(c.data)>>
\* A chunk holds byte p of the volume.
Has(c, p) == c.at <= p /\ p < c.at + Len(c.data)

LEMMA ChunkFacts ==
  ASSUME NEW c \in Chunk
  PROVE  /\ c.at \in Nat /\ c.data \in Seq(SomeByte) /\ Len(c.data) \in Nat
         /\ DOMAIN c.data = 1 .. Len(c.data) /\ \A j \in 1 .. Len(c.data) : c.data[j] \in SomeByte
         /\ Reaches(c) \in IntRange /\ Reaches(c)[1] = c.at /\ Reaches(c)[2] = c.at + Len(c.data)
         /\ \A p \in Int : Has(c, p) <=> (p + 1) - c.at \in DOMAIN c.data
<1>1. c.at \in Nat /\ c.data \in Seq(SomeByte)
  BY DEF Chunk
<1>2. Len(c.data) \in Nat /\ DOMAIN c.data = 1 .. Len(c.data) /\ \A j \in 1 .. Len(c.data) : c.data[j] \in SomeByte
  BY <1>1, LenProperties, ElementOfSeq
<1>3. Reaches(c) \in IntRange /\ Reaches(c)[1] = c.at /\ Reaches(c)[2] = c.at + Len(c.data)
  BY <1>1, <1>2 DEF Reaches, IntRange
<1>4. \A p \in Int : Has(c, p) <=> (p + 1) - c.at \in DOMAIN c.data
  BY <1>1, <1>2 DEF Has
<1> QED BY <1>1, <1>2, <1>3, <1>4

ByteOrNull == SomeByte \cup {Null}
Paintings(lo, length) ==
  {a \in [out : [1 .. length -> ByteOrNull], have : Int, coveredTo : Int] : lo <= a.coveredTo}

\* One chunk: it is counted as a range is, and its bytes are painted over.
LEMMA PaintStep ==
  ASSUME NEW lo \in Nat, NEW length \in Nat, NEW acc \in Paintings(lo, length), NEW c \in Chunk,
         NEW p, p = PaintOver(acc, c, lo, length)
  PROVE  /\ p \in Paintings(lo, length)
         /\ [missing |-> p.have, countedTo |-> p.coveredTo]
              = CountIn([missing |-> acc.have, countedTo |-> acc.coveredTo], Reaches(c), lo + length)
         /\ \A i \in 1 .. length :
              p.out[i] = IF Has(c, lo + i - 1) THEN c.data[lo + i - c.at] ELSE acc.out[i]
<1> DEFINE a == Larger(c.at, lo)
           b == Smaller(c.at + Len(c.data), lo + length)
           out == [i \in 1 .. length |-> IF i + lo \in a + 1 .. b
                                        THEN c.data[i + lo - c.at] ELSE acc.out[i]]
           have == acc.have + Larger(0, b - Larger(a, acc.coveredTo))
           to == Larger(acc.coveredTo, b)
<1>1. /\ c.at \in Nat /\ Len(c.data) \in Nat /\ \A j \in 1 .. Len(c.data) : c.data[j] \in SomeByte
      /\ Reaches(c)[1] = c.at /\ Reaches(c)[2] = c.at + Len(c.data)
  BY ChunkFacts
<1>2. /\ acc.out \in [1 .. length -> ByteOrNull] /\ acc.have \in Int /\ acc.coveredTo \in Int
      /\ lo <= acc.coveredTo
      /\ acc = [out |-> acc.out, have |-> acc.have, coveredTo |-> acc.coveredTo]
  BY DEF Paintings
<1>3. p = IF a >= b THEN acc ELSE [out |-> out, have |-> have, coveredTo |-> to]
  BY DEF PaintOver
<1>4. /\ a \in Int /\ b \in Int /\ a >= c.at /\ a >= lo /\ (a = c.at \/ a = lo)
      /\ b <= c.at + Len(c.data) /\ b <= lo + length /\ (b = c.at + Len(c.data) \/ b = lo + length)
  BY <1>1 DEF Larger, Smaller
<1>h. have \in Int /\ to \in Int /\ to >= acc.coveredTo
  <2> HIDE DEF a, b
  <2> QED BY <1>2, <1>4 DEF Larger
<1>5. \A i \in 1 .. length : Has(c, lo + i - 1) <=> i + lo \in a + 1 .. b
  <2> SUFFICES ASSUME NEW i \in 1 .. length PROVE Has(c, lo + i - 1) <=> i + lo \in a + 1 .. b
    OBVIOUS
  <2> HIDE DEF a, b
  <2>1. PICK to2 \in Int : to2 = c.at + Len(c.data)
    BY <1>1
  <2>2. Has(c, lo + i - 1) <=> c.at <= lo + i - 1 /\ lo + i - 1 < to2
    BY <2>1 DEF Has
  <2>3. i + lo \in a + 1 .. b <=> a + 1 <= i + lo /\ i + lo <= b
    BY <1>4
  <2>4. c.at <= lo + i - 1 /\ lo + i - 1 < to2 <=> a + 1 <= i + lo /\ i + lo <= b
    BY <1>1, <1>4, <2>1
  <2> QED BY <2>2, <2>3, <2>4
<1>6. \A i \in 1 .. length : i + lo \in a + 1 .. b => c.data[i + lo - c.at] \in ByteOrNull
  <2> SUFFICES ASSUME NEW i \in 1 .. length, i + lo \in a + 1 .. b PROVE c.data[i + lo - c.at] \in ByteOrNull
    OBVIOUS
  <2> HIDE DEF a, b
  <2>1. i + lo - c.at \in 1 .. Len(c.data)
    <3>1. i + lo \in Int /\ c.at + 1 <= i + lo /\ i + lo <= c.at + Len(c.data)
      BY <1>1, <1>4
    <3> QED BY <1>1, <3>1
  <2> QED BY <1>1, <2>1 DEF ByteOrNull
<1>7. p \in Paintings(lo, length)
  <2>1. CASE a >= b
    BY <1>3, <2>1
  <2>2. CASE ~(a >= b)
    <3>1. out \in [1 .. length -> ByteOrNull]
      <4> HIDE DEF a, b
      <4> QED BY <1>2, <1>6
    <3>2. p = [out |-> out, have |-> have, coveredTo |-> to] /\ lo <= to
      BY <1>2, <1>3, <1>h, <2>2
    <3> HIDE DEF out, have, to
    <3> QED BY <1>h, <3>1, <3>2, <1>2 DEF Paintings
  <2> QED BY <2>1, <2>2
<1>8. [missing |-> p.have, countedTo |-> p.coveredTo]
        = CountIn([missing |-> acc.have, countedTo |-> acc.coveredTo], Reaches(c), lo + length)
  <2> DEFINE x == Larger(c.at, acc.coveredTo)
             y == Smaller(c.at + Len(c.data), lo + length)
  <2>1. CountIn([missing |-> acc.have, countedTo |-> acc.coveredTo], Reaches(c), lo + length)
          = IF x < y THEN [missing |-> acc.have + (y - x), countedTo |-> y]
            ELSE [missing |-> acc.have, countedTo |-> acc.coveredTo]
    BY <1>1 DEF CountIn
  <2>2. /\ ~(a >= b) => p.have = have /\ p.coveredTo = to
        /\ a >= b => p.have = acc.have /\ p.coveredTo = acc.coveredTo
    <3> HIDE DEF a, b, have, to, out
    <3> QED BY <1>3
  <2>3. CASE x < y
    <3>1. ~(a >= b) /\ have = acc.have + (y - x) /\ to = y
      BY <1>1, <1>2, <2>3 DEF Larger, Smaller
    <3> QED BY <2>1, <2>2, <2>3, <3>1
  <2>4. CASE ~(x < y)
    <3>1. a >= b \/ (have = acc.have /\ to = acc.coveredTo)
      BY <1>1, <1>2, <2>4 DEF Larger, Smaller
    <3>2. p.have = acc.have /\ p.coveredTo = acc.coveredTo
      BY <2>2, <3>1
    <3> HIDE DEF x, y
    <3> QED BY <2>1, <2>4, <3>2
  <2> QED BY <2>3, <2>4
<1>9. ASSUME NEW i \in 1 .. length
      PROVE  p.out[i] = IF Has(c, lo + i - 1) THEN c.data[lo + i - c.at] ELSE acc.out[i]
  <2>1. CASE a >= b
    <3>1. ~Has(c, lo + i - 1)
      <4> HIDE DEF a, b
      <4>1. i + lo \notin a + 1 .. b
        BY <1>4, <2>1
      <4> QED BY <1>5, <4>1
    <3> QED BY <1>3, <2>1, <3>1
  <2>2. CASE ~(a >= b)
    <3>1. p.out = out
      <4> HIDE DEF a, b, have, to, out
      <4> QED BY <1>3, <2>2
    <3>2. i + lo = lo + i /\ i + lo - c.at = lo + i - c.at
      BY <1>1
    <3>3. out[i] = IF i + lo \in a + 1 .. b THEN c.data[i + lo - c.at] ELSE acc.out[i]
      <4> HIDE DEF a, b
      <4> QED OBVIOUS
    <3> HIDE DEF a, b, out
    <3> QED BY <1>5, <3>1, <3>2, <3>3
  <2> QED BY <2>1, <2>2
<1> QED BY <1>7, <1>8, <1>9

PaintedIn(f, chunks, lo, length) ==
  f = [n \in 0 .. Len(chunks) |->
         IF n = 0 THEN [out |-> Nulls(length), have |-> 0, coveredTo |-> lo]
         ELSE PaintOver(f[n - 1], chunks[n], lo, length)]
Painted(chunks, lo, length) == CHOOSE f : PaintedIn(f, chunks, lo, length)

LEMMA PaintedExists ==
  ASSUME NEW chunks \in Seq(Chunk), NEW lo \in Nat, NEW length \in Nat
  PROVE  PaintedIn(Painted(chunks, lo, length), chunks, lo, length)
<1> DEFINE m == Len(chunks)
           S == Paintings(lo, length)
           base == [out |-> Nulls(length), have |-> 0, coveredTo |-> lo]
           step == [x \in S \X (1 .. m) |-> PaintOver(x[1], chunks[x[2]], lo, length)]
<1>1. m \in Nat /\ \A n \in 1 .. m : chunks[n] \in Chunk
  BY LenProperties, ElementOfSeq
<1>2. ASSUME NEW acc \in S, NEW n \in 1 .. m PROVE PaintOver(acc, chunks[n], lo, length) \in S
  BY <1>1, PaintStep
<1>3. step \in [S \X (1 .. m) -> S]
  <2> HIDE DEF m, S
  <2>1. \A x \in S \X (1 .. m) : x[1] \in S /\ x[2] \in 1 .. m
    OBVIOUS
  <2> QED BY <1>2, <2>1
<1>4. base \in S
  BY DEF Paintings, Nulls, ByteOrNull
<1>5. PICK f \in [0 .. m -> S] : Follows(f, step, base, m)
  <2> HIDE DEF m, S, step, base
  <2> QED BY <1>1, <1>3, <1>4, RecursionExists
<1>6. PaintedIn(f, chunks, lo, length)
  <2> DEFINE ValueAt(n) == PaintOver(f[n - 1], chunks[n], lo, length)
  <2>1. \A n \in 0 .. m : n # 0 => <<f[n - 1], n>> \in S \X (1 .. m)
    <3> HIDE DEF S
    <3>1. \A n \in 0 .. m : n # 0 => n - 1 \in 0 .. m /\ n \in 1 .. m
      BY <1>1
    <3> QED BY <1>5, <3>1
  <2>2. \A n \in 0 .. m : n # 0 => step[<<f[n - 1], n>>] = ValueAt(n)
    <3> HIDE DEF S, m
    <3> QED BY <2>1
  <2>3. f = [n \in 0 .. m |-> IF n = 0 THEN base ELSE step[<<f[n - 1], n>>]]
    BY <1>5 DEF Follows
  <2>4. f = [n \in 0 .. m |-> IF n = 0 THEN base ELSE ValueAt(n)]
    <3> HIDE DEF step, ValueAt, S, m, base
    <3> QED BY <2>2, <2>3
  <2> QED BY <2>4 DEF PaintedIn
<1> QED BY <1>6 DEF Painted

IsSweep(h, ranges, m, lo, hi) ==
  /\ m \in Nat /\ lo \in Int /\ hi \in Int /\ \A k \in 1 .. m : ranges[k] \in IntRange
  /\ \A k \in 1 .. m : \A l \in 1 .. m : k <= l => ranges[k][1] <= ranges[l][1]
  /\ h[0] = [missing |-> 0, countedTo |-> lo]
  /\ \A n \in 1 .. m : h[n] = CountIn(h[n - 1], ranges[n], hi)

LEMMA SweepCounts ==
  ASSUME NEW h, NEW ranges, NEW m, NEW lo, NEW hi, IsSweep(h, ranges, m, lo, hi)
  PROVE  h[m].missing = Cardinality(Spanned(ranges, m, lo, hi))
<1>1. m \in Nat /\ lo \in Int /\ hi \in Int
  BY DEF IsSweep
<1>2. /\ \A k \in 1 .. m : ranges[k] \in IntRange
      /\ \A k \in 1 .. m : \A l \in 1 .. m : k <= l => ranges[k][1] <= ranges[l][1]
      /\ h[0] = [missing |-> 0, countedTo |-> lo]
      /\ \A n \in 1 .. m : h[n] = CountIn(h[n - 1], ranges[n], hi)
  BY DEF IsSweep
<1> QED BY ONLY <1>1, <1>2, CountIsExact

\* What PaintStep says of one chunk.
IsPainted(p, acc, c, lo, length) ==
  /\ p \in Paintings(lo, length)
  /\ [missing |-> p.have, countedTo |-> p.coveredTo]
       = CountIn([missing |-> acc.have, countedTo |-> acc.coveredTo], Reaches(c), lo + length)
  /\ \A i \in 1 .. length :
       p.out[i] = IF Has(c, lo + i - 1) THEN c.data[lo + i - c.at] ELSE acc.out[i]

LEMMA Paints ==
  ASSUME NEW lo \in Nat, NEW length \in Nat, NEW acc \in Paintings(lo, length), NEW c \in Chunk
  PROVE  IsPainted(PaintOver(acc, c, lo, length), acc, c, lo, length)
BY PaintStep DEF IsPainted

LEMMA Complement ==
  ASSUME NEW lo \in Int, NEW n \in Nat, NEW A, A \subseteq lo .. lo + n - 1
  PROVE  /\ IsFiniteSet(A) /\ Cardinality(A) \in Nat
         /\ Cardinality((lo .. lo + n - 1) \ A) = n - Cardinality(A)
<1> DEFINE I == lo .. lo + n - 1
           B == I \ A
<1>1. IsFiniteSet(I) /\ Cardinality(I) = n
  <2>1. lo + n - 1 \in Int /\ (IF lo > lo + n - 1 THEN 0 ELSE (lo + n - 1) - lo + 1) = n
    OBVIOUS
  <2>2. IsFiniteSet(I) /\ Cardinality(I) = IF lo > lo + n - 1 THEN 0 ELSE (lo + n - 1) - lo + 1
    BY <2>1, FS_Interval
  <2> QED BY <2>1, <2>2
<1> HIDE DEF I
<1>2. A \in SUBSET I /\ B \in SUBSET I /\ A \cup B = I /\ A \cap B = {}
  BY DEF I
<1> HIDE DEF B
<1>3. IsFiniteSet(A) /\ IsFiniteSet(B)
  BY <1>1, <1>2, FS_Subset
<1>4. Cardinality(A) \in Nat /\ Cardinality(B) \in Nat
  BY <1>3, FS_CardinalityType
<1>5. Cardinality(A \cup B) = Cardinality(A) + Cardinality(B) - Cardinality(A \cap B)
  BY <1>3, FS_Union
<1>6. Cardinality(A \cap B) = 0
  BY <1>2, FS_EmptySet
<1>7. Cardinality(B) = n - Cardinality(A)
  <2>1. PICK x \in Nat : x = Cardinality(A)
    BY <1>4
  <2>2. PICK y \in Nat : y = Cardinality(B)
    BY <1>4
  <2>3. n = x + y - 0
    BY <1>1, <1>2, <1>5, <1>6, <2>1, <2>2
  <2>4. y = n - x
    BY <2>3
  <2> QED BY <2>1, <2>2, <2>4
<1> QED BY <1>3, <1>4, <1>7 DEF B, I

HeldByFirst(chunks, n, p) == \E k \in 1 .. n : Has(chunks[k], p)
\* What a read gives for byte p: a byte of the holder that starts last.
IsLatest(v, chunks, n, p) ==
  \E k \in 1 .. n :
    /\ Has(chunks[k], p) /\ v = chunks[k].data[(p + 1) - chunks[k].at]
    /\ \A q \in 1 .. n : chunks[q].at > chunks[k].at => ~Has(chunks[q], p)
IsRead(v, chunks, n, p) ==
  IF HeldByFirst(chunks, n, p) THEN IsLatest(v, chunks, n, p) ELSE v = Null

\* One more chunk, that starts no earlier than those before.
LEMMA ReadStep ==
  ASSUME NEW chunks, NEW n \in Nat, \A k \in 1 .. n + 1 : chunks[k] \in Chunk,
         \A k \in 1 .. n : chunks[k].at <= chunks[n + 1].at,
         NEW p \in Int, NEW v, IsRead(v, chunks, n, p), NEW w,
         w = IF Has(chunks[n + 1], p) THEN chunks[n + 1].data[(p + 1) - chunks[n + 1].at] ELSE v
  PROVE  IsRead(w, chunks, n + 1, p)
<1>1. /\ n + 1 \in 1 .. n + 1 /\ \A k \in 1 .. n + 1 : k \in 1 .. n \/ k = n + 1
      /\ \A k \in 1 .. n : k \in 1 .. n + 1
  OBVIOUS
<1>2. \A k \in 1 .. n + 1 : chunks[k].at \in Nat
  BY ChunkFacts
<1>3. CASE Has(chunks[n + 1], p)
  <2>1. HeldByFirst(chunks, n + 1, p)
    BY <1>1, <1>3 DEF HeldByFirst
  <2>2. \A q \in 1 .. n + 1 : ~(chunks[q].at > chunks[n + 1].at)
    BY <1>1, <1>2
  <2>3. IsLatest(w, chunks, n + 1, p)
    BY <1>1, <1>3, <2>2 DEF IsLatest
  <2> QED BY <2>1, <2>3 DEF IsRead
<1>4. CASE ~Has(chunks[n + 1], p)
  <2>1. w = v
    BY <1>4
  <2>2. HeldByFirst(chunks, n + 1, p) <=> HeldByFirst(chunks, n, p)
    BY <1>1, <1>4 DEF HeldByFirst
  <2>3. IsLatest(v, chunks, n, p) => IsLatest(v, chunks, n + 1, p)
    BY <1>1, <1>4 DEF IsLatest
  <2> QED BY <2>1, <2>2, <2>3 DEF IsRead
<1> QED BY <1>3, <1>4

\* A read of any range has the bytes that are there, and counts the others.
LEMMA ReadIs ==
  ASSUME NEW s, s.chunks \in Seq(Chunk), ByStart(s.chunks), NEW lo \in Nat, NEW length \in Nat,
         NEW r, r = ReadSparse(s, lo, length)
  PROVE  /\ r.missing = Cardinality({i \in lo .. lo + length - 1 : ~HeldByFirst(s.chunks, Len(s.chunks), i)})
         /\ \A i \in 1 .. length : IsRead(r.data[i], s.chunks, Len(s.chunks), lo + i - 1)
<1> DEFINE chunks == s.chunks
           m == Len(chunks)
           f == Painted(chunks, lo, length)
           ranges == [k \in 1 .. m |-> Reaches(chunks[k])]
           h == [n \in 0 .. m |-> [missing |-> f[n].have, countedTo |-> f[n].coveredTo]]
           hi == lo + length
<1>1. m \in Nat /\ \A n \in 1 .. m : chunks[n] \in Chunk
  BY LenProperties, ElementOfSeq
<1>2. r = [data |-> f[m].out, missing |-> length - f[m].have]
  BY DEF ReadSparse, Painted, PaintedIn
<1>3. PaintedIn(f, chunks, lo, length)
  BY PaintedExists
<1>b. ByStart(chunks)
  OBVIOUS
<1> HIDE DEF f, chunks
<1>4. /\ f[0] = [out |-> Nulls(length), have |-> 0, coveredTo |-> lo]
      /\ \A n \in 1 .. m : f[n] = PaintOver(f[n - 1], chunks[n], lo, length)
  <2>1. f = [n \in 0 .. m |-> IF n = 0 THEN [out |-> Nulls(length), have |-> 0, coveredTo |-> lo]
                             ELSE PaintOver(f[n - 1], chunks[n], lo, length)]
    BY <1>3 DEF PaintedIn
  <2>2. \A n \in 0 .. m : f[n] = IF n = 0 THEN [out |-> Nulls(length), have |-> 0, coveredTo |-> lo]
                                 ELSE PaintOver(f[n - 1], chunks[n], lo, length)
    BY <2>1
  <2>3. 0 \in 0 .. m /\ \A n \in 1 .. m : n \in 0 .. m /\ n # 0
    BY <1>1
  <2> QED BY <2>2, <2>3
<1> DEFINE SoFar(n) == /\ f[n] \in Paintings(lo, length)
                      /\ \A i \in 1 .. length : IsRead(f[n].out[i], chunks, n, lo + i - 1)
           N == {n \in 0 .. m : SoFar(n)}
<1>5. 0 \in N
  <2>1. f[0] \in Paintings(lo, length) /\ \A i \in 1 .. length : f[0].out[i] = Null
    BY <1>4 DEF Paintings, Nulls, ByteOrNull
  <2>2. \A i \in 1 .. length : IsRead(f[0].out[i], chunks, 0, lo + i - 1)
    BY <2>1 DEF IsRead, HeldByFirst
  <2>3. SoFar(0)
    BY <2>1, <2>2
  <2>4. 0 \in 0 .. m
    BY <1>1
  <2> HIDE DEF SoFar
  <2> QED BY <2>3, <2>4
<1>6. \A n \in 0 .. m - 1 : n \in N => n + 1 \in N
  <2> TAKE n \in 0 .. m - 1
  <2> SUFFICES ASSUME n \in N PROVE n + 1 \in N
    OBVIOUS
  <2>1. /\ n \in Nat /\ n + 1 \in 1 .. m /\ n + 1 \in 0 .. m /\ (n + 1) - 1 = n
        /\ \A k \in 1 .. n + 1 : k \in 1 .. m /\ k <= n + 1
        /\ \A k \in 1 .. n : k \in 1 .. m /\ k <= n + 1
    BY <1>1
  <2>2. SoFar(n)
    OBVIOUS
  <2>3. PICK c \in Chunk : c = chunks[n + 1]
    BY <1>1, <2>1
  <2>4. PICK acc : acc = f[n]
    OBVIOUS
  <2>5. PICK p : p = f[n + 1]
    OBVIOUS
  <2>6. acc \in Paintings(lo, length) /\ p = PaintOver(acc, c, lo, length)
    <3>1. f[n + 1] = PaintOver(f[(n + 1) - 1], chunks[n + 1], lo, length)
      BY <1>4, <2>1
    <3> QED BY <2>1, <2>2, <2>3, <2>4, <2>5, <3>1
  <2>7. /\ p \in Paintings(lo, length)
        /\ \A i \in 1 .. length :
             p.out[i] = IF Has(c, lo + i - 1) THEN c.data[lo + i - c.at] ELSE acc.out[i]
    <3> HIDE DEF N, SoFar
    <3>1. IsPainted(p, acc, c, lo, length)
      BY <2>6, Paints
    <3> QED BY <3>1 DEF IsPainted
  <2>8. ASSUME NEW i \in 1 .. length PROVE IsRead(p.out[i], chunks, n + 1, lo + i - 1)
    <3>1. PICK x \in Int : x = lo + i - 1
      OBVIOUS
    <3>2. (x + 1) - c.at = lo + i - c.at
      <4>1. c.at \in Nat
        BY ChunkFacts
      <4> QED BY <3>1, <4>1
    <3>3. IsRead(acc.out[i], chunks, n, x)
      BY <2>2, <2>4, <3>1
    <3>4. p.out[i] = IF Has(c, x) THEN c.data[(x + 1) - c.at] ELSE acc.out[i]
      BY <2>7, <3>1, <3>2
    <3>5. \A k \in 1 .. n + 1 : chunks[k] \in Chunk
      BY <1>1, <2>1
    <3>6. \A k \in 1 .. n : chunks[k].at <= chunks[n + 1].at
      BY <1>b, <2>1 DEF ByStart
    <3>7. IsRead(p.out[i], chunks, n + 1, x)
      <4> HIDE DEF N, SoFar
      <4> QED BY <2>1, <2>3, <3>3, <3>4, <3>5, <3>6, ReadStep
    <3> QED BY <3>1, <3>7
  <2>9. SoFar(n + 1)
    BY <2>5, <2>7, <2>8
  <2> HIDE DEF SoFar
  <2> QED BY <2>1, <2>9
<1>7. \A n \in 0 .. m : n \in N
  <2> HIDE DEF N, m
  <2> QED BY <1>1, <1>5, <1>6, UpToInduction
<1>8. \A n \in 0 .. m : SoFar(n)
  BY <1>7
<1> HIDE DEF N
<1>9. \A i \in 1 .. length : IsRead(r.data[i], chunks, m, lo + i - 1)
  <2>1. m \in 0 .. m /\ r.data = f[m].out
    BY <1>1, <1>2
  <2> QED BY <1>8, <2>1
<1>10. \A k \in 1 .. m : ranges[k] \in IntRange /\ ranges[k] = Reaches(chunks[k])
  BY <1>1, ChunkFacts
<1>11. \A k \in 1 .. m : \A l \in 1 .. m : k <= l => ranges[k][1] <= ranges[l][1]
  <2>1. \A k \in 1 .. m : ranges[k][1] = chunks[k].at
    BY <1>1, <1>10, ChunkFacts
  <2> HIDE DEF ranges
  <2> QED BY <1>b, <2>1 DEF ByStart
<1>12. h[0] = [missing |-> 0, countedTo |-> lo]
  <2>1. 0 \in 0 .. m /\ f[0].have = 0 /\ f[0].coveredTo = lo
    BY <1>1, <1>4
  <2> QED BY <2>1
<1>13. \A n \in 1 .. m : h[n] = CountIn(h[n - 1], ranges[n], hi)
  <2> TAKE n \in 1 .. m
  <2>1. n \in 0 .. m /\ n - 1 \in 0 .. m
    BY <1>1
  <2>2. /\ h[n] = [missing |-> f[n].have, countedTo |-> f[n].coveredTo]
        /\ h[n - 1] = [missing |-> f[n - 1].have, countedTo |-> f[n - 1].coveredTo]
    BY <2>1
  <2>3. f[n - 1] \in Paintings(lo, length) /\ chunks[n] \in Chunk
    BY <1>1, <1>8, <2>1
  <2>4. f[n] = PaintOver(f[n - 1], chunks[n], lo, length)
    BY <1>4
  <2> HIDE DEF h, SoFar
  <2>5. [missing |-> f[n].have, countedTo |-> f[n].coveredTo]
          = CountIn([missing |-> f[n - 1].have, countedTo |-> f[n - 1].coveredTo], Reaches(chunks[n]), lo + length)
    BY <2>3, <2>4, PaintStep
  <2> HIDE DEF ranges
  <2> QED BY <1>10, <2>2, <2>5
<1>14. h[m].missing = f[m].have
  <2>1. m \in 0 .. m
    BY <1>1
  <2> QED BY <2>1
<1> DEFINE A == Spanned(ranges, m, lo, hi)
<1>15. f[m].have = Cardinality(A)
  <2>1. hi \in Int /\ lo \in Int
    OBVIOUS
  <2>2. \A k \in 1 .. m : ranges[k] \in IntRange
    BY <1>10
  <2>4. m \in Nat
    BY <1>1
  <2> HIDE DEF h, ranges, hi, m, SoFar
  <2>3. h[m].missing = Cardinality(Spanned(ranges, m, lo, hi))
    <3>1. IsSweep(h, ranges, m, lo, hi)
      BY <2>4, <2>1, <2>2, <1>11, <1>12, <1>13 DEF IsSweep
    <3> QED BY <3>1, SweepCounts
  <2> QED BY <1>14, <2>3
<1>16. A \subseteq lo .. lo + length - 1
  BY DEF Spanned
<1>17. (lo .. lo + length - 1) \ A = {i \in lo .. lo + length - 1 : ~HeldByFirst(chunks, m, i)}
  <2> SUFFICES ASSUME NEW i \in lo .. lo + length - 1 PROVE i \in A <=> HeldByFirst(chunks, m, i)
    OBVIOUS
  <2>1. \A k \in 1 .. m : ranges[k][1] = chunks[k].at /\ ranges[k][2] = chunks[k].at + Len(chunks[k].data)
    BY <1>1, <1>10, ChunkFacts
  <2>2. \A k \in 1 .. m : Has(chunks[k], i) <=> ranges[k][1] <= i /\ i < ranges[k][2]
    BY <2>1 DEF Has
  <2> HIDE DEF ranges, m
  <2> QED BY <2>2 DEF Spanned, HeldByFirst
<1> HIDE DEF A
<1>18. length - f[m].have = Cardinality({i \in lo .. lo + length - 1 : ~HeldByFirst(chunks, m, i)})
  <2>1. Cardinality((lo .. lo + length - 1) \ A) = length - Cardinality(A)
    <3>1. lo \in Int
      OBVIOUS
    <3> QED BY ONLY <1>16, <3>1, length \in Nat, Complement
  <2> QED BY <1>15, <1>17, <2>1
<1> QED BY <1>2, <1>9, <1>18 DEF chunks

-----------------------------------------------------------------------------
(* find_holes and coverage *)

InRanges(h, i) == \E k \in 1 .. Len(h) : h[k][1] <= i /\ i < h[k][2]
AreHoles(h, p, s) ==
  /\ h \in Seq(IntRange) /\ p \in Nat
  /\ \A k \in 1 .. Len(h) : 0 <= h[k][1] /\ h[k][1] < h[k][2] /\ h[k][2] <= p /\ h[k][2] <= s
  /\ \A k \in 1 .. Len(h) : \A l \in 1 .. Len(h) : k < l => h[k][2] <= h[l][1]
\* Up to p the holes are what C leaves, and C ends there.
Leaves(h, p, s, C) ==
  /\ \A i \in 0 .. s - 1 : i < p => (InRanges(h, i) <=> i \notin C)
  /\ \A i \in C : i \in Nat /\ i < p

LEMMA WithHoleIs ==
  ASSUME NEW h \in Seq(IntRange), NEW a \in Int, NEW b \in Int, a < b, NEW g, g = WithHole(h, a, b)
  PROVE  /\ g \in Seq(IntRange) /\ Len(g) = Len(h) + 1
         /\ \A k \in 1 .. Len(h) : g[k] = h[k]
         /\ g[Len(h) + 1][1] = a /\ g[Len(h) + 1][2] = b
<1>1. g = Append(h, <<a, b>>)
  BY DEF WithHole
<1>2. PICK r \in IntRange : r = <<a, b>> /\ r[1] = a /\ r[2] = b
  <2>1. <<a, b>> \in Int \X Int /\ <<a, b>>[1] = a /\ <<a, b>>[2] = b
    OBVIOUS
  <2> QED BY <2>1 DEF IntRange
<1>3. /\ Append(h, r) \in Seq(IntRange) /\ Len(Append(h, r)) = Len(h) + 1
      /\ \A i \in 1 .. Len(h) : Append(h, r)[i] = h[i]
      /\ Append(h, r)[Len(h) + 1] = r
  BY AppendProperties
<1> QED BY <1>1, <1>2, <1>3

\* One more chunk, whose bytes below p are all in C already.
LEMMA HoleStep ==
  ASSUME NEW s \in Nat, NEW h, NEW p, AreHoles(h, p, s), NEW C, Leaves(h, p, s, C),
         NEW first \in Nat, NEW size \in Nat,
         \A i \in Nat : first <= i /\ i < p => i \in C,
         NEW g, g = WithHole(h, p, Smaller(first, s)),
         NEW q, q = Larger(p, first + size),
         NEW D, D = C \cup {i \in Nat : first <= i /\ i < first + size}
  PROVE  AreHoles(g, q, s) /\ Leaves(g, q, s, D)
<1> DEFINE e == Smaller(first, s)
<1>1. /\ e \in Nat /\ e <= first /\ e <= s /\ (e = first \/ e = s)
      /\ q \in Nat /\ q >= p /\ q >= first + size /\ (q = p \/ q = first + size)
      /\ h \in Seq(IntRange) /\ p \in Nat /\ Len(h) \in Nat
  BY LenProperties DEF Smaller, Larger, AreHoles
<1>2. g = WithHole(h, p, e)
  OBVIOUS
<1> HIDE DEF e
<1>3. /\ \A k \in 1 .. Len(h) : h[k][1] \in Int /\ h[k][2] \in Int
      /\ \A k \in 1 .. Len(h) : 0 <= h[k][1] /\ h[k][1] < h[k][2] /\ h[k][2] <= p /\ h[k][2] <= s
      /\ \A k \in 1 .. Len(h) : \A l \in 1 .. Len(h) : k < l => h[k][2] <= h[l][1]
  <2>1. \A k \in 1 .. Len(h) : h[k] \in IntRange
    BY <1>1, ElementOfSeq
  <2> QED BY <2>1 DEF AreHoles, IntRange
\* The new hole, if there is one, has what lies between.
<1>4. /\ AreHoles(g, q, s)
      /\ \A i \in Nat : InRanges(g, i) <=> InRanges(h, i) \/ (p <= i /\ i < e)
  <2>1. CASE p < e
    <3>1. /\ g \in Seq(IntRange) /\ Len(g) = Len(h) + 1
          /\ \A k \in 1 .. Len(h) : g[k] = h[k]
          /\ g[Len(h) + 1][1] = p /\ g[Len(h) + 1][2] = e
      BY <1>1, <1>2, <2>1, WithHoleIs
    <3>2. /\ \A k \in 1 .. Len(g) : k \in 1 .. Len(h) \/ k = Len(h) + 1
          /\ \A k \in 1 .. Len(h) : k \in 1 .. Len(g)
          /\ Len(h) + 1 \in 1 .. Len(g)
      BY <1>1, <3>1
    <3>3. \A k \in 1 .. Len(g) : 0 <= g[k][1] /\ g[k][1] < g[k][2] /\ g[k][2] <= q /\ g[k][2] <= s
      <4> SUFFICES ASSUME NEW k \in 1 .. Len(g)
                   PROVE  0 <= g[k][1] /\ g[k][1] < g[k][2] /\ g[k][2] <= q /\ g[k][2] <= s
        OBVIOUS
      <4>1. CASE k \in 1 .. Len(h)
        BY <1>1, <1>3, <3>1, <4>1
      <4>2. CASE k = Len(h) + 1
        BY <1>1, <2>1, <3>1, <4>2
      <4> QED BY <3>2, <4>1, <4>2
    <3>4. \A k \in 1 .. Len(g) : \A l \in 1 .. Len(g) : k < l => g[k][2] <= g[l][1]
      <4> SUFFICES ASSUME NEW k \in 1 .. Len(g), NEW l \in 1 .. Len(g), k < l
                   PROVE  g[k][2] <= g[l][1]
        OBVIOUS
      <4>1. k \in 1 .. Len(h)
        BY <1>1, <3>1
      <4>2. CASE l \in 1 .. Len(h)
        BY <1>3, <3>1, <4>1, <4>2
      <4>3. CASE l = Len(h) + 1
        BY <1>3, <3>1, <4>1, <4>3
      <4> QED BY <3>2, <4>2, <4>3
    <3>5. ASSUME NEW i \in Nat PROVE InRanges(g, i) <=> InRanges(h, i) \/ (p <= i /\ i < e)
      <4>1. ASSUME InRanges(g, i) PROVE InRanges(h, i) \/ (p <= i /\ i < e)
        <5>1. PICK k \in 1 .. Len(g) : g[k][1] <= i /\ i < g[k][2]
          BY <4>1 DEF InRanges
        <5>2. CASE k \in 1 .. Len(h)
          BY <3>1, <5>1, <5>2 DEF InRanges
        <5>3. CASE k = Len(h) + 1
          BY <3>1, <5>1, <5>3
        <5> QED BY <3>2, <5>2, <5>3
      <4>2. ASSUME InRanges(h, i) PROVE InRanges(g, i)
        BY <3>1, <3>2, <4>2 DEF InRanges
      <4>3. ASSUME p <= i, i < e PROVE InRanges(g, i)
        BY <3>1, <3>2, <4>3 DEF InRanges
      <4> QED BY <4>1, <4>2, <4>3
    <3> QED BY <1>1, <3>1, <3>3, <3>4, <3>5 DEF AreHoles
  <2>2. CASE ~(p < e)
    <3>1. g = h
      BY <1>2, <2>2 DEF WithHole
    <3>2. \A i \in Nat : ~(p <= i /\ i < e)
      BY <1>1, <2>2
    <3>3. \A k \in 1 .. Len(h) : h[k][2] <= q
      BY <1>1, <1>3
    <3> QED BY <1>1, <1>3, <3>1, <3>2, <3>3 DEF AreHoles
  <2> QED BY <2>1, <2>2
<1>5. ASSUME NEW i \in 0 .. s - 1, i < q PROVE InRanges(g, i) <=> i \notin D
  <2>1. i \in Nat /\ i < s
    OBVIOUS
  <2>2. i \in D <=> i \in C \/ (first <= i /\ i < first + size)
    BY <2>1
  <2>3. CASE i < p
    <3>1. InRanges(g, i) <=> InRanges(h, i)
      BY <1>1, <1>4, <2>1, <2>3
    <3>2. InRanges(h, i) <=> i \notin C
      BY <2>3 DEF Leaves
    <3>3. first <= i => i \in C
      BY <2>1, <2>3
    <3> QED BY <2>2, <3>1, <3>2, <3>3
  <2>4. CASE ~(i < p)
    <3>1. i \notin C
      BY <2>4 DEF Leaves
    <3>2. ~InRanges(h, i)
      <4> SUFFICES ASSUME NEW k \in 1 .. Len(h), h[k][1] <= i, i < h[k][2] PROVE FALSE
        BY DEF InRanges
      <4> QED BY <1>1, <1>3, <2>1, <2>4
    <3>3. i < first + size /\ p <= i
      BY <1>1, <1>5, <2>1, <2>4
    <3>4. i < e <=> i < first
      BY <1>1, <2>1
    <3>5. i < first <=> ~(first <= i)
      BY <2>1
    <3> QED BY <1>4, <2>1, <2>2, <3>1, <3>2, <3>3, <3>4, <3>5
  <2> QED BY <2>3, <2>4
<1>6. ASSUME NEW i \in D PROVE i \in Nat /\ i < q
  <2>1. CASE i \in C
    BY <1>1, <2>1 DEF Leaves
  <2>2. CASE i \in Nat /\ first <= i /\ i < first + size
    BY <1>1, <2>2
  <2> QED BY <2>1, <2>2
<1> QED BY <1>4, <1>5, <1>6 DEF Leaves

GoesOn(h, p, s, C, first, size, g, q, D) ==
  /\ s \in Nat /\ first \in Nat /\ size \in Nat /\ AreHoles(h, p, s) /\ Leaves(h, p, s, C)
  /\ \A i \in Nat : first <= i /\ i < p => i \in C
  /\ g = WithHole(h, p, Smaller(first, s)) /\ q = Larger(p, first + size)
  /\ D = C \cup {i \in Nat : first <= i /\ i < first + size}

LEMMA HolesGoOn ==
  ASSUME NEW h, NEW p, NEW s, NEW C, NEW first, NEW size, NEW g, NEW q, NEW D,
         GoesOn(h, p, s, C, first, size, g, q, D)
  PROVE  AreHoles(g, q, s) /\ Leaves(g, q, s, D)
<1>1. s \in Nat /\ first \in Nat /\ size \in Nat
  BY DEF GoesOn
<1>2. /\ AreHoles(h, p, s) /\ Leaves(h, p, s, C)
      /\ \A i \in Nat : first <= i /\ i < p => i \in C
      /\ g = WithHole(h, p, Smaller(first, s)) /\ q = Larger(p, first + size)
      /\ D = C \cup {i \in Nat : first <= i /\ i < first + size}
  BY DEF GoesOn
<1> QED BY ONLY <1>1, <1>2, HoleStep

FoundIn(f, chunks, size) ==
  f = [n \in 0 .. Len(chunks) |->
         IF n = 0 THEN [holes |-> <<>>, pos |-> 0] ELSE HolesBefore(f[n - 1], chunks[n], size)]
Found(chunks, size) == CHOOSE f : FoundIn(f, chunks, size)
HolesFound == [holes : Seq(IntRange), pos : Nat]

LEMMA HolesBeforeType ==
  ASSUME NEW acc \in HolesFound, NEW c \in Chunk, NEW s \in Nat
  PROVE  HolesBefore(acc, c, s) \in HolesFound
<1>1. c.at \in Nat /\ Len(c.data) \in Nat /\ acc.holes \in Seq(IntRange) /\ acc.pos \in Nat
  BY ChunkFacts DEF HolesFound
<1>2. Smaller(c.at, s) \in Nat /\ Larger(acc.pos, c.at + Len(c.data)) \in Nat
  BY <1>1 DEF Smaller, Larger
<1>3. WithHole(acc.holes, acc.pos, Smaller(c.at, s)) \in Seq(IntRange)
  <2>1. PICK e \in Nat : e = Smaller(c.at, s)
    BY <1>2
  <2>2. PICK g : g = WithHole(acc.holes, acc.pos, e)
    OBVIOUS
  <2>3. CASE acc.pos < e
    BY <1>1, <2>1, <2>2, <2>3, WithHoleIs
  <2>4. CASE ~(acc.pos < e)
    BY <1>1, <2>1, <2>2, <2>4 DEF WithHole
  <2> QED BY <2>1, <2>2, <2>3, <2>4
<1> QED BY <1>2, <1>3 DEF HolesBefore, HolesFound

LEMMA FoundExists ==
  ASSUME NEW chunks \in Seq(Chunk), NEW s \in Nat
  PROVE  FoundIn(Found(chunks, s), chunks, s)
<1> DEFINE m == Len(chunks)
           S == HolesFound
           base == [holes |-> <<>>, pos |-> 0]
           step == [x \in S \X (1 .. m) |-> HolesBefore(x[1], chunks[x[2]], s)]
<1>1. m \in Nat /\ \A n \in 1 .. m : chunks[n] \in Chunk
  BY LenProperties, ElementOfSeq
<1>2. ASSUME NEW acc \in S, NEW n \in 1 .. m PROVE HolesBefore(acc, chunks[n], s) \in S
  BY <1>1, HolesBeforeType
<1>3. step \in [S \X (1 .. m) -> S]
  <2> HIDE DEF m, S
  <2>1. \A x \in S \X (1 .. m) : x[1] \in S /\ x[2] \in 1 .. m
    OBVIOUS
  <2> QED BY <1>2, <2>1
<1>4. base \in S
  BY EmptySeq DEF HolesFound
<1>5. PICK f \in [0 .. m -> S] : Follows(f, step, base, m)
  <2> HIDE DEF m, S, step, base
  <2> QED BY <1>1, <1>3, <1>4, RecursionExists
<1>6. FoundIn(f, chunks, s)
  <2> DEFINE ValueAt(n) == HolesBefore(f[n - 1], chunks[n], s)
  <2>1. \A n \in 0 .. m : n # 0 => <<f[n - 1], n>> \in S \X (1 .. m)
    <3> HIDE DEF S
    <3>1. \A n \in 0 .. m : n # 0 => n - 1 \in 0 .. m /\ n \in 1 .. m
      BY <1>1
    <3> QED BY <1>5, <3>1
  <2>2. \A n \in 0 .. m : n # 0 => step[<<f[n - 1], n>>] = ValueAt(n)
    <3> HIDE DEF S, m
    <3> QED BY <2>1
  <2>3. f = [n \in 0 .. m |-> IF n = 0 THEN base ELSE step[<<f[n - 1], n>>]]
    BY <1>5 DEF Follows
  <2>4. f = [n \in 0 .. m |-> IF n = 0 THEN base ELSE ValueAt(n)]
    <3> HIDE DEF step, ValueAt, S, m, base
    <3> QED BY <2>2, <2>3
  <2> QED BY <2>4 DEF FoundIn
<1> QED BY <1>6 DEF Found

HeldBy(chunks, n) == {i \in Nat : HeldByFirst(chunks, n, i)}

\* The holes of sorted chunks are what none of them holds, in order and apart.
LEMMA HolesAre ==
  ASSUME NEW st, st.chunks \in Seq(Chunk), ByStart(st.chunks), NEW s \in Nat,
         NEW g, g = FindHoles(st, s)
  PROVE  \E q \in Nat :
           q >= s /\ AreHoles(g, q, s) /\ Leaves(g, q, s, HeldBy(st.chunks, Len(st.chunks)))
<1> DEFINE chunks == st.chunks
           m == Len(chunks)
           f == Found(chunks, s)
<1>1. m \in Nat /\ \A n \in 1 .. m : chunks[n] \in Chunk
  BY LenProperties, ElementOfSeq
<1>2. g = WithHole(f[m].holes, f[m].pos, s)
  BY DEF FindHoles, Found, FoundIn
<1>3. FoundIn(f, chunks, s)
  BY FoundExists
<1>b. ByStart(chunks)
  OBVIOUS
<1> HIDE DEF f, chunks
<1>4. /\ f[0] = [holes |-> <<>>, pos |-> 0]
      /\ \A n \in 1 .. m : f[n] = HolesBefore(f[n - 1], chunks[n], s)
  <2>1. f = [n \in 0 .. m |-> IF n = 0 THEN [holes |-> <<>>, pos |-> 0]
                             ELSE HolesBefore(f[n - 1], chunks[n], s)]
    BY <1>3 DEF FoundIn
  <2>2. \A n \in 0 .. m : f[n] = IF n = 0 THEN [holes |-> <<>>, pos |-> 0]
                                 ELSE HolesBefore(f[n - 1], chunks[n], s)
    BY <2>1
  <2>3. 0 \in 0 .. m /\ \A n \in 1 .. m : n \in 0 .. m /\ n # 0
    BY <1>1
  <2> QED BY <2>2, <2>3
<1> DEFINE MarkIs(n) == f[n].pos = 0 \/ \E k \in 1 .. n : f[n].pos = chunks[k].at + Len(chunks[k].data)
           SoFar(n) == /\ AreHoles(f[n].holes, f[n].pos, s)
                      /\ Leaves(f[n].holes, f[n].pos, s, HeldBy(chunks, n))
                      /\ MarkIs(n)
           N == {n \in 0 .. m : SoFar(n)}
<1>5. 0 \in N
  <2>1. f[0].holes = <<>> /\ f[0].pos = 0
    BY <1>4
  <2>2. AreHoles(<<>>, 0, s)
    BY EmptySeq DEF AreHoles
  <2>3. HeldBy(chunks, 0) = {}
    BY DEF HeldBy, HeldByFirst
  <2>4. Leaves(<<>>, 0, s, {})
    BY DEF Leaves
  <2>5. SoFar(0)
    BY <2>1, <2>2, <2>3, <2>4
  <2>6. 0 \in 0 .. m
    BY <1>1
  <2> HIDE DEF SoFar
  <2> QED BY <2>5, <2>6
<1>6. \A n \in 0 .. m - 1 : n \in N => n + 1 \in N
  <2> TAKE n \in 0 .. m - 1
  <2> SUFFICES ASSUME n \in N PROVE n + 1 \in N
    OBVIOUS
  <2>1. /\ n \in Nat /\ n + 1 \in 1 .. m /\ n + 1 \in 0 .. m /\ (n + 1) - 1 = n
        /\ \A k \in 1 .. n + 1 : k \in 1 .. n \/ k = n + 1
        /\ \A k \in 1 .. n : k \in 1 .. m /\ k <= n + 1 /\ k \in 1 .. n + 1
        /\ n + 1 \in 1 .. n + 1
    BY <1>1
  <2>2. SoFar(n)
    OBVIOUS
  <2>3. PICK c \in Chunk : c = chunks[n + 1]
    BY <1>1, <2>1
  <2>4. PICK first \in Nat : first = c.at
    BY ChunkFacts
  <2>5. PICK size \in Nat : size = Len(c.data)
    BY ChunkFacts
  <2>6. PICK h : h = f[n].holes
    OBVIOUS
  <2>7. PICK p : p = f[n].pos
    OBVIOUS
  <2>8. PICK h2 : h2 = f[n + 1].holes
    OBVIOUS
  <2>9. PICK q : q = f[n + 1].pos
    OBVIOUS
  <2>10. PICK C : C = HeldBy(chunks, n)
    OBVIOUS
  <2>11. PICK D : D = HeldBy(chunks, n + 1)
    OBVIOUS
  <2>12. h2 = WithHole(h, p, Smaller(first, s)) /\ q = Larger(p, first + size)
    <3>1. f[n + 1] = HolesBefore(f[(n + 1) - 1], chunks[n + 1], s)
      BY <1>4, <2>1
    <3>2. f[n + 1] = HolesBefore(f[n], c, s)
      BY <2>1, <2>3, <3>1
    <3> QED BY <2>4, <2>5, <2>6, <2>7, <2>8, <2>9, <3>2 DEF HolesBefore
  <2>13. D = C \cup {i \in Nat : first <= i /\ i < first + size}
    <3>1. \A i \in Nat : HeldByFirst(chunks, n + 1, i) <=> HeldByFirst(chunks, n, i) \/ Has(c, i)
      BY <2>1, <2>3 DEF HeldByFirst
    <3>2. \A i \in Nat : Has(c, i) <=> first <= i /\ i < first + size
      BY <2>4, <2>5 DEF Has
    <3> QED BY <2>10, <2>11, <3>1, <3>2 DEF HeldBy
  <2>14. \A i \in Nat : first <= i /\ i < p => i \in C
    <3> SUFFICES ASSUME NEW i \in Nat, first <= i, i < p PROVE i \in C
      OBVIOUS
    <3>1. PICK k \in 1 .. n : p = chunks[k].at + Len(chunks[k].data)
      BY <2>2, <2>7
    <3>2. chunks[k].at <= first
      BY <1>b, <2>1, <2>3, <2>4, <3>1 DEF ByStart
    <3>3. PICK x \in Nat : x = chunks[k].at
      BY <1>1, <2>1, <3>1, ChunkFacts
    <3>4. Has(chunks[k], i)
      BY <3>1, <3>2, <3>3 DEF Has
    <3> QED BY <2>10, <3>1, <3>4 DEF HeldBy, HeldByFirst
  <2>15. AreHoles(h, p, s) /\ Leaves(h, p, s, C)
    BY <2>2, <2>6, <2>7, <2>10
  <2>16. AreHoles(h2, q, s) /\ Leaves(h2, q, s, D)
    <3>1. GoesOn(h, p, s, C, first, size, h2, q, D)
      BY <2>12, <2>13, <2>14, <2>15 DEF GoesOn
    <3> QED BY <3>1, HolesGoOn
  <2>17. MarkIs(n + 1)
    <3>1. q = p \/ q = first + size
      BY <2>12 DEF Larger
    <3>2. CASE q = first + size
      BY <2>1, <2>3, <2>4, <2>5, <2>9, <3>2
    <3>3. CASE q = p
      <4>1. CASE p = 0
        BY <2>9, <3>3, <4>1
      <4>2. CASE \E k \in 1 .. n : p = chunks[k].at + Len(chunks[k].data)
        BY <2>1, <2>9, <3>3, <4>2
      <4> QED BY <2>2, <2>7, <4>1, <4>2
    <3> QED BY <3>1, <3>2, <3>3
  <2>18. SoFar(n + 1)
    BY <2>8, <2>9, <2>11, <2>16, <2>17
  <2> HIDE DEF SoFar
  <2> QED BY <2>1, <2>18
<1>7. \A n \in 0 .. m : n \in N
  <2> HIDE DEF N, m
  <2> QED BY <1>1, <1>5, <1>6, UpToInduction
<1>8. SoFar(m)
  <2>1. m \in 0 .. m
    BY <1>1
  <2> QED BY <1>7, <2>1
\* Behind the last chunk: as if one more, empty, started at the end.
<1>9. PICK h : h = f[m].holes
  OBVIOUS
<1>10. PICK p : p = f[m].pos
  OBVIOUS
<1>11. PICK C : C = HeldBy(chunks, m)
  OBVIOUS
<1>12. AreHoles(h, p, s) /\ Leaves(h, p, s, C) /\ p \in Nat
  BY <1>8, <1>9, <1>10, <1>11 DEF AreHoles
<1> HIDE DEF SoFar
<1>13. CASE p < s
  <2>1. PICK q : q = Larger(p, s + 0)
    OBVIOUS
  <2>2. PICK D : D = C \cup {i \in Nat : s <= i /\ i < s + 0}
    OBVIOUS
  <2>3. D = C
    BY <2>2
  <2>4. Smaller(s, s) = s /\ q = s
    BY <1>12, <1>13, <2>1 DEF Smaller, Larger
  <2>5. g = WithHole(h, p, Smaller(s, s))
    BY <1>2, <1>9, <1>10, <2>4
  <2>6. \A i \in Nat : s <= i /\ i < p => i \in C
    BY <1>12, <1>13
  <2>7. GoesOn(h, p, s, C, s, 0, g, q, D)
    BY <1>12, <2>1, <2>2, <2>5, <2>6 DEF GoesOn
  <2>8. AreHoles(g, q, s) /\ Leaves(g, q, s, D)
    BY <2>7, HolesGoOn
  <2>9. q \in Nat /\ q >= s
    BY <2>4
  <2> QED BY <1>11, <2>3, <2>8, <2>9 DEF chunks
<1>14. CASE ~(p < s)
  <2>1. g = h
    BY <1>2, <1>9, <1>10, <1>14 DEF WithHole
  <2>2. p \in Nat /\ p >= s
    BY <1>12, <1>14
  <2> QED BY <1>11, <1>12, <2>1, <2>2 DEF chunks
<1> QED BY <1>13, <1>14

WithoutIn(f, holes, size) ==
  f = [n \in 0 .. Len(holes) |->
         IF n = 0 THEN size ELSE f[n - 1] - (holes[n][2] - holes[n][1])]
Without(holes, size) == CHOOSE f : WithoutIn(f, holes, size)

LEMMA WithoutExists ==
  ASSUME NEW holes \in Seq(IntRange), NEW s \in Nat
  PROVE  WithoutIn(Without(holes, s), holes, s) /\ Without(holes, s) \in [0 .. Len(holes) -> Int]
<1> DEFINE m == Len(holes)
           step == [x \in Int \X (1 .. m) |-> x[1] - (holes[x[2]][2] - holes[x[2]][1])]
<1>1. m \in Nat /\ \A n \in 1 .. m : holes[n][1] \in Int /\ holes[n][2] \in Int
  <2>1. m \in Nat /\ \A n \in 1 .. m : holes[n] \in IntRange
    BY LenProperties, ElementOfSeq
  <2> QED BY <2>1 DEF IntRange
<1>2. ASSUME NEW x \in Int, NEW n \in 1 .. m PROVE x - (holes[n][2] - holes[n][1]) \in Int
  BY <1>1
<1>3. step \in [Int \X (1 .. m) -> Int]
  <2> HIDE DEF m
  <2>1. \A x \in Int \X (1 .. m) : x[1] \in Int /\ x[2] \in 1 .. m
    OBVIOUS
  <2> QED BY <1>2, <2>1
<1>4. s \in Int
  OBVIOUS
<1>5. PICK f \in [0 .. m -> Int] : Follows(f, step, s, m)
  <2> HIDE DEF m, step
  <2> QED BY <1>1, <1>3, <1>4, RecursionExists
<1>6. WithoutIn(f, holes, s)
  <2> DEFINE ValueAt(n) == f[n - 1] - (holes[n][2] - holes[n][1])
  <2>1. \A n \in 0 .. m : n # 0 => <<f[n - 1], n>> \in Int \X (1 .. m)
    <3>1. \A n \in 0 .. m : n # 0 => n - 1 \in 0 .. m /\ n \in 1 .. m
      BY <1>1
    <3> QED BY <1>5, <3>1
  <2>2. \A n \in 0 .. m : n # 0 => step[<<f[n - 1], n>>] = ValueAt(n)
    <3> HIDE DEF m
    <3> QED BY <2>1
  <2>3. f = [n \in 0 .. m |-> IF n = 0 THEN s ELSE step[<<f[n - 1], n>>]]
    BY <1>5 DEF Follows
  <2>4. f = [n \in 0 .. m |-> IF n = 0 THEN s ELSE ValueAt(n)]
    <3> HIDE DEF step, ValueAt, m
    <3> QED BY <2>2, <2>3
  <2> QED BY <2>4 DEF WithoutIn
<1>7. ASSUME NEW g, WithoutIn(g, holes, s) PROVE g = f
  <2> DEFINE N == {n \in 0 .. m : g[n] = f[n]}
  <2>1. /\ g[0] = s /\ f[0] = s
        /\ \A n \in 1 .. m : /\ g[n] = g[n - 1] - (holes[n][2] - holes[n][1])
                             /\ f[n] = f[n - 1] - (holes[n][2] - holes[n][1])
    <3>1. 0 \in 0 .. m /\ \A n \in 1 .. m : n \in 0 .. m /\ n # 0
      BY <1>1
    <3>2. /\ \A n \in 0 .. m : g[n] = IF n = 0 THEN s ELSE g[n - 1] - (holes[n][2] - holes[n][1])
          /\ \A n \in 0 .. m : f[n] = IF n = 0 THEN s ELSE f[n - 1] - (holes[n][2] - holes[n][1])
      BY <1>6, <1>7 DEF WithoutIn
    <3> QED BY <3>1, <3>2
  <2>2. 0 \in N
    BY <1>1, <2>1
  <2>3. \A n \in 0 .. m - 1 : n \in N => n + 1 \in N
    <3> TAKE n \in 0 .. m - 1
    <3>1. n + 1 \in 1 .. m /\ n + 1 \in 0 .. m /\ (n + 1) - 1 = n
      BY <1>1
    <3>2. n \in N => g[n + 1] = f[n + 1]
      <4>1. /\ g[n + 1] = g[(n + 1) - 1] - (holes[n + 1][2] - holes[n + 1][1])
            /\ f[n + 1] = f[(n + 1) - 1] - (holes[n + 1][2] - holes[n + 1][1])
        BY <2>1, <3>1
      <4> QED BY <3>1, <4>1
    <3> QED BY <3>1, <3>2
  <2>4. \A n \in 0 .. m : n \in N
    <3> HIDE DEF N, m
    <3> QED BY <1>1, <2>2, <2>3, UpToInduction
  <2>5. \A n \in 0 .. m : g[n] = f[n]
    BY <2>4
  <2>6. DOMAIN g = 0 .. m /\ g = [n \in 0 .. m |-> g[n]]
    BY <1>7 DEF WithoutIn
  <2>7. f = [n \in 0 .. m |-> f[n]]
    BY <1>5
  <2> QED BY <2>5, <2>6, <2>7
<1>8. WithoutIn(Without(holes, s), holes, s)
  BY <1>6 DEF Without
<1> HIDE DEF m
<1>9. Without(holes, s) = f
  BY <1>7, <1>8
<1> QED BY <1>5, <1>8, <1>9 DEF m

\* The bytes that are there are counted by what the holes leave.
LEMMA CoverageIs ==
  ASSUME NEW st, st.chunks \in Seq(Chunk), ByStart(st.chunks), NEW s \in Nat, st.size = s
  PROVE  Coverage(st) = Cardinality({i \in 0 .. s - 1 : HeldByFirst(st.chunks, Len(st.chunks), i)})
<1>1. PICK g : g = FindHoles(st, s)
  OBVIOUS
<1>2. PICK q \in Nat :
        q >= s /\ AreHoles(g, q, s) /\ Leaves(g, q, s, HeldBy(st.chunks, Len(st.chunks)))
  BY <1>1, HolesAre
<1> DEFINE m == Len(g)
           f == Without(g, s)
           h == [n \in 0 .. m |-> [missing |-> s - f[n], countedTo |-> IF n = 0 THEN 0 ELSE g[n][2]]]
           A == Spanned(g, m, 0, s)
<1>3. Coverage(st) = f[m]
  BY <1>1 DEF Coverage, Without, WithoutIn
<1>4. /\ m \in Nat /\ g \in Seq(IntRange) /\ \A n \in 1 .. m : g[n] \in IntRange
  BY <1>2, LenProperties, ElementOfSeq DEF AreHoles
<1>5. f \in [0 .. m -> Int] /\ f[0] = s
      /\ \A n \in 1 .. m : f[n] = f[n - 1] - (g[n][2] - g[n][1])
  <2>1. f \in [0 .. m -> Int] /\ WithoutIn(f, g, s)
    BY <1>4, WithoutExists
  <2> HIDE DEF f
  <2>2. \A n \in 0 .. m : f[n] = IF n = 0 THEN s ELSE f[n - 1] - (g[n][2] - g[n][1])
    BY <2>1 DEF WithoutIn
  <2>3. 0 \in 0 .. m /\ \A n \in 1 .. m : n \in 0 .. m /\ n # 0
    BY <1>4
  <2> QED BY <2>1, <2>2, <2>3
<1> HIDE DEF f
<1>6. /\ \A k \in 1 .. m : g[k][1] \in Int /\ g[k][2] \in Int
      /\ \A k \in 1 .. m : 0 <= g[k][1] /\ g[k][1] < g[k][2] /\ g[k][2] <= s
      /\ \A k \in 1 .. m : \A l \in 1 .. m : k < l => g[k][2] <= g[l][1]
  BY <1>2, <1>4 DEF AreHoles, IntRange
<1>7. IsSweep(h, g, m, 0, s)
  <2>1. \A k \in 1 .. m : \A l \in 1 .. m : k <= l => g[k][1] <= g[l][1]
    <3> SUFFICES ASSUME NEW k \in 1 .. m, NEW l \in 1 .. m, k <= l PROVE g[k][1] <= g[l][1]
      OBVIOUS
    <3>1. CASE k = l
      BY <1>6, <3>1
    <3>2. CASE k < l
      <4>1. g[k][1] < g[k][2] /\ g[k][2] <= g[l][1]
        BY <1>6, <3>2
      <4> QED BY <1>6, <4>1
    <3> QED BY <3>1, <3>2
  <2>2. h[0] = [missing |-> 0, countedTo |-> 0]
    <3>1. 0 \in 0 .. m /\ s - f[0] = 0
      BY <1>4, <1>5
    <3> QED BY <3>1
  <2>3. ASSUME NEW n \in 1 .. m PROVE h[n] = CountIn(h[n - 1], g[n], s)
    <3>1. n \in 0 .. m /\ n - 1 \in 0 .. m /\ n # 0
      BY <1>4
    <3>2. PICK a \in Int : a = g[n][1]
      BY <1>6
    <3>3. PICK b \in Int : b = g[n][2]
      BY <1>6
    <3>4. PICK x \in Int : x = f[n - 1]
      BY <1>5, <3>1
    <3>5. PICK y \in Int : y = f[n]
      BY <1>5, <3>1
    <3>6. y = x - (b - a) /\ 0 <= a /\ a < b /\ b <= s
      BY <1>5, <1>6, <3>2, <3>3, <3>4, <3>5
    <3>7. PICK to \in Int : to = IF n - 1 = 0 THEN 0 ELSE g[n - 1][2]
      <4>1. n - 1 # 0 => n - 1 \in 1 .. m
        BY <3>1
      <4> QED BY <1>6, <4>1
    <3>8. to <= a
      <4>1. CASE n - 1 = 0
        BY <3>6, <3>7, <4>1
      <4>2. CASE n - 1 # 0
        <5>1. n - 1 \in 1 .. m /\ n - 1 < n
          BY <3>1, <4>2
        <5>2. g[n - 1][2] <= g[n][1]
          BY <1>6, <5>1
        <5> QED BY <3>2, <3>7, <4>2, <5>2
      <4> QED BY <4>1, <4>2
    <3>9. h[n] = [missing |-> s - y, countedTo |-> b]
      BY <3>1, <3>3, <3>5
    <3>10. h[n - 1] = [missing |-> s - x, countedTo |-> to]
      BY <3>1, <3>4, <3>7
    <3> HIDE DEF h
    <3>11. Larger(a, to) = a /\ Smaller(b, s) = b /\ (s - x) + (b - a) = s - y
      BY <3>6, <3>8 DEF Larger, Smaller
    <3>12. CountIn([missing |-> s - x, countedTo |-> to], g[n], s)
             = [missing |-> (s - x) + (b - a), countedTo |-> b]
      BY <3>2, <3>3, <3>6, <3>11 DEF CountIn
    <3> QED BY <3>9, <3>10, <3>11, <3>12
  <2>4. s \in Int /\ 0 \in Int
    OBVIOUS
  <2> HIDE DEF h, m
  <2> QED BY <1>4, <2>1, <2>2, <2>3, <2>4 DEF IsSweep
<1>8. h[m].missing = Cardinality(A)
  <2> HIDE DEF h, m
  <2> QED BY <1>7, SweepCounts
<1>9. s - f[m] = Cardinality(A) /\ f[m] \in Int
  <2>1. m \in 0 .. m
    BY <1>4
  <2> QED BY <1>5, <1>8, <2>1
<1>10. A \subseteq 0 .. 0 + s - 1
  BY DEF Spanned
<1>11. (0 .. 0 + s - 1) \ A = {i \in 0 .. s - 1 : HeldByFirst(st.chunks, Len(st.chunks), i)}
  <2> SUFFICES ASSUME NEW i \in 0 .. s - 1 PROVE i \in A <=> ~HeldByFirst(st.chunks, Len(st.chunks), i)
    OBVIOUS
  <2>1. i \in Nat /\ i < q
    BY <1>2
  <2>2. InRanges(g, i) <=> ~HeldByFirst(st.chunks, Len(st.chunks), i)
    BY <1>2, <2>1 DEF Leaves, HeldBy
  <2> QED BY <2>2 DEF Spanned, InRanges
<1> HIDE DEF A
<1>12. IsFiniteSet(A) /\ Cardinality(A) \in Nat /\ Cardinality((0 .. 0 + s - 1) \ A) = s - Cardinality(A)
  <2>1. 0 \in Int
    OBVIOUS
  <2> QED BY ONLY <1>10, <2>1, s \in Nat, Complement
<1>13. Cardinality({i \in 0 .. s - 1 : HeldByFirst(st.chunks, Len(st.chunks), i)}) = f[m]
  <2>1. PICK x \in Int : x = f[m]
    BY <1>9
  <2>2. PICK y \in Int : y = Cardinality(A)
    BY <1>12
  <2>3. s - (s - x) = x /\ s - x = y
    BY <1>9, <2>1, <2>2
  <2> QED BY <1>11, <1>12, <2>1, <2>2, <2>3
<1> QED BY <1>3, <1>13

-----------------------------------------------------------------------------
(* Chunks stay sorted by where they start. *)

IsStream(st, size) ==
  /\ st = [size |-> st.size, chunks |-> st.chunks] /\ st.size = size
  /\ st.chunks \in Seq(Chunk) /\ ByStart(st.chunks)

LEMMA EarlierIs ==
  ASSUME NEW q \in Seq(Chunk), ByStart(q), NEW offset \in Nat
  PROVE  /\ Earlier(q, offset) \in 0 .. Len(q)
         /\ \A k \in 1 .. Earlier(q, offset) : q[k].at < offset
         /\ \A k \in Earlier(q, offset) + 1 .. Len(q) : offset <= q[k].at
<1> DEFINE B == {k \in 1 .. Len(q) : q[k].at < offset}
<1>1. Len(q) \in Nat /\ \A k \in 1 .. Len(q) : q[k].at \in Nat
  <2>1. Len(q) \in Nat /\ \A k \in 1 .. Len(q) : q[k] \in Chunk
    BY LenProperties, ElementOfSeq
  <2> QED BY <2>1, ChunkFacts
<1>2. \A k \in 1 .. Len(q) : \A l \in 1 .. Len(q) : k <= l /\ l \in B => k \in B
  BY <1>1 DEF ByStart
<1>3. PICK n \in 0 .. Len(q) : (\A k \in 1 .. n : k \in B) /\ (\A k \in n + 1 .. Len(q) : k \notin B)
  <2> HIDE DEF B
  <2> QED BY <1>1, <1>2, PlaceExists
<1>4. \A k \in n + 1 .. Len(q) : k \in 1 .. Len(q)
  BY <1>1
<1>5. (\A k \in 1 .. n : q[k].at < offset) /\ (\A k \in n + 1 .. Len(q) : offset <= q[k].at)
  BY <1>1, <1>3, <1>4
<1> QED BY <1>5 DEF Earlier

LEMMA AddedIs ==
  ASSUME NEW size, NEW st, IsStream(st, size), NEW offset \in Nat, NEW data \in Seq(SomeByte)
  PROVE  IsStream(Added(st, offset, data), size)
<1> DEFINE q == st.chunks
           n == Earlier(q, offset)
           c == [at |-> offset, data |-> data]
           p == InsertAt(q, n + 1, c)
<1>1. q \in Seq(Chunk) /\ ByStart(q) /\ Len(q) \in Nat
  BY LenProperties DEF IsStream
<1>2. /\ n \in 0 .. Len(q)
      /\ \A k \in 1 .. n : q[k].at < offset
      /\ \A k \in n + 1 .. Len(q) : offset <= q[k].at
  BY <1>1, EarlierIs
<1>3. c \in Chunk /\ c.at = offset
  BY DEF Chunk
<1>4. Added(st, offset, data) = [size |-> st.size, chunks |-> p]
  BY DEF Added, IsStream
<1> HIDE DEF n, c, q
<1>5. IsWith(p, q, n, c, Chunk)
  <2>1. PICK k : k = n + 1
    OBVIOUS
  <2>2. PICK r : r = InsertAt(q, k, c)
    OBVIOUS
  <2>3. IsWith(r, q, n, c, Chunk)
    BY ONLY <1>1, <1>2, <1>3, <2>1, <2>2, With
  <2> QED BY <2>1, <2>2, <2>3
<1>6. \A k \in 1 .. Len(q) : q[k].at \in Nat
  <2>1. \A k \in 1 .. Len(q) : q[k] \in Chunk
    BY <1>1, ElementOfSeq
  <2> QED BY <2>1, ChunkFacts
<1> HIDE DEF p
<1>7. /\ p \in Seq(Chunk) /\ Len(p) = Len(q) + 1
      /\ \A i \in 1 .. Len(p) : p[i] = IF i <= n THEN q[i] ELSE IF i = n + 1 THEN c ELSE q[i - 1]
  BY <1>5 DEF IsWith
<1>8. ByStart(p)
  <2> SUFFICES ASSUME NEW i \in 1 .. Len(p), NEW j \in 1 .. Len(p), i <= j
               PROVE  p[i].at <= p[j].at
    BY DEF ByStart
  <2>1. CASE j <= n
    <3>1. p[i] = q[i] /\ p[j] = q[j] /\ i \in 1 .. Len(q) /\ j \in 1 .. Len(q)
      BY <1>1, <1>2, <1>7, <2>1
    <3> QED BY <1>1, <3>1 DEF ByStart
  <2>2. CASE j = n + 1 /\ i <= n
    <3>1. p[i] = q[i] /\ p[j] = c /\ i \in 1 .. Len(q) /\ i \in 1 .. n
      BY <1>1, <1>2, <1>7, <2>2
    <3> QED BY <1>2, <1>3, <1>6, <3>1
  <2>3. CASE j = n + 1 /\ i = n + 1
    <3>1. p[i] = c /\ p[j] = c
      BY <1>1, <1>2, <1>7, <2>3
    <3> QED BY <1>3, <3>1
  <2>4. CASE j > n + 1 /\ i <= n
    <3>1. p[i] = q[i] /\ p[j] = q[j - 1] /\ i \in 1 .. Len(q) /\ j - 1 \in 1 .. Len(q) /\ i <= j - 1
      BY <1>1, <1>2, <1>7, <2>4
    <3> QED BY <1>1, <3>1 DEF ByStart
  <2>5. CASE j > n + 1 /\ i = n + 1
    <3>1. p[i] = c /\ p[j] = q[j - 1] /\ j - 1 \in n + 1 .. Len(q)
      BY <1>1, <1>2, <1>7, <2>5
    <3> QED BY <1>2, <1>3, <3>1
  <2>6. CASE j > n + 1 /\ i > n + 1
    <3>1. /\ p[i] = q[i - 1] /\ p[j] = q[j - 1] /\ i - 1 <= j - 1
          /\ i - 1 \in 1 .. Len(q) /\ j - 1 \in 1 .. Len(q)
      BY <1>1, <1>2, <1>7, <2>6
    <3> QED BY <1>1, <3>1 DEF ByStart
  <2> QED BY <1>1, <1>2, <1>7, <2>1, <2>2, <2>3, <2>4, <2>5, <2>6
<1> QED BY <1>4, <1>7, <1>8 DEF IsStream

-----------------------------------------------------------------------------
SparseInvariant ==
  /\ IsStream(stream, VolumeSize)
  /\ volume = [data |-> volume.data, holes |-> volume.holes]
  /\ volume.holes \in Seq(IntRange) /\ Len(volume.data) = VolumeSize

LEMMA SparseInvariantAlways == SparseSpec => []SparseInvariant
<1>1. SparseInit => SparseInvariant
  <2> SUFFICES ASSUME SparseInit PROVE SparseInvariant
    OBVIOUS
  <2>1. stream = [size |-> VolumeSize, chunks |-> <<>>]
    BY DEF SparseInit, Empty
  <2>2. ByStart(<<>>) /\ <<>> \in Seq(Chunk)
    BY EmptySeq DEF ByStart
  <2>3. PICK holes \in HoleLists :
          volume = [data |-> [i \in 1 .. VolumeSize |-> <<"byte", i>>], holes |-> holes]
    BY DEF SparseInit
  <2>4. holes \in Seq(IntRange)
    BY <2>3, SparseAssumption DEF IntRange
  <2>5. Len([i \in 1 .. VolumeSize |-> <<"byte", i>>]) = VolumeSize
    <3>1. DOMAIN [i \in 1 .. VolumeSize |-> <<"byte", i>>] = 1 .. VolumeSize
      OBVIOUS
    <3>2. [i \in 1 .. VolumeSize |-> <<"byte", i>>] \in Seq({<<"byte", i>> : i \in Nat})
      BY SparseAssumption
    <3> QED BY <3>1, <3>2, SparseAssumption, LenProperties
  <2> QED BY <2>1, <2>2, <2>3, <2>4, <2>5 DEF SparseInvariant, IsStream
<1>2. SparseInvariant /\ [SparseNext]_<<stream, volume>> => SparseInvariant'
  <2> SUFFICES ASSUME SparseInvariant, [SparseNext]_<<stream, volume>> PROVE SparseInvariant'
    OBVIOUS
  <2>1. ASSUME SparseNext PROVE SparseInvariant'
    <3>1. PICK offset \in 0 .. VolumeSize, length \in ChunkSizes : Add(offset, length)
      BY <2>1 DEF SparseNext
    <3>2. offset \in Nat /\ length \in Nat
      BY SparseAssumption
    <3> DEFINE k == Len(stream.chunks) + 1
               data == [i \in 1 .. length |-> <<"byte", k, i>>]
    <3>3. stream' = Added(stream, offset, data) /\ volume' = volume
      BY <3>1 DEF Add
    <3>4. k \in Nat
      <4>1. stream.chunks \in Seq(Chunk)
        BY DEF SparseInvariant, IsStream
      <4> QED BY <4>1, LenProperties
    <3>5. data \in Seq(SomeByte)
      <4> HIDE DEF k
      <4>1. \A i \in 1 .. length : <<"byte", k, i>> \in SomeByte
        <5> TAKE i \in 1 .. length
        <5>1. i \in Nat
          OBVIOUS
        <5> QED BY <3>4, <5>1 DEF SomeByte
      <4> QED BY <3>2, <4>1
    <3> HIDE DEF data
    <3>6. IsStream(stream', VolumeSize)
      <4>1. IsStream(stream, VolumeSize)
        BY DEF SparseInvariant
      <4> QED BY <3>2, <3>3, <3>5, <4>1, AddedIs
    <3> QED BY <3>3, <3>6 DEF SparseInvariant
  <2>2. ASSUME UNCHANGED <<stream, volume>> PROVE SparseInvariant'
    BY <2>2 DEF SparseInvariant, IsStream
  <2> QED BY <2>1, <2>2
<1> QED BY <1>1, <1>2, PTL DEF SparseSpec

LEMMA CoveredIs ==
  ASSUME SparseInvariant, NEW i \in Int
  PROVE  /\ Covered(i) <=> HeldByFirst(stream.chunks, Len(stream.chunks), i)
<1>1. DOMAIN stream.chunks = 1 .. Len(stream.chunks) /\ \A k \in 1 .. Len(stream.chunks) : stream.chunks[k] \in Chunk
  BY LenProperties, ElementOfSeq DEF SparseInvariant, IsStream
<1>2. ASSUME NEW k \in 1 .. Len(stream.chunks)
      PROVE  i \in stream.chunks[k].at .. stream.chunks[k].at + Len(stream.chunks[k].data) - 1
               <=> Has(stream.chunks[k], i)
  <2>1. PICK a \in Nat : a = stream.chunks[k].at
    BY <1>1, ChunkFacts
  <2>2. PICK b \in Nat : b = Len(stream.chunks[k].data)
    BY <1>1, ChunkFacts
  <2>3. Has(stream.chunks[k], i) <=> a <= i /\ i < a + b
    BY <2>1, <2>2 DEF Has
  <2>4. i \in a .. a + b - 1 <=> a <= i /\ i < a + b
    OBVIOUS
  <2> QED BY <2>1, <2>2, <2>3, <2>4
<1> QED BY <1>1, <1>2 DEF Covered, HeldByFirst

\* What ReadIs and ReadsAreExact say of one read.
IsReadOf(r, chunks, lo, length) ==
  /\ r.missing = Cardinality({i \in lo .. lo + length - 1 : ~HeldByFirst(chunks, Len(chunks), i)})
  /\ \A i \in 1 .. length : IsRead(r.data[i], chunks, Len(chunks), lo + i - 1)
IsExact(r, offset, length) ==
  /\ r.missing = Cardinality({i \in offset .. offset + length - 1 : ~Covered(i)})
  /\ \A i \in 1 .. length :
       IF ~Covered(offset + i - 1) THEN r.data[i] = Null
       ELSE \E k \in DOMAIN stream.chunks :
              LET c == stream.chunks[k]
                  j == offset + i - c.at
              IN /\ j \in DOMAIN c.data /\ r.data[i] = c.data[j]
                 /\ \A q \in DOMAIN stream.chunks :
                      stream.chunks[q].at > c.at =>
                        offset + i - stream.chunks[q].at \notin DOMAIN stream.chunks[q].data

LEMMA ReadOf ==
  ASSUME NEW s, s.chunks \in Seq(Chunk), ByStart(s.chunks), NEW lo \in Nat, NEW length \in Nat
  PROVE  IsReadOf(ReadSparse(s, lo, length), s.chunks, lo, length)
BY ReadIs DEF IsReadOf

LEMMA ReadsAreExactThen ==
  ASSUME SparseInvariant
  PROVE  ReadsAreExact
<1> SUFFICES ASSUME NEW offset \in 0 .. VolumeSize, NEW length \in 0 .. VolumeSize - offset
             PROVE  IsExact(ReadSparse(stream, offset, length), offset, length)
  BY DEF ReadsAreExact, IsExact
<1>r. PICK r : r = ReadSparse(stream, offset, length)
  OBVIOUS
<1> DEFINE chunks == stream.chunks
           m == Len(chunks)
<1>1. offset \in Nat /\ length \in Nat
  BY SparseAssumption
<1>2. chunks \in Seq(Chunk) /\ ByStart(chunks)
  BY DEF SparseInvariant, IsStream
<1>3. DOMAIN chunks = 1 .. m /\ \A k \in 1 .. m : chunks[k] \in Chunk
  BY <1>2, LenProperties, ElementOfSeq
<1>4. /\ r.missing = Cardinality({i \in offset .. offset + length - 1 : ~HeldByFirst(chunks, m, i)})
      /\ \A i \in 1 .. length : IsRead(r.data[i], chunks, m, offset + i - 1)
  <2>1. IsReadOf(r, stream.chunks, offset, length)
    BY <1>r, <1>1, <1>2, ReadOf
  <2> QED BY <2>1 DEF IsReadOf
<1>5. \A i \in Int : Covered(i) <=> HeldByFirst(chunks, m, i)
  BY CoveredIs
<1>6. {i \in offset .. offset + length - 1 : ~HeldByFirst(chunks, m, i)}
        = {i \in offset .. offset + length - 1 : ~Covered(i)}
  <2> HIDE DEF chunks, m
  <2> QED BY <1>5
<1>7. ASSUME NEW i \in 1 .. length
      PROVE  IF ~Covered(offset + i - 1) THEN r.data[i] = Null
             ELSE \E k \in DOMAIN chunks :
                    LET c == chunks[k]
                        j == offset + i - c.at
                    IN /\ j \in DOMAIN c.data /\ r.data[i] = c.data[j]
                       /\ \A q \in DOMAIN chunks :
                            chunks[q].at > c.at => offset + i - chunks[q].at \notin DOMAIN chunks[q].data
  <2>1. PICK p \in Int : p = offset + i - 1
    BY <1>1
  <2>2. IsRead(r.data[i], chunks, m, p)
    BY <1>4, <2>1
  <2>3. \A k \in 1 .. m : (Has(chunks[k], p) <=> offset + i - chunks[k].at \in DOMAIN chunks[k].data)
                          /\ (p + 1) - chunks[k].at = offset + i - chunks[k].at
    <3> TAKE k \in 1 .. m
    <3>1. Has(chunks[k], p) <=> (p + 1) - chunks[k].at \in DOMAIN chunks[k].data
      BY <1>3, ChunkFacts
    <3>2. PICK a \in Nat : a = chunks[k].at
      BY <1>3, ChunkFacts
    <3>3. (p + 1) - a = offset + i - a
      BY <1>1, <2>1
    <3> QED BY <3>1, <3>2, <3>3
  <2>4. Covered(offset + i - 1) <=> HeldByFirst(chunks, m, p)
    BY <1>5, <2>1
  <2> HIDE DEF chunks, m
  <2>5. CASE ~HeldByFirst(chunks, m, p)
    BY <2>2, <2>4, <2>5 DEF IsRead
  <2>6. CASE HeldByFirst(chunks, m, p)
    <3>1. PICK k \in 1 .. m :
            /\ Has(chunks[k], p) /\ r.data[i] = chunks[k].data[(p + 1) - chunks[k].at]
            /\ \A q \in 1 .. m : chunks[q].at > chunks[k].at => ~Has(chunks[q], p)
      BY <2>2, <2>6 DEF IsRead, IsLatest
    <3>2. /\ offset + i - chunks[k].at \in DOMAIN chunks[k].data
          /\ r.data[i] = chunks[k].data[offset + i - chunks[k].at]
          /\ \A q \in 1 .. m : chunks[q].at > chunks[k].at =>
               offset + i - chunks[q].at \notin DOMAIN chunks[q].data
      BY <2>3, <3>1
    <3>3. \E kk \in DOMAIN chunks :
            /\ offset + i - chunks[kk].at \in DOMAIN chunks[kk].data
            /\ r.data[i] = chunks[kk].data[offset + i - chunks[kk].at]
            /\ \A q \in DOMAIN chunks :
                 chunks[q].at > chunks[kk].at => offset + i - chunks[q].at \notin DOMAIN chunks[q].data
      BY <1>3, <3>2
    <3> QED BY <2>4, <2>6, <3>3
  <2> QED BY <2>5, <2>6
<1> QED BY <1>r, <1>4, <1>6, <1>7 DEF IsExact

LEMMA HolesAreExactThen ==
  ASSUME SparseInvariant
  PROVE  HolesAreExact
<1>1. PICK h : h = FindHoles(stream, VolumeSize)
  OBVIOUS
<1> DEFINE chunks == stream.chunks
           m == Len(chunks)
<1>2. stream.size = VolumeSize /\ chunks \in Seq(Chunk) /\ ByStart(chunks) /\ VolumeSize \in Nat
  BY SparseAssumption DEF SparseInvariant, IsStream
<1>3. PICK q \in Nat :
        q >= VolumeSize /\ AreHoles(h, q, VolumeSize) /\ Leaves(h, q, VolumeSize, HeldBy(chunks, m))
  BY <1>1, <1>2, HolesAre
<1>4. \A i \in Int : Covered(i) <=> HeldByFirst(chunks, m, i)
  BY CoveredIs
<1>5. /\ h \in Seq(IntRange) /\ DOMAIN h = 1 .. Len(h) /\ Len(h) \in Nat
      /\ \A k \in 1 .. Len(h) : h[k][1] \in Int /\ h[k][2] \in Int
  <2>1. h \in Seq(IntRange)
    BY <1>3 DEF AreHoles
  <2>2. DOMAIN h = 1 .. Len(h) /\ Len(h) \in Nat /\ \A k \in 1 .. Len(h) : h[k] \in IntRange
    BY <2>1, LenProperties, ElementOfSeq
  <2> QED BY <2>1, <2>2 DEF IntRange
<1> HIDE DEF chunks, m
<1>6. ASSUME NEW i \in 0 .. VolumeSize - 1 PROVE InSome(h, i) <=> ~Covered(i)
  <2>1. i \in Nat /\ i < q /\ i \in Int
    BY <1>2, <1>3
  <2>2. InRanges(h, i) <=> ~HeldByFirst(chunks, m, i)
    BY <1>3, <2>1 DEF Leaves, HeldBy
  <2>3. InSome(h, i) <=> InRanges(h, i)
    BY <1>5, <2>1 DEF InSome, InRanges
  <2> QED BY <1>4, <2>1, <2>2, <2>3
<1>7. \A k \in DOMAIN h : k > 1 => h[k - 1][2] <= h[k][1]
  <2> SUFFICES ASSUME NEW k \in 1 .. Len(h), k > 1 PROVE h[k - 1][2] <= h[k][1]
    BY <1>5
  <2>1. k - 1 \in 1 .. Len(h) /\ k - 1 < k
    BY <1>5
  <2> QED BY <1>3, <2>1 DEF AreHoles
<1>8. Coverage(stream) = Cardinality({i \in 0 .. VolumeSize - 1 : Covered(i)})
  <2>1. Coverage(stream) = Cardinality({i \in 0 .. VolumeSize - 1 : HeldByFirst(chunks, m, i)})
    BY <1>2, CoverageIs DEF chunks, m
  <2>2. {i \in 0 .. VolumeSize - 1 : HeldByFirst(chunks, m, i)} = {i \in 0 .. VolumeSize - 1 : Covered(i)}
    BY <1>4
  <2> QED BY <2>1, <2>2
<1> QED BY <1>1, <1>6, <1>7, <1>8 DEF HolesAreExact

LEMMA MissingIsExactThen ==
  ASSUME SparseInvariant
  PROVE  MissingIsExact
<1> SUFFICES ASSUME NEW offset \in 0 .. VolumeSize + 1, NEW length \in 0 .. VolumeSize + 1 - offset
             PROVE  Missing(volume, offset, length) =
                      Cardinality({i \in offset .. offset + length - 1 :
                                     i >= VolumeSize \/ InSome(volume.holes, i)})
  BY DEF MissingIsExact
<1>1. offset \in Int /\ length \in Nat /\ Len(volume.data) = VolumeSize /\ VolumeSize \in Nat
  BY SparseAssumption DEF SparseInvariant
<1>2. volume.holes \in Seq(IntRange)
  BY DEF SparseInvariant
<1> QED BY <1>1, <1>2, MissingIs

\* However large the volume and however many chunks of whatever lengths are added in
\* whatever order, every read, the holes and the count of what is there are exact, and so is
\* every count of missing bytes, whatever holes a header claims (twvl.py).
THEOREM HolesAreTrueAlways == SparseSpec => [](volume # <<>> /\ HolesAreTrue)
<1>1. SparseInvariant => volume # <<>> /\ HolesAreTrue
  <2> SUFFICES ASSUME SparseInvariant PROVE volume # <<>> /\ HolesAreTrue
    OBVIOUS
  <2>1. volume # <<>>
    <3>1. DOMAIN volume = {"data", "holes"}
      BY DEF SparseInvariant
    <3>2. DOMAIN <<>> = {}
      OBVIOUS
    <3> QED BY <3>1, <3>2
  <2>2. ReadsAreExact /\ HolesAreExact /\ MissingIsExact
    BY ReadsAreExactThen, HolesAreExactThen, MissingIsExactThen
  <2> QED BY <2>1, <2>2 DEF HolesAreTrue
<1> QED BY <1>1, SparseInvariantAlways, PTL

=============================================================================
