------------------------------ MODULE SparseVolume ------------------------------
(***************************************************************************)
(* A backup volume with holes (twvl.py).  While it is extracted it is a     *)
(* SparseVolume: chunks of bytes, sorted by where they start, which may       *)
(* overlap.  On disk it is the bytes, with the holes as ranges beside them:     *)
(* every later question, which bytes are there and how many of a file are       *)
(* missing, is answered by interval arithmetic over these lists.              *)
(*                                                                         *)
(* A byte is any value; Null is the zero byte.  Offsets count from 0.           *)
(***************************************************************************)
EXTENDS Integers, FiniteSets, Sequences, SequencesExt

Null == <<"null">>

Nulls(n) == [i \in 1 .. n |-> Null]
Larger(a, b) == IF a >= b THEN a ELSE b
Smaller(a, b) == IF a <= b THEN a ELSE b

Empty(size) == [size |-> size, chunks |-> <<>>]

\* SparseVolume.add: a chunk goes before those that start where it does (bisect_left).
Earlier(chunks, offset) ==
  CHOOSE n \in 0 .. Len(chunks) :
    /\ \A k \in 1 .. n : chunks[k].at < offset
    /\ \A k \in n + 1 .. Len(chunks) : offset <= chunks[k].at
Added(stream, offset, data) ==
  [stream EXCEPT !.chunks =
     InsertAt(@, Earlier(@, offset) + 1, [at |-> offset, data |-> data])]

(***************************************************************************)
(* SparseVolume.read: the chunks are painted in their order over zeros, and  *)
(* only the part of each past what was covered is counted.  (The code stops at  *)
(* the first that starts behind the range: it and the rest would paint nothing.)  *)
(***************************************************************************)
PaintOver(acc, c, offset, length) ==
  LET a == Larger(c.at, offset)
      b == Smaller(c.at + Len(c.data), offset + length)
  IN IF a >= b THEN acc
     ELSE [out |-> [i \in 1 .. length |-> IF i + offset \in a + 1 .. b
                                         THEN c.data[i + offset - c.at] ELSE acc.out[i]],
           have |-> acc.have + Larger(0, b - Larger(a, acc.coveredTo)),
           coveredTo |-> Larger(acc.coveredTo, b)]
ReadSparse(stream, offset, length) ==
  LET painted[n \in 0 .. Len(stream.chunks)] ==
        IF n = 0 THEN [out |-> Nulls(length), have |-> 0, coveredTo |-> offset]
        ELSE PaintOver(painted[n - 1], stream.chunks[n], offset, length)
      last == painted[Len(stream.chunks)]
  IN [data |-> last.out, missing |-> length - last.have]

\* find_holes: the ranges before, between and behind the chunks that are not empty.
WithHole(holes, a, b) == IF a < b THEN Append(holes, <<a, b>>) ELSE holes
HolesBefore(acc, c, size) ==
  [holes |-> WithHole(acc.holes, acc.pos, Smaller(c.at, size)),
   pos |-> Larger(acc.pos, c.at + Len(c.data))]
FindHoles(stream, size) ==
  LET before[n \in 0 .. Len(stream.chunks)] ==
        IF n = 0 THEN [holes |-> <<>>, pos |-> 0]
        ELSE HolesBefore(before[n - 1], stream.chunks[n], size)
      last == before[Len(stream.chunks)]
  IN WithHole(last.holes, last.pos, size)

\* SparseVolume.coverage
Coverage(stream) ==
  LET holes == FindHoles(stream, stream.size)
      without[n \in 0 .. Len(holes)] ==
        IF n = 0 THEN stream.size ELSE without[n - 1] - (holes[n][2] - holes[n][1])
  IN without[Len(holes)]

(***************************************************************************)
(* Volume.missing: the holes of the header, in any order and overlapping, and  *)
(* what is past the end of the bytes, merged before they are counted.            *)
(***************************************************************************)
RangeBefore(r, q) == r[1] < q[1] \/ (r[1] = q[1] /\ r[2] < q[2])
\* mutant
AsTheyCome(ranges) == ranges
Place(sorted, r) ==
  CHOOSE n \in 0 .. Len(sorted) :
    /\ \A k \in 1 .. n : RangeBefore(sorted[k], r)
    /\ \A k \in n + 1 .. Len(sorted) : ~RangeBefore(sorted[k], r)
Placed(sorted, r) == InsertAt(sorted, Place(sorted, r) + 1, r)
InOrder(ranges) ==
  LET sorted[n \in 0 .. Len(ranges)] == IF n = 0 THEN <<>> ELSE Placed(sorted[n - 1], ranges[n])
  IN sorted[Len(ranges)]

CountIn(acc, r, end) ==
  LET a == Larger(r[1], acc.countedTo)
      b == Smaller(r[2], end)
  IN IF a < b THEN [missing |-> acc.missing + (b - a), countedTo |-> b] ELSE acc
Missing(volume, offset, length) ==
  LET end == offset + length
      size == Len(volume.data)
      ranges == InOrder(Append(volume.holes, <<size, Larger(end, size)>>))
      counted[n \in 0 .. Len(ranges)] ==
        IF n = 0 THEN [missing |-> 0, countedTo |-> offset]
        ELSE CountIn(counted[n - 1], ranges[n], end)
  IN counted[Len(ranges)].missing

\* Volume.read: zeros where the bytes end.
ReadVolume(volume, offset, length) ==
  [i \in 1 .. length |->
     IF i + offset <= Len(volume.data) THEN volume.data[i + offset] ELSE Null]
-----------------------------------------------------------------------------
(***************************************************************************)
(* A stream of any few chunks, and a volume whose holes are not trusted.     *)
(***************************************************************************)
CONSTANTS VolumeSize,   \* bytes of the volume
          ChunkSizes,   \* the lengths of the chunks that are added
          MaxChunks,    \* how many are added
          HoleLists     \* the holes a header may claim, well-formed or not

ASSUME SparseAssumption ==
  VolumeSize \in Nat /\ ChunkSizes \subseteq Nat /\ HoleLists \subseteq Seq(Int \X Int)

VARIABLES stream, volume

SparseInit ==
  /\ stream = Empty(VolumeSize)
  /\ \E holes \in HoleLists :
       volume = [data |-> [i \in 1 .. VolumeSize |-> <<"byte", i>>], holes |-> holes]

\* A chunk's bytes are told apart by the number of the chunk; it may run past the end.
Add(offset, length) ==
  /\ Len(stream.chunks) < MaxChunks
  /\ LET k == Len(stream.chunks) + 1
     IN stream' = Added(stream, offset, [i \in 1 .. length |-> <<"byte", k, i>>])
  /\ UNCHANGED volume

SparseNext == \E offset \in 0 .. VolumeSize, length \in ChunkSizes : Add(offset, length)
SparseSpec == SparseInit /\ [][SparseNext]_<<stream, volume>>
-----------------------------------------------------------------------------
\* Byte i of the stream is there when some chunk holds it.
Covered(i) == \E k \in DOMAIN stream.chunks :
                i \in stream.chunks[k].at .. stream.chunks[k].at + Len(stream.chunks[k].data) - 1
InSome(holes, i) == \E k \in DOMAIN holes : i \in holes[k][1] .. holes[k][2] - 1

\* Whatever chunks were added, in whatever order and however they overlap, a read of any
\* range has a byte of a chunk that holds it wherever there is one, of the one that starts
\* last, and counts every byte that none holds once (SparseVolume.read).
ReadsAreExact ==
  \A offset \in 0 .. VolumeSize : \A length \in 0 .. VolumeSize - offset :
    LET r == ReadSparse(stream, offset, length)
    IN /\ r.missing = Cardinality({i \in offset .. offset + length - 1 : ~Covered(i)})
       /\ \A i \in 1 .. length :
            IF ~Covered(offset + i - 1) THEN r.data[i] = Null
            ELSE \E k \in DOMAIN stream.chunks :
                   LET c == stream.chunks[k]
                       j == offset + i - c.at
                   IN /\ j \in DOMAIN c.data /\ r.data[i] = c.data[j]
                      /\ \A q \in DOMAIN stream.chunks :
                           stream.chunks[q].at > c.at =>
                             offset + i - stream.chunks[q].at \notin DOMAIN stream.chunks[q].data

\* The holes that are written to the header are exactly the bytes no chunk holds, in order
\* and apart, and the count that is reported is of these bytes (find_holes, coverage).
HolesAreExact ==
  LET holes == FindHoles(stream, VolumeSize)
  IN /\ \A i \in 0 .. VolumeSize - 1 : InSome(holes, i) <=> ~Covered(i)
     /\ \A k \in DOMAIN holes : k > 1 => holes[k - 1][2] <= holes[k][1]
     /\ Coverage(stream) = Cardinality({i \in 0 .. VolumeSize - 1 : Covered(i)})

\* A file's missing bytes are those in a hole or past the end, each counted once, whatever
\* holes the header claims (Volume.missing).
MissingIsExact ==
  \A offset \in 0 .. VolumeSize + 1 : \A length \in 0 .. VolumeSize + 1 - offset :
    Missing(volume, offset, length) =
      Cardinality({i \in offset .. offset + length - 1 :
                     i >= VolumeSize \/ InSome(volume.holes, i)})

\* The holes and the counts of missing bytes are exact however chunks overlap and whatever
\* a header claims (twvl.py); of a behaviour that has a volume.
HolesAreTrue == volume # <<>> => ReadsAreExact /\ HolesAreExact /\ MissingIsExact
=============================================================================
