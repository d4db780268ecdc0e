------------------------------ MODULE ArchiveFiles ------------------------------
(***************************************************************************)
(* The files of the archive as they are written and read back: the capture   *)
(* (twrf.py, a preamble and a header, then flux to the end), the tape image     *)
(* (twti.py, fixed slots, written with holes or compressed) and the volume       *)
(* (twvl.py).  None of them has a seal, a checksum or a temporary name: a file    *)
(* whose writer died, or whose copy was cut, stands under its own name, and it    *)
(* is for the reader to tell that it is not whole.                               *)
(*                                                                         *)
(* A file is a sequence of cells <<what, value>>.  The preamble is two cells, so  *)
(* that it can be cut inside; compressed cells come in frames with an end mark.     *)
(***************************************************************************)
EXTENDS Integers, Sequences, SequencesExt

CONSTANTS Stride,     \* cells of a slot: SEGMENT_STRIDE
          HeaderLen,  \* cells of the JSON header
          Block,      \* the blocks in which zeros are looked for: _BLOCK
          Images,     \* the slots of the images that are saved, each at most Stride cells
          Bodies,     \* the bytes behind a header: of a volume, of a capture
          Frames      \* the most frames of a compressed image

VARIABLES kind,   \* what is written: "TWRF", "TWTI", "TWTZ" or "TWVL"
          whole,  \* what its writer was given: the header's count, the table, the contents
          todo,   \* the writes that are still to come
          disk    \* the file

vars == <<kind, whole, todo, disk>>

Zero == <<"zero", 0>>
IsZero(cells) == \A i \in DOMAIN cells : cells[i] = Zero
ZerosOf(n) == [i \in 1 .. n |-> Zero]

Preamble(magic) == <<<<magic, 0>>, <<"length", HeaderLen>>>>
\* The JSON header; the member the reader sizes the file by is in its last cell.
Header(count) == [i \in 1 .. HeaderLen |-> <<"json", IF i = HeaderLen THEN count ELSE 0>>]
Padded(slot) == slot \o ZerosOf(Stride - Len(slot))
-----------------------------------------------------------------------------
(***************************************************************************)
(* Writing.  A write is [at, cells, cut]: put the cells at a place (-1: where  *)
(* the last write ended), or fix the file's length to at.                     *)
(***************************************************************************)
Put(cells) == [at |-> -1, cells |-> cells, cut |-> FALSE]
PutAt(at, cells) == [at |-> at, cells |-> cells, cut |-> FALSE]
Truncate(at) == [at |-> at, cells |-> <<>>, cut |-> TRUE]

Table(slots) == [n \in DOMAIN slots |-> <<"entry", Len(slots[n])>>]
Before(slots) == Preamble("TWTI") \o Header(Len(slots)) \o Table(slots)
Base(slots) == Len(Before(slots))
SlotAt(slots, n) == Base(slots) + (n - 1) * Stride

\* TapeImage._write, sparse: an empty or zero slot is not written at all.
SparseWrites(slots) ==
  LET Held(n) == ~IsZero(slots[n])
      held == SelectSeq([n \in DOMAIN slots |-> n], Held)
  IN <<Put(Preamble("TWTI")), Put(Header(Len(slots)))>>
       \o [n \in DOMAIN slots |-> Put(<<Table(slots)[n]>>)]
       \o [k \in DOMAIN held |-> PutAt(SlotAt(slots, held[k]), slots[held[k]])]
       \o <<Truncate(Base(slots) + Len(slots) * Stride)>>

\* Not sparse: every slot whole, compressed.  The writer makes one frame; other writers may
\* make more (twti.py:47), each with its end mark.
DenseOf(slots) ==
  Before(slots) \o FlattenSeq([n \in DOMAIN slots |-> Padded(slots[n])])
FrameOf(cells) ==
  Put(<<<<"ZSTD", 0>>>> \o [i \in DOMAIN cells |-> <<"packed", cells[i]>>] \o <<<<"end", 0>>>>)
FrameWrites(slots) ==
  LET dense == DenseOf(slots)
      half == Base(slots) + Stride
  IN IF Frames = 1 \/ Len(dense) <= half THEN <<FrameOf(dense)>>
     ELSE <<FrameOf(SubSeq(dense, 1, half)), FrameOf(SubSeq(dense, half + 1, Len(dense)))>>

\* Volume.save, and write_preamble with what a capture appends.
BodyWrites(magic, body) ==
  <<Put(Preamble(magic)), Put(Header(IF magic = "TWVL" THEN Len(body) ELSE 0)), Put(body)>>

Init ==
  /\ disk = <<>>
  /\ \/ \E slots \in Images :
          /\ whole = slots
          /\ \/ kind = "TWTI" /\ todo = SparseWrites(slots)
             \/ kind = "TWTZ" /\ todo = FrameWrites(slots)
     \/ \E body \in Bodies :
          /\ whole = body
          /\ kind \in {"TWRF", "TWVL"}
          /\ todo = BodyWrites(kind, body)

\* The file after a write: a hole up to where it goes reads as zeros, and what was there
\* is replaced.
Written(file, w) ==
  LET at == IF w.at = -1 THEN Len(file) ELSE w.at
      to == IF w.cut THEN at ELSE at + Len(w.cells)
      end == IF w.cut \/ to > Len(file) THEN to ELSE Len(file)
  IN [i \in 1 .. end |->
        IF i \in at + 1 .. to THEN w.cells[i - at]
        ELSE IF i <= Len(file) THEN file[i] ELSE Zero]

Write ==
  /\ todo # <<>>
  /\ disk' = Written(disk, Head(todo))
  /\ todo' = Tail(todo)
  /\ UNCHANGED <<kind, whole>>

Next == Write
Spec == Init /\ [][Next]_vars
-----------------------------------------------------------------------------
(***************************************************************************)
(* Reading.  The outcome is "ok" with the contents, "truncated" for a file    *)
(* that is shorter than it says, or "other" for one that is not of the kind.   *)
(***************************************************************************)
Outcome(what, read) == [what |-> what, read |-> read]
Truncated == Outcome("truncated", <<>>)
NotOurs == Outcome("other", <<>>)

\* The checks the three readers share: magic, preamble, header; then the rest of each.
Opened(file, magic) ==
  IF Len(file) < 2
  THEN IF file # <<>> /\ file[1][1] = magic THEN Truncated ELSE NotOurs
  ELSE IF file[1][1] # magic THEN NotOurs
  ELSE IF Len(file) < 2 + HeaderLen THEN Truncated
  ELSE Outcome("ok", SubSeq(file, 3 + HeaderLen, Len(file)))
Count(file) == file[2 + HeaderLen][2]

\* TapeImage._parse, and segment for every slot.
ParsedImage(file) ==
  LET opened == Opened(file, "TWTI")
      count == Count(file)
  IN IF opened.what # "ok" THEN opened
     ELSE IF Len(opened.read) < count THEN Truncated
     ELSE IF Len(opened.read) < count + count * Stride THEN Truncated
     ELSE Outcome("ok", [n \in 1 .. count |->
            SubSeq(opened.read, count + (n - 1) * Stride + 1,
                   count + (n - 1) * Stride + opened.read[n][2])])

\* ZstdFile: the cells of the frames, if the last of them ends.
Unpacked(file) ==
  LET Packed(cell) == cell[1] = "packed"
      packed == SelectSeq(file, Packed)
  IN IF file # <<>> /\ file[Len(file)] = <<"end", 0>>
     THEN Outcome("ok", [i \in DOMAIN packed |-> packed[i][2]]) ELSE Truncated

\* _decompress_to_temp: blocks of zeros are seeked over, and the length is fixed at the end.
Temporary(cells) ==
  LET Piece(b) == SubSeq(cells, (b - 1) * Block + 1,
                         IF b * Block > Len(cells) THEN Len(cells) ELSE b * Block)
      Copy(out, b) == IF IsZero(Piece(b)) THEN out
                      ELSE Written(out, PutAt((b - 1) * Block, Piece(b)))
      copied == FoldLeft(Copy, <<>>, [b \in 1 .. (Len(cells) + Block - 1) \div Block |-> b])
  IN Written(copied, Truncate(Len(cells)))

\* sniff and TapeImage.open: the kind is told by the first cells, not by the name.
OpenedImage(file) ==
  IF file # <<>> /\ file[1][1] = "ZSTD"
  THEN LET unpacked == Unpacked(file)
       IN IF unpacked.what # "ok" THEN unpacked ELSE ParsedImage(Temporary(unpacked.read))
  ELSE ParsedImage(file)

\* mutant
LoadedAnyLength(file) == Opened(file, "TWVL")
\* Volume.load: no fewer bytes than the header's volume_size.
LoadedVolume(file) ==
  LET opened == Opened(file, "TWVL")
  IN IF opened.what = "ok" /\ Len(opened.read) < Count(file) THEN Truncated ELSE opened

\* twrf._read_header, then the flux to the end of the file, wherever that is.
LoadedCapture(file) == Opened(file, "TWRF")

Load(file) ==
  IF kind = "TWVL" THEN LoadedVolume(file)
  ELSE IF kind = "TWRF" THEN LoadedCapture(file)
  ELSE OpenedImage(file)
-----------------------------------------------------------------------------
\* Whenever its writer stops, and wherever a copy is cut, an image or a volume is either
\* refused or is whole, slot by slot, and a capture is its own beginning.  A file that was
\* written to its end is read (TapeImage.open, Volume.load, RawFluxCapture.load).
TornIsRefused ==
  /\ \A k \in 0 .. Len(disk) :
       LET loaded == Load(SubSeq(disk, 1, k))
       IN loaded.what = "ok" =>
            IF kind = "TWRF" THEN IsPrefix(loaded.read, whole) ELSE loaded.read = whole
  /\ todo = <<>> => Load(disk) = Outcome("ok", whole)
=============================================================================
