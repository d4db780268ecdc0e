-------------------------------- MODULE Qic122 --------------------------------
(***************************************************************************)
(* QIC-122 streams and the extents QIC-113 packs them in (qic122.py): a      *)
(* segment of a compressed volume is an offset, then frames back to back, each  *)
(* a size and either bytes as they are or a stream of bits that ends in an end    *)
(* marker.  A frame that is cut short, or that refers to before its own output,    *)
(* must be refused, since what it would give is taken for the volume's bytes.       *)
(*                                                                         *)
(* Built up token by token; the widths of the fields are scaled down.  A cell of  *)
(* a segment is a number: a size, a byte of a raw frame, or a bit of a stream.      *)
(***************************************************************************)
EXTENDS Integers, Sequences, SequencesExt

CONSTANTS RawBits,    \* of a raw byte: 8
          ShortBits,  \* of a short offset: 7
          LongBits,   \* of a long offset: 11
          GroupBits,  \* of a group of a long length: 4
          RawFrame,   \* the bit of a size that says its frame is raw: _RAW_FRAME
          TailFill,   \* what is left of a segment that no frame starts in: _TAIL_FILL
          Cells,      \* of a segment
          Bytes,      \* the bytes a backup holds
          Lengths,    \* of the strings it refers back to
          MaxOut,     \* bytes of a frame
          MaxFrames,
          MaxTokens,  \* bytes and strings of all frames
          NoFrame     \* model value: no frame is open

VARIABLES segment,  \* the extent's cells so far, behind its offset
          expands,  \* what they stand for
          frame,    \* the open frame: NoFrame, or its bits and what they stand for
          frames,   \* how many are closed
          tokens    \* how many bytes and strings there are

vars == <<segment, expands, frame, frames, tokens>>

History == 2 ^ LongBits

\* int(bits[i:j], 2), a slice that may be cut by the end of the bits; indices from 0.
Slice(bits, from, width) == SubSeq(bits, from + 1, IF from + width > Len(bits) THEN Len(bits)
                                                   ELSE from + width)
Number(bits) == LET Shift(n, b) == 2 * n + b IN FoldLeft(Shift, 0, bits)

Refused == [ok |-> FALSE, out |-> <<>>]
Gives(out) == [ok |-> TRUE, out |-> out]
IndexError == [ok |-> FALSE, out |-> <<"IndexError">>]   \* which nothing catches
-----------------------------------------------------------------------------
(***************************************************************************)
(* decompress.  A token is read at bit i: [at] is the bit after it, -1 when a  *)
(* slice was empty.  A slice that is cut still gives a number; that its token    *)
(* overran is only seen afterwards, by at > n.                                 *)
(***************************************************************************)
RECURSIVE Groups(_, _, _)
Groups(bits, i, length) ==
  LET group == Slice(bits, i, GroupBits)
      next == [length |-> length + Number(group), at |-> i + GroupBits]
  IN IF group = <<>> THEN [length |-> 0, at |-> -1]
     ELSE IF Number(group) = 2 ^ GroupBits - 1 THEN Groups(bits, next.at, next.length) ELSE next

\* The length at bit i: 2..4 in two bits, 5..7 in four, from 8 in groups.
LengthAt(bits, i) ==
  LET first == Slice(bits, i, 2)
      second == Slice(bits, i + 2, 2)
  IN IF first = <<>> THEN [length |-> 0, at |-> -1]
     ELSE IF first # <<1, 1>> THEN [length |-> 2 + Number(first), at |-> i + 2]
     ELSE IF second = <<>> THEN [length |-> 0, at |-> -1]
     ELSE IF second # <<1, 1>> THEN [length |-> 5 + Number(second), at |-> i + 4]
     ELSE Groups(bits, i + 4, 8)

\* The bytes a string copies, one at a time: it may reach into what it is writing.  A long
\* offset of 0 is out[-0], the first byte of the frame.
Copied(out, offset, length) ==
  LET CopyOne(o, k) == Append(o, o[IF offset = 0 THEN 1 ELSE Len(o) - offset + 1])
  IN FoldLeft(CopyOne, out, [k \in 1 .. length |-> k])

\* The token that is cut off, or refers before the frame, or reaches past the bits.
Overruns(at, n) == at = -1 \/ at > n
\* mutant
EndMayOverrun(at, n) == FALSE
EndOverruns(at, n) == at > n
Reaches(offset, out) == offset <= Len(out) /\ offset <= History

RECURSIVE Decompressed(_, _, _)
Decompressed(bits, i, out) ==
  LET n == Len(bits)
      short == i + 1 < n /\ bits[i + 2] = 1
      width == IF short THEN ShortBits ELSE LongBits
      slice == Slice(bits, i + 2, width)
      offset == Number(slice)
      at == i + 2 + width
      length == LengthAt(bits, at)
  IN IF i >= n THEN Refused
     ELSE IF bits[i + 1] = 0
          THEN IF i + 1 + RawBits > n THEN Refused
               ELSE Decompressed(bits, i + 1 + RawBits,
                                 Append(out, Number(Slice(bits, i + 1, RawBits))))
     ELSE IF i + 2 > n \/ slice = <<>> THEN Refused
     ELSE IF short /\ offset = 0 THEN IF EndOverruns(at, n) THEN Refused ELSE Gives(out)
     ELSE IF Overruns(length.at, n) \/ ~Reaches(offset, out) THEN Refused
     ELSE IF out = <<>> THEN IndexError
     ELSE Decompressed(bits, length.at, Copied(out, offset, length.length))

Decompress(bits) == Decompressed(bits, 0, <<>>)

\* decode_extent, behind the offset: frames until the fill, or a size of zero.
RECURSIVE Extent(_, _, _)
Extent(cells, pos, out) ==
  LET raw == cells[pos + 1] >= RawFrame
      size == cells[pos + 1] % RawFrame
      body == Slice(cells, pos + 1, size)
      frameOf == IF raw THEN Gives(body) ELSE Decompress(body)
  IN IF Len(cells) - pos < TailFill THEN Gives(out)
     ELSE IF size = 0 THEN Gives(out)
     ELSE IF Len(body) # size \/ ~frameOf.ok THEN Refused
     ELSE Extent(cells, pos + 1 + size, out \o frameOf.out)

DecodeExtent(cells) == Extent(cells, 0, <<>>)
-----------------------------------------------------------------------------
(***************************************************************************)
(* The backup software, from the standards the code was written from.        *)
(***************************************************************************)
BitsOf(n, width) == [k \in 1 .. width |-> (n \div 2 ^ (width - k)) % 2]

LengthBits(length) ==
  LET full == 2 ^ GroupBits - 1
      rest == length - 8
  IN IF length < 5 THEN BitsOf(length - 2, 2)
     ELSE IF length < 8 THEN <<1, 1>> \o BitsOf(length - 5, 2)
     ELSE <<1, 1, 1, 1>>
            \o FlattenSeq([k \in 1 .. (rest \div full) |-> BitsOf(full, GroupBits)])
            \o BitsOf(rest % full, GroupBits)
EndMarker == <<1, 1>> \o BitsOf(0, ShortBits)

Room == Cells - Len(segment)

Init == segment = <<>> /\ expands = <<>> /\ frame = NoFrame /\ frames = 0 /\ tokens = 0

OpenFrame ==
  /\ frame = NoFrame /\ Room >= TailFill /\ frames < MaxFrames
  /\ frame' = [bits |-> <<>>, out |-> <<>>]
  /\ UNCHANGED <<segment, expands, frames, tokens>>

RawByte(b) ==
  /\ frame # NoFrame /\ Len(frame.out) < MaxOut
  /\ frame' = [bits |-> frame.bits \o <<0>> \o BitsOf(b, RawBits), out |-> Append(frame.out, b)]
  /\ tokens < MaxTokens /\ tokens' = tokens + 1
  /\ UNCHANGED <<segment, expands, frames>>

\* A string, with the short form of its offset where there is one, or without.
String(offset, length, long) ==
  /\ frame # NoFrame /\ offset <= Len(frame.out) /\ Len(frame.out) + length <= MaxOut
  /\ offset < 2 ^ (IF long THEN LongBits ELSE ShortBits)
  /\ frame' = [bits |-> frame.bits
                          \o (IF long THEN <<1, 0>> \o BitsOf(offset, LongBits)
                              ELSE <<1, 1>> \o BitsOf(offset, ShortBits))
                          \o LengthBits(length),
               out |-> frame.out \o [k \in 1 .. length |->
                         frame.out[Len(frame.out) - offset + 1 + ((k - 1) % offset)]]]
  /\ tokens < MaxTokens /\ tokens' = tokens + 1
  /\ UNCHANGED <<segment, expands, frames>>

\* The end marker, and the fill up to a byte.
CloseFrame(fill) ==
  /\ frame # NoFrame
  /\ LET bits == frame.bits \o EndMarker \o BitsOf(0, fill)
     IN /\ 1 + Len(bits) <= Room
        /\ segment' = segment \o <<Len(bits)>> \o bits
  /\ expands' = expands \o frame.out
  /\ frame' = NoFrame /\ frames' = frames + 1 /\ UNCHANGED tokens

\* Bytes that did not get shorter are kept as they are.
StoreFrame ==
  /\ frame # NoFrame /\ frame.out # <<>> /\ 1 + Len(frame.out) <= Room
  /\ segment' = segment \o <<RawFrame + Len(frame.out)>> \o frame.out
  /\ expands' = expands \o frame.out
  /\ frame' = NoFrame /\ frames' = frames + 1 /\ UNCHANGED tokens

Next ==
  \/ OpenFrame \/ StoreFrame
  \/ \E b \in Bytes : RawByte(b)
  \/ \E offset \in 1 .. MaxOut, length \in Lengths, long \in BOOLEAN : String(offset, length, long)
  \/ \E fill \in 0 .. 1 : CloseFrame(fill)

Spec == Init /\ [][Next]_vars
-----------------------------------------------------------------------------
Filled == segment \o [k \in 1 .. Room |-> 0]

\* A segment's frames decode to the bytes they stand for, whatever is left of the segment
\* behind them (decode_extent).
ExtentIsRead == DecodeExtent(Filled) = Gives(expands)

\* A frame decodes to its bytes and, cut at any bit, is refused: what it gave until then
\* is never taken for all of it.  So is one that refers to before its own start (decompress).
CutIsRefused ==
  frame # NoFrame =>
    LET bits == frame.bits \o EndMarker
        beyond == Len(frame.out) + 1
    IN /\ Decompress(bits) = Gives(frame.out)
       /\ \A n \in 0 .. Len(bits) - 1 : Decompress(SubSeq(bits, 1, n)) = Refused
       /\ beyond <= MaxOut /\ beyond < 2 ^ LongBits =>
            Decompress(frame.bits \o <<1, 0>> \o BitsOf(beyond, LongBits) \o LengthBits(2)
                         \o EndMarker) = Refused
=============================================================================
