----------------------------- MODULE FluxStream -----------------------------
(***************************************************************************)
(* The stream of a capture, byte by byte: how rdata_encode_flux() (floppy.c) *)
(* writes transitions, INDEX edges and dead time while more of them come,    *)
(* how qic.c frames its markers and keeps END's account, and how parse_body() *)
(* (twrf.py) reads the file back, whole or cut.                             *)
(*                                                                         *)
(* A byte is a number up to Esc, and a field of a marker is one byte.  The   *)
(* ring that overflows is TapeCapture's; the flux DMA keeps up.              *)
(***************************************************************************)
EXTENDS Integers, Sequences, FiniteSets, SequencesExt

CONSTANTS
  Esc,        \* 0xFF: the largest byte, and the opcode escape
  TwoBytes,   \* 250: the first interval of two bytes
  Filler,     \* sample_us(200)
  Top,        \* one past the largest timcnt_t
  Gaps,       \* sample ticks that the main loop may take between two pumps
  Work,       \* and at most in one
  Deltas,     \* the intervals between transitions
  MaxFlux, MaxIndex,   \* bounds
  MaxPumps    \* bound: the pumps of a pass

Half  == (Esc + 1) \div 2       \* the values of one byte of an N28
Long  == TwoBytes + (Esc - TwoBytes) * Esc   \* 1525: the first long interval
Tail9 == TwoBytes - 1           \* 249: the byte that ends a long interval

(***************************************************************************)
(* The filler keeps behind the clock by more than a long interval, and the  *)
(* pumps keep the counter from wrapping unseen.                             *)
(***************************************************************************)
ASSUME RateAssumption ==
  /\ Esc \in Nat /\ TwoBytes \in Nat /\ Filler \in Nat /\ Top \in Nat /\ Work \in Nat
  /\ Gaps \subseteq Nat /\ Gaps # {} /\ Deltas \subseteq Nat \ {0}
  /\ MaxFlux \in Nat /\ MaxIndex \in Nat /\ MaxPumps \in Nat
  /\ 1 < TwoBytes /\ TwoBytes < Esc /\ Esc % 2 = 1
  /\ Long + Work <= Filler
  /\ \A g \in Gaps : g + Work <= Filler /\ 3 * Filler + g + Work < Top
  /\ Top + TwoBytes <= Half * Half * Half * Half

INDEX   == 1   \* FLUXOP_INDEX
SPACE   == 2   \* FLUXOP_SPACE
START   == 3   \* TW_MARK_SESSION_START and its kin
SEGMENT == 4
EVENT   == 5
END     == 6
Markers == {START, SEGMENT, EVENT, END}

VARIABLES
  now,      \* tim_rdata->cnt, before it is cut to a timcnt_t
  dma,      \* the samples, [at, prod, cons, prev]: dma.prev_sample is a timcnt_t
  index,    \* [count, at]: index.count, index.rdata_cnt; nr: read.nr_index
  account,  \* qic_cap: [flux, bytes, sum, seg]
  buf,      \* what was put into u_buf
  phase,    \* "between" pumps, "pumping", "sealed" by END
  seen      \* history: the INDEX edges that were taken, and the pumps

fluxVars == <<now, dma, index, account, buf, phase, seen>>

-----------------------------------------------------------------------------
(* The device's bytes. *)

Sum(s) ==
  LET sum[n \in 0 .. Len(s)] == IF n = 0 THEN 0 ELSE sum[n - 1] + s[n]
  IN  sum[Len(s)]

N28(x) ==
  LET y == x \div Half
      z == y \div Half
  IN  <<1 + 2 * (x % Half), 1 + 2 * (y % Half), 1 + 2 * (z % Half), 1 + 2 * ((z \div Half) % Half)>>

Marker(code, payload) == <<Esc, code, Len(payload)>> \o payload

Interval(t) ==
  IF t = 0 THEN <<>>
  ELSE IF t < TwoBytes THEN <<t>>
  ELSE IF t < Long THEN <<TwoBytes + ((t - TwoBytes) \div Esc), 1 + ((t - TwoBytes) % Esc)>>
  ELSE <<Esc, SPACE>> \o N28(t - Tail9) \o <<Tail9>>

\* A sample: what is written for it, and its place in the account.
Written(r, x) ==
  LET bytes == Interval((x - r.prev) % Top) IN
  [prev |-> x % Top, out |-> r.out \o bytes,
   cap |-> IF bytes = <<>> THEN r.cap
           ELSE [r.cap EXCEPT !.flux = @ + 1, !.bytes = @ + Len(bytes), !.sum = @ + Sum(bytes)]]

\* The samples s, in order, from the one before them and the account c on.
Encoded(prev, c, s) ==
  LET encoded[n \in 0 .. Len(s)] ==
        IF n = 0 THEN [prev |-> prev, out |-> <<>>, cap |-> c] ELSE Written(encoded[n - 1], s[n])
  IN  encoded[Len(s)]

\* A long time since the last transition: some of it is sent as dead time.
LaggingSoon(age) == age > Filler                             \* mutant
Lagging(age) == age > 2 * Filler

-----------------------------------------------------------------------------
(* The capture. *)

NoIndex == [count |-> 0, at |-> 0, nr |-> 0]

StreamInit ==
  /\ now = 0
  /\ dma = [at |-> <<>>, prod |-> 0, cons |-> 0, prev |-> 0]
  /\ index = NoIndex
  /\ account = [flux |-> 0, bytes |-> 0, sum |-> 0, seg |-> 0]
  /\ buf = Marker(START, <<Esc>>) \o Marker(EVENT, <<0>>)
  /\ phase = "between"
  /\ seen = [edges |-> <<>>, pumps |-> 0]

\* What may come until the clock stands at t: transitions, and an INDEX edge.
LastSample == IF dma.at = <<>> THEN 0 ELSE Last(dma.at)
Samples(t) ==
  LET first  == {x \in {LastSample + d : d \in Deltas} : now < x /\ x <= t}
      second == {<<x, x + d>> : x \in first, d \in Deltas}
  IN  {s \in {<<>>} \cup {<<x>> : x \in first} \cup second :
         Len(s) + Len(dma.at) <= MaxFlux /\ (Len(s) = 2 => s[2] <= t)}
Edges(t) ==
  {index} \cup {[index EXCEPT !.count = @ + 1, !.at = x] :
                  x \in {y \in {now + 1, t} : index.count < MaxIndex /\ now < y /\ y <= t}}

\* rdata_encode_flux() begins: with the interrupts off it looks how far the DMA is, and
\* whether an INDEX edge has passed.
BeginPump ==
  /\ phase = "between" /\ seen.pumps < MaxPumps
  /\ \E g \in Gaps : \E s \in Samples(now + g), e \in Edges(now + g) :
       LET at    == dma.at \o s
           ticks == (e.at - dma.prev) % Top
       IN  /\ now' = now + g
           /\ dma' = [dma EXCEPT !.at = at, !.prod = Len(at)]
           /\ index' = [e EXCEPT !.nr = e.count]
           /\ IF e.count = index.nr THEN UNCHANGED <<buf, account>> /\ seen' = [seen EXCEPT !.pumps = @ + 1]
              ELSE /\ buf' = buf \o <<Esc, INDEX>> \o N28(ticks) \o Marker(SEGMENT, <<ticks, account.seg + 1>>)
                   /\ account' = [account EXCEPT !.seg = @ + 1]
                   /\ seen' = [edges |-> Append(seen.edges, e.at), pumps |-> seen.pumps + 1]
  /\ phase' = "pumping"

\* It goes on: the samples that it saw, and dead time.  After the last pump floppy_read()
\* finds the pass over: timer and DMA stop, whatever they still held, qic_capture_finish()
\* seals the run, and the NUL follows.
Drawn == Encoded(dma.prev, account, SubSeq(dma.at, dma.cons + 1, dma.prod))
Lagged(r, till) == Lagging((till - r.prev) % Top)
Stuffed(r, till) == r.out \o (IF Lagged(r, till) THEN <<Esc, SPACE>> \o N28(Filler) ELSE <<>>)
Moved(r, till) == IF Lagged(r, till) THEN (r.prev + Filler) % Top ELSE r.prev
AccountIs(r) == <<0, r.cap.flux, r.cap.bytes, r.cap.sum>>
\* What the pump leaves behind that drew r and worked for w, with s and e sampled meanwhile.
Pumping(r, w, s, e) ==
  /\ account' = r.cap
  /\ IF seen.pumps < MaxPumps
     THEN /\ phase' = "between" /\ now' = now + w /\ index' = e /\ buf' = buf \o Stuffed(r, now + w)
          /\ dma' = [at |-> dma.at \o s, prod |-> dma.prod, cons |-> dma.prod, prev |-> Moved(r, now + w)]
     ELSE /\ phase' = "sealed" /\ now' = 0 /\ index' = NoIndex
          /\ buf' = buf \o Stuffed(r, now + w) \o Marker(END, AccountIs(r)) \o <<0>>
          /\ dma' = [at |-> SubSeq(dma.at, 1, dma.prod), prod |-> dma.prod, cons |-> dma.prod, prev |-> 0]
EndPump ==
  /\ phase = "pumping"
  /\ \E w \in 0 .. Work : \E s \in Samples(now + w), e \in Edges(now + w) : Pumping(Drawn, w, s, e)
  /\ UNCHANGED seen

StreamNext == BeginPump \/ EndPump

StreamSpec == StreamInit /\ [][StreamNext]_fluxVars

-----------------------------------------------------------------------------
(* The file, read back. *)

N28At(b, i) ==
  (b[i] \div 2)
    + Half * ((b[i + 1] \div 2) + Half * ((b[i + 2] \div 2) + Half * (b[i + 3] \div 2)))

\* ParsedStream, and the place where the walk is.
Nothing == [i |-> 1, intervals |-> <<>>, t |-> 0, index |-> <<>>, markers |-> <<>>, bytes |-> 0,
            sum |-> 0, pending |-> 0, end |-> <<>>, skips |-> {}, terminated |-> FALSE, refused |-> FALSE, stop |-> FALSE]

Took(p, ticks, bytes) ==
  [p EXCEPT !.intervals = Append(@, p.pending + ticks), !.t = @ + p.pending + ticks, !.pending = 0,
            !.bytes = @ + Len(bytes), !.sum = @ + Sum(bytes), !.i = @ + Len(bytes)]
Skipped(p, n) == [p EXCEPT !.skips = @ \cup (p.i .. p.i + n - 1), !.i = @ + n]
StopsFlushed(p) ==                                           \* mutant
  [p EXCEPT !.stop = TRUE, !.intervals = IF p.pending > 0 THEN Append(@, p.pending) ELSE @]
Stops(p) == [p EXCEPT !.stop = TRUE]

\* One marker: a payload that is cut is shorter than its length says.
MarkerRead(b, p) ==
  LET length  == b[p.i + 2]
      payload == SubSeq(b, p.i + 3, IF p.i + 2 + length < Len(b) THEN p.i + 2 + length ELSE Len(b))
      q       == [Skipped(p, 3 + length) EXCEPT
                    !.markers = Append(@, [code |-> b[p.i + 1], payload |-> payload, interval |-> Len(p.intervals)])]
  IN  IF b[p.i + 1] = END /\ Len(payload) >= 4 THEN [q EXCEPT !.end = payload] ELSE q

\* A SPACE that is followed by a 249 is a long interval, else dead time.
SpaceRead(b, p) ==
  IF p.i + 6 <= Len(b) /\ b[p.i + 6] = Tail9
  THEN Took(p, N28At(b, p.i + 2) + Tail9, SubSeq(b, p.i, p.i + 6))
  ELSE [Skipped(p, 6) EXCEPT !.pending = @ + N28At(b, p.i + 2)]

TokenRead(b, p) ==
  LET c  == b[p.i]
      op == b[p.i + 1]
  IN  CASE c = 0 -> [p EXCEPT !.terminated = TRUE, !.stop = TRUE]
        [] 0 < c /\ c < TwoBytes -> Took(p, c, <<c>>)
        [] c >= TwoBytes /\ p.i + 1 > Len(b) -> Stops(p)
        [] c \in TwoBytes .. Esc - 1 /\ p.i < Len(b) ->
             Took(p, TwoBytes + (c - TwoBytes) * Esc + b[p.i + 1] - 1, <<c, b[p.i + 1]>>)
        [] c = Esc /\ p.i < Len(b) ->
             CASE op \in {INDEX, SPACE} /\ p.i + 5 > Len(b) -> Stops(p)
               [] op = INDEX /\ p.i + 5 <= Len(b) ->
                    [Skipped(p, 6) EXCEPT !.index = Append(@, p.t + p.pending + N28At(b, p.i + 2))]
               [] op = SPACE /\ p.i + 5 <= Len(b) -> SpaceRead(b, p)
               [] op \in Markers -> IF p.i + 2 > Len(b) THEN Stops(p) ELSE MarkerRead(b, p)
               [] OTHER -> [Stops(p) EXCEPT !.refused = TRUE]

Walked(b, p) == IF p.i > Len(b) \/ p.stop THEN p ELSE TokenRead(b, p)

\* A token has a byte at least, so that this is as many as there are.
Parsed(b) ==
  LET walk[n \in 0 .. Len(b)] == IF n = 0 THEN Nothing ELSE Walked(b, walk[n - 1])
  IN  walk[Len(b)]

Verified(p) ==
  p.end # <<>> /\ SubSeq(p.end, 2, 4) = <<Len(p.intervals), p.bytes, p.sum>>

\* flux_data_only(), flux_checksum()
DataOf(b, p) ==
  LET stop == IF p.i <= Len(b) THEN p.i - 1 ELSE Len(b)
      data[n \in 0 .. stop] ==
        IF n = 0 THEN <<>> ELSE IF n \in p.skips THEN data[n - 1] ELSE Append(data[n - 1], b[n])
  IN  data[stop]

-----------------------------------------------------------------------------
(* Properties. *)

FluxTypeOK ==
  /\ now \in Nat /\ dma.prev \in 0 .. Top - 1 /\ dma.cons <= dma.prod /\ dma.prod <= Len(dma.at)
  /\ buf \in Seq(Nat) /\ phase \in {"between", "pumping", "sealed"}

\* Where the intervals put the transitions, from the start.
Times(intervals) == [k \in DOMAIN intervals |-> Sum(SubSeq(intervals, 1, k))]

\* A sealed stream says what happened: every transition and INDEX edge at its tick,
\* through the counter's wraps and the dead time in between, one SEGMENT an edge, and
\* END's account is the parser's own.  That includes the sequence that reads two ways,
\* a SPACE before an interval of 249 (twrf.py:263): it is never written.
StreamIsExact ==
  phase = "sealed" =>
    LET p == Parsed(buf) IN
    /\ p.terminated /\ ~p.refused /\ Verified(p)
    /\ Times(p.intervals) = SubSeq(dma.at, 1, dma.cons)
    /\ p.index = seen.edges
    /\ Cardinality({k \in DOMAIN p.markers : p.markers[k].code = SEGMENT}) = Len(seen.edges)
    /\ Len(DataOf(buf, p)) = p.bytes /\ Sum(DataOf(buf, p)) = p.sum

\* A stream that is cut anywhere still reads as the beginning of what happened, and only
\* one that has the whole of END passes for complete.
CutIsPrefix ==
  phase = "sealed" =>
    \A n \in 0 .. Len(buf) - 2 :
      LET p == Parsed(SubSeq(buf, 1, n)) IN
      /\ ~p.terminated /\ ~p.refused /\ ~Verified(p)
      /\ IsPrefix(Times(p.intervals), dma.at) /\ IsPrefix(p.index, seen.edges)
=============================================================================
