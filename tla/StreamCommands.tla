--------------------------- MODULE StreamCommands ---------------------------
(***************************************************************************)
(* The commands of floppy.c that go on after their acknowledgement: a flux     *)
(* stream that is written, an erasure, and the bandwidth tests that sink or    *)
(* source bytes.  All of them take data or time between two answers, during     *)
(* which no command is read; what ends them must leave nothing of the stream     *)
(* behind, for it would be run as commands.                                  *)
(*                                                                         *)
(* Simplifications.                                                        *)
(*  - A stream is a sequence of tokens of 1, 2 and (for 6) 3 bytes; where its   *)
(*    bytes are is counted, and a token can be decoded when all of it has come. *)
(*  - The main loop is fast enough for the DMA: the ring runs dry only when      *)
(*    decoding has nothing for it.  The ring is a queue without its wrap.       *)
(***************************************************************************)
EXTENDS Integers, Sequences

CONSTANTS
  Streams,    \* the streams that are written, each ending in Nul
  MinPulse,   \* MIN_PULSE, ticks
  MaxPulse,   \* the counter of the timer overflows here
  DmaSize,    \* entries of dma.buf
  U_BUF_SZ,   \* bytes of u_buf
  Mps,        \* bytes of a USB packet
  Low,        \* fewer bytes than this without an end are an underflow
  MaxBytes    \* bound: bytes of a sink or source command

VARIABLES
  fw,      \* the firmware: state machine, buffers, write gate
  host,    \* the command under way and what the host has sent and received
  seen     \* history: read (ticks decoded), made (ticks of the pulses), out (of those
           \* written), at (when those were written), cut (ended by the second index),
           \* late (by the watchdog), ran (bytes of a stream taken for a command)

vars == <<fw, host, seen>>

Token == [kind : {"nul", "flux", "space", "astable", "bad"}, ticks : Nat, bytes : Nat \ {0}]

\* A NUL ends a stream, and is nowhere else in it; the rings are not empty.
ASSUME StreamsAssumption ==
  /\ \A s \in Streams : s \in Seq(Token) /\ s # <<>>
                         /\ \A i \in DOMAIN s : s[i].kind = "nul" <=> i = Len(s)
  /\ MinPulse \in Nat /\ MaxPulse \in Nat /\ MaxBytes \in Nat
  /\ DmaSize \in Nat \ {0} /\ Mps \in Nat \ {0} /\ U_BUF_SZ \in Nat /\ Low \in Nat

Nul == [kind |-> "nul", ticks |-> 0, bytes |-> 1]
Flux(t) == [kind |-> "flux", ticks |-> t, bytes |-> IF t < 3 THEN 1 ELSE 2]
Space(t) == [kind |-> "space", ticks |-> t, bytes |-> 3]
Astable(t) == [kind |-> "astable", ticks |-> t, bytes |-> 3]
BadOp == [kind |-> "bad", ticks |-> 0, bytes |-> 3]

Total(numbers) ==
  LET upTo[n \in 0..Len(numbers)] == IF n = 0 THEN 0 ELSE upTo[n - 1] + numbers[n]
  IN  upTo[Len(numbers)]
BytesOf(toks) == Total([i \in DOMAIN toks |-> toks[i].bytes])
\* The time of a token in the stream, of the stream, and of every flux change in it.
TicksOf(t) == IF t.kind \in {"flux", "space"} THEN t.ticks ELSE 0
TimeOf(toks) == Total([i \in DOMAIN toks |-> TicksOf(toks[i])])
Due(toks) == {TimeOf(SubSeq(toks, 1, i)) : i \in {j \in DOMAIN toks : toks[j].kind = "flux"}}

Idle == [state |-> "wait", status |-> "okay", toks |-> <<>>, cons |-> 0, prod |-> 0, total |-> 0,
         ticks |-> 0, mode |-> "idle", period |-> 0, fin |-> FALSE, dma |-> <<>>, gate |-> FALSE,
         cue |-> FALSE, term |-> FALSE, pkt |-> 0, idx |-> FALSE, todo |-> 0, rx |-> 0, tx |-> <<>>]
NoStream == [stage |-> "idle", op |-> "none", stream |-> <<>>, total |-> 0, sent |-> 0, got |-> 0,
             status |-> "none"]

NothingSeen ==
  [made |-> 0, read |-> 0, out |-> 0, at |-> {}, cut |-> FALSE, late |-> FALSE, ran |-> FALSE]

Init == fw = Idle /\ host = NoStream /\ seen = NothingSeen

Smaller(a, b) == IF a < b THEN a ELSE b

(*------------------------------ decoding flux -----------------------------*)
\* d: the decoder with the pulses it has produced.
EmitRest(d, pulse) == [d EXCEPT !.ticks = 0, !.pulses = Append(@, pulse)]    \* mutant
Emit(d, pulse) == [d EXCEPT !.ticks = @ - pulse, !.pulses = Append(@, pulse)]
\* floppy_flux_end(): whatever ends a write or an erasure closes the gate.
FluxEnd(f) == [f EXCEPT !.gate = FALSE]

\* One turn of the loop over tokens, for a token all of which has come.
OneToken(d, t) ==
  LET e     == [d EXCEPT !.cons = @ + t.bytes, !.toks = Tail(@),
                         !.read = @ + TicksOf(t)]
      ticks == d.ticks + t.ticks
  IN  CASE t.kind = "nul"     -> [e EXCEPT !.fin = TRUE, !.stop = TRUE]
        [] t.kind = "space"   -> [e EXCEPT !.ticks = ticks]
        [] t.kind = "astable" -> [e EXCEPT !.mode = "astable", !.period = t.ticks, !.stop = TRUE]
        [] t.kind = "bad"     -> [e EXCEPT !.error = TRUE, !.stop = TRUE]
        [] OTHER ->
             IF ticks < MinPulse THEN [e EXCEPT !.ticks = ticks]
             ELSE IF ticks > MaxPulse THEN [e EXCEPT !.ticks = ticks, !.mode = "oneshot", !.stop = TRUE]
             ELSE Emit([e EXCEPT !.ticks = ticks], ticks)

\* One turn of _wdata_decode_flux(): first what a mode still has to produce, then
\* a token; no turn when there is no room, no whole token, or a reason to stop.
Turn(d, nr) ==
  IF Len(d.pulses) = nr \/ d.stop THEN {}
  ELSE IF d.mode = "astable"
  THEN {IF d.ticks >= d.period THEN Emit(d, d.period) ELSE [d EXCEPT !.mode = "idle"]}
  ELSE IF d.mode = "oneshot"
  THEN {IF d.ticks > MaxPulse THEN Emit(d, MaxPulse)
        ELSE [(IF d.ticks > MinPulse THEN Emit(d, d.ticks) ELSE d) EXCEPT !.mode = "idle"]}
  ELSE IF d.toks = <<>> \/ d.cons + d.toks[1].bytes > d.prod THEN {}
  ELSE {OneToken(d, d.toks[1])}
\* A decoder that can take no turn stays.
OneTurnLater(ds, nr) ==
  UNION {LET turn == Turn(d, nr) IN IF turn = {} THEN {d} ELSE turn : d \in ds}
\* Every turn takes a token, produces a pulse, or leaves a mode that a token began.
MostTurns(d, nr) == nr + 2 * Len(d.toks) + 2
Turns(d, nr) ==
  LET after[n \in 0..MostTurns(d, nr)] == IF n = 0 THEN {d} ELSE OneTurnLater(after[n - 1], nr)
  IN  after[MostTurns(d, nr)]

\* The one way to decode up to nr pulses.
Decoded(f, nr) ==
  Turns([toks |-> f.toks, cons |-> f.cons, prod |-> f.prod, ticks |-> f.ticks, mode |-> f.mode,
         period |-> f.period, fin |-> f.fin, stop |-> FALSE, error |-> FALSE, pulses |-> <<>>,
         read |-> 0], nr)
\* The firmware after decoding, its pulses in the ring unless they are thrown away.
After(f, d, kept) ==
  LET g == [f EXCEPT !.toks = d.toks, !.cons = d.cons, !.ticks = d.ticks, !.mode = d.mode,
                     !.period = d.period, !.fin = d.fin,
                     !.dma = IF kept THEN @ \o d.pulses ELSE @]
  IN  IF d.error THEN [FluxEnd(g) EXCEPT !.status = "badCommand", !.state = "drain"] ELSE g
Room(f) == DmaSize - 1 - Len(f.dma)

\* floppy_process_write_packet()
TakePacket(f) ==
  LET g == IF f.rx > 0 /\ f.pkt = 0 THEN [f EXCEPT !.pkt = f.rx, !.rx = 0] ELSE f
  IN  IF g.pkt > 0 /\ U_BUF_SZ - (g.prod - g.cons) >= g.pkt
      THEN [g EXCEPT !.prod = @ + g.pkt, !.pkt = 0] ELSE g

EndHidden(f) == FALSE                                      \* mutant
\* The last byte that has come is the NUL.
EndIsThere(f) == f.prod = f.total

(*-------------------------------- write flux ------------------------------*)
\* floppy_end_command()
EndCommand(f, answer) ==
  [f EXCEPT !.tx = Append(@, answer), !.cons = 0, !.prod = 0]

\* CMD_WRITE_FLUX: floppy_write_prep(), and the acknowledgement.
WritePrep(s) ==
  /\ fw.state = "wait" /\ fw.tx = <<>> /\ host.stage = "idle" /\ fw.rx = 0
  /\ \E wrprot, cue, term \in BOOLEAN :
       fw' = IF wrprot THEN EndCommand(fw, "wrprot")
             ELSE [Idle EXCEPT !.state = "waitData", !.toks = s, !.total = BytesOf(s), !.cue = cue,
                               !.term = term, !.tx = <<"ack">>]
  /\ host' = [NoStream EXCEPT !.stage = "asked", !.op = "write", !.stream = s,
                              !.total = BytesOf(s)]
  /\ seen' = NothingSeen

Made(d) == Total(d.pulses)

\* What floppy_write_wait_data() and floppy_write() begin with, as it may turn out: what
\* was decoded, and the firmware after taking a packet and decoding.
Fill == UNION {{[decoded |-> d, fw |-> After(f, d, TRUE)] : d \in Decoded(f, Room(f))} : f \in {TakePacket(fw)}}
Count(d, cut) == seen' = [seen EXCEPT !.made = @ + Made(d), !.read = @ + d.read, !.cut = @ \/ cut]

\* floppy_write_wait_data()
WaitData ==
  /\ fw.state = "waitData"
  /\ \E r \in Fill :
       LET g        == r.fw
           finished == IF g.cons = g.prod THEN g.fin ELSE EndIsThere(g)
           full     == Room(g) = 0 /\ g.prod - g.cons >= U_BUF_SZ - Mps
       IN  /\ fw' = IF g.status = "okay" /\ (full \/ finished)
                    THEN [g EXCEPT !.state = "waitIndex", !.idx = FALSE] ELSE g
           /\ fw' # fw
           /\ Count(r.decoded, FALSE)
  /\ UNCHANGED host

\* floppy_write_wait_index(): the index, or two seconds without one.
WaitIndex ==
  /\ fw.state = "waitIndex"
  /\ \/ /\ fw.cue => fw.idx
        /\ fw' = [fw EXCEPT !.gate = TRUE, !.idx = FALSE, !.state = "write"]
     \/ /\ fw.cue /\ ~fw.idx
        /\ fw' = [FluxEnd(fw) EXCEPT !.status = "noIndex", !.state = "drain"]
  /\ UNCHANGED <<host, seen>>

\* floppy_write_check_underflow()
Underflow(f) ==
  \/ f.prod = f.cons
  \/ f.prod - f.cons < Low /\ ~EndIsThere(f)

RingIsDry(g) == g.dma = <<>>                               \* mutant
RingDrained(g) == g.fin /\ g.dma = <<>>
\* floppy_write(): an error, the second index, a stream that runs dry, or the end,
\* which blocks until the ring has drained.
Write ==
  /\ fw.state = "write"
  /\ \E r \in Fill :
       LET g    == r.fw
           stop == g.status = "okay" /\ g.term /\ g.idx
           done == [FluxEnd(g) EXCEPT !.state = "drain"]
       IN  /\ fw' = IF g.status # "okay" THEN g
                    ELSE IF stop \/ RingDrained(g) THEN done
                    ELSE IF ~g.fin /\ Underflow(g) THEN [done EXCEPT !.status = "underflow"]
                    ELSE g
           /\ fw' # fw
           /\ Count(r.decoded, stop)
  /\ UNCHANGED host

\* The timer takes the next pulse from the ring.
DmaPulse ==
  /\ fw.state = "write" /\ fw.dma # <<>>
  /\ fw' = [fw EXCEPT !.dma = Tail(@)]
  /\ seen' = [seen EXCEPT !.out = @ + Head(fw.dma), !.at = @ \cup {seen.out + Head(fw.dma)}]
  /\ UNCHANGED host
\* IRQ_INDEX_changed()
Index ==
  /\ fw.state \in {"waitIndex", "write"} /\ ~fw.idx /\ (fw.cue \/ fw.term)
  /\ fw' = [fw EXCEPT !.idx = TRUE]
  /\ UNCHANGED <<host, seen>>

StopReading(f) == TRUE                                     \* mutant
Drained(f) == f.fin
\* floppy_write_drain(): the rest of the stream, up to its end, then the status.
WriteDrain ==
  /\ fw.state = "drain"
  /\ IF ~Drained(fw)
     THEN \E f \in {TakePacket(fw)} : \E d \in Decoded(f, DmaSize) : fw' = After(f, d, FALSE)
     ELSE /\ Len(fw.tx) < 2
          /\ fw' = EndCommand([Idle EXCEPT !.tx = fw.tx, !.rx = fw.rx], fw.status)
  /\ fw' # fw
  /\ UNCHANGED <<host, seen>>

(*----------------------- erase, sink and source bytes ---------------------*)
\* floppy_erase_prep()
ErasePrep ==
  /\ fw.state = "wait" /\ fw.tx = <<>> /\ host.stage = "idle"
  /\ \E wrprot \in BOOLEAN :
       fw' = IF wrprot THEN EndCommand(fw, "wrprot")
             ELSE EndCommand([Idle EXCEPT !.state = "erase", !.gate = TRUE], "ack")
  /\ host' = [NoStream EXCEPT !.stage = "asked", !.op = "erase"]
  /\ seen' = NothingSeen
\* floppy_erase(), which does not look for room at the endpoint.
Erased ==
  /\ fw.state = "erase"
  /\ fw' = EndCommand([FluxEnd(fw) EXCEPT !.state = "wait"], "okay")
  /\ UNCHANGED <<host, seen>>

\* sink_source_prep()
BytesPrep(op, n) ==
  /\ fw.state = "wait" /\ fw.tx = <<>> /\ host.stage = "idle"
  /\ fw' = EndCommand([Idle EXCEPT !.state = op, !.todo = n], "ack")
  /\ host' = [NoStream EXCEPT !.stage = "asked", !.op = op, !.total = n]
  /\ seen' = NothingSeen
\* sink_bytes()
Sink ==
  /\ fw.state = "sink"
  /\ IF fw.todo = 0
     THEN Len(fw.tx) < 2 /\ fw' = EndCommand([fw EXCEPT !.state = "wait"], "okay")
     ELSE fw.rx > 0 /\ fw' = [fw EXCEPT !.rx = 0, !.todo = @ - Smaller(@, fw.rx)]
  /\ UNCHANGED <<host, seen>>
\* source_bytes(): whole packets, and at the end a short one, however short.
Source ==
  /\ fw.state = "source" /\ Len(fw.tx) < 2
  /\ fw' = IF fw.todo < Mps THEN EndCommand([fw EXCEPT !.state = "wait", !.todo = 0], fw.todo)
           ELSE [fw EXCEPT !.tx = Append(@, Mps), !.todo = @ - Mps]
  /\ UNCHANGED <<host, seen>>

(*------------------------- the watchdog and the host ------------------------*)
\* floppy_configure() and quiesce_drives(), ten seconds after the last command.
Watchdog ==
  /\ fw.state \notin {"wait"} /\ ~(fw.state = "write" /\ fw.fin)
  /\ fw' = [Idle EXCEPT !.rx = fw.rx, !.tx = fw.tx]
  /\ seen' = [seen EXCEPT !.late = TRUE]
  /\ UNCHANGED host

\* Bytes that arrive in ST_command_wait are a command.
Command ==
  /\ fw.state = "wait" /\ fw.rx > 0
  /\ fw' = [fw EXCEPT !.rx = 0]
  /\ seen' = [seen EXCEPT !.ran = TRUE]
  /\ UNCHANGED host

Acknowledged ==
  /\ host.stage = "asked" /\ fw.tx # <<>>
  /\ fw' = [fw EXCEPT !.tx = Tail(@)]
  /\ host' = IF Head(fw.tx) # "ack" THEN NoStream
             ELSE [host EXCEPT !.stage = IF host.op \in {"write", "sink"} /\ host.total > 0
                                         THEN "sending" ELSE "sent"]
  /\ UNCHANGED seen
Send ==
  /\ host.stage = "sending" /\ fw.rx = 0
  /\ \E n \in 1..Smaller(Mps, host.total - host.sent) :
       /\ fw' = [fw EXCEPT !.rx = n]
       /\ host' = [host EXCEPT !.sent = @ + n,
                               !.stage = IF host.sent + n = host.total THEN "sent" ELSE @]
  /\ UNCHANGED seen
\* The status byte, or the bytes of a source up to a short packet.
Receive ==
  /\ host.stage = "sent" /\ fw.tx # <<>>
  /\ fw' = [fw EXCEPT !.tx = Tail(@)]
  /\ host' = IF host.op = "source"
             THEN [host EXCEPT !.got = @ + Head(fw.tx),
                               !.stage = IF Head(fw.tx) < Mps THEN "idle" ELSE @]
             ELSE [host EXCEPT !.status = Head(fw.tx), !.stage = "idle"]
  /\ UNCHANGED seen
\* After the watchdog the host gives up, with clear-comms.
GiveUp ==
  /\ seen.late /\ host.stage # "idle"
  /\ fw' = Idle /\ host' = NoStream
  /\ UNCHANGED seen

Device == WaitData \/ WaitIndex \/ Write \/ WriteDrain \/ Erased \/ Sink \/ Source \/ Command
Host == Acknowledged \/ Send \/ Receive
Next ==
  \/ \E s \in Streams : WritePrep(s)
  \/ ErasePrep
  \/ \E op \in {"sink", "source"}, n \in 0..MaxBytes : BytesPrep(op, n)
  \/ Device \/ Host \/ DmaPulse \/ Index \/ Watchdog \/ GiveUp

Spec == Init /\ [][Next]_vars /\ WF_vars(Device) /\ WF_vars(Host) /\ WF_vars(DmaPulse)

(*------------------------------- properties -------------------------------*)
\* No time is lost or invented between the stream and the disk: what was decoded
\* is in pulses or is carried into the next one.
TimeIsKept == fw.state \in {"waitData", "waitIndex", "write"} => seen.made + fw.ticks = seen.read

\* A flux change of the disk is due at t, or was less than a pulse earlier: the decoder folds
\* changes closer than MIN_PULSE, and the rest of a long one, into the next pulse.
Near(t, written) == \E c \in {0} \cup written : c <= t /\ t - c <= MinPulse
\* The whole stream is on the disk: all of it was read, all the pulses that it gave were
\* written, and every one of its flux changes is there at its time in the stream.
AllWritten ==
  /\ seen.out = seen.made /\ seen.read = TimeOf(host.stream)
  /\ \A t \in Due(host.stream) : Near(t, seen.at)
\* A status of 0 means that the whole stream was written, unless the index that the host
\* asked for has ended it; and that every byte of a source came.
OkayIsComplete ==
  host.stage = "idle" /\ ~seen.late =>
    /\ host.op = "write" /\ host.status = "okay" /\ ~seen.cut => AllWritten
    /\ host.op = "source" => host.got = host.total

\* However a write ends, none of its bytes are left to be run as commands; and the
\* write gate is open in the two states that write only.
NothingLeftToRun ==
  /\ seen.ran => seen.late
  /\ fw.gate => fw.state \in {"write", "erase"}

\* Every command that goes on comes to its end.
StreamEnds == host.stage # "idle" ~> host.stage = "idle" \/ seen.late
=============================================================================
